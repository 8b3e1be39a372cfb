----------------------------- MODULE Heap_proofs -----------------------------
(***************************************************************************)
(* Whatever the sizes of pages, headers and requests, and however many     *)
(* programs reserve and free, the blocks of a heap page are the page, as   *)
(* long as no two programs have heap pages of the same number.             *)
(***************************************************************************)
EXTENDS Heap, Secuencias_proofs, FiniteSetTheorems

\* No two blocks of a page start at the same place.
Ordenada(s) == \A j, k \in 1..Len(s) : j < k => s[j].offset < s[k].offset
Bien(s) == s \in Seq(Bloques) /\ Mosaico(s) /\ Ordenada(s)

TablaBien(t) ==
    /\ t \in Seq(Paginas)
    /\ \A i \in 1..Len(t) : Bien(t[i].bloques) /\ t[i].numero <= MaxPagina

\* The inductive invariant.  The order of the blocks is why the block that is
\* split is the one the rest is put after; the bound of the numbers, why there
\* is a largest one.
IInv == TablaBien(tablaHeap) /\ compactando \in 0..Len(tablaHeap)

\* Page i gets the blocks w; nothing else of the table changes.
SoloCambia(i, w) ==
    /\ i \in 1..Len(tablaHeap) /\ tablaHeap' \in Seq(Paginas)
    /\ Len(tablaHeap') = Len(tablaHeap)
    /\ \A k \in 1..Len(tablaHeap) :
         tablaHeap'[k].pid = tablaHeap[k].pid /\ tablaHeap'[k].numero = tablaHeap[k].numero
    /\ \A k \in 1..Len(tablaHeap) : k # i => tablaHeap'[k].bloques = tablaHeap[k].bloques
    /\ tablaHeap'[i].bloques = w

-----------------------------------------------------------------------------
(* What is done to the blocks of a page.                                   *)

\* A sequence that tiles has blocks with numbers.
LEMMA BienTipos ==
    ASSUME NEW s, Bien(s)
    PROVE  /\ Len(s) \in Nat /\ Len(s) >= 1
           /\ \A j \in 1..Len(s) :
                /\ s[j] \in Bloques /\ s[j].offset \in Int /\ s[j].size \in Int
                /\ s[j].size >= 0
                /\ s[j].isUsed \in BOOLEAN /\ s[j].especial \in BOOLEAN
           /\ TamMetadata \in Nat /\ TamMetadata > 0 /\ TamanioPagina \in Nat
<1>1. s \in Seq(Bloques) /\ s # <<>>
  BY DEF Bien, Mosaico
<1>2. Len(s) \in Nat /\ Len(s) >= 1
  BY <1>1, EmptySeq, LenProperties
<1>3. \A j \in 1..Len(s) : s[j] \in Bloques
  BY <1>1, ElementOfSeq
<1> QED BY <1>2, <1>3, TamaniosAssumption DEF Bien, Mosaico, Bloques

\* A page that was just given has one block.
LEMMA VaciaBien == Bien(PaginaVacia)
<1> DEFINE b == Especial(TamMetadata, TamanioPagina - TamMetadata)
<1>1. /\ b \in Bloques /\ b.offset = TamMetadata /\ b.size = TamanioPagina - TamMetadata
      /\ b.size >= 0
  BY TamaniosAssumption DEF Especial, Bloque, Bloques
<1> HIDE DEF b
<1>2. PaginaVacia = <<b>>
  BY DEF PaginaVacia, b
<1>3. b.offset + b.size = TamanioPagina
  BY <1>1, TamaniosAssumption
<1>4. Len(PaginaVacia) = 1 /\ PaginaVacia[1] = b /\ PaginaVacia \in Seq(Bloques)
      /\ PaginaVacia # <<>>
  BY <1>1, <1>2
<1> QED BY <1>1, <1>3, <1>4 DEF Bien, Mosaico, Ordenada

\* A block with the same place and size as the one it replaces.
LEMMA CambiadoBien ==
    ASSUME NEW s, Bien(s), NEW j \in 1..Len(s), NEW b \in Bloques,
           b.offset = s[j].offset, b.size = s[j].size,
           j < Len(s) => ~b.especial
    PROVE  Bien([s EXCEPT ![j] = b])
<1> DEFINE t == [s EXCEPT ![j] = b]
<1>1. s \in Seq(Bloques)
  BY DEF Bien
<1>2. /\ t \in Seq(Bloques) /\ Len(t) = Len(s)
      /\ \A k \in 1..Len(s) : t[k] = IF k = j THEN b ELSE s[k]
  BY <1>1, ExceptSeq, BienTipos
<1> HIDE DEF t
<1>3. /\ \A k \in 1..Len(s) : t[k].offset = s[k].offset /\ t[k].size = s[k].size
      /\ \A k \in 1..(Len(s) - 1) : ~t[k].especial
  BY <1>2, BienTipos DEF Bien, Mosaico
<1>4. Mosaico(t)
  <2>1. t # <<>>
    BY <1>2, BienTipos, EmptySeq
  <2> QED BY <1>2, <1>3, <2>1, BienTipos DEF Bien, Mosaico
<1>5. Ordenada(t)
  BY <1>2, <1>3 DEF Bien, Ordenada
<1> QED BY <1>2, <1>4, <1>5 DEF Bien, t

\* What Mosaico and Ordenada say of a sequence, for a sequence known by its
\* elements.
LEMMA HaceBien ==
    ASSUME NEW t \in Seq(Bloques), Len(t) >= 1,
           t[1].offset = TamMetadata,
           t[Len(t)].offset + t[Len(t)].size = TamanioPagina,
           \A j \in 1..Len(t) : t[j].size >= 0,
           \A j \in 1..(Len(t) - 1) :
             /\ t[j + 1].offset = t[j].offset + t[j].size + TamMetadata
             /\ ~t[j].especial,
           Ordenada(t)
    PROVE  Bien(t)
<1>1. t # <<>>
  BY EmptySeq
<1> QED BY <1>1 DEF Bien, Mosaico

\* The special block, which is the last, is split in two: what there is then,
\* block by block.
LEMMA PartirElementos ==
    ASSUME NEW s, Bien(s), NEW j \in 1..Len(s), NEW n \in Nat, s[j].especial
    PROVE  /\ j = Len(s) /\ PartirEspecial(s, j, n) \in Seq(Bloques)
           /\ Len(PartirEspecial(s, j, n)) = Len(s) + 1
           /\ \A k \in 1..(Len(s) - 1) : PartirEspecial(s, j, n)[k] = s[k]
           /\ PartirEspecial(s, j, n)[Len(s)] = Bloque(s[j].offset, n, TRUE, FALSE)
           /\ PartirEspecial(s, j, n)[Len(s) + 1] =
                Especial(s[j].offset + n + TamMetadata, s[j].size - n - TamMetadata)
<1> DEFINE r == RemoveAt(s, j)
           a == Bloque(s[j].offset, n, TRUE, FALSE)
           b == Especial(s[j].offset + n + TamMetadata, s[j].size - n - TamMetadata)
           f == <<a, b>>
           t == r \o f
           l == Len(s)
<1>1. s \in Seq(Bloques) /\ l \in Nat /\ l >= 1
  BY BienTipos DEF Bien
<1>2. j = l
  BY <1>1 DEF Bien, Mosaico
<1>3. /\ r \in Seq(Bloques) /\ Len(r) = l - 1
      /\ \A k \in 1..(l - 1) : r[k] = s[k]
  <2>1. /\ r \in Seq(Bloques) /\ Len(r) = l - 1
        /\ \A k \in 1..(l - 1) : r[k] = s[IF k < j THEN k ELSE k + 1]
    BY <1>1, QuitarUno
  <2>2. \A k \in 1..(l - 1) : k < j
    BY <1>1, <1>2
  <2> QED BY <2>1, <2>2
<1>4. a \in Bloques /\ b \in Bloques
  BY BienTipos DEF Bloque, Especial, Bloques
<1> HIDE DEF a, b
<1>5. f \in Seq(Bloques) /\ Len(f) = 2 /\ f[1] = a /\ f[2] = b
  BY <1>4
<1> HIDE DEF r, f
<1>6. /\ t \in Seq(Bloques) /\ Len(t) = l + 1
      /\ \A k \in 1..(l + 1) : t[k] = IF k <= l - 1 THEN r[k] ELSE f[k - (l - 1)]
  <2>1. /\ t \in Seq(Bloques) /\ Len(t) = Len(r) + Len(f)
        /\ \A k \in 1..(Len(r) + Len(f)) :
              t[k] = IF k <= Len(r) THEN r[k] ELSE f[k - Len(r)]
    <3>1. r \in Seq(Bloques) /\ f \in Seq(Bloques)
      BY <1>3, <1>5
    <3> QED BY <3>1, ConcatProperties
  <2>2. Len(r) + Len(f) = l + 1
    BY <1>1, <1>3, <1>5
  <2> QED BY <1>3, <2>1, <2>2
<1>7. \A k \in 1..(l - 1) : t[k] = s[k]
  BY <1>1, <1>3, <1>6
<1>8. t[l] = a /\ t[l + 1] = b
  BY <1>1, <1>5, <1>6, SMTT(60)
<1> QED BY <1>1, <1>2, <1>6, <1>7, <1>8 DEF PartirEspecial, t, r, f, a, b

\* Splitting the special block keeps a page in order.
LEMMA PartirBien ==
    ASSUME NEW s, Bien(s), NEW j \in 1..Len(s), NEW n \in Nat,
           s[j].especial, s[j].size >= n + TamMetadata
    PROVE  Bien(PartirEspecial(s, j, n))
<1> DEFINE a == Bloque(s[j].offset, n, TRUE, FALSE)
           b == Especial(s[j].offset + n + TamMetadata, s[j].size - n - TamMetadata)
           t == PartirEspecial(s, j, n)
           l == Len(s)
<1>1. s \in Seq(Bloques) /\ l \in Nat /\ l >= 1
  BY BienTipos DEF Bien
<1>4. /\ a \in Bloques /\ a.offset = s[j].offset /\ a.size = n /\ ~a.especial
      /\ b \in Bloques /\ b.offset = s[j].offset + n + TamMetadata
      /\ b.size = s[j].size - n - TamMetadata
  BY BienTipos DEF Bloque, Especial, Bloques
<1>6. /\ j = l /\ t \in Seq(Bloques) /\ Len(t) = l + 1
      /\ \A k \in 1..(l - 1) : t[k] = s[k]
      /\ t[l] = a /\ t[l + 1] = b
  BY PartirElementos
<1>2. j = l
  BY <1>6
<1>7. \A k \in 1..(l - 1) : t[k] = s[k]
  BY <1>6
<1>8. t[l] = a /\ t[l + 1] = b
  BY <1>6
<1> HIDE DEF a, b
<1> HIDE DEF t
<1>9. \A k \in 1..l : t[k].offset = s[k].offset
  BY <1>1, <1>2, <1>4, <1>7, <1>8
<1>10. \A k \in 1..(l + 1) : t[k].size >= 0
  <2>1. a.size >= 0 /\ b.size >= 0
    BY <1>4, BienTipos
  <2>2. \A k \in 1..(l - 1) : t[k].size >= 0
    BY <1>1, <1>7, BienTipos
  <2> QED BY <1>1, <1>8, <2>1, <2>2
<1>11. \A k \in 1..l : t[k + 1].offset = t[k].offset + t[k].size + TamMetadata
                       /\ ~t[k].especial
  <2>1. SUFFICES ASSUME NEW k \in 1..l
                 PROVE  t[k + 1].offset = t[k].offset + t[k].size + TamMetadata
                        /\ ~t[k].especial
    OBVIOUS
  <2>2. CASE k = l
    BY <1>1, <1>2, <1>4, <1>8, <2>2
  <2>3. CASE k < l
    <3>1. k + 1 \in 1..l /\ k \in 1..(l - 1)
      BY <1>1, <2>3
    <3>2. t[k + 1].offset = s[k + 1].offset /\ t[k] = s[k]
      BY <1>7, <1>9, <3>1
    <3> QED BY <3>1, <3>2 DEF Bien, Mosaico
  <2> QED BY <1>1, <2>2, <2>3
<1>12. Ordenada(t)
  <2>1. SUFFICES ASSUME NEW k \in 1..(l + 1), NEW m \in 1..(l + 1), k < m
                 PROVE  t[k].offset < t[m].offset
    BY <1>6, Zenon DEF Ordenada
  <2>2. CASE m <= l
    <3>1. m \in 1..l /\ k \in 1..l
      BY <1>1, <2>1, <2>2
    <3> QED BY <1>9, <2>1, <3>1 DEF Bien, Ordenada
  <2>3. CASE m = l + 1
    <3>1. k \in 1..l /\ t[m].offset = s[l].offset + n + TamMetadata
      BY <1>1, <1>2, <1>4, <1>8, <2>1, <2>3
    <3>2. k = l \/ s[k].offset < s[l].offset
      BY <1>1, <3>1 DEF Bien, Ordenada
    <3>3. s[k].offset \in Int /\ s[l].offset \in Int
      BY <1>1, <3>1, BienTipos
    <3> QED BY <1>9, <3>1, <3>2, <3>3, TamaniosAssumption, SMTT(60)
  <2> QED BY <1>1, <2>2, <2>3
<1>13. t[1].offset = TamMetadata
  BY <1>1, <1>9 DEF Bien, Mosaico
<1>14. t[l + 1].offset + t[l + 1].size = TamanioPagina
  <2>1. s[l].offset + s[l].size = TamanioPagina
    BY DEF Bien, Mosaico
  <2>2. s[l].offset \in Int /\ s[l].size \in Int
    BY <1>1, BienTipos
  <2> QED BY <1>2, <1>4, <1>8, <2>1, <2>2, TamaniosAssumption
<1>15. Bien(t)
  <2>1. t \in Seq(Bloques) /\ Len(t) = l + 1 /\ Len(t) >= 1 /\ Len(t) - 1 = l
    BY <1>1, <1>6
  <2> QED BY <1>10, <1>11, <1>12, <1>13, <1>14, <2>1, HaceBien
<1> QED BY <1>15 DEF t

\* The block after which the rest goes is found where it was split.
LEMMA EncuentraElBloque ==
    ASSUME NEW g, Bien(g.bloques), NEW j \in 1..Len(g.bloques)
    PROVE  buscar_indice_bloque(g, g.bloques[j].offset) = j
<1> DEFINE s == g.bloques
           I == {k \in 1..Len(s) : s[k].offset = s[j].offset}
<1>1. I \subseteq Nat /\ j \in I
  BY BienTipos
<1>2. \A k \in I : k = j
  <2>1. SUFFICES ASSUME NEW k \in 1..Len(s), s[k].offset = s[j].offset, k # j
                 PROVE  FALSE
    OBVIOUS
  <2>2. k < j \/ j < k
    BY <2>1, BienTipos
  <2>3. s[k].offset \in Int
    BY BienTipos
  <2> QED BY <2>1, <2>2, <2>3 DEF Bien, Ordenada
<1>3. Min(I) = j
  BY <1>1, <1>2, MinimoExiste
<1> QED BY <1>1, <1>3 DEF buscar_indice_bloque, SelectInSeq

\* A free block of which something is left is split in two: block by block.
LEMMA TomarParteElementos ==
    ASSUME NEW s, Bien(s), NEW j \in 1..Len(s), NEW n \in Nat
    PROVE  /\ InsertAt(Tomar(s, j, n), j + 1, Resto(s[j], n)) \in Seq(Bloques)
           /\ Len(InsertAt(Tomar(s, j, n), j + 1, Resto(s[j], n))) = Len(s) + 1
           /\ \A k \in 1..Len(s) : k < j =>
                InsertAt(Tomar(s, j, n), j + 1, Resto(s[j], n))[k] = s[k]
           /\ InsertAt(Tomar(s, j, n), j + 1, Resto(s[j], n))[j] =
                Bloque(s[j].offset, n, TRUE, FALSE)
           /\ InsertAt(Tomar(s, j, n), j + 1, Resto(s[j], n))[j + 1] = Resto(s[j], n)
           /\ \A k \in 1..Len(s) : k > j =>
                InsertAt(Tomar(s, j, n), j + 1, Resto(s[j], n))[k + 1] = s[k]
<1> DEFINE a == Bloque(s[j].offset, n, TRUE, FALSE)
           u == Tomar(s, j, n)
           b == Resto(s[j], n)
           t == InsertAt(u, j + 1, b)
           l == Len(s)
<1>1. /\ s \in Seq(Bloques) /\ l \in Nat /\ l >= 1 /\ j \in Int
      /\ s[j].offset \in Int /\ s[j].size \in Int
  BY BienTipos DEF Bien
<1>2. /\ a \in Bloques /\ a.offset = s[j].offset /\ a.size = n /\ ~a.especial
      /\ b \in Bloques /\ b.offset = s[j].offset + n + TamMetadata
      /\ b.size = s[j].size - n - TamMetadata /\ ~b.especial
  <2>1. a \in Bloques /\ a.offset = s[j].offset /\ a.size = n /\ ~a.especial
    BY <1>1 DEF Bloque, Bloques
  <2>2. /\ s[j].offset + n + TamMetadata \in Int
        /\ s[j].size - n - TamMetadata \in Int
    BY <1>1, TamaniosAssumption
  <2>3. /\ b \in Bloques /\ b.offset = s[j].offset + n + TamMetadata
        /\ b.size = s[j].size - n - TamMetadata /\ ~b.especial
    BY <2>2 DEF Bloque, Resto, Bloques
  <2> QED BY <2>1, <2>3
<1> HIDE DEF a, b
<1>4. /\ u \in Seq(Bloques) /\ Len(u) = l
      /\ \A k \in 1..l : u[k] = IF k = j THEN a ELSE s[k]
  <2>1. u = [s EXCEPT ![j] = a]
    BY DEF Tomar, a
  <2> QED BY <1>1, <1>2, <2>1, ExceptSeq
<1> HIDE DEF u
<1>5. /\ t \in Seq(Bloques) /\ Len(t) = l + 1 /\ t[j + 1] = b
      /\ \A k \in 1..l : k <= j => t[k] = u[k]
      /\ \A k \in 1..l : k > j => t[k + 1] = u[k]
  <2>1. u \in Seq(Bloques) /\ b \in Bloques /\ j \in 1..Len(u)
    BY <1>2, <1>4
  <2>2. /\ t \in Seq(Bloques) /\ Len(t) = Len(u) + 1 /\ t[j + 1] = b
        /\ \A k \in 1..Len(u) : k <= j => t[k] = u[k]
        /\ \A k \in 1..Len(u) : k > j => t[k + 1] = u[k]
    <3>1. t \in Seq(Bloques) /\ Len(t) = Len(u) + 1 /\ t[j + 1] = b
      BY ONLY <2>1, MeterDetras
    <3>2. \A k \in 1..Len(u) : k <= j => t[k] = u[k]
      BY ONLY <2>1, MeterDetras
    <3>3. \A k \in 1..Len(u) : k > j => t[k + 1] = u[k]
      BY ONLY <2>1, MeterDetras
    <3> QED BY <3>1, <3>2, <3>3
  <2> QED BY <1>4, <2>2
<1> HIDE DEF t
<1>6. /\ \A k \in 1..l : k < j => t[k] = s[k]
      /\ t[j] = a /\ t[j + 1] = b
      /\ \A k \in 1..l : k > j => t[k + 1] = s[k]
  <2>1. t[j] = a
    BY <1>1, <1>4, <1>5
  <2>2. ASSUME NEW k \in 1..l, k < j PROVE t[k] = s[k]
    BY <1>1, <1>4, <1>5, <2>2
  <2>3. ASSUME NEW k \in 1..l, k > j PROVE t[k + 1] = s[k]
    BY <1>1, <1>4, <1>5, <2>3
  <2> QED BY <1>5, <2>1, <2>2, <2>3
<1> QED BY <1>5, <1>6 DEF t, u, a, b

\* So does taking the front of a free block.
LEMMA TomarParteBien ==
    ASSUME NEW s, Bien(s), NEW j \in 1..Len(s), NEW n \in Nat,
           ~s[j].especial, Sobra(s[j], n)
    PROVE  Bien(InsertAt(Tomar(s, j, n), j + 1, Resto(s[j], n)))
<1> DEFINE a == Bloque(s[j].offset, n, TRUE, FALSE)
           b == Resto(s[j], n)
           t == InsertAt(Tomar(s, j, n), j + 1, b)
           l == Len(s)
<1>1. /\ s \in Seq(Bloques) /\ l \in Nat /\ l >= 1 /\ j \in Int
      /\ s[j].offset \in Int /\ s[j].size \in Int
  BY BienTipos DEF Bien
<1>2. /\ a \in Bloques /\ a.offset = s[j].offset /\ a.size = n /\ ~a.especial
      /\ b \in Bloques /\ b.offset = s[j].offset + n + TamMetadata
      /\ b.size = s[j].size - n - TamMetadata /\ ~b.especial
  <2>1. a \in Bloques /\ a.offset = s[j].offset /\ a.size = n /\ ~a.especial
    BY <1>1 DEF Bloque, Bloques
  <2>2. /\ s[j].offset + n + TamMetadata \in Int
        /\ s[j].size - n - TamMetadata \in Int
    BY <1>1, TamaniosAssumption
  <2>3. /\ b \in Bloques /\ b.offset = s[j].offset + n + TamMetadata
        /\ b.size = s[j].size - n - TamMetadata /\ ~b.especial
    BY <2>2 DEF Bloque, Resto, Bloques
  <2> QED BY <2>1, <2>3
<1>3. n >= 0 /\ b.size >= 0
  BY <1>1, <1>2, TamaniosAssumption DEF Sobra
<1>5. /\ t \in Seq(Bloques) /\ Len(t) = l + 1
      /\ \A k \in 1..l : k < j => t[k] = s[k]
      /\ t[j] = a /\ t[j + 1] = b
      /\ \A k \in 1..l : k > j => t[k + 1] = s[k]
  BY TomarParteElementos
<1> HIDE DEF a, b, t
<1>6. /\ \A k \in 1..l : k < j => t[k] = s[k]
      /\ t[j] = a /\ t[j + 1] = b
      /\ \A k \in 1..l : k > j => t[k + 1] = s[k]
  BY <1>5
<1>7. \A k \in 1..(l + 1) : k < j \/ k = j \/ k = j + 1 \/ (k - 1 \in 1..l /\ k - 1 > j /\ (k - 1) + 1 = k)
  BY <1>1
<1>8. \A k \in 1..(l + 1) : t[k].size >= 0
  <2>1. SUFFICES ASSUME NEW k \in 1..(l + 1) PROVE t[k].size >= 0
    OBVIOUS
  <2>2. CASE k < j
    BY <1>1, <1>6, <2>2, BienTipos
  <2>3. CASE k = j \/ k = j + 1
    BY <1>2, <1>3, <1>6, <2>3
  <2>4. CASE k - 1 \in 1..l /\ k - 1 > j /\ (k - 1) + 1 = k
    <3>1. t[k] = s[k - 1]
      BY <1>6, <2>4
    <3> QED BY <2>4, <3>1, BienTipos
  <2> QED BY <1>7, <2>2, <2>3, <2>4
<1>9. \A k \in 1..l : t[k + 1].offset = t[k].offset + t[k].size + TamMetadata
                      /\ ~t[k].especial
  <2>1. SUFFICES ASSUME NEW k \in 1..l
                 PROVE  t[k + 1].offset = t[k].offset + t[k].size + TamMetadata
                        /\ ~t[k].especial
    OBVIOUS
  <2>2. CASE k < j
    <3>1. k \in 1..(l - 1) /\ k + 1 \in 1..l
      BY <1>1, <2>2
    <3>2. t[k] = s[k] /\ t[k + 1].offset = s[k + 1].offset
      <4>1. k + 1 < j \/ k + 1 = j
        BY <1>1, <2>2
      <4> QED BY <1>2, <1>6, <2>2, <3>1, <4>1
    <3> QED BY <3>1, <3>2 DEF Bien, Mosaico
  <2>3. CASE k = j
    BY <1>1, <1>2, <1>6, <2>3
  <2>4. CASE k = j + 1
    <3>1. t[k] = b /\ t[k + 1] = s[k] /\ j \in 1..(l - 1)
      <4>1. k > j /\ j \in 1..(l - 1)
        BY <1>1, <2>1, <2>4
      <4> QED BY <1>6, <2>4, <4>1
    <3>2. s[k].offset = s[j].offset + s[j].size + TamMetadata
      BY <2>4, <3>1 DEF Bien, Mosaico
    <3> QED BY <1>1, <1>2, <3>1, <3>2, TamaniosAssumption, SMTT(60)
  <2>5. CASE k > j + 1
    <3>1. k - 1 \in 1..l /\ k - 1 > j /\ k > j /\ k - 1 \in 1..(l - 1) /\ (k - 1) + 1 = k
      BY <1>1, <2>5
    <3>2. t[k] = s[k - 1] /\ t[k + 1] = s[k]
      BY <1>6, <3>1
    <3>3. s[k].offset = s[k - 1].offset + s[k - 1].size + TamMetadata /\ ~s[k - 1].especial
      BY <3>1 DEF Bien, Mosaico
    <3> QED BY <3>2, <3>3
  <2>6. k < j \/ k = j \/ k = j + 1 \/ k > j + 1
    BY <1>1
  <2> QED BY <2>2, <2>3, <2>4, <2>5, <2>6
<1>10. Ordenada(t)
  \* The blocks of t before b are where those of s are, and so are the ones
  \* after it; b is between the two.
  <2>1. \A k \in 1..l : k <= j => t[k].offset = s[k].offset
    BY <1>1, <1>2, <1>6
  <2>2. \A k \in 1..l : k > j => s[j].offset < s[k].offset
                            /\ b.offset < s[k].offset
    <3>1. SUFFICES ASSUME NEW k \in 1..l, k > j
                   PROVE  s[j].offset < s[k].offset /\ b.offset < s[k].offset
      OBVIOUS
    <3>2. j \in 1..(l - 1) /\ j + 1 \in 1..l /\ (k = j + 1 \/ j + 1 < k)
      BY <1>1, <3>1
    <3>3. s[j + 1].offset = s[j].offset + s[j].size + TamMetadata
      BY <3>2 DEF Bien, Mosaico
    <3>4. s[k].offset \in Int /\ s[j + 1].offset \in Int
      BY <3>2, BienTipos
    <3>5. k = j + 1 \/ s[j + 1].offset < s[k].offset
      BY <3>2 DEF Bien, Ordenada
    <3>6. b.offset < s[j + 1].offset /\ s[j].offset < b.offset
      BY <1>1, <1>2, <3>3, TamaniosAssumption, SMTT(60) DEF Sobra
    <3>7. b.offset \in Int
      BY <1>1, <1>2, TamaniosAssumption
    <3> QED BY <1>1, <3>4, <3>5, <3>6, <3>7, SMTT(60)
  <2>3. SUFFICES ASSUME NEW k \in 1..(l + 1), NEW m \in 1..(l + 1), k < m
                 PROVE  t[k].offset < t[m].offset
    BY <1>5, Zenon DEF Ordenada
  <2>4. CASE m <= j
    <3>1. k \in 1..l /\ m \in 1..l /\ k <= j
      BY <1>1, <2>3, <2>4
    <3> QED BY <2>1, <2>3, <2>4, <3>1 DEF Bien, Ordenada
  <2>5. CASE m = j + 1
    <3>1. k \in 1..l /\ k <= j
      BY <1>1, <2>3, <2>5
    <3>2. t[k].offset = s[k].offset /\ t[m].offset = s[j].offset + n + TamMetadata
      BY <1>2, <1>6, <2>1, <2>5, <3>1
    <3>3. k = j \/ s[k].offset < s[j].offset
      BY <1>1, <3>1 DEF Bien, Ordenada
    <3>4. s[k].offset \in Int
      BY <3>1, BienTipos
    <3> QED BY <1>1, <3>2, <3>3, <3>4, TamaniosAssumption, SMTT(60)
  <2>6. CASE m > j + 1
    <3>1. m - 1 \in 1..l /\ m - 1 > j /\ (m - 1) + 1 = m
      BY <1>1, <2>6
    <3>2. t[m] = s[m - 1]
      BY <1>6, <3>1
    <3>3. s[m - 1].offset \in Int /\ s[j].offset \in Int
      BY <1>1, <3>1, BienTipos
    <3>4. CASE k <= j
      <4>1. k \in 1..l /\ k < m - 1
        BY <1>1, <3>1, <3>4
      <4> QED BY <2>1, <3>1, <3>2, <3>4, <4>1 DEF Bien, Ordenada
    <3>5. CASE k = j + 1
      BY <1>6, <2>2, <3>1, <3>2, <3>5
    <3>6. CASE k > j + 1
      <4>1. k - 1 \in 1..l /\ k - 1 > j /\ (k - 1) + 1 = k /\ k - 1 < m - 1
        BY <1>1, <2>3, <3>6
      <4>2. t[k] = s[k - 1]
        BY <1>6, <4>1
      <4> QED BY <3>1, <3>2, <4>1, <4>2 DEF Bien, Ordenada
    <3>7. k <= j \/ k = j + 1 \/ k > j + 1
      BY <1>1
    <3> QED BY <3>4, <3>5, <3>6, <3>7
  <2>7. m <= j \/ m = j + 1 \/ m > j + 1
    BY <1>1
  <2> QED BY <2>4, <2>5, <2>6, <2>7
<1>11. t[1].offset = TamMetadata
  <2>1. 1 <= j
    BY <1>1
  <2>2. t[1].offset = s[1].offset
    BY <1>1, <1>2, <1>6, <2>1
  <2> QED BY <2>2 DEF Bien, Mosaico
<1>12. t[l + 1].offset + t[l + 1].size = TamanioPagina
  <2>1. s[l].offset + s[l].size = TamanioPagina
    BY DEF Bien, Mosaico
  <2>2. CASE j = l
    BY <1>1, <1>2, <1>6, <2>1, <2>2, TamaniosAssumption, SMTT(60)
  <2>3. CASE j < l
    BY <1>1, <1>6, <2>1, <2>3
  <2> QED BY <1>1, <2>2, <2>3
<1>13. Bien(t)
  <2>1. Len(t) = l + 1 /\ Len(t) >= 1 /\ Len(t) - 1 = l
    BY <1>1, <1>5
  <2> QED BY <1>5, <1>8, <1>9, <1>10, <1>11, <1>12, <2>1, HaceBien
<1> QED BY <1>13 DEF t, b

\* Two free blocks in a row become one, with the header between them.
LEMMA UnirBien ==
    ASSUME NEW s, Bien(s), NEW j \in 1..(Len(s) - 1)
    PROVE  Bien(Unir(s, j))
<1> DEFINE l == Len(s)
           c == s[j].size + s[j + 1].size + TamMetadata
           a == [s[j] EXCEPT !.size = c]
           e == [s EXCEPT ![j] = a]
           q == j + 1
           t == RemoveAt(e, q)
<1>1. /\ s \in Seq(Bloques) /\ l \in Nat /\ l >= 2 /\ j \in Int
      /\ j \in 1..l /\ q \in 1..l /\ q = j + 1
  BY BienTipos DEF Bien
<1>2. /\ s[j].offset \in Int /\ s[j].size \in Int /\ s[j].size >= 0
      /\ s[q].offset \in Int /\ s[q].size \in Int /\ s[q].size >= 0
      /\ s[q].offset = s[j].offset + s[j].size + TamMetadata
      /\ ~s[j].especial /\ s[j] \in Bloques
  BY <1>1, BienTipos DEF Bien, Mosaico
<1>3. c \in Int /\ c >= 0 /\ c = s[j].size + s[q].size + TamMetadata
  BY <1>1, <1>2, TamaniosAssumption, SMTT(60)
<1> HIDE DEF c
<1>4. /\ a \in Bloques /\ a.offset = s[j].offset /\ a.size = c /\ ~a.especial
  BY <1>2, <1>3 DEF Bloques
<1> HIDE DEF a, q
<1>5. /\ e \in Seq(Bloques) /\ Len(e) = l
      /\ \A k \in 1..l : e[k] = IF k = j THEN a ELSE s[k]
  BY <1>1, <1>4, ExceptSeq
<1> HIDE DEF e
<1>6. /\ t \in Seq(Bloques) /\ Len(t) = l - 1
      /\ \A k \in 1..(l - 1) : t[k] = e[IF k < q THEN k ELSE k + 1]
  <2>1. q \in 1..Len(e)
    BY <1>1, <1>5
  <2>2. /\ t \in Seq(Bloques) /\ Len(t) = Len(e) - 1
        /\ \A k \in 1..(Len(e) - 1) : t[k] = e[IF k < q THEN k ELSE k + 1]
    BY <1>5, <2>1, QuitarUno
  <2> QED BY <1>5, <2>2
<1> HIDE DEF t
<1>7. /\ \A k \in 1..(l - 1) : k < j => t[k] = s[k]
      /\ t[j] = a
      /\ \A k \in 1..(l - 1) : k > j => t[k] = s[k + 1]
  <2>1. ASSUME NEW k \in 1..(l - 1), k < j PROVE t[k] = s[k]
    <3>1. k < q /\ k \in 1..l /\ k # j
      BY <1>1, <2>1
    <3> QED BY <1>5, <1>6, <3>1
  <2>2. t[j] = a
    <3>1. j < q /\ j \in 1..(l - 1)
      BY <1>1
    <3> QED BY <1>1, <1>5, <1>6, <3>1
  <2>3. ASSUME NEW k \in 1..(l - 1), k > j PROVE t[k] = s[k + 1]
    <3>1. ~(k < q) /\ k + 1 \in 1..l /\ k + 1 # j
      BY <1>1, <2>3
    <3> QED BY <1>5, <1>6, <3>1
  <2> QED BY <2>1, <2>2, <2>3
<1>8. \A k \in 1..(l - 1) : t[k].size >= 0
  <2>1. SUFFICES ASSUME NEW k \in 1..(l - 1) PROVE t[k].size >= 0
    OBVIOUS
  <2>2. CASE k < j
    BY <1>1, <1>7, <2>2, BienTipos, SMTT(60)
  <2>3. CASE k = j
    BY <1>3, <1>4, <1>7, <2>3
  <2>4. CASE k > j
    <3>1. t[k] = s[k + 1] /\ k + 1 \in 1..l
      BY <1>1, <1>7, <2>4
    <3> QED BY <3>1, BienTipos
  <2> QED BY <1>1, <2>2, <2>3, <2>4
<1>9. \A k \in 1..(l - 2) : t[k + 1].offset = t[k].offset + t[k].size + TamMetadata
                            /\ ~t[k].especial
  <2>1. SUFFICES ASSUME NEW k \in 1..(l - 2)
                 PROVE  t[k + 1].offset = t[k].offset + t[k].size + TamMetadata
                        /\ ~t[k].especial
    OBVIOUS
  <2>2. k \in Int /\ k \in 1..(l - 1) /\ k + 1 \in 1..(l - 1) /\ (k + 1) + 1 \in 1..l
    BY <1>1
  <2>3. CASE k < j
    <3>1. k + 1 < j \/ k + 1 = j
      BY <1>1, <2>2, <2>3
    <3>2. t[k] = s[k] /\ t[k + 1].offset = s[k + 1].offset
      BY <1>4, <1>7, <2>2, <2>3, <3>1
    <3> QED BY <2>2, <3>2 DEF Bien, Mosaico
  <2>4. CASE k = j
    <3>1. t[k] = a /\ t[k + 1] = s[q + 1]
      <4>1. k + 1 > j /\ k + 1 = q
        BY <1>1, <2>4
      <4> QED BY <1>7, <2>2, <2>4, <4>1
    <3>2. s[q + 1].offset = s[q].offset + s[q].size + TamMetadata
      <4>1. q \in 1..(l - 1)
        BY <1>1, <2>2, <2>4
      <4> QED BY <4>1 DEF Bien, Mosaico
    <3>3. s[q].offset + s[q].size + TamMetadata = s[j].offset + c + TamMetadata
      <4>1. \A v, w, x, y, z \in Int :
              x = v + w + z => x + y + z = v + (w + y + z) + z
        OBVIOUS
      <4>2. TamMetadata \in Int
        BY TamaniosAssumption
      <4>3. s[q].offset + s[q].size + TamMetadata
              = s[j].offset + (s[j].size + s[q].size + TamMetadata) + TamMetadata
        BY <1>2, <4>1, <4>2, SMTT(60)
      <4> QED BY <1>3, <4>3
    <3>4. t[k].offset = s[j].offset /\ t[k].size = c /\ ~t[k].especial
      BY <1>4, <3>1
    <3> QED BY <3>1, <3>2, <3>3, <3>4
  <2>5. CASE k > j
    <3>1. t[k] = s[k + 1] /\ t[k + 1] = s[(k + 1) + 1]
      <4>1. k + 1 > j
        BY <1>1, <2>2, <2>5
      <4> QED BY <1>7, <2>2, <2>5, <4>1
    <3> QED BY <2>2, <3>1 DEF Bien, Mosaico
  <2> QED BY <1>1, <2>2, <2>3, <2>4, <2>5
<1>10. Ordenada(t)
  <2>1. SUFFICES ASSUME NEW k \in 1..(l - 1), NEW m \in 1..(l - 1), k < m
                 PROVE  t[k].offset < t[m].offset
    BY <1>6, Zenon DEF Ordenada
  <2>2. \A i \in 1..(l - 1) :
          t[i].offset = s[IF i <= j THEN i ELSE i + 1].offset
    <3>1. \A i \in 1..(l - 1) : i < j \/ i = j \/ i > j
      BY <1>1
    <3> QED BY <1>1, <1>4, <1>7, <3>1, SMTT(60)
  <2>3. \E x, y \in 1..l : /\ x < y
                           /\ t[k].offset = s[x].offset /\ t[m].offset = s[y].offset
    <3> DEFINE x == IF k <= j THEN k ELSE k + 1
               y == IF m <= j THEN m ELSE m + 1
    <3>1. x \in 1..l /\ y \in 1..l /\ x < y
      BY <1>1, <2>1
    <3>2. t[k].offset = s[x].offset /\ t[m].offset = s[y].offset
      BY <2>2
    <3> QED BY <3>1, <3>2
  <2> QED BY <2>3 DEF Bien, Ordenada
<1>11. t[1].offset = TamMetadata
  <2>1. 1 < j \/ 1 = j
    BY <1>1
  <2>2. t[1].offset = s[1].offset
    BY <1>1, <1>4, <1>7, <2>1
  <2> QED BY <2>2 DEF Bien, Mosaico
<1>12. t[l - 1].offset + t[l - 1].size = TamanioPagina
  <2>1. s[l].offset + s[l].size = TamanioPagina
    BY DEF Bien, Mosaico
  <2>2. CASE j = l - 1
    <3>1. q = l
      BY <1>1, <2>2
    <3>2. s[j].offset + c = TamanioPagina
      BY <1>2, <1>3, <2>1, <3>1, TamaniosAssumption, SMTT(60)
    <3> QED BY <1>4, <1>7, <2>2, <3>2
  <2>3. CASE j < l - 1
    <3>1. l - 1 \in 1..(l - 1) /\ l - 1 > j /\ (l - 1) + 1 = l
      BY <1>1, <2>3
    <3> QED BY <1>7, <2>1, <3>1
  <2> QED BY <1>1, <2>2, <2>3
<1>13. Bien(t)
  <2>1. Len(t) = l - 1 /\ Len(t) >= 1 /\ Len(t) - 1 = l - 2
    BY <1>1, <1>6
  <2> QED BY <1>6, <1>8, <1>9, <1>10, <1>11, <1>12, <2>1, HaceBien
<1> QED BY <1>13 DEF Unir, t, e, a, c, q

-----------------------------------------------------------------------------
(* What is done to the table.                                              *)

\* The types of the pages of the table.
LEMMA TablaTipos ==
    ASSUME NEW t \in Seq(Paginas)
    PROVE  /\ Len(t) \in Nat
           /\ \A i \in 1..Len(t) :
                /\ t[i] \in Paginas /\ t[i].bloques \in Seq(Bloques)
                /\ t[i].numero \in Int
<1>1. Len(t) \in Nat /\ \A i \in 1..Len(t) : t[i] \in Paginas
  BY LenProperties, ElementOfSeq
<1> QED BY <1>1 DEF Paginas

\* A table with other blocks in one page.
LEMMA TablaCon ==
    ASSUME NEW t \in Seq(Paginas), NEW i \in 1..Len(t), NEW b \in Seq(Bloques)
    PROVE  /\ [t EXCEPT ![i].bloques = b] \in Seq(Paginas)
           /\ Len([t EXCEPT ![i].bloques = b]) = Len(t)
           /\ \A k \in 1..Len(t) :
                /\ [t EXCEPT ![i].bloques = b][k].pid = t[k].pid
                /\ [t EXCEPT ![i].bloques = b][k].numero = t[k].numero
                /\ [t EXCEPT ![i].bloques = b][k].bloques = IF k = i THEN b ELSE t[k].bloques
<1> DEFINE g == [t[i] EXCEPT !.bloques = b]
           u == [t EXCEPT ![i] = g]
<1>1. t[i] \in Paginas
  BY TablaTipos
<1>2. /\ g \in Paginas /\ g.bloques = b /\ g.pid = t[i].pid /\ g.numero = t[i].numero
  BY <1>1 DEF Paginas
<1>3. [t EXCEPT ![i].bloques = b] = u
  OBVIOUS
<1> HIDE DEF g
<1>4. /\ u \in Seq(Paginas) /\ Len(u) = Len(t)
      /\ \A k \in 1..Len(t) : u[k] = IF k = i THEN g ELSE t[k]
  BY <1>2, ExceptSeq
<1> HIDE DEF u
<1>5. ASSUME NEW k \in 1..Len(t)
      PROVE  /\ u[k].pid = t[k].pid /\ u[k].numero = t[k].numero
             /\ u[k].bloques = IF k = i THEN b ELSE t[k].bloques
  BY <1>2, <1>4
<1> QED BY <1>3, <1>4, <1>5

\* Replacing the blocks of one page changes no other.
LEMMA CambiaUna ==
    ASSUME tablaHeap \in Seq(Paginas), NEW i \in 1..Len(tablaHeap), NEW b \in Seq(Bloques),
           tablaHeap' = [tablaHeap EXCEPT ![i].bloques = b]
    PROVE  SoloCambia(i, b)
BY TablaCon DEF SoloCambia

\* A table with one page replaced by a page in order is in order.
LEMMA SigueBien ==
    ASSUME IInv, NEW i, NEW w, SoloCambia(i, w), Bien(w)
    PROVE  TablaBien(tablaHeap')
<1>1. tablaHeap' \in Seq(Paginas) /\ Len(tablaHeap') = Len(tablaHeap)
  BY DEF SoloCambia
<1>2. ASSUME NEW k \in 1..Len(tablaHeap)
      PROVE  Bien(tablaHeap'[k].bloques) /\ tablaHeap'[k].numero <= MaxPagina
  <2>1. tablaHeap'[k].numero = tablaHeap[k].numero
        /\ tablaHeap'[k].bloques = IF k = i THEN w ELSE tablaHeap[k].bloques
    BY DEF SoloCambia
  <2> QED BY <2>1 DEF IInv, TablaBien
<1> QED BY <1>1, <1>2 DEF TablaBien

\* The first block a request fits in is one that fits.
LEMMA PrimerBloqueCabe ==
    ASSUME NEW s, Bien(s), NEW n, BloquesQueCaben(s, n) # {}
    PROVE  PrimerBloque(s, n) \in 1..Len(s) /\ Cabe(s[PrimerBloque(s, n)], n)
<1> DEFINE I == BloquesQueCaben(s, n)
<1>1. I \subseteq Nat /\ I # {}
  BY BienTipos DEF BloquesQueCaben
<1>2. Min(I) \in I /\ \A i \in I : Min(I) <= i
  BY <1>1, MinimoExiste
<1> HIDE DEF I
<1>3. \E j \in I : \A i \in I : j <= i
  BY <1>2
<1>4. PrimerBloque(s, n) \in I
  BY <1>3 DEF PrimerBloque, I
<1> QED BY <1>4 DEF I, BloquesQueCaben

\* The first pair of free blocks is a pair.
LEMMA PrimerParEsPar ==
    ASSUME NEW s, Bien(s), Pares(s) # {}
    PROVE  PrimerPar(s) \in 1..(Len(s) - 1)
<1> DEFINE I == Pares(s)
<1>1. I \subseteq Nat /\ I # {}
  BY BienTipos DEF Pares
<1>2. Min(I) \in I /\ \A i \in I : Min(I) <= i
  BY <1>1, MinimoExiste
<1> HIDE DEF I
<1>3. \E j \in I : \A i \in I : j <= i
  BY <1>2
<1>4. PrimerPar(s) \in I
  BY <1>3 DEF PrimerPar, I
<1> QED BY <1>4 DEF I, Pares

\* A search of the table or of a page that finds something finds it inside.
LEMMA PaginaConEspacioDentro ==
    ASSUME TablaBien(tablaHeap), NEW p, NEW n, PaginaConEspacio(p, n) # 0
    PROVE  LET i == PaginaConEspacio(p, n)
           IN  i \in 1..Len(tablaHeap) /\ BloquesQueCaben(tablaHeap[i].bloques, n) # {}
<1> DEFINE I == {i \in 1..Len(tablaHeap) :
                    tablaHeap[i].pid = p /\ BloquesQueCaben(tablaHeap[i].bloques, n) # {}}
<1>1. I \subseteq Nat
  BY TablaTipos DEF TablaBien
<1>2. PaginaConEspacio(p, n) = IF I # {} THEN Min(I) ELSE 0
  BY DEF PaginaConEspacio, SelectInSeq
<1>3. PaginaConEspacio(p, n) \in I
  BY <1>1, <1>2, MinimoExiste
<1> QED BY <1>3

\* buscar_pagina returns the position of that page, when it finds one.
LEMMA BuscarPaginaDentro ==
    ASSUME TablaBien(tablaHeap), NEW p, NEW k, buscar_pagina(p, k) # 0
    PROVE  /\ buscar_pagina(p, k) \in 1..Len(tablaHeap)
           /\ tablaHeap[buscar_pagina(p, k)].pid = p
           /\ tablaHeap[buscar_pagina(p, k)].numero = k
<1> DEFINE I == {i \in 1..Len(tablaHeap) :
                    tablaHeap[i].pid = p /\ tablaHeap[i].numero = k}
<1>1. I \subseteq Nat
  BY TablaTipos DEF TablaBien
<1>2. buscar_pagina(p, k) = IF I # {} THEN Min(I) ELSE 0
  BY DEF buscar_pagina, SelectInSeq
<1>3. buscar_pagina(p, k) \in I
  BY <1>1, <1>2, MinimoExiste
<1> QED BY <1>3

\* buscar_indice_bloque returns a position of the page.
LEMMA BuscarBloqueDentro ==
    ASSUME NEW g, Bien(g.bloques), NEW o, buscar_indice_bloque(g, o) # 0
    PROVE  buscar_indice_bloque(g, o) \in 1..Len(g.bloques)
<1> DEFINE I == {j \in 1..Len(g.bloques) : g.bloques[j].offset = o}
<1>1. I \subseteq Nat
  BY BienTipos
<1>2. buscar_indice_bloque(g, o) = IF I # {} THEN Min(I) ELSE 0
  BY DEF buscar_indice_bloque, SelectInSeq
<1> QED BY <1>1, <1>2, MinimoExiste

\* There is a largest page number, and the one after it is of no page.
LEMMA NumeroBien ==
    ASSUME TablaBien(tablaHeap), NEW p \in Procesos
    PROVE  /\ NumeroNuevo(p) \in Int /\ NumeroNuevo(p) >= PaginasFijas[p]
           /\ \A i \in 1..Len(tablaHeap) :
                tablaHeap[i].pid = p => tablaHeap[i].numero < NumeroNuevo(p)
<1> DEFINE J == {j \in 1..Len(tablaHeap) : tablaHeap[j].pid = p}
           S == {PaginasFijas[p]} \cup {tablaHeap[i].numero + 1 : i \in J}
           B == PaginasFijas[p] + MaxPagina + 1
           I == {B - x : x \in S}
<1>1. PaginasFijas[p] \in Nat /\ MaxPagina \in Nat /\ B \in Int
  BY PaginasFijasAssumption, HeapCotasAssumption
<1>2. \A i \in J : tablaHeap[i].numero \in Int /\ tablaHeap[i].numero <= MaxPagina
  BY TablaTipos DEF TablaBien
<1> HIDE DEF J
<1>3. \A x \in S : x \in Int /\ x <= B
  BY <1>1, <1>2
<1>4. S # {}
  OBVIOUS
<1> HIDE DEF S, B
<1>5. I \subseteq Nat /\ I # {}
  BY <1>1, <1>3, <1>4
<1>6. Min(I) \in I /\ \A y \in I : Min(I) <= y
  BY <1>5, MinimoExiste
<1>7. PICK m \in S : Min(I) = B - m
  BY <1>6
<1>8. \A x \in S : m >= x
  <2>1. SUFFICES ASSUME NEW x \in S PROVE m >= x
    OBVIOUS
  <2>2. B - m <= B - x
    BY <1>6, <1>7
  <2> QED BY <1>1, <1>3, <2>2
<1>9. Max(S) \in S /\ \A x \in S : Max(S) >= x
  BY <1>8 DEF Max
<1>10. Max(S) = NumeroNuevo(p)
  BY DEF NumeroNuevo, S, J
<1>11. PaginasFijas[p] \in S /\ \A i \in J : tablaHeap[i].numero + 1 \in S
  BY DEF S
<1>12. ASSUME NEW i \in 1..Len(tablaHeap), tablaHeap[i].pid = p
       PROVE  tablaHeap[i].numero < Max(S)
  <2>1. i \in J
    BY <1>12 DEF J
  <2>2. tablaHeap[i].numero \in Int /\ Max(S) \in Int /\ Max(S) >= tablaHeap[i].numero + 1
    BY <1>2, <1>3, <1>9, <1>11, <2>1
  <2> QED BY <2>2
<1> QED BY <1>3, <1>9, <1>10, <1>11, <1>12

-----------------------------------------------------------------------------
(* What a page has after a block of it was taken.                          *)

\* No two free blocks in a row and something in use.
Recogidos(s) == Pares(s) = {} /\ \E j \in 1..Len(s) : s[j].isUsed

\* Splitting the special block makes no two free neighbours.
LEMMA PartirRecoge ==
    ASSUME NEW s, Bien(s), NEW j \in 1..Len(s), NEW n \in Nat, s[j].especial
    PROVE  Pares(s) = {} => Recogidos(PartirEspecial(s, j, n))
<1> DEFINE t == PartirEspecial(s, j, n)
           l == Len(s)
<1>1. /\ l \in Nat /\ l >= 1 /\ Len(t) = l + 1
      /\ \A k \in 1..(l - 1) : t[k] = s[k]
      /\ t[l] = Bloque(s[j].offset, n, TRUE, FALSE)
  <2>1. l \in Nat /\ l >= 1
    BY BienTipos
  <2>2. /\ Len(t) = l + 1 /\ \A k \in 1..(l - 1) : t[k] = s[k]
        /\ t[l] = Bloque(s[j].offset, n, TRUE, FALSE)
    <3>1. /\ Len(PartirEspecial(s, j, n)) = Len(s) + 1
          /\ \A k \in 1..(Len(s) - 1) : PartirEspecial(s, j, n)[k] = s[k]
          /\ PartirEspecial(s, j, n)[Len(s)] = Bloque(s[j].offset, n, TRUE, FALSE)
      BY PartirElementos, ZenonT(60)
    <3> QED BY <3>1
  <2> QED BY <2>1, <2>2
<1>2. t[l].isUsed
  BY <1>1 DEF Bloque
<1> HIDE DEF t
<1>3. ASSUME Pares(s) = {}, NEW k \in 1..l, ~t[k].isUsed, ~t[k + 1].isUsed PROVE FALSE
  <2>1. k # l /\ k + 1 # l
    BY <1>1, <1>2, <1>3
  <2>2. k \in 1..(l - 1) /\ k + 1 \in 1..(l - 1)
    BY <1>1, <2>1
  <2>3. ~s[k].isUsed /\ ~s[k + 1].isUsed
    BY <1>1, <1>3, <2>2
  <2> QED BY <1>3, <2>2, <2>3 DEF Pares
<1>4. Len(t) - 1 = l /\ l \in 1..Len(t)
  BY <1>1
<1> QED BY <1>2, <1>3, <1>4 DEF Recogidos, Pares, t

\* Nor does taking a whole block.
LEMMA TomarRecoge ==
    ASSUME NEW s, Bien(s), NEW j \in 1..Len(s), NEW b \in Bloques, b.isUsed
    PROVE  Pares(s) = {} => Recogidos([s EXCEPT ![j] = b])
<1> DEFINE t == [s EXCEPT ![j] = b]
<1>1. /\ Len(s) \in Nat /\ Len(t) = Len(s)
      /\ \A k \in 1..Len(s) : t[k] = IF k = j THEN b ELSE s[k]
  BY BienTipos, ExceptSeq DEF Bien
<1> HIDE DEF t
<1>2. ASSUME NEW k \in 1..(Len(s) - 1), ~t[k].isUsed, ~t[k + 1].isUsed
      PROVE  k \in Pares(s)
  <2>1. k \in 1..Len(s) /\ k + 1 \in 1..Len(s)
    BY <1>1
  <2>2. t[k] = s[k] /\ t[k + 1] = s[k + 1]
    BY <1>1, <1>2, <2>1
  <2> QED BY <1>2, <2>2 DEF Pares
<1>3. t[j].isUsed
  BY <1>1
<1> QED BY <1>1, <1>2, <1>3 DEF Recogidos, Pares, t

\* Nor does taking the front of a free block.
LEMMA TomarParteRecoge ==
    ASSUME NEW s, Bien(s), NEW j \in 1..Len(s), NEW n \in Nat, ~s[j].isUsed
    PROVE  Pares(s) = {} => Recogidos(InsertAt(Tomar(s, j, n), j + 1, Resto(s[j], n)))
<1> DEFINE t == InsertAt(Tomar(s, j, n), j + 1, Resto(s[j], n))
           l == Len(s)
<1>1. /\ Len(t) = l + 1 /\ l \in Nat /\ j \in Nat
      /\ \A k \in 1..l : k < j => t[k] = s[k]
      /\ t[j] = Bloque(s[j].offset, n, TRUE, FALSE)
      /\ \A k \in 1..l : k > j => t[k + 1] = s[k]
  <2>1. l \in Nat /\ j \in Nat
    BY BienTipos
  <2>2. /\ Len(t) = l + 1 /\ \A k \in 1..l : k < j => t[k] = s[k]
        /\ t[j] = Bloque(s[j].offset, n, TRUE, FALSE)
        /\ \A k \in 1..l : k > j => t[k + 1] = s[k]
    BY TomarParteElementos
  <2> QED BY <2>1, <2>2
<1>2. t[j].isUsed
  BY <1>1 DEF Bloque
<1> HIDE DEF t
<1>3. ASSUME Pares(s) = {}, NEW k \in 1..l, ~t[k].isUsed, ~t[k + 1].isUsed PROVE FALSE
  <2>1. k # j /\ k + 1 # j
    BY <1>2, <1>3
  <2>2. CASE k < j
    <3>1. k \in 1..(l - 1) /\ k + 1 \in 1..l /\ k + 1 < j
      BY <1>1, <2>1, <2>2
    <3>2. t[k] = s[k] /\ t[k + 1] = s[k + 1]
      BY <1>1, <2>2, <3>1
    <3> QED BY <1>3, <3>1, <3>2 DEF Pares
  \* The rest is free, and the block after it was after a free one.
  <2>3. CASE k = j + 1
    <3>1. j \in 1..(l - 1) /\ k > j /\ t[k + 1] = s[k]
      BY <1>1, <2>3
    <3>2. s[j + 1].isUsed
      BY <1>3, <3>1 DEF Pares
    <3> QED BY <1>3, <2>3, <3>1, <3>2
  <2>4. CASE k > j + 1
    <3>1. /\ k - 1 \in 1..(l - 1) /\ k - 1 \in 1..l /\ k - 1 > j /\ k > j /\ (k - 1) + 1 = k
      BY <1>1, <2>4
    <3>2. t[k] = s[k - 1] /\ t[k + 1] = s[k]
      BY <1>1, <3>1
    <3>3. ~s[k - 1].isUsed /\ ~s[(k - 1) + 1].isUsed
      BY <1>3, <3>1, <3>2
    <3> QED BY <1>3, <3>1, <3>3 DEF Pares
  <2> QED BY <1>1, <2>1, <2>2, <2>3, <2>4
<1>4. Len(t) - 1 = l /\ j \in 1..Len(t)
  BY <1>1
<1> QED BY <1>2, <1>3, <1>4 DEF Recogidos, Pares, t

-----------------------------------------------------------------------------
(* The invariant.                                                          *)

\* The table starts empty.
LEMMA InitCumple == Init => IInv
<1> SUFFICES ASSUME Init PROVE IInv
  OBVIOUS
<1>1. tablaHeap \in Seq(Paginas) /\ Len(tablaHeap) = 0 /\ compactando = 0
  BY DEF Init
<1> QED BY <1>1 DEF IInv, TablaBien

\* A block of a page is taken, whole or in part: of the own page, because no
\* other has its number.
LEMMA ReservarEnPaginaHace ==
    ASSUME IInv, "mismoNumero" \notin Eventos,
           NEW p \in Procesos, NEW n \in Pedidos, ReservarEnPagina(p, n)
    PROVE  \E i, w : /\ SoloCambia(i, w) /\ Bien(w)
                     /\ Pares(tablaHeap[i].bloques) = {} => Recogidos(w)
<1> DEFINE i == PaginaConEspacio(p, n)
           g == tablaHeap[i]
           s == g.bloques
           j == PrimerBloque(s, n)
           parte == ~s[j].especial /\ Sobra(s[j], n)
           tras == IF s[j].especial THEN PartirEspecial(s, j, n)
                   ELSE Tomar(s, j, IF parte THEN n ELSE s[j].size)
           t == [tablaHeap EXCEPT ![i].bloques = tras]
<1>1. i # 0 /\ TablaBien(tablaHeap) /\ compactando' = compactando
  BY DEF ReservarEnPagina, IInv
<1>2. i \in 1..Len(tablaHeap) /\ BloquesQueCaben(s, n) # {}
  BY <1>1, PaginaConEspacioDentro
<1>3. PaginaQueSeToma(tablaHeap[i].numero, n) = i
  BY DEF ReservarEnPagina
<1>4. tablaHeap \in Seq(Paginas) /\ Bien(s) /\ n \in Nat
      /\ \A k \in 1..Len(tablaHeap) :
            Bien(tablaHeap[k].bloques) /\ tablaHeap[k].numero <= MaxPagina
  BY <1>1, <1>2, PedidosAssumption DEF TablaBien
<1>5. j \in 1..Len(s) /\ Cabe(s[j], n)
  BY <1>2, <1>4, PrimerBloqueCabe
<1>6. buscar_indice_bloque(g, s[j].offset) = j /\ j # 0
  BY <1>4, <1>5, EncuentraElBloque
<1>7. tablaHeap' = IF parte
                   THEN [t EXCEPT ![i].bloques = InsertAt(@, j + 1, Resto(s[j], n))]
                   ELSE t
  BY <1>3, <1>6, Zenon DEF ReservarEnPagina
<1>8. s[j].size \in Int /\ s[j].offset \in Int /\ s[j].especial \in BOOLEAN
      /\ s \in Seq(Bloques) /\ TamMetadata \in Nat
  BY <1>4, <1>5, BienTipos DEF Bien
<1> HIDE DEF j, i, s, g
<1> SUFFICES \E w : /\ SoloCambia(i, w) /\ Bien(w)
                    /\ Pares(s) = {} => Recogidos(w)
  BY DEF s, g
<1>9. CASE s[j].especial
  <2> DEFINE w == PartirEspecial(s, j, n)
  <2>1. s[j].size >= n + TamMetadata
    BY <1>5, <1>9 DEF Cabe
  <2>2. Bien(w)
    BY <1>4, <1>5, <1>9, <2>1, PartirBien
  <2>3. Pares(s) = {} => Recogidos(w)
    BY <1>4, <1>5, <1>9, PartirRecoge
  <2>4. tablaHeap' = [tablaHeap EXCEPT ![i].bloques = w]
    BY <1>7, <1>9
  <2> HIDE DEF w
  <2>5. SoloCambia(i, w)
    BY <1>2, <1>4, <2>2, <2>4, CambiaUna DEF Bien
  <2> QED BY <2>2, <2>3, <2>5
<1>10. CASE ~s[j].especial /\ ~Sobra(s[j], n)
  <2> DEFINE b == Bloque(s[j].offset, s[j].size, TRUE, FALSE)
             w == [s EXCEPT ![j] = b]
  <2>1. b \in Bloques /\ b.offset = s[j].offset /\ b.size = s[j].size /\ ~b.especial
        /\ b.isUsed
    BY <1>8 DEF Bloque, Bloques
  <2>2. Tomar(s, j, s[j].size) = w
    BY DEF Tomar
  <2> HIDE DEF b
  <2>3. Bien(w)
    BY <1>4, <1>5, <2>1, CambiadoBien
  <2>4. Pares(s) = {} => Recogidos(w)
    BY <1>4, <1>5, <2>1, TomarRecoge
  <2>5. tablaHeap' = [tablaHeap EXCEPT ![i].bloques = w]
    BY <1>7, <1>10, <2>2
  <2> HIDE DEF w
  <2>6. SoloCambia(i, w)
    BY <1>2, <1>4, <2>3, <2>5, CambiaUna DEF Bien
  <2> QED BY <2>3, <2>4, <2>6
<1>11. CASE ~s[j].especial /\ Sobra(s[j], n)
  <2> DEFINE u == Tomar(s, j, n)
             v == [tablaHeap EXCEPT ![i].bloques = u]
             r == Resto(s[j], n)
             w == InsertAt(u, j + 1, r)
  <2>1. Bien(w)
    BY <1>4, <1>5, <1>11, TomarParteBien
  <2>2. Pares(s) = {} => Recogidos(w)
    <3>1. ~s[j].isUsed
      BY <1>5 DEF Cabe
    <3> QED BY <1>4, <1>5, <3>1, TomarParteRecoge
  <2>3. u \in Seq(Bloques)
    <3> DEFINE a == Bloque(s[j].offset, n, TRUE, FALSE)
    <3>1. a \in Bloques
      BY <1>4, <1>8 DEF Bloque, Bloques
    <3>2. u = [s EXCEPT ![j] = a]
      BY DEF Tomar
    <3> HIDE DEF a, u
    <3> QED BY <1>5, <1>8, <3>1, <3>2, ExceptSeq
  <2>4. tablaHeap' = [v EXCEPT ![i].bloques = InsertAt(@, j + 1, r)]
    BY <1>7, <1>11
  <2> HIDE DEF u, r
  <2>5. /\ v \in Seq(Paginas) /\ Len(v) = Len(tablaHeap)
        /\ \A k \in 1..Len(tablaHeap) :
             /\ v[k].pid = tablaHeap[k].pid /\ v[k].numero = tablaHeap[k].numero
             /\ v[k].bloques = IF k = i THEN u ELSE tablaHeap[k].bloques
    BY <1>2, <1>4, <2>3, TablaCon
  <2>6. v[i].bloques = u
    BY <1>2, <2>5
  <2>7. w \in Seq(Bloques)
    BY <2>1 DEF Bien
  <2> HIDE DEF v
  <2>8. tablaHeap' = [v EXCEPT ![i].bloques = w]
    BY <2>4, <2>6 DEF w
  <2> HIDE DEF w
  <2>9. i \in 1..Len(v)
    BY <1>2, <2>5
  <2>10. /\ tablaHeap' \in Seq(Paginas) /\ Len(tablaHeap') = Len(v)
         /\ \A k \in 1..Len(v) :
             /\ tablaHeap'[k].pid = v[k].pid /\ tablaHeap'[k].numero = v[k].numero
             /\ tablaHeap'[k].bloques = IF k = i THEN w ELSE v[k].bloques
    BY <2>5, <2>7, <2>8, <2>9, TablaCon
  <2>11. SoloCambia(i, w)
    BY <1>2, <2>5, <2>10 DEF SoloCambia
  <2> QED BY <2>1, <2>2, <2>11
<1> QED BY <1>8, <1>9, <1>10, <1>11

\* Reserving in a page the process has keeps the invariant.
LEMMA ReservarEnPaginaCumple ==
    ASSUME IInv, "mismoNumero" \notin Eventos,
           NEW p \in Procesos, NEW n \in Pedidos, ReservarEnPagina(p, n)
    PROVE  IInv'
<1>1. PICK i, w : SoloCambia(i, w) /\ Bien(w)
  BY ReservarEnPaginaHace
<1>2. Len(tablaHeap') = Len(tablaHeap) /\ compactando' = compactando
  BY <1>1 DEF SoloCambia, ReservarEnPagina
<1> QED BY <1>1, <1>2, SigueBien DEF IInv

\* A new page has one block, which is split.
LEMMA ReservarPaginaNuevaCumple ==
    ASSUME IInv, NEW p \in Procesos, NEW n \in Pedidos, ReservarPaginaNueva(p, n)
    PROVE  IInv'
<1> DEFINE s == PartirEspecial(PaginaVacia, 1, n)
           g == [pid |-> p, numero |-> NumeroNuevo(p), bloques |-> s]
<1>1. /\ TablaBien(tablaHeap) /\ compactando' = compactando
      /\ tablaHeap' = Append(tablaHeap, g) /\ NumeroNuevo(p) <= MaxPagina
      /\ n + 2 * TamMetadata <= TamanioPagina /\ n \in Nat
  BY PedidosAssumption DEF ReservarPaginaNueva, IInv, Entra
<1>2. /\ Len(PaginaVacia) = 1 /\ PaginaVacia[1].especial
      /\ PaginaVacia[1].size = TamanioPagina - TamMetadata
  BY DEF PaginaVacia, Especial, Bloque
<1>3. PaginaVacia[1].size >= n + TamMetadata
  BY <1>1, <1>2, TamaniosAssumption
<1>4. Bien(s)
  <2>1. 1 \in 1..Len(PaginaVacia)
    BY <1>2
  <2> QED BY <1>1, <1>2, <1>3, <2>1, VaciaBien, PartirBien
<1> HIDE DEF s
<1>5. g \in Paginas /\ g.bloques = s /\ g.numero <= MaxPagina
  <2>1. NumeroNuevo(p) \in Int
    BY <1>1, NumeroBien
  <2> QED BY <1>1, <1>4, <2>1 DEF Paginas, Bien
<1> HIDE DEF g
<1>6. /\ tablaHeap' \in Seq(Paginas) /\ Len(tablaHeap') = Len(tablaHeap) + 1
      /\ \A k \in 1..Len(tablaHeap') :
           tablaHeap'[k] = IF k <= Len(tablaHeap) THEN tablaHeap[k] ELSE g
  BY <1>1, <1>5, AppendProperties DEF TablaBien
<1>7. TablaBien(tablaHeap')
  <2>1. SUFFICES ASSUME NEW k \in 1..Len(tablaHeap')
                 PROVE  Bien(tablaHeap'[k].bloques) /\ tablaHeap'[k].numero <= MaxPagina
    BY <1>6 DEF TablaBien
  <2>2. CASE k <= Len(tablaHeap)
    <3>1. k \in 1..Len(tablaHeap) /\ tablaHeap'[k] = tablaHeap[k]
      BY <1>6, <2>2
    <3> QED BY <1>1, <3>1 DEF TablaBien
  <2>3. CASE ~(k <= Len(tablaHeap))
    BY <1>4, <1>5, <1>6, <2>3
  <2> QED BY <2>2, <2>3
<1> QED BY <1>1, <1>6, <1>7, TablaTipos DEF IInv, TablaBien

\* A block that is freed stays where it is.
LEMMA LiberarHace ==
    ASSUME IInv, NEW p \in Procesos, NEW d, Liberar(p, d)
    PROVE  LET i == buscar_pagina(p, d \div TamanioPagina)
           IN  /\ \E w : SoloCambia(i, w) /\ Bien(w)
               /\ tablaHeap[i].pid = p /\ tablaHeap[i].numero = d \div TamanioPagina
<1> DEFINE i == buscar_pagina(p, d \div TamanioPagina)
           s == tablaHeap[i].bloques
           j == buscar_indice_bloque(tablaHeap[i], d % TamanioPagina)
           b == [s[j] EXCEPT !.isUsed = FALSE]
           t == [s EXCEPT ![j] = b]
<1>1. TablaBien(tablaHeap) /\ i # 0 /\ j # 0
      /\ tablaHeap' = [tablaHeap EXCEPT ![i].bloques[j].isUsed = FALSE]
  BY DEF Liberar, IInv
<1>2. i \in 1..Len(tablaHeap) /\ tablaHeap[i].pid = p
      /\ tablaHeap[i].numero = d \div TamanioPagina
  BY <1>1, BuscarPaginaDentro
<1>3. tablaHeap \in Seq(Paginas)
      /\ \A k \in 1..Len(tablaHeap) :
            Bien(tablaHeap[k].bloques) /\ tablaHeap[k].numero <= MaxPagina
  BY <1>1 DEF TablaBien
<1>4. j \in 1..Len(s)
  BY <1>1, <1>2, <1>3, BuscarBloqueDentro
<1> HIDE DEF i, j
<1>5. s[j] \in Bloques /\ (j < Len(s) => ~s[j].especial)
  BY <1>2, <1>3, <1>4, BienTipos DEF Bien, Mosaico
<1>6. b \in Bloques /\ b.offset = s[j].offset /\ b.size = s[j].size
      /\ b.especial = s[j].especial
  BY <1>5 DEF Bloques
<1>7. Bien(t)
  <2> HIDE DEF b
  <2> QED BY <1>2, <1>3, <1>4, <1>5, <1>6, CambiadoBien
<1>8. tablaHeap' = [tablaHeap EXCEPT ![i].bloques = t]
  BY <1>1
<1> HIDE DEF t, s
<1>9. SoloCambia(i, t)
  BY <1>2, <1>3, <1>7, <1>8, CambiaUna DEF Bien
<1> QED BY <1>2, <1>7, <1>9 DEF i

\* So does freeing.
LEMMA LiberarCumple ==
    ASSUME IInv, NEW p \in Procesos, NEW d, Liberar(p, d)
    PROVE  IInv'
<1> DEFINE i == buscar_pagina(p, d \div TamanioPagina)
<1>1. PICK w : SoloCambia(i, w) /\ Bien(w)
  BY LiberarHace
<1>2. compactando' = compactando \/ compactando' = i
  BY DEF Liberar
<1> HIDE DEF i
<1>3. /\ Len(tablaHeap') = Len(tablaHeap) /\ i \in 1..Len(tablaHeap)
      /\ compactando \in 0..Len(tablaHeap)
  BY <1>1 DEF SoloCambia, IInv
<1> QED BY <1>1, <1>2, <1>3, SigueBien DEF IInv

\* A pair of free blocks is joined.
LEMMA CompactarParHace ==
    ASSUME IInv, CompactarPar
    PROVE  /\ \E w : SoloCambia(compactando, w) /\ Bien(w)
           /\ compactando' = compactando /\ UNCHANGED <<memoria, estado>>
<1> DEFINE s == tablaHeap[compactando].bloques
           t == Unir(s, PrimerPar(s))
<1>1. /\ tablaHeap \in Seq(Paginas) /\ compactando \in 1..Len(tablaHeap)
      /\ \A k \in 1..Len(tablaHeap) : Bien(tablaHeap[k].bloques)
      /\ compactando' = compactando /\ Pares(s) # {} /\ UNCHANGED <<memoria, estado>>
      /\ tablaHeap' = [tablaHeap EXCEPT ![compactando].bloques = t]
  BY TablaTipos DEF CompactarPar, IInv, TablaBien, PaginaCompactada
<1>2. Bien(t)
  BY <1>1, PrimerParEsPar, UnirBien
<1> HIDE DEF t
<1>3. SoloCambia(compactando, t)
  BY <1>1, <1>2, CambiaUna DEF Bien
<1> QED BY <1>1, <1>2, <1>3

\* So does joining two free neighbours.
LEMMA CompactarParCumple ==
    ASSUME IInv, CompactarPar
    PROVE  IInv'
<1>1. PICK w : SoloCambia(compactando, w) /\ Bien(w)
  BY CompactarParHace
<1>2. Len(tablaHeap') = Len(tablaHeap) /\ compactando' = compactando
  BY <1>1, CompactarParHace DEF SoloCambia
<1> QED BY <1>1, <1>2, SigueBien DEF IInv

\* A page of one block has the special one, or goes.
LEMMA CompactarTerminaHace ==
    ASSUME IInv, CompactarTermina
    PROVE  LET g == tablaHeap[compactando] IN
           /\ compactando \in 1..Len(tablaHeap) /\ Pares(g.bloques) = {}
           /\ \/ UNCHANGED <<tablaHeap, memoria>> /\ Len(g.bloques) # 1
              \/ /\ EnMemoria(g.pid, g.numero) /\ LiberarPagina(g.pid, g.numero)
                 /\ tablaHeap' \in Seq(Paginas)
                 /\ Len(tablaHeap') = Len(tablaHeap) - 1
                 /\ \A k \in 1..(Len(tablaHeap) - 1) :
                      tablaHeap'[k] = tablaHeap[IF k < compactando THEN k ELSE k + 1]
              \/ /\ ~EnMemoria(g.pid, g.numero) /\ UNCHANGED memoria
                 /\ \E w : SoloCambia(compactando, w) /\ Bien(w)
<1> DEFINE c == compactando
           s == tablaHeap[c].bloques
           b == [s[1] EXCEPT !.especial = TRUE]
           t == [s EXCEPT ![1] = b]
<1>1. /\ tablaHeap \in Seq(Paginas) /\ c \in 1..Len(tablaHeap)
      /\ \A k \in 1..Len(tablaHeap) : Bien(tablaHeap[k].bloques)
      /\ Pares(s) = {}
  BY TablaTipos DEF CompactarTermina, IInv, TablaBien, PaginaCompactada
<1>2. CASE UNCHANGED <<tablaHeap, memoria>> /\ Len(s) # 1
  BY <1>1, <1>2
<1>3. CASE /\ EnMemoria(tablaHeap[c].pid, tablaHeap[c].numero)
           /\ LiberarPagina(tablaHeap[c].pid, tablaHeap[c].numero)
           /\ tablaHeap' = RemoveAt(tablaHeap, c)
  <2>1. /\ tablaHeap' \in Seq(Paginas) /\ Len(tablaHeap') = Len(tablaHeap) - 1
        /\ \A k \in 1..(Len(tablaHeap) - 1) :
             tablaHeap'[k] = tablaHeap[IF k < c THEN k ELSE k + 1]
    BY <1>1, <1>3, QuitarUno
  <2> QED BY <1>1, <1>3, <2>1
<1>4. CASE /\ Len(s) = 1 /\ ~EnMemoria(tablaHeap[c].pid, tablaHeap[c].numero)
           /\ tablaHeap' = [tablaHeap EXCEPT ![c].bloques[1].especial = TRUE]
           /\ UNCHANGED memoria
  <2>1. s[1] \in Bloques
    <3>1. Bien(s) /\ 1 \in 1..Len(s)
      BY <1>1, <1>4
    <3> QED BY <3>1, BienTipos
  <2>2. b \in Bloques /\ b.offset = s[1].offset /\ b.size = s[1].size
    BY <2>1 DEF Bloques
  <2>3. Bien(t)
    <3>1. 1 \in 1..Len(s) /\ ~(1 < Len(s)) /\ Bien(s)
      BY <1>1, <1>4
    <3> HIDE DEF b, s
    <3> QED BY <2>2, <3>1, CambiadoBien
  <2>4. tablaHeap' = [tablaHeap EXCEPT ![c].bloques = t]
    BY <1>4
  <2> HIDE DEF t, s
  <2>5. SoloCambia(c, t)
    BY <1>1, <2>3, <2>4, CambiaUna DEF Bien
  <2> QED BY <1>1, <1>4, <2>3, <2>5 DEF s
<1> QED BY <1>2, <1>3, <1>4, Zenon DEF CompactarTermina, PaginaCompactada

\* So does the end of a compaction.
LEMMA CompactarTerminaCumple ==
    ASSUME IInv, CompactarTermina
    PROVE  IInv'
<1> DEFINE c == compactando
<1>1. /\ c \in 1..Len(tablaHeap) /\ compactando' = 0 /\ TablaBien(tablaHeap)
      /\ Len(tablaHeap) \in Nat
  BY CompactarTerminaHace, TablaTipos DEF CompactarTermina, IInv, TablaBien
<1>2. CASE UNCHANGED tablaHeap
  BY <1>1, <1>2 DEF IInv, TablaBien
<1>3. CASE /\ tablaHeap' \in Seq(Paginas)
           /\ Len(tablaHeap') = Len(tablaHeap) - 1
           /\ \A k \in 1..(Len(tablaHeap) - 1) :
                tablaHeap'[k] = tablaHeap[IF k < c THEN k ELSE k + 1]
  <2>1. \A k \in 1..(Len(tablaHeap) - 1) :
          (IF k < c THEN k ELSE k + 1) \in 1..Len(tablaHeap)
    BY <1>1
  <2>2. TablaBien(tablaHeap')
    BY <1>1, <1>3, <2>1 DEF TablaBien
  <2> QED BY <1>1, <1>3, <2>2 DEF IInv
<1>4. CASE \E w : SoloCambia(c, w) /\ Bien(w)
  <2>1. PICK w : SoloCambia(c, w) /\ Bien(w)
    BY <1>4
  <2>2. Len(tablaHeap') = Len(tablaHeap)
    BY <2>1 DEF SoloCambia
  <2> QED BY <1>1, <2>1, <2>2, SigueBien DEF IInv
<1> QED BY <1>2, <1>3, <1>4, CompactarTerminaHace

\* The pages of a program that ended are empty.
LEMMA FinCumple ==
    ASSUME IInv, NEW p \in Procesos, Fin(p)
    PROVE  IInv'
<1> DEFINE l == Len(tablaHeap)
           v == [pid |-> Nadie, numero |-> Nadie, bloques |-> PaginaVacia]
           t == [i \in 1..l |-> IF tablaHeap[i].pid = p THEN v ELSE tablaHeap[i]]
<1>1. /\ tablaHeap \in Seq(Paginas) /\ l \in Nat /\ compactando' = 0
      /\ \A k \in 1..l : /\ tablaHeap[k] \in Paginas
                         /\ Bien(tablaHeap[k].bloques)
                         /\ tablaHeap[k].numero <= MaxPagina
  BY TablaTipos DEF Fin, IInv, TablaBien
<1>2. tablaHeap' = t
  BY DEF Fin
<1>3. v \in Paginas /\ v.bloques = PaginaVacia /\ v.numero <= MaxPagina
  BY VaciaBien, HeapCotasAssumption DEF Paginas, Bien, Nadie
<1> HIDE DEF v
<1>4. t \in [1..l -> Paginas]
  BY <1>1, <1>3
<1>5. t \in Seq(Paginas) /\ Len(t) = l
  <2> HIDE DEF t, l
  <2> QED BY <1>1, <1>4, SeqDef, LenProperties
<1>6. \A k \in 1..l : Bien(t[k].bloques) /\ t[k].numero <= MaxPagina
  BY <1>1, <1>3, VaciaBien
<1> QED BY <1>1, <1>2, <1>5, <1>6 DEF IInv, TablaBien

\* Every step keeps the invariant.
LEMMA PasoCumple ==
    ASSUME IInv, "mismoNumero" \notin Eventos, [Next]_vars
    PROVE  IInv'
<1>1. ASSUME NEW p \in Procesos, NEW n \in Pedidos,
             ReservarMuyGrande(p, n) \/ ReservarSinMarcos(p, n)
      PROVE  IInv'
  BY <1>1 DEF ReservarMuyGrande, ReservarSinMarcos, IInv
<1>2. ASSUME NEW p \in Procesos, NEW n \in Pedidos, ReservarEnPagina(p, n)
      PROVE  IInv'
  BY <1>2, ReservarEnPaginaCumple
<1>3. ASSUME NEW p \in Procesos, NEW n \in Pedidos, ReservarPaginaNueva(p, n)
      PROVE  IInv'
  BY <1>3, ReservarPaginaNuevaCumple
<1>4. ASSUME NEW p \in Procesos, NEW d, LiberarInvalido(p, d)
      PROVE  IInv'
  BY <1>4 DEF LiberarInvalido, IInv
<1>5. ASSUME NEW p \in Procesos, NEW d, Liberar(p, d)
      PROVE  IInv'
  BY <1>5, LiberarCumple
<1>6. ASSUME NEW p \in Procesos, Fin(p)
      PROVE  IInv'
  BY <1>6, FinCumple
<1>7. CASE CompactarPar
  BY <1>7, CompactarParCumple
<1>8. CASE CompactarTermina
  BY <1>8, CompactarTerminaCumple
<1>9. CASE UNCHANGED vars
  BY <1>9 DEF vars, IInv
<1> QED BY <1>1, <1>2, <1>3, <1>4, <1>5, <1>6, <1>7, <1>8, <1>9, Zenon DEF Next

\* manejo_heap.c: whatever is reserved, freed and compacted, the blocks of each
\* heap page, with their headers, are the page, as long as
\* buscar_primer_bloque_libre never takes the page of another program.
THEOREM MosaicoSiempre ==
    ASSUME "mismoNumero" \notin Eventos
    PROVE  Spec => []BloquesEnMosaico
<1>1. Init => IInv
  BY InitCumple
<1>2. IInv /\ [Next]_vars => IInv'
  BY PasoCumple
<1>3. IInv => BloquesEnMosaico
  BY DEF IInv, TablaBien, BloquesEnMosaico, Bien
<1> QED BY <1>1, <1>2, <1>3, PTL DEF Spec

-----------------------------------------------------------------------------
(* The pages of the programs: those the kernel has are those memory gave.  *)

\* No two pages of a program have one number, which is none of its fixed pages,
\* and a program that ended has none.
Numeradas ==
    /\ \A i \in 1..Len(tablaHeap) : tablaHeap[i].pid # Nadie =>
          /\ PaginasFijas[tablaHeap[i].pid] <= tablaHeap[i].numero
          /\ estado[tablaHeap[i].pid] # "terminado"
    /\ \A i, j \in 1..Len(tablaHeap) :
          /\ tablaHeap[i].pid = tablaHeap[j].pid /\ tablaHeap[i].numero = tablaHeap[j].numero
          /\ tablaHeap[i].pid # Nadie
          => i = j

TienePagina(p, k) ==
    \E i \in 1..Len(tablaHeap) : tablaHeap[i].pid = p /\ tablaHeap[i].numero = k

\* Memory has one frame for each page of a program that did not end.
MismosMarcos ==
    \A p \in Procesos : estado[p] # "terminado" => \A k \in 0..MaxPagina :
        paginasDe[p][k] = IF k < PaginasFijas[p] \/ TienePagina(p, k) THEN 1 ELSE 0

\* The page compactar is at belongs to someone, and it is the only one that
\* may have two free blocks in a row, or nothing in use.
Compactable == compactando # 0 => tablaHeap[compactando].pid # Nadie
Recogida(g) ==
    /\ Pares(g.bloques) = {}
    /\ g.pid # Nadie => \E j \in 1..Len(g.bloques) : g.bloques[j].isUsed
Recogidas == \A i \in 1..Len(tablaHeap) : i # compactando => Recogida(tablaHeap[i])

Paginado == TypeOK /\ Numeradas /\ MismosMarcos /\ Compactable
Administrada == IInv /\ Paginado /\ Recogidas

\* The mark of a returned page is no process.
LEMMA NadieNoEsProceso == Nadie \notin Procesos
BY ProcesosAssumption DEF Nadie

\* A page of the table that is not returned is in memory, once, of a live process.
LEMMA EnMemoriaSuya ==
    ASSUME Administrada, NEW i \in 1..Len(tablaHeap), tablaHeap[i].pid # Nadie
    PROVE  /\ tablaHeap[i].pid \in Procesos /\ tablaHeap[i].numero \in 0..MaxPagina
           /\ estado[tablaHeap[i].pid] # "terminado"
           /\ paginasDe[tablaHeap[i].pid][tablaHeap[i].numero] = 1
           /\ EnMemoria(tablaHeap[i].pid, tablaHeap[i].numero)
<1> DEFINE p == tablaHeap[i].pid
           k == tablaHeap[i].numero
<1>1. p \in Procesos /\ k \in Int
  <2>1. tablaHeap \in Seq(Paginas)
    BY DEF Administrada, Paginado, TypeOK
  <2> QED BY <2>1, TablaTipos DEF Paginas
<1>2. k <= MaxPagina /\ PaginasFijas[p] <= k /\ estado[p] # "terminado"
  BY DEF Administrada, IInv, TablaBien, Paginado, Numeradas
<1>3. k \in 0..MaxPagina
  BY <1>1, <1>2, PaginasFijasAssumption, HeapCotasAssumption
<1>4. TienePagina(p, k)
  BY DEF TienePagina
<1> HIDE DEF p, k
<1>5. paginasDe[p][k] = 1
  BY <1>1, <1>2, <1>3, <1>4 DEF Administrada, Paginado, MismosMarcos
<1> QED BY <1>1, <1>2, <1>3, <1>5 DEF p, k, EnMemoria

\* A step that neither gives nor takes a page.
LEMMA MismasPaginasQueda ==
    ASSUME Administrada, tablaHeap' \in Seq(Paginas), Len(tablaHeap') = Len(tablaHeap),
           \A k \in 1..Len(tablaHeap) : /\ tablaHeap'[k].pid = tablaHeap[k].pid
                                        /\ tablaHeap'[k].numero = tablaHeap[k].numero,
           UNCHANGED memoria,
           estado' \in [Procesos -> {"vivo", "rechazado", "terminado"}],
           \A p \in Procesos : estado'[p] = "terminado" <=> estado[p] = "terminado",
           \/ compactando' \in {0, compactando}
           \/ /\ compactando' \in 1..Len(tablaHeap)
              /\ tablaHeap[compactando'].pid # Nadie
    PROVE  Paginado'
<1>1. Len(tablaHeap) \in Nat /\ compactando \in 0..Len(tablaHeap) /\ tablaHeap \in Seq(Paginas)
  BY TablaTipos DEF Administrada, Paginado, TypeOK
<1>2. compactando' \in 0..Len(tablaHeap)
  BY <1>1
<1>3. TypeOK'
  BY <1>1, <1>2 DEF Administrada, Paginado, TypeOK, memoria
<1>4. \A i \in 1..Len(tablaHeap) : tablaHeap[i].pid # Nadie => tablaHeap[i].pid \in Procesos
  BY EnMemoriaSuya
<1>5. Numeradas'
  <2>1. ASSUME NEW i \in 1..Len(tablaHeap), tablaHeap'[i].pid # Nadie
        PROVE  /\ PaginasFijas[tablaHeap'[i].pid] <= tablaHeap'[i].numero
               /\ estado'[tablaHeap'[i].pid] # "terminado"
    BY <1>4, <2>1 DEF Administrada, Paginado, Numeradas
  <2>2. ASSUME NEW i \in 1..Len(tablaHeap), NEW j \in 1..Len(tablaHeap),
               tablaHeap'[i].pid = tablaHeap'[j].pid, tablaHeap'[i].numero = tablaHeap'[j].numero,
               tablaHeap'[i].pid # Nadie
        PROVE  i = j
    BY <2>2 DEF Administrada, Paginado, Numeradas
  <2> QED BY <2>1, <2>2 DEF Numeradas
<1>6. MismosMarcos'
  <2>1. ASSUME NEW p, NEW k PROVE TienePagina(p, k)' <=> TienePagina(p, k)
    BY DEF TienePagina
  <2>2. ASSUME NEW p \in Procesos, estado'[p] # "terminado", NEW k \in 0..MaxPagina
        PROVE  paginasDe'[p][k] =
                 IF k < PaginasFijas[p] \/ TienePagina(p, k)' THEN 1 ELSE 0
    <3>1. estado[p] # "terminado"
      BY <2>2
    <3>2. paginasDe[p][k] = IF k < PaginasFijas[p] \/ TienePagina(p, k) THEN 1 ELSE 0
      BY <3>1 DEF Administrada, Paginado, MismosMarcos
    <3> QED BY <2>1, <3>2 DEF memoria
  <2> QED BY <2>2 DEF MismosMarcos
<1>7. Compactable'
  <2>1. CASE compactando' = 0
    BY <2>1 DEF Compactable
  <2>2. CASE compactando' # 0
    <3>1. compactando' \in 1..Len(tablaHeap) /\ tablaHeap[compactando'].pid # Nadie
      BY <1>1, <1>2, <2>2 DEF Administrada, Paginado, Compactable
    <3> QED BY <3>1 DEF Compactable
  <2> QED BY <2>1, <2>2
<1> QED BY <1>3, <1>5, <1>6, <1>7 DEF Paginado

\* Other blocks in one page: it is the one that is being compacted, or nothing
\* was left to join in it.
LEMMA RecogidasTras ==
    ASSUME Administrada, NEW i, NEW w, SoloCambia(i, w), compactando \in {0, i},
           \/ compactando' = i
           \/ compactando' = compactando /\ Recogidos(w)
    PROVE  Recogidas'
<1>1. Len(tablaHeap') = Len(tablaHeap)
  BY DEF SoloCambia
<1>2. ASSUME NEW k \in 1..Len(tablaHeap), k # compactando'
      PROVE  Recogida(tablaHeap'[k])
  <2>1. CASE k = i
    <3>1. tablaHeap'[k].bloques = w /\ Recogidos(w)
      BY <1>2, <2>1 DEF SoloCambia
    <3> QED BY <3>1 DEF Recogida, Recogidos
  <2>2. CASE k # i
    <3>1. tablaHeap'[k].bloques = tablaHeap[k].bloques /\ tablaHeap'[k].pid = tablaHeap[k].pid
      BY <2>2 DEF SoloCambia
    <3>2. k # compactando
      BY <1>2, <2>2
    <3>3. Recogida(tablaHeap[k])
      BY <3>2 DEF Administrada, Recogidas
    <3> QED BY <3>1, <3>3 DEF Recogida
  <2> QED BY <2>1, <2>2
<1> QED BY <1>1, <1>2 DEF Recogidas

\* A rejection finishes no process.
LEMMA EstadoRechazado ==
    ASSUME Administrada, NEW p \in Procesos, estado[p] = "vivo",
           UNCHANGED estado \/ estado' = [estado EXCEPT ![p] = "rechazado"]
    PROVE  /\ estado' \in [Procesos -> {"vivo", "rechazado", "terminado"}]
           /\ \A q \in Procesos : estado'[q] = "terminado" <=> estado[q] = "terminado"
BY DEF Administrada, Paginado, TypeOK

\* A request that changes no page.
LEMMA RechazoAdministrada ==
    ASSUME Administrada, NEW p \in Procesos, Libre(p),
           estado' = [estado EXCEPT ![p] = "rechazado"],
           UNCHANGED <<tablaHeap, compactando, memoria>>
    PROVE  Paginado' /\ Recogidas'
<1>1. estado[p] = "vivo" /\ tablaHeap \in Seq(Paginas)
  BY DEF Libre, Administrada, Paginado, TypeOK
<1>2. Paginado'
  BY <1>1, EstadoRechazado, MismasPaginasQueda
<1>3. Recogidas'
  BY DEF Administrada, Recogidas
<1> QED BY <1>2, <1>3

\* Reserving in a page the process has keeps the numbering.
LEMMA ReservarEnPaginaAdministrada ==
    ASSUME Administrada, "mismoNumero" \notin Eventos,
           NEW p \in Procesos, NEW n \in Pedidos, ReservarEnPagina(p, n)
    PROVE  Paginado' /\ Recogidas'
<1>1. PICK i, w : /\ SoloCambia(i, w)
                  /\ Pares(tablaHeap[i].bloques) = {} => Recogidos(w)
  BY ReservarEnPaginaHace DEF Administrada
<1>2. /\ compactando = 0 /\ compactando' = compactando /\ UNCHANGED memoria
      /\ estado[p] = "vivo"
      /\ UNCHANGED estado \/ estado' = [estado EXCEPT ![p] = "rechazado"]
  BY DEF ReservarEnPagina, Entra, Libre, Enviar, Rechazar
<1>3. /\ i \in 1..Len(tablaHeap) /\ tablaHeap' \in Seq(Paginas)
      /\ Len(tablaHeap') = Len(tablaHeap)
      /\ \A k \in 1..Len(tablaHeap) : /\ tablaHeap'[k].pid = tablaHeap[k].pid
                                      /\ tablaHeap'[k].numero = tablaHeap[k].numero
  BY <1>1 DEF SoloCambia
<1>4. Paginado'
  BY <1>2, <1>3, EstadoRechazado, MismasPaginasQueda
<1>5. Pares(tablaHeap[i].bloques) = {}
  <2>1. i # compactando
    BY <1>2, <1>3
  <2> QED BY <1>3, <2>1 DEF Administrada, Recogidas, Recogida
<1>6. Recogidas'
  BY <1>1, <1>2, <1>5, RecogidasTras
<1> QED BY <1>4, <1>6

\* So does freeing.
LEMMA LiberarAdministrada ==
    ASSUME Administrada, NEW p \in Procesos, NEW d, Liberar(p, d)
    PROVE  Paginado' /\ Recogidas'
<1> DEFINE k == d \div TamanioPagina
           i == buscar_pagina(p, k)
<1>1. PICK w : SoloCambia(i, w)
  BY LiberarHace DEF Administrada
<1>2. tablaHeap[i].pid = p /\ tablaHeap[i].numero = k /\ p # Nadie
  BY LiberarHace, NadieNoEsProceso DEF Administrada
<1>3. /\ compactando = 0 /\ estado[p] = "vivo" /\ UNCHANGED memoria
      /\ EnMemoria(p, k) => compactando' = i /\ UNCHANGED estado
  BY DEF Liberar, Libre
<1> HIDE DEF i, k
<1>4. /\ i \in 1..Len(tablaHeap) /\ tablaHeap' \in Seq(Paginas)
      /\ Len(tablaHeap') = Len(tablaHeap)
      /\ \A h \in 1..Len(tablaHeap) : /\ tablaHeap'[h].pid = tablaHeap[h].pid
                                      /\ tablaHeap'[h].numero = tablaHeap[h].numero
  BY <1>1 DEF SoloCambia
<1>5. compactando' = i /\ UNCHANGED estado
  <2>1. EnMemoria(tablaHeap[i].pid, tablaHeap[i].numero)
    BY <1>2, <1>4, EnMemoriaSuya
  <2> QED BY <1>2, <1>3, <2>1
<1>6. Paginado'
  BY <1>2, <1>3, <1>4, <1>5, EstadoRechazado, MismasPaginasQueda
<1>7. Recogidas'
  BY <1>1, <1>3, <1>5, RecogidasTras
<1> QED BY <1>6, <1>7

\* So does joining two free neighbours.
LEMMA CompactarParAdministrada ==
    ASSUME Administrada, CompactarPar
    PROVE  Paginado' /\ Recogidas'
<1>1. PICK w : SoloCambia(compactando, w)
  BY CompactarParHace DEF Administrada
<1>2. compactando' = compactando /\ UNCHANGED <<memoria, estado>>
  BY CompactarParHace DEF Administrada
<1>3. /\ tablaHeap' \in Seq(Paginas) /\ Len(tablaHeap') = Len(tablaHeap)
      /\ \A h \in 1..Len(tablaHeap) : /\ tablaHeap'[h].pid = tablaHeap[h].pid
                                      /\ tablaHeap'[h].numero = tablaHeap[h].numero
  BY <1>1 DEF SoloCambia
<1>4. estado' \in [Procesos -> {"vivo", "rechazado", "terminado"}]
  BY <1>2 DEF Administrada, Paginado, TypeOK
<1>5. Paginado'
  BY <1>2, <1>3, <1>4, MismasPaginasQueda
<1>6. Recogidas'
  BY <1>1, <1>2, RecogidasTras
<1> QED BY <1>5, <1>6

\* A page of a process is in the table once.
LEMMA Distintas ==
    ASSUME Administrada, NEW i \in 1..Len(tablaHeap), NEW j \in 1..Len(tablaHeap),
           tablaHeap[i].pid = tablaHeap[j].pid, tablaHeap[i].numero = tablaHeap[j].numero,
           tablaHeap[i].pid # Nadie
    PROVE  i = j
BY DEF Administrada, Paginado, Numeradas

\* A page less: the only one with its number.
LEMMA PaginaDevuelta ==
    ASSUME Administrada, NEW c \in 1..Len(tablaHeap), NEW p \in Procesos,
           NEW k \in 0..MaxPagina, p # Nadie, estado[p] # "terminado",
           tablaHeap[c].pid = p, tablaHeap[c].numero = k, paginasDe[p][k] = 1,
           LiberarPagina(p, k), compactando = c, compactando' = 0, UNCHANGED estado,
           tablaHeap' \in Seq(Paginas), Len(tablaHeap') = Len(tablaHeap) - 1,
           \A i \in 1..(Len(tablaHeap) - 1) :
               tablaHeap'[i] = tablaHeap[IF i < c THEN i ELSE i + 1]
    PROVE  Paginado' /\ Recogidas'
<1> DEFINE l == Len(tablaHeap)
<1>0. l \in Nat /\ tablaHeap \in Seq(Paginas)
      /\ estado' \in [Procesos -> {"vivo", "rechazado", "terminado"}]
  BY TablaTipos DEF Administrada, Paginado, TypeOK
<1> DEFINE v(i) == IF i < c THEN i ELSE i + 1
<1>1. /\ \A i \in 1..(l - 1) : v(i) \in 1..l /\ v(i) # c /\ tablaHeap'[i] = tablaHeap[v(i)]
      /\ \A i, j \in 1..(l - 1) : v(i) = v(j) => i = j
      /\ \A i \in 1..l : i # c => \E j \in 1..(l - 1) : v(j) = i
  <2>1. \A i \in 1..(l - 1) : v(i) \in 1..l /\ v(i) # c
    BY <1>0
  <2>2. \A i, j \in 1..(l - 1) : v(i) = v(j) => i = j
    BY <1>0
  <2>3. ASSUME NEW i \in 1..l, i # c PROVE \E j \in 1..(l - 1) : v(j) = i
    <3>1. CASE i < c
      BY <1>0, <3>1
    <3>2. CASE i > c
      <4>1. i - 1 \in 1..(l - 1) /\ ~(i - 1 < c) /\ (i - 1) + 1 = i
        BY <1>0, <3>2
      <4>2. v(i - 1) = i
        BY <4>1
      <4> QED BY <4>1, <4>2
    <3> QED BY <1>0, <2>3, <3>1, <3>2
  <2> QED BY <1>0, <2>1, <2>2, <2>3
<1> HIDE DEF v
<1>2. /\ marcosLibres' = marcosLibres + 1
      /\ paginasDe' = [paginasDe EXCEPT ![p][k] = @ - 1]
      /\ paginasDe \in [Procesos -> [0..MaxPagina -> Nat]] /\ marcosLibres \in Nat
  BY <1>0 DEF LiberarPagina, Administrada, Paginado, TypeOK
<1>3. /\ paginasDe'[p][k] = 0 /\ paginasDe' \in [Procesos -> [0..MaxPagina -> Nat]]
      /\ \A q \in Procesos : \A h \in 0..MaxPagina :
           ~(q = p /\ h = k) => paginasDe'[q][h] = paginasDe[q][h]
  <2> DEFINE f == [paginasDe[p] EXCEPT ![k] = 0]
  <2>1. paginasDe[p] \in [0..MaxPagina -> Nat]
    BY <1>2
  <2>2. f \in [0..MaxPagina -> Nat] /\ f[k] = 0
        /\ \A h \in 0..MaxPagina : h # k => f[h] = paginasDe[p][h]
    BY <2>1
  <2>3. paginasDe' = [paginasDe EXCEPT ![p] = f]
    BY <1>2
  <2> HIDE DEF f
  <2>4. paginasDe' \in [Procesos -> [0..MaxPagina -> Nat]]
    BY <1>2, <2>2, <2>3
  <2>5. paginasDe'[p] = f /\ \A q \in Procesos : q # p => paginasDe'[q] = paginasDe[q]
    <3>1. paginasDe \in [Procesos -> [0..MaxPagina -> Nat]]
      BY <1>2
    <3> QED BY <2>3, <3>1
  <2>6. paginasDe'[p][k] = 0
    BY <2>2, <2>5
  <2>7. ASSUME NEW q \in Procesos, NEW h \in 0..MaxPagina, ~(q = p /\ h = k)
        PROVE  paginasDe'[q][h] = paginasDe[q][h]
    <3>1. CASE q = p
      BY <2>2, <2>5, <2>7, <3>1
    <3>2. CASE q # p
      BY <2>5, <3>2
    <3> QED BY <3>1, <3>2
  <2> QED BY <2>4, <2>6, <2>7
<1>4. TypeOK'
  BY <1>0, <1>2, <1>3 DEF TypeOK
<1>5. Numeradas'
  <2>1. ASSUME NEW i \in 1..(l - 1), tablaHeap'[i].pid # Nadie
        PROVE  /\ PaginasFijas[tablaHeap'[i].pid] <= tablaHeap'[i].numero
               /\ estado'[tablaHeap'[i].pid] # "terminado"
    BY <1>0, <1>1, <2>1 DEF Administrada, Paginado, Numeradas
  <2>2. ASSUME NEW i \in 1..(l - 1), NEW j \in 1..(l - 1),
               tablaHeap'[i].pid = tablaHeap'[j].pid,
               tablaHeap'[i].numero = tablaHeap'[j].numero, tablaHeap'[i].pid # Nadie
        PROVE  i = j
    <3>1. /\ v(i) \in 1..l /\ tablaHeap'[i] = tablaHeap[v(i)]
          /\ v(j) \in 1..l /\ tablaHeap'[j] = tablaHeap[v(j)]
      BY <1>1
    <3>2. v(i) = v(j)
      BY <2>2, <3>1, Distintas
    <3> QED BY <1>1, <3>2
  <2> QED BY <1>0, <2>1, <2>2 DEF Numeradas
<1>6. MismosMarcos'
  \* The page that goes was the only one with its number.
  <2>1. ~TienePagina(p, k)'
    <3>1. SUFFICES ASSUME NEW i \in 1..(l - 1), tablaHeap'[i].pid = p, tablaHeap'[i].numero = k
                   PROVE  FALSE
      BY <1>0 DEF TienePagina
    <3>2. v(i) \in 1..l /\ tablaHeap'[i] = tablaHeap[v(i)] /\ v(i) # c
      BY <1>1
    <3> QED BY <3>1, <3>2, Distintas
  <2>2. ASSUME NEW q, NEW h, ~(q = p /\ h = k)
        PROVE  TienePagina(q, h)' <=> TienePagina(q, h)
    <3>1. ASSUME NEW i \in 1..l, tablaHeap[i].pid = q, tablaHeap[i].numero = h
          PROVE  TienePagina(q, h)'
      <4>1. PICK j \in 1..(l - 1) : v(j) = i
        BY <1>1, <2>2, <3>1
      <4>2. tablaHeap'[j] = tablaHeap[i]
        BY <1>1, <4>1
      <4> QED BY <1>0, <3>1, <4>2 DEF TienePagina
    <3>2. ASSUME NEW j \in 1..(l - 1), tablaHeap'[j].pid = q, tablaHeap'[j].numero = h
          PROVE  TienePagina(q, h)
      BY <1>1, <3>2 DEF TienePagina
    <3> QED BY <1>0, <3>1, <3>2 DEF TienePagina
  <2>3. PaginasFijas[p] <= k
    BY <1>0 DEF Administrada, Paginado, Numeradas
  <2>4. ASSUME NEW q \in Procesos, estado'[q] # "terminado", NEW h \in 0..MaxPagina
        PROVE  paginasDe'[q][h] =
                 IF h < PaginasFijas[q] \/ TienePagina(q, h)' THEN 1 ELSE 0
    <3>1. CASE q = p /\ h = k
      BY <1>0, <1>3, <2>1, <2>3, <3>1, PaginasFijasAssumption
    <3>2. CASE ~(q = p /\ h = k)
      <4>1. paginasDe[q][h] = IF h < PaginasFijas[q] \/ TienePagina(q, h) THEN 1 ELSE 0
        BY <1>0, <2>4 DEF Administrada, Paginado, MismosMarcos
      <4> QED BY <1>3, <2>2, <3>2, <4>1
    <3> QED BY <3>1, <3>2
  <2> QED BY <2>4 DEF MismosMarcos
<1>7. Compactable'
  BY <1>0 DEF Compactable
<1>8. Recogidas'
  <2>1. ASSUME NEW i \in 1..(l - 1) PROVE Recogida(tablaHeap'[i])
    BY <1>1 DEF Administrada, Recogidas
  <2> QED BY <1>0, <2>1 DEF Recogidas
<1> QED BY <1>4, <1>5, <1>6, <1>7, <1>8 DEF Paginado

\* What compactar leaves is a page with something in use, or no page.
LEMMA CompactarTerminaAdministrada ==
    ASSUME Administrada, CompactarTermina
    PROVE  Paginado' /\ Recogidas'
<1> DEFINE c == compactando
           p == tablaHeap[c].pid
           k == tablaHeap[c].numero
           l == Len(tablaHeap)
<1>1. /\ c \in 1..l /\ l \in Nat /\ Pares(tablaHeap[c].bloques) = {}
      /\ compactando' = 0 /\ UNCHANGED estado /\ tablaHeap \in Seq(Paginas)
      /\ \A i \in 1..l : tablaHeap[i] \in Paginas /\ Bien(tablaHeap[i].bloques)
  BY CompactarTerminaHace, TablaTipos
     DEF CompactarTermina, Administrada, Paginado, TypeOK, IInv, TablaBien
<1>2. /\ p \in Procesos /\ p # Nadie /\ k \in 0..MaxPagina /\ EnMemoria(p, k)
      /\ paginasDe[p][k] = 1 /\ estado[p] # "terminado"
  <2>1. p # Nadie
    BY <1>1 DEF Administrada, Paginado, Compactable
  <2> QED BY <1>1, <2>1, EnMemoriaSuya
<1>3. estado' \in [Procesos -> {"vivo", "rechazado", "terminado"}]
  BY <1>1 DEF Administrada, Paginado, TypeOK
<1>4. CASE UNCHANGED <<tablaHeap, memoria>> /\ Len(tablaHeap[c].bloques) # 1
  <2>1. Paginado'
    BY <1>1, <1>3, <1>4, MismasPaginasQueda
  <2>2. Recogida(tablaHeap[c])
    <3> DEFINE s == tablaHeap[c].bloques
    <3>1. Len(s) \in Nat /\ Len(s) >= 1 /\ Len(s) # 1
      BY <1>1, <1>4, BienTipos
    <3> HIDE DEF s
    <3>2. \A m \in Nat : m >= 1 /\ m # 1 => 1 \in 1..(m - 1) /\ 1 \in 1..m /\ 2 \in 1..m
      OBVIOUS
    <3>5. 1 \in 1..(Len(s) - 1) /\ 1 \in 1..Len(s) /\ 2 \in 1..Len(s)
      BY <3>1, <3>2
    <3>3. s[1].isUsed \/ s[1 + 1].isUsed
      BY <1>1, <3>5 DEF Pares, s
    <3>4. 1 + 1 = 2
      OBVIOUS
    <3> QED BY <1>1, <3>3, <3>4, <3>5 DEF Recogida, s
  <2>3. Recogidas'
    BY <1>1, <1>4, <2>2 DEF Administrada, Recogidas
  <2> QED BY <2>1, <2>3
<1>5. CASE /\ LiberarPagina(p, k) /\ tablaHeap' \in Seq(Paginas) /\ Len(tablaHeap') = l - 1
           /\ \A i \in 1..(l - 1) : tablaHeap'[i] = tablaHeap[IF i < c THEN i ELSE i + 1]
  BY <1>1, <1>2, <1>5, PaginaDevuelta
<1> QED BY <1>2, <1>4, <1>5, CompactarTerminaHace DEF Administrada

\* A page more: its number is new to kernel and memory.
LEMMA PaginaNueva ==
    ASSUME Administrada, NEW p \in Procesos, NEW k \in 0..MaxPagina, NEW g \in Paginas,
           g.pid = p, g.numero = k, Recogida(g), PaginasFijas[p] <= k,
           \A i \in 1..Len(tablaHeap) :
               tablaHeap[i].pid = p => tablaHeap[i].numero < k,
           estado[p] = "vivo", compactando = 0, compactando' = 0, marcosLibres > 0,
           tablaHeap' = Append(tablaHeap, g), marcosLibres' = marcosLibres - 1,
           paginasDe' = [paginasDe EXCEPT ![p][k] = @ + 1],
           UNCHANGED estado \/ estado' = [estado EXCEPT ![p] = "rechazado"]
    PROVE  Paginado' /\ Recogidas'
<1> DEFINE l == Len(tablaHeap)
<1>1. /\ l \in Nat /\ tablaHeap \in Seq(Paginas)
      /\ PaginasFijas[p] \in Nat /\ k \in Nat
      /\ \A i \in 1..l : tablaHeap[i].numero \in Int
      /\ paginasDe \in [Procesos -> [0..MaxPagina -> Nat]] /\ marcosLibres \in Nat
  <2>1. PaginasFijas[p] \in Nat /\ k \in Nat
    BY PaginasFijasAssumption, HeapCotasAssumption
  <2>2. /\ tablaHeap \in Seq(Paginas) /\ marcosLibres \in Nat
        /\ paginasDe \in [Procesos -> [0..MaxPagina -> Nat]]
    BY DEF Administrada, Paginado, TypeOK
  <2>3. l \in Nat /\ \A i \in 1..l : tablaHeap[i].numero \in Int
    BY <2>2, TablaTipos
  <2> QED BY <2>1, <2>2, <2>3
<1>7. /\ tablaHeap' \in Seq(Paginas) /\ Len(tablaHeap') = l + 1
      /\ \A i \in 1..l : tablaHeap'[i] = tablaHeap[i]
      /\ tablaHeap'[l + 1] = g
  <2>1. /\ tablaHeap' \in Seq(Paginas) /\ Len(tablaHeap') = l + 1
        /\ \A i \in 1..(l + 1) : tablaHeap'[i] = IF i <= l THEN tablaHeap[i] ELSE g
    BY <1>1, AppendProperties
  <2> QED BY <1>1, <2>1
<1>8. \A i \in 1..(l + 1) : i \in 1..l \/ i = l + 1
  BY <1>1
<1>9. /\ estado' \in [Procesos -> {"vivo", "rechazado", "terminado"}]
      /\ \A q \in Procesos : estado'[q] = "terminado" <=> estado[q] = "terminado"
  BY EstadoRechazado
<1>10. /\ ~TienePagina(p, k) /\ paginasDe[p][k] = 0
  <2>1. ~TienePagina(p, k)
    BY <1>1 DEF TienePagina
  <2> QED BY <1>1, <2>1 DEF Administrada, Paginado, MismosMarcos
<1>11. /\ marcosLibres' \in Nat /\ paginasDe' \in [Procesos -> [0..MaxPagina -> Nat]]
       /\ paginasDe'[p][k] = 1
       /\ \A q \in Procesos : \A h \in 0..MaxPagina :
            ~(q = p /\ h = k) => paginasDe'[q][h] = paginasDe[q][h]
  <2> DEFINE f == [paginasDe[p] EXCEPT ![k] = 1]
  <2>1. paginasDe[p] \in [0..MaxPagina -> Nat] /\ marcosLibres' \in Nat
    BY <1>1
  <2>2. f \in [0..MaxPagina -> Nat] /\ f[k] = 1
        /\ \A h \in 0..MaxPagina : h # k => f[h] = paginasDe[p][h]
    BY <2>1
  <2>3. paginasDe' = [paginasDe EXCEPT ![p] = f]
    BY <1>10
  <2> HIDE DEF f
  <2>4. paginasDe' \in [Procesos -> [0..MaxPagina -> Nat]]
    BY <1>1, <2>2, <2>3
  <2>5. paginasDe'[p] = f /\ \A q \in Procesos : q # p => paginasDe'[q] = paginasDe[q]
    BY <1>1, <2>3
  <2> QED BY <2>1, <2>2, <2>4, <2>5
<1>12. TypeOK'
  BY <1>1, <1>7, <1>9, <1>11 DEF TypeOK
<1>13. \A i \in 1..l : tablaHeap[i].pid # Nadie => tablaHeap[i].pid \in Procesos
  BY EnMemoriaSuya
<1>14. Numeradas'
  <2>1. ASSUME NEW i \in 1..(l + 1), tablaHeap'[i].pid # Nadie
        PROVE  /\ PaginasFijas[tablaHeap'[i].pid] <= tablaHeap'[i].numero
               /\ estado'[tablaHeap'[i].pid] # "terminado"
    <3>1. CASE i \in 1..l
      BY <1>7, <1>9, <1>13, <2>1, <3>1 DEF Administrada, Paginado, Numeradas
    <3>2. CASE i = l + 1
      BY <1>1, <1>7, <1>9, <3>2
    <3> QED BY <1>8, <3>1, <3>2
  <2>2. ASSUME NEW i \in 1..(l + 1), NEW j \in 1..(l + 1),
               tablaHeap'[i].pid = tablaHeap'[j].pid,
               tablaHeap'[i].numero = tablaHeap'[j].numero, tablaHeap'[i].pid # Nadie
        PROVE  i = j
    <3>1. ASSUME NEW h \in 1..l, tablaHeap'[h].pid = p, tablaHeap'[h].numero = k
          PROVE  FALSE
      BY <1>7, <1>10, <3>1 DEF TienePagina
    <3>2. CASE i \in 1..l /\ j \in 1..l
      BY <1>7, <2>2, <3>2 DEF Administrada, Paginado, Numeradas
    <3>3. CASE i = l + 1 /\ j \in 1..l
      BY <1>7, <2>2, <3>1, <3>3
    <3>4. CASE i \in 1..l /\ j = l + 1
      BY <1>7, <2>2, <3>1, <3>4
    <3> QED BY <1>8, <3>2, <3>3, <3>4
  <2> QED BY <1>7, <2>1, <2>2 DEF Numeradas
<1>15. MismosMarcos'
  <2>1. TienePagina(p, k)'
    <3>1. l + 1 \in 1..(l + 1)
      BY <1>1
    <3> QED BY <1>7, <3>1 DEF TienePagina
  <2>2. ASSUME NEW q, NEW h, ~(q = p /\ h = k)
        PROVE  TienePagina(q, h)' <=> TienePagina(q, h)
    <3>1. ASSUME NEW i \in 1..(l + 1), tablaHeap'[i].pid = q, tablaHeap'[i].numero = h
          PROVE  i \in 1..l /\ tablaHeap[i].pid = q /\ tablaHeap[i].numero = h
      BY <1>7, <1>8, <2>2, <3>1
    <3>2. ASSUME NEW i \in 1..l, tablaHeap[i].pid = q, tablaHeap[i].numero = h
          PROVE  i \in 1..(l + 1) /\ tablaHeap'[i].pid = q /\ tablaHeap'[i].numero = h
      BY <1>1, <1>7, <3>2
    <3> QED BY <1>7, <3>1, <3>2 DEF TienePagina
  <2>3. ASSUME NEW q \in Procesos, estado'[q] # "terminado", NEW h \in 0..MaxPagina
        PROVE  paginasDe'[q][h] =
                 IF h < PaginasFijas[q] \/ TienePagina(q, h)' THEN 1 ELSE 0
    <3>1. CASE q = p /\ h = k
      BY <1>11, <2>1, <3>1
    <3>2. CASE ~(q = p /\ h = k)
      <4>1. paginasDe[q][h] = IF h < PaginasFijas[q] \/ TienePagina(q, h) THEN 1 ELSE 0
        BY <1>9, <2>3 DEF Administrada, Paginado, MismosMarcos
      <4> QED BY <1>11, <2>2, <3>2, <4>1
    <3> QED BY <3>1, <3>2
  <2> QED BY <2>3 DEF MismosMarcos
<1>16. Compactable'
  BY <1>1 DEF Compactable
<1>17. Recogidas'
  <2>1. ASSUME NEW i \in 1..(l + 1) PROVE Recogida(tablaHeap'[i])
    <3>1. CASE i \in 1..l
      <4>1. i # compactando
        BY <1>1, <3>1
      <4> QED BY <1>7, <3>1, <4>1 DEF Administrada, Recogidas
    <3>2. CASE i = l + 1
      BY <1>7, <3>2
    <3> QED BY <1>8, <3>1, <3>2
  <2> QED BY <1>7, <2>1 DEF Recogidas
<1> QED BY <1>12, <1>14, <1>15, <1>16, <1>17 DEF Paginado

\* A new page takes the first number no other page of the process has.
LEMMA ReservarPaginaNuevaAdministrada ==
    ASSUME Administrada, "hueco" \notin Eventos,
           NEW p \in Procesos, NEW n \in Pedidos, ReservarPaginaNueva(p, n)
    PROVE  Paginado' /\ Recogidas'
<1> DEFINE k == NumeroNuevo(p)
           s == PartirEspecial(PaginaVacia, 1, n)
           g == [pid |-> p, numero |-> k, bloques |-> s]
<1>1. /\ TablaBien(tablaHeap) /\ estado[p] = "vivo" /\ compactando = 0 /\ compactando' = 0
      /\ k <= MaxPagina /\ k = CuantasPaginas(p) /\ AsignarPaginaDeHeap(p)
      /\ tablaHeap' = Append(tablaHeap, g) /\ marcosLibres > 0
      /\ UNCHANGED estado \/ estado' = [estado EXCEPT ![p] = "rechazado"]
  BY DEF ReservarPaginaNueva, Entra, Libre, Enviar, Rechazar, Administrada, IInv
<1>2. /\ k \in 0..MaxPagina /\ PaginasFijas[p] <= k
      /\ \A i \in 1..Len(tablaHeap) : tablaHeap[i].pid = p => tablaHeap[i].numero < k
  <2>1. PaginasFijas[p] \in Nat /\ MaxPagina \in Nat
    BY PaginasFijasAssumption, HeapCotasAssumption
  <2>2. /\ k \in Int /\ k >= PaginasFijas[p]
        /\ \A i \in 1..Len(tablaHeap) : tablaHeap[i].pid = p => tablaHeap[i].numero < k
    BY <1>1, NumeroBien
  <2> HIDE DEF k
  <2> QED BY <1>1, <2>1, <2>2
<1>3. Bien(PaginaVacia) /\ Len(PaginaVacia) = 1 /\ PaginaVacia[1].especial
      /\ Pares(PaginaVacia) = {} /\ n \in Nat /\ 1 \in 1..Len(PaginaVacia)
  BY VaciaBien, PedidosAssumption DEF PaginaVacia, Especial, Bloque, Pares
<1>4. Recogidos(s) /\ s \in Seq(Bloques)
  BY <1>3, PartirRecoge, PartirElementos
<1> HIDE DEF s, k
<1>5. g \in Paginas /\ g.pid = p /\ g.numero = k /\ Recogida(g)
  BY <1>2, <1>4 DEF Paginas, Recogida, Recogidos
<1> HIDE DEF g
<1>6. /\ marcosLibres' = marcosLibres - 1
      /\ paginasDe' = [paginasDe EXCEPT ![p][k] = @ + 1]
  BY <1>1 DEF AsignarPaginaDeHeap
<1> QED BY <1>1, <1>2, <1>5, <1>6, PaginaNueva

\* A program has its fixed pages, at least: what it gives back is not negative.
LEMMA TieneLasFijas ==
    ASSUME Administrada, NEW p \in Procesos, estado[p] # "terminado"
    PROVE  CuantasPaginas(p) \in Nat /\ CuantasPaginas(p) >= PaginasFijas[p]
<1> DEFINE f == PaginasFijas[p]
           F == (0..(f - 1)) \X {1}
           P(k) == {k} \X (1..paginasDe[p][k])
           E == {P(k) : k \in 0..MaxPagina}
<1>1. /\ f \in 0..(MaxPagina + 1) /\ MaxPagina \in Nat
      /\ \A k \in 0..MaxPagina : paginasDe[p][k] \in Nat
      /\ \A k \in 0..MaxPagina : k < f => paginasDe[p][k] = 1
  BY PaginasFijasAssumption, HeapCotasAssumption
     DEF Administrada, Paginado, TypeOK, MismosMarcos
<1> HIDE DEF f
<1>2. IsFiniteSet(F) /\ Cardinality(F) = f
  <2>0. f \in Nat /\ 0 \in Int /\ f - 1 \in Int
    BY <1>1
  <2>1. IsFiniteSet(0..(f - 1)) /\ Cardinality(0..(f - 1)) = f
    <3>1. IsFiniteSet(0..(f - 1))
          /\ Cardinality(0..(f - 1)) = IF 0 > f - 1 THEN 0 ELSE (f - 1) - 0 + 1
      BY <2>0, FS_Interval
    <3> QED BY <2>0, <3>1
  <2>2. IsFiniteSet({1}) /\ Cardinality({1}) = 1
    BY FS_Singleton
  <2>3. /\ IsFiniteSet(F)
        /\ Cardinality(F) = Cardinality(0..(f - 1)) * Cardinality({1})
    BY <2>1, <2>2, FS_Product
  <2> QED BY <2>0, <2>1, <2>2, <2>3
<1>3. IsFiniteSet(UNION E)
  <2>1. \A k \in 0..MaxPagina : IsFiniteSet(P(k))
    <3>0. SUFFICES ASSUME NEW k \in 0..MaxPagina PROVE IsFiniteSet(P(k))
      OBVIOUS
    <3>1. 1 \in Int /\ paginasDe[p][k] \in Int
      BY <1>1
    <3>2. IsFiniteSet({k}) /\ IsFiniteSet(1..paginasDe[p][k])
      BY <3>1, FS_Singleton, FS_Interval
    <3> QED BY <3>2, FS_Product
  <2>2. IsFiniteSet(E)
    <3> DEFINE h == [k \in 0..MaxPagina |-> P(k)]
    <3> HIDE DEF P
    <3>1. h \in Surjection(0..MaxPagina, E)
      BY DEF Surjection
    <3>2. IsFiniteSet(0..MaxPagina)
      BY <1>1, FS_Interval
    <3> HIDE DEF h, E
    <3> QED BY <3>1, <3>2, FS_Surjection
  <2>3. \A T \in E : IsFiniteSet(T)
    <3> HIDE DEF P
    <3> QED BY <2>1
  <2> HIDE DEF E
  <2> QED BY <2>2, <2>3, FS_UNION
<1>4. F \subseteq UNION E
  <2>1. SUFFICES ASSUME NEW k \in 0..(f - 1) PROVE <<k, 1>> \in UNION E
    OBVIOUS
  <2>2. k \in 0..MaxPagina /\ k < f
    BY <1>1
  <2>3. <<k, 1>> \in P(k)
    BY <1>1, <2>2
  <2> QED BY <2>2, <2>3
<1>5. UNION E = Entradas(p)
  BY DEF Entradas
<1> HIDE DEF E, F
<1>6. /\ Cardinality(UNION E) \in Nat /\ Cardinality(F) <= Cardinality(UNION E)
  BY <1>3, <1>4, FS_CardinalityType, FS_Subset
<1> QED BY <1>2, <1>5, <1>6 DEF CuantasPaginas, f

\* The end of a process returns all its pages and no other.
LEMMA FinAdministrada ==
    ASSUME Administrada, NEW p \in Procesos, Fin(p)
    PROVE  Paginado' /\ Recogidas'
<1> DEFINE l == Len(tablaHeap)
           v == [pid |-> Nadie, numero |-> Nadie, bloques |-> PaginaVacia]
<1>1. /\ tablaHeap \in Seq(Paginas) /\ l \in Nat /\ compactando' = 0 /\ compactando = 0
      /\ estado[p] # "terminado" /\ estado' = [estado EXCEPT ![p] = "terminado"]
      /\ estado \in [Procesos -> {"vivo", "rechazado", "terminado"}]
      /\ \A i \in 1..l : tablaHeap[i] \in Paginas
  BY TablaTipos DEF Fin, Administrada, Paginado, TypeOK
<1>2. v \in Paginas /\ v.pid = Nadie /\ v.bloques = PaginaVacia
  BY VaciaBien DEF Paginas, Bien, Nadie
<1>3. /\ tablaHeap' \in Seq(Paginas) /\ Len(tablaHeap') = l
      /\ \A i \in 1..l : tablaHeap'[i] = IF tablaHeap[i].pid = p THEN v ELSE tablaHeap[i]
  <2>1. tablaHeap' = [i \in 1..l |-> IF tablaHeap[i].pid = p THEN v ELSE tablaHeap[i]]
    BY DEF Fin
  <2> HIDE DEF v, l
  <2>2. tablaHeap' \in [1..l -> Paginas] /\ DOMAIN tablaHeap' = 1..l
    BY <1>1, <1>2, <2>1
  <2>3. tablaHeap' \in Seq(Paginas)
    BY <1>1, <2>2, SeqDef
  <2>4. Len(tablaHeap') = l
    BY <1>1, <2>2, <2>3, LenProperties
  <2> QED BY <2>1, <2>3, <2>4
<1> HIDE DEF v
<1>4. /\ p # Nadie
      /\ \A i \in 1..l : /\ tablaHeap'[i].pid # Nadie =>
                              tablaHeap[i].pid # p /\ tablaHeap'[i] = tablaHeap[i]
                         /\ tablaHeap[i].pid # p => tablaHeap'[i] = tablaHeap[i]
  BY <1>2, <1>3, NadieNoEsProceso
<1>5. TypeOK'
  <2>1. /\ marcosLibres' = marcosLibres + (CuantasPaginas(p) - PaginasFijas[p])
        /\ paginasDe' = [paginasDe EXCEPT ![p] = [k \in 0..MaxPagina |-> 0]]
        /\ marcosLibres \in Nat /\ paginasDe \in [Procesos -> [0..MaxPagina -> Nat]]
    BY DEF Fin, Administrada, Paginado, TypeOK
  <2>2. marcosLibres' \in Nat
    <3>1. CuantasPaginas(p) \in Nat /\ CuantasPaginas(p) >= PaginasFijas[p]
      BY <1>1, TieneLasFijas
    <3>2. PaginasFijas[p] \in Nat
      BY PaginasFijasAssumption, HeapCotasAssumption
    <3> QED BY <2>1, <3>1, <3>2
  <2>3. paginasDe' \in [Procesos -> [0..MaxPagina -> Nat]]
    <3> DEFINE z == [k \in 0..MaxPagina |-> 0]
    <3>1. z \in [0..MaxPagina -> Nat]
      OBVIOUS
    <3>2. paginasDe' = [paginasDe EXCEPT ![p] = z]
      BY <2>1
    <3> HIDE DEF z
    <3> QED BY <2>1, <3>1, <3>2
  <2>4. estado' \in [Procesos -> {"vivo", "rechazado", "terminado"}]
    BY <1>1
  <2>5. compactando' \in 0..Len(tablaHeap')
    BY <1>1, <1>3
  <2> QED BY <1>3, <2>2, <2>3, <2>4, <2>5 DEF TypeOK
<1>6. \A i \in 1..l : tablaHeap[i].pid # Nadie => tablaHeap[i].pid \in Procesos
  BY EnMemoriaSuya
<1>7. Numeradas'
  <2>1. ASSUME NEW i \in 1..l, tablaHeap'[i].pid # Nadie
        PROVE  /\ PaginasFijas[tablaHeap'[i].pid] <= tablaHeap'[i].numero
               /\ estado'[tablaHeap'[i].pid] # "terminado"
    <3>1. tablaHeap'[i] = tablaHeap[i] /\ tablaHeap[i].pid # p
      BY <1>4, <2>1
    <3> QED BY <1>1, <1>6, <2>1, <3>1 DEF Administrada, Paginado, Numeradas
  <2>2. ASSUME NEW i \in 1..l, NEW j \in 1..l, tablaHeap'[i].pid = tablaHeap'[j].pid,
               tablaHeap'[i].numero = tablaHeap'[j].numero, tablaHeap'[i].pid # Nadie
        PROVE  i = j
    <3>1. tablaHeap'[i] = tablaHeap[i] /\ tablaHeap'[j] = tablaHeap[j]
      BY <1>4, <2>2
    <3> QED BY <2>2, <3>1 DEF Administrada, Paginado, Numeradas
  <2> QED BY <1>3, <2>1, <2>2 DEF Numeradas
<1>8. MismosMarcos'
  <2>1. ASSUME NEW q \in Procesos, q # p, NEW k
        PROVE  TienePagina(q, k)' <=> TienePagina(q, k)
    <3>1. q # Nadie
      BY NadieNoEsProceso
    <3>2. ASSUME NEW i \in 1..l
          PROVE  tablaHeap'[i].pid = q <=> tablaHeap[i].pid = q
      BY <1>2, <1>3, <2>1, <3>1
    <3>3. \A i \in 1..l : tablaHeap[i].pid = q => tablaHeap'[i] = tablaHeap[i]
      BY <1>4, <2>1
    <3> QED BY <1>3, <3>2, <3>3 DEF TienePagina
  <2>2. ASSUME NEW q \in Procesos, estado'[q] # "terminado", NEW k \in 0..MaxPagina
        PROVE  paginasDe'[q][k] =
                 IF k < PaginasFijas[q] \/ TienePagina(q, k)' THEN 1 ELSE 0
    <3>1. q # p /\ estado[q] # "terminado"
      BY <1>1, <2>2
    <3>2. paginasDe'[q] = paginasDe[q]
      BY <3>1 DEF Fin, Administrada, Paginado, TypeOK
    <3>3. paginasDe[q][k] = IF k < PaginasFijas[q] \/ TienePagina(q, k) THEN 1 ELSE 0
      BY <3>1 DEF Administrada, Paginado, MismosMarcos
    <3> QED BY <2>1, <3>1, <3>2, <3>3
  <2> QED BY <2>2 DEF MismosMarcos
<1>9. Compactable'
  BY <1>1 DEF Compactable
<1>10. Recogidas'
  <2>1. Recogida(v)
    <3>1. Pares(PaginaVacia) = {}
      BY DEF Pares, PaginaVacia
    <3> QED BY <1>2, <3>1 DEF Recogida
  <2>2. ASSUME NEW i \in 1..l PROVE Recogida(tablaHeap'[i])
    <3>1. i # compactando
      BY <1>1
    <3>2. Recogida(tablaHeap[i])
      BY <3>1 DEF Administrada, Recogidas
    <3> QED BY <1>3, <2>1, <3>2
  <2> QED BY <1>3, <2>2 DEF Recogidas
<1> QED BY <1>5, <1>7, <1>8, <1>9, <1>10 DEF Paginado

\* The empty table is administered.
LEMMA InitAdministrada == Init => Administrada
<1> SUFFICES ASSUME Init PROVE Administrada
  OBVIOUS
<1>1. tablaHeap = <<>> /\ tablaHeap \in Seq(Paginas) /\ Len(tablaHeap) = 0 /\ compactando = 0
      /\ 1..0 = {}
  BY DEF Init
<1>2. TypeOK
  BY <1>1, HeapCotasAssumption DEF Init, TypeOK
<1>3. Numeradas /\ Compactable /\ Recogidas
  BY <1>1 DEF Numeradas, Compactable, Recogidas
<1>4. MismosMarcos
  BY <1>1 DEF Init, MismosMarcos, TienePagina
<1> QED BY <1>2, <1>3, <1>4, InitCumple DEF Administrada, Paginado

\* Every step keeps the table administered.
LEMMA PasoAdministrada ==
    ASSUME Administrada, Eventos \cap {"mismoNumero", "hueco"} = {}, [Next]_vars
    PROVE  Administrada'
<1>0. /\ "mismoNumero" \notin Eventos /\ "hueco" \notin Eventos
  OBVIOUS
<1>1. ASSUME NEW p \in Procesos, NEW n \in Pedidos,
             ReservarMuyGrande(p, n) \/ ReservarSinMarcos(p, n)
      PROVE  Paginado' /\ Recogidas'
  <2>1. /\ Libre(p) /\ estado' = [estado EXCEPT ![p] = "rechazado"]
        /\ UNCHANGED <<tablaHeap, compactando, memoria>>
    BY <1>1 DEF ReservarMuyGrande, ReservarSinMarcos, Rechazar, Entra
  <2> QED BY <2>1, RechazoAdministrada
<1>2. ASSUME NEW p \in Procesos, NEW d, LiberarInvalido(p, d)
      PROVE  Paginado' /\ Recogidas'
  <2>1. /\ Libre(p) /\ estado' = [estado EXCEPT ![p] = "rechazado"]
        /\ UNCHANGED <<tablaHeap, compactando, memoria>>
    BY <1>2 DEF LiberarInvalido
  <2> QED BY <2>1, RechazoAdministrada
<1>3. ASSUME UNCHANGED vars PROVE Paginado' /\ Recogidas'
  <2>1. UNCHANGED <<tablaHeap, compactando, memoria, estado>>
    BY <1>3 DEF vars
  <2>2. tablaHeap \in Seq(Paginas)
        /\ estado \in [Procesos -> {"vivo", "rechazado", "terminado"}]
    BY DEF Administrada, Paginado, TypeOK
  <2>3. Paginado'
    BY <2>1, <2>2, MismasPaginasQueda
  <2>4. Recogidas'
    BY <2>1 DEF Administrada, Recogidas
  <2> QED BY <2>3, <2>4
<1>4. ASSUME NEW p \in Procesos, NEW n \in Pedidos, ReservarEnPagina(p, n)
      PROVE  Paginado' /\ Recogidas'
  BY <1>0, <1>4, ReservarEnPaginaAdministrada
<1>6. ASSUME NEW p \in Procesos, NEW n \in Pedidos, ReservarPaginaNueva(p, n)
      PROVE  Paginado' /\ Recogidas'
  BY <1>0, <1>6, ReservarPaginaNuevaAdministrada
<1>7. ASSUME NEW p \in Procesos, NEW d, Liberar(p, d)
      PROVE  Paginado' /\ Recogidas'
  BY <1>7, LiberarAdministrada
<1>8. ASSUME NEW p \in Procesos, Fin(p)
      PROVE  Paginado' /\ Recogidas'
  BY <1>8, FinAdministrada
<1>9. Paginado' /\ Recogidas'
  BY <1>1, <1>2, <1>3, <1>4, <1>6, <1>7, <1>8, CompactarParAdministrada,
     CompactarTerminaAdministrada, Zenon DEF Next
<1>5. IInv'
  BY <1>0, PasoCumple DEF Administrada
<1> QED BY <1>5, <1>9 DEF Administrada

\* Kernel and memory agree on the pages of every program.
LEMMA AdministradaDice ==
    ASSUME Administrada
    PROVE  SinVecinosLibres /\ SinPaginasOciosas /\ MismasPaginas
<1>1. SinVecinosLibres /\ SinPaginasOciosas
  <2>1. ASSUME compactando = 0, NEW i \in 1..Len(tablaHeap)
        PROVE  Recogida(tablaHeap[i])
    <3>1. i # compactando
      BY <2>1
    <3> QED BY <3>1 DEF Administrada, Recogidas
  <2> QED BY <2>1 DEF Recogida, SinVecinosLibres, SinPaginasOciosas
<1>2. ASSUME NEW p \in Procesos, estado[p] = "vivo", NEW k \in 0..MaxPagina
      PROVE  paginasDe[p][k] = (IF k < PaginasFijas[p] THEN 1 ELSE 0)
               + Cardinality({i \in 1..Len(tablaHeap) :
                                 tablaHeap[i].pid = p /\ tablaHeap[i].numero = k})
  <2> DEFINE S == {i \in 1..Len(tablaHeap) : tablaHeap[i].pid = p /\ tablaHeap[i].numero = k}
  <2>1. /\ paginasDe[p][k] = IF k < PaginasFijas[p] \/ TienePagina(p, k) THEN 1 ELSE 0
        /\ PaginasFijas[p] \in Nat /\ p # Nadie
    BY <1>2, NadieNoEsProceso, PaginasFijasAssumption, HeapCotasAssumption
       DEF Administrada, Paginado, MismosMarcos
  <2>2. CASE TienePagina(p, k)
    <3>1. PICK i \in 1..Len(tablaHeap) : tablaHeap[i].pid = p /\ tablaHeap[i].numero = k
      BY <2>2 DEF TienePagina
    <3>2. S = {i}
      BY <2>1, <3>1 DEF Administrada, Paginado, Numeradas
    <3>3. PaginasFijas[p] <= k
      BY <2>1, <3>1 DEF Administrada, Paginado, Numeradas
    <3>4. Cardinality(S) = 1
      BY <3>2, FS_Singleton
    <3> HIDE DEF S
    <3>5. ~(k < PaginasFijas[p])
      BY <2>1, <3>3
    <3> QED BY <2>1, <2>2, <3>4, <3>5 DEF S
  <2>3. CASE ~TienePagina(p, k)
    <3>1. S = {}
      BY <2>3 DEF TienePagina
    <3>2. Cardinality(S) = 0
      BY <3>1, FS_EmptySet
    <3> HIDE DEF S
    <3> QED BY <2>1, <2>3, <3>2 DEF S
  <2> QED BY <2>2, <2>3
<1>3. MismasPaginas
  BY <1>2 DEF MismasPaginas, Administrada, Paginado
<1> QED BY <1>1, <1>3

\* chekear_paginas_libres and compactar leave, between two requests, no two
\* free blocks in a row, as long as kernel and memory number the pages alike.
THEOREM SinVecinosLibresSiempre ==
    ASSUME Eventos \cap {"mismoNumero", "hueco"} = {}
    PROVE  Spec => []SinVecinosLibres
<1>1. Init => Administrada
  BY InitAdministrada
<1>2. Administrada /\ [Next]_vars => Administrada'
  BY PasoAdministrada
<1>3. Administrada => SinVecinosLibres
  BY AdministradaDice
<1> QED BY <1>1, <1>2, <1>3, PTL DEF Spec

\* And no page with nothing in use.
THEOREM SinPaginasOciosasSiempre ==
    ASSUME Eventos \cap {"mismoNumero", "hueco"} = {}
    PROVE  Spec => []SinPaginasOciosas
<1>1. Init => Administrada
  BY InitAdministrada
<1>2. Administrada /\ [Next]_vars => Administrada'
  BY PasoAdministrada
<1>3. Administrada => SinPaginasOciosas
  BY AdministradaDice
<1> QED BY <1>1, <1>2, <1>3, PTL DEF Spec

\* The pages the kernel writes blocks in are, for every program that was not
\* refused, the ones memory has for it, each once.
THEOREM MismasPaginasSiempre ==
    ASSUME Eventos \cap {"mismoNumero", "hueco"} = {}
    PROVE  Spec => []MismasPaginas
<1>1. Init => Administrada
  BY InitAdministrada
<1>2. Administrada /\ [Next]_vars => Administrada'
  BY PasoAdministrada
<1>3. Administrada => MismasPaginas
  BY AdministradaDice
<1> QED BY <1>1, <1>2, <1>3, PTL DEF Spec
=============================================================================

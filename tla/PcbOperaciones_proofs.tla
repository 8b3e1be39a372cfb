----------------------- MODULE PcbOperaciones_proofs ------------------------
(***************************************************************************)
(* Lemmas about the process table.  The C code moves PCBs between five     *)
(* lists with list_find, list_remove and list_add; the first part says     *)
(* what that does to a sequence, the second what it does to the queues,    *)
(* the third that every operation of PcbOperaciones keeps the table in     *)
(* order (Bien below).                                                     *)
(***************************************************************************)
EXTENDS PcbOperaciones, Secuencias_proofs

\* What a sequence is after the first occurrence of an element is removed.
LEMMA QuitarPrimero ==
    ASSUME NEW T, NEW s \in Seq(T), NEW e, Contains(s, e)
    PROVE  /\ RemoveFirst(s, e) \in Seq(T)
           /\ Len(RemoveFirst(s, e)) = Len(s) - 1
           /\ \E i \in 1..Len(s) :
                 /\ s[i] = e
                 /\ \A j \in 1..Len(s) - 1 :
                       RemoveFirst(s, e)[j] = s[IF j < i THEN j ELSE j + 1]
<1>. DEFINE i == SelectInSeq(s, LAMBDA v : v = e)
<1>1. i \in 1..Len(s) /\ s[i] = e
  BY PrimeraPosicion
<1>2. RemoveFirst(s, e) = RemoveAt(s, i)
  BY DEF RemoveFirst, Contains
<1>. HIDE DEF i
<1>3. /\ RemoveAt(s, i) \in Seq(T)
      /\ Len(RemoveAt(s, i)) = Len(s) - 1
      /\ \A j \in 1..Len(s) - 1 :
            RemoveAt(s, i)[j] = s[IF j < i THEN j ELSE j + 1]
  BY <1>1, QuitarUno
<1> QED
  BY <1>1, <1>2, <1>3

\* A removal adds no element, whether the one looked for is there or not.
LEMMA QuitarTipo ==
    ASSUME NEW T, NEW s \in Seq(T), NEW e
    PROVE  RemoveFirst(s, e) \in Seq(T)
<1>1. CASE Contains(s, e)
  BY <1>1, QuitarPrimero
<1>2. CASE ~Contains(s, e)
  BY <1>2 DEF RemoveFirst, Contains
<1> QED
  BY <1>1, <1>2

-----------------------------------------------------------------------------
(* The queues.                                                             *)

\* A PCB is at one position of one queue.
SinRepetir(c) ==
    \A e, f \in Estado : \A i \in 1..Len(c[e]), j \in 1..Len(c[f]) :
        c[e][i] = c[f][j] => e = f /\ i = j

\* Every PCB of the queues was created.
Conocidos(c, n) ==
    \A e \in Estado : \A i \in 1..Len(c[e]) : c[e][i] <= n

\* The queues after Mover.
Movida(c, p, desde, hacia) ==
    [c EXCEPT ![desde] = RemoveFirst(@, p), ![hacia] = Append(@, p)]

\* What a move does to the queues, position by position.
LEMMA ColaMovida ==
    ASSUME NEW c \in [Estado -> Seq(Pid)], NEW p \in Pid,
           NEW desde \in Estado, NEW hacia \in Estado, desde # hacia,
           Contains(c[desde], p)
    PROVE  LET d == Movida(c, p, desde, hacia) IN
           /\ d \in [Estado -> Seq(Pid)]
           /\ Len(d[desde]) = Len(c[desde]) - 1
           /\ Len(d[hacia]) = Len(c[hacia]) + 1
           /\ \A e \in Estado \ {desde, hacia} : d[e] = c[e]
           /\ \A i \in 1..Len(c[hacia]) : d[hacia][i] = c[hacia][i]
           /\ d[hacia][Len(c[hacia]) + 1] = p
<1>. DEFINE d == Movida(c, p, desde, hacia)
<1>1. c[desde] \in Seq(Pid) /\ c[hacia] \in Seq(Pid)
  OBVIOUS
<1>2. /\ d[desde] = RemoveFirst(c[desde], p)
      /\ d[hacia] = Append(c[hacia], p)
      /\ \A e \in Estado \ {desde, hacia} : d[e] = c[e]
  BY DEF Movida
<1>3. /\ RemoveFirst(c[desde], p) \in Seq(Pid)
      /\ Len(RemoveFirst(c[desde], p)) = Len(c[desde]) - 1
  BY <1>1, QuitarPrimero
<1>4. /\ Append(c[hacia], p) \in Seq(Pid)
      /\ Len(Append(c[hacia], p)) = Len(c[hacia]) + 1
      /\ \A i \in 1..Len(c[hacia]) : Append(c[hacia], p)[i] = c[hacia][i]
      /\ Append(c[hacia], p)[Len(c[hacia]) + 1] = p
  BY <1>1, AppendProperties
<1>5. d \in [Estado -> Seq(Pid)]
  BY <1>3, <1>4 DEF Movida
<1>. HIDE DEF d
<1> QED
  BY <1>2, <1>3, <1>4, <1>5, Zenon DEF d

\* A PCB that is in one queue once is so after a move.
LEMMA MovidaSinRepetir ==
    ASSUME NEW c \in [Estado -> Seq(Pid)], NEW p \in Pid,
           NEW desde \in Estado, NEW hacia \in Estado, desde # hacia,
           Contains(c[desde], p), SinRepetir(c)
    PROVE  SinRepetir(Movida(c, p, desde, hacia))
<1>. DEFINE d == Movida(c, p, desde, hacia)
<1>1. /\ d \in [Estado -> Seq(Pid)]
      /\ Len(d[desde]) = Len(c[desde]) - 1
      /\ Len(d[hacia]) = Len(c[hacia]) + 1
      /\ \A e \in Estado \ {desde, hacia} : d[e] = c[e]
      /\ \A i \in 1..Len(c[hacia]) : d[hacia][i] = c[hacia][i]
      /\ d[hacia][Len(c[hacia]) + 1] = p
  BY ColaMovida
<1>2. PICK i0 \in 1..Len(c[desde]) :
         /\ c[desde][i0] = p
         /\ \A j \in 1..Len(c[desde]) - 1 :
               d[desde][j] = c[desde][IF j < i0 THEN j ELSE j + 1]
  <2>1. d[desde] = RemoveFirst(c[desde], p)
    BY DEF Movida
  <2>2. c[desde] \in Seq(Pid)
    OBVIOUS
  <2> QED
    BY <2>1, <2>2, QuitarPrimero
<1>. HIDE DEF d
<1>3. \A e \in Estado : Len(c[e]) \in Nat /\ Len(d[e]) \in Nat
  BY <1>1, LenProperties
\* Where the PCB at position i of queue e was before the move.
<1>. DEFINE cola(e, i) ==
                IF e = hacia /\ i = Len(c[hacia]) + 1 THEN desde ELSE e
            pos(e, i) ==
                IF e = hacia /\ i = Len(c[hacia]) + 1 THEN i0
                ELSE IF e = desde /\ i >= i0 THEN i + 1 ELSE i
<1>4. ASSUME NEW e \in Estado, NEW i \in 1..Len(d[e])
      PROVE  /\ cola(e, i) \in Estado
             /\ pos(e, i) \in 1..Len(c[cola(e, i)])
             /\ d[e][i] = c[cola(e, i)][pos(e, i)]
  <2>1. CASE e = desde
    BY <1>1, <1>2, <1>3, <2>1
  <2>2. CASE e = hacia /\ i = Len(c[hacia]) + 1
    BY <1>1, <1>2, <1>3, <2>2
  <2>3. CASE e = hacia /\ i # Len(c[hacia]) + 1
    BY <1>1, <1>3, <2>3
  <2>4. CASE e \notin {desde, hacia}
    BY <1>1, <2>4
  <2> QED
    BY <2>1, <2>2, <2>3, <2>4
<1>5. ASSUME NEW e \in Estado, NEW f \in Estado,
             NEW i \in 1..Len(d[e]), NEW j \in 1..Len(d[f]),
             d[e][i] = d[f][j]
      PROVE  e = f /\ i = j
  <2>1. cola(e, i) = cola(f, j) /\ pos(e, i) = pos(f, j)
    <3>1. /\ cola(e, i) \in Estado /\ pos(e, i) \in 1..Len(c[cola(e, i)])
          /\ d[e][i] = c[cola(e, i)][pos(e, i)]
      BY <1>4
    <3>2. /\ cola(f, j) \in Estado /\ pos(f, j) \in 1..Len(c[cola(f, j)])
          /\ d[f][j] = c[cola(f, j)][pos(f, j)]
      BY <1>4
    <3>. HIDE DEF cola, pos
    <3>3. c[cola(e, i)][pos(e, i)] = c[cola(f, j)][pos(f, j)]
      BY <1>5, <3>1, <3>2
    <3>4. \A g, h \in Estado : \A a \in 1..Len(c[g]), b \in 1..Len(c[h]) :
             c[g][a] = c[h][b] => g = h /\ a = b
      BY DEF SinRepetir
    <3> QED
      BY <3>1, <3>2, <3>3, <3>4, SMTT(30)
  <2>2. i \in Nat /\ j \in Nat /\ i0 \in Nat
    BY <1>3
  <2> QED
    BY <1>1, <1>2, <1>3, <2>1, <2>2
<1>6. SinRepetir(d)
  <2>. HIDE DEF cola, pos
  <2> QED
    BY <1>5 DEF SinRepetir
<1> QED
  BY <1>6 DEF d

\* A move brings no PCB that was not in the queues.
LEMMA MovidaConocida ==
    ASSUME NEW c \in [Estado -> Seq(Pid)], NEW p \in Pid,
           NEW desde \in Estado, NEW hacia \in Estado, desde # hacia,
           Contains(c[desde], p), NEW n, Conocidos(c, n)
    PROVE  Conocidos(Movida(c, p, desde, hacia), n)
<1>. DEFINE d == Movida(c, p, desde, hacia)
<1>1. /\ Len(d[desde]) = Len(c[desde]) - 1
      /\ Len(d[hacia]) = Len(c[hacia]) + 1
      /\ \A e \in Estado \ {desde, hacia} : d[e] = c[e]
      /\ \A i \in 1..Len(c[hacia]) : d[hacia][i] = c[hacia][i]
      /\ d[hacia][Len(c[hacia]) + 1] = p
  BY ColaMovida
<1>2. PICK i0 \in 1..Len(c[desde]) :
         /\ c[desde][i0] = p
         /\ \A j \in 1..Len(c[desde]) - 1 :
               d[desde][j] = c[desde][IF j < i0 THEN j ELSE j + 1]
  <2>1. d[desde] = RemoveFirst(c[desde], p)
    BY DEF Movida
  <2>2. c[desde] \in Seq(Pid)
    OBVIOUS
  <2> QED
    BY <2>1, <2>2, QuitarPrimero
<1>. HIDE DEF d
<1>3. \A e \in Estado : Len(c[e]) \in Nat
  BY LenProperties
<1>4. ASSUME NEW e \in Estado, NEW i \in 1..Len(d[e])
      PROVE  d[e][i] <= n
  <2>0. \A f \in Estado : \A j \in 1..Len(c[f]) : c[f][j] <= n
    BY DEF Conocidos
  <2>1. CASE e = desde
    <3>. DEFINE l == IF i < i0 THEN i ELSE i + 1
    <3>1. l \in 1..Len(c[desde])
      BY <1>1, <1>3, <2>1
    <3>2. d[e][i] = c[desde][l]
      BY <1>1, <1>2, <2>1
    <3>. HIDE DEF l
    <3> QED
      BY <2>0, <3>1, <3>2
  <2>2. CASE e = hacia /\ i = Len(c[hacia]) + 1
    BY <1>1, <1>2, <2>0, <2>2
  <2>3. CASE e = hacia /\ i # Len(c[hacia]) + 1
    <3>1. i \in 1..Len(c[hacia]) /\ d[e][i] = c[hacia][i]
      BY <1>1, <1>3, <2>3
    <3> QED
      BY <2>0, <3>1
  <2>4. CASE e \notin {desde, hacia}
    BY <1>1, <2>0, <2>4
  <2> QED
    BY <2>1, <2>2, <2>3, <2>4
<1> QED
  BY <1>4 DEF Conocidos, d

\* The queues after list_add.
Agregada(c, p, e) == [c EXCEPT ![e] = Append(@, p)]

\* A PCB that no queue has may enter one.
LEMMA AgregadaSinRepetir ==
    ASSUME NEW c \in [Estado -> Seq(Pid)], NEW p \in Pid, NEW e \in Estado,
           SinRepetir(c), \A f \in Estado : ~Contains(c[f], p)
    PROVE  LET d == Agregada(c, p, e) IN
           /\ d \in [Estado -> Seq(Pid)]
           /\ SinRepetir(d)
           /\ Len(d[e]) = Len(c[e]) + 1
           /\ \A f \in Estado \ {e} : d[f] = c[f]
           /\ \A f \in Estado : \A i \in 1..Len(d[f]) :
                 d[f][i] = p \/ \E j \in 1..Len(c[f]) : d[f][i] = c[f][j]
<1>. DEFINE d == Agregada(c, p, e)
<1>1. /\ Append(c[e], p) \in Seq(Pid)
      /\ Len(Append(c[e], p)) = Len(c[e]) + 1
      /\ \A i \in 1..Len(c[e]) : Append(c[e], p)[i] = c[e][i]
      /\ Append(c[e], p)[Len(c[e]) + 1] = p
  BY AppendProperties
<1>2. d[e] = Append(c[e], p) /\ \A f \in Estado \ {e} : d[f] = c[f]
  BY DEF Agregada
<1>3. d \in [Estado -> Seq(Pid)]
  BY <1>1 DEF Agregada
<1>. HIDE DEF d
<1>4. \A f \in Estado : Len(c[f]) \in Nat
  BY LenProperties
<1>5. \A f \in Estado : \A i \in 1..Len(c[f]) : c[f][i] # p
  BY DEF Contains
<1>6. ASSUME NEW f \in Estado, NEW i \in 1..Len(d[f])
      PROVE  \/ i \in 1..Len(c[f]) /\ d[f][i] = c[f][i]
             \/ f = e /\ i = Len(c[e]) + 1 /\ d[f][i] = p
  BY <1>1, <1>2, <1>4
<1>7. SinRepetir(d)
  <2>1. SUFFICES ASSUME NEW f \in Estado, NEW g \in Estado,
                        NEW i \in 1..Len(d[f]), NEW j \in 1..Len(d[g]),
                        d[f][i] = d[g][j]
                 PROVE  f = g /\ i = j
    BY DEF SinRepetir
  <2>2. \/ i \in 1..Len(c[f]) /\ d[f][i] = c[f][i]
        \/ f = e /\ i = Len(c[e]) + 1 /\ d[f][i] = p
    BY <1>6
  <2>3. \/ j \in 1..Len(c[g]) /\ d[g][j] = c[g][j]
        \/ g = e /\ j = Len(c[e]) + 1 /\ d[g][j] = p
    BY <1>6
  <2> QED
    BY <1>5, <2>1, <2>2, <2>3 DEF SinRepetir
<1>8. \A f \in Estado : \A i \in 1..Len(d[f]) :
         d[f][i] = p \/ \E j \in 1..Len(c[f]) : d[f][i] = c[f][j]
  BY <1>6
<1> QED
  BY <1>1, <1>2, <1>3, <1>7, <1>8, Zenon DEF d

\* The oldest PCB of a queue leaves it.
LEMMA DescabezadaSinRepetir ==
    ASSUME NEW c \in [Estado -> Seq(Pid)], NEW e \in Estado,
           SinRepetir(c), c[e] # <<>>
    PROVE  LET d == [c EXCEPT ![e] = Tail(@)] IN
           /\ d \in [Estado -> Seq(Pid)]
           /\ SinRepetir(d)
           /\ \A f \in Estado \ {e} : d[f] = c[f]
           /\ \A f \in Estado : ~Contains(d[f], Head(c[e]))
           /\ \A f \in Estado : \A i \in 1..Len(d[f]) :
                 \E j \in 1..Len(c[f]) : d[f][i] = c[f][j]
<1>. DEFINE d == [c EXCEPT ![e] = Tail(@)]
<1>1. /\ Tail(c[e]) \in Seq(Pid)
      /\ Len(Tail(c[e])) = Len(c[e]) - 1
      /\ \A i \in 1..Len(Tail(c[e])) : Tail(c[e])[i] = c[e][i + 1]
  BY HeadTailProperties
<1>2. d[e] = Tail(c[e]) /\ \A f \in Estado \ {e} : d[f] = c[f]
  OBVIOUS
<1>3. d \in [Estado -> Seq(Pid)]
  BY <1>1
<1>. HIDE DEF d
<1>4. \A f \in Estado : Len(c[f]) \in Nat
  BY LenProperties
<1>5. Len(c[e]) >= 1 /\ Head(c[e]) = c[e][1]
  BY <1>4, EmptySeq
<1>. DEFINE pos(f, i) == IF f = e THEN i + 1 ELSE i
<1>6. ASSUME NEW f \in Estado, NEW i \in 1..Len(d[f])
      PROVE  /\ pos(f, i) \in 1..Len(c[f]) /\ d[f][i] = c[f][pos(f, i)]
             /\ f = e => pos(f, i) > 1
  <2>1. CASE f = e
    <3>1. i \in 1..Len(Tail(c[e])) /\ d[f][i] = Tail(c[e])[i]
      BY <1>2, <2>1
    <3>2. d[f][i] = c[e][i + 1] /\ i + 1 \in 1..Len(c[e]) /\ i + 1 > 1
      BY <1>1, <1>4, <3>1
    <3> QED
      BY <2>1, <3>2
  <2>2. CASE f # e
    BY <1>2, <2>2
  <2> QED
    BY <2>1, <2>2
<1>7. SinRepetir(d)
  <2>1. SUFFICES ASSUME NEW f \in Estado, NEW g \in Estado,
                        NEW i \in 1..Len(d[f]), NEW j \in 1..Len(d[g]),
                        d[f][i] = d[g][j]
                 PROVE  f = g /\ i = j
    BY DEF SinRepetir
  <2>2. pos(f, i) \in 1..Len(c[f]) /\ d[f][i] = c[f][pos(f, i)]
    BY <1>6
  <2>3. pos(g, j) \in 1..Len(c[g]) /\ d[g][j] = c[g][pos(g, j)]
    BY <1>6
  <2>4. f = g /\ pos(f, i) = pos(g, j)
    <3>. HIDE DEF pos
    <3>1. \A h, l \in Estado : \A a \in 1..Len(c[h]), b \in 1..Len(c[l]) :
             c[h][a] = c[l][b] => h = l /\ a = b
      BY DEF SinRepetir
    <3>2. c[f][pos(f, i)] = c[g][pos(g, j)]
      BY <2>1, <2>2, <2>3
    <3> QED
      BY <2>2, <2>3, <3>1, <3>2, SMTT(30)
  <2> QED
    BY <2>4
<1>8. ASSUME NEW f \in Estado, Contains(d[f], Head(c[e]))
      PROVE  FALSE
  <2>1. PICK i \in 1..Len(d[f]) : d[f][i] = c[e][1]
    BY <1>5, <1>8 DEF Contains
  <2>2. pos(f, i) \in 1..Len(c[f]) /\ c[f][pos(f, i)] = c[e][1]
        /\ (f = e => pos(f, i) > 1)
    BY <1>6, <2>1
  <2>3. 1 \in 1..Len(c[e])
    BY <1>4, <1>5
  <2>. HIDE DEF pos
  <2> QED
    BY <2>2, <2>3 DEF SinRepetir
<1>9. \A f \in Estado : \A i \in 1..Len(d[f]) :
         \E j \in 1..Len(c[f]) : d[f][i] = c[f][j]
  <2>1. SUFFICES ASSUME NEW f \in Estado, NEW i \in 1..Len(d[f])
                 PROVE  \E j \in 1..Len(c[f]) : d[f][i] = c[f][j]
    OBVIOUS
  <2>2. pos(f, i) \in 1..Len(c[f]) /\ d[f][i] = c[f][pos(f, i)]
    BY <1>6
  <2>. HIDE DEF pos
  <2> QED
    BY <2>2
<1>10. \A f \in Estado : ~Contains(d[f], Head(c[e]))
  BY <1>8
<1> QED
  BY <1>2, <1>3, <1>7, <1>9, <1>10, Zenon DEF d

-----------------------------------------------------------------------------
(* The operations on the process table.                                    *)

\* The counter is the number of processes it counts.
Cuenta(k) ==
    k.cantidad = Len(k.cola["LISTO"]) + Len(k.cola["EJECUTANDO"])
               + Len(k.cola["BLOQUEADO"])

\* What every operation of the kernel preserves.
Bien(k) ==
    /\ k \in Sistema
    /\ Cuenta(k)
    /\ SinRepetir(k.cola)
    /\ Conocidos(k.cola, k.maxPID)

\* Changes to other fields leave the process table as it was.
LEMMA MismasColas ==
    ASSUME NEW k, Bien(k), NEW m \in Sistema,
           m.cola = k.cola, m.cantidad = k.cantidad, m.maxPID = k.maxPID
    PROVE  Bien(m)
BY DEF Bien, Cuenta

\* What Mover does to the record.
LEMMA MoverTipo ==
    ASSUME NEW k \in Sistema, NEW p \in Pid,
           NEW desde \in Estado, NEW hacia \in Estado, desde # hacia
    PROVE  LET m == Mover(k, p, desde, hacia) IN
           /\ m \in Sistema
           /\ m.cola = Movida(k.cola, p, desde, hacia)
           /\ m.cantidad = IF hacia = "TERMINADO" /\ desde \in EnSistema
                           THEN k.cantidad - 1 ELSE k.cantidad
           /\ m.maxPID = k.maxPID
<1>. DEFINE n == IF hacia = "TERMINADO" /\ desde \in EnSistema
                 THEN k.cantidad - 1 ELSE k.cantidad
            s == RemoveFirst(k.cola[desde], p)
            t == Append(k.cola[hacia], p)
            c == Movida(k.cola, p, desde, hacia)
<1>1. k.cola \in [Estado -> Seq(Pid)] /\ k.cantidad \in Int
  BY DEF Sistema
<1>2. s \in Seq(Pid)
  BY <1>1, QuitarTipo
<1>3. t \in Seq(Pid)
  BY <1>1, AppendProperties
<1>4. n \in Int
  BY <1>1
<1>5. c = [k.cola EXCEPT ![desde] = s, ![hacia] = t]
  BY <1>1 DEF Movida
<1>. HIDE DEF n, s, t, c
<1>6. c \in [Estado -> Seq(Pid)]
  BY <1>1, <1>2, <1>3, <1>5
<1>7. Mover(k, p, desde, hacia) = [k EXCEPT !.cola = c, !.cantidad = n]
  BY <1>1, <1>5 DEF Mover, Sistema, n, s, t
<1>8. [k EXCEPT !.cola = c, !.cantidad = n] \in Sistema
  BY <1>4, <1>6 DEF Sistema
<1>9. /\ [k EXCEPT !.cola = c, !.cantidad = n].cola = c
      /\ [k EXCEPT !.cola = c, !.cantidad = n].cantidad = n
      /\ [k EXCEPT !.cola = c, !.cantidad = n].maxPID = k.maxPID
  BY DEF Sistema
<1> QED
  BY <1>7, <1>8, <1>9 DEF n, c

\* A move between queues keeps the table in order, the counter included:
\* it changes exactly when a counted process finishes.
LEMMA MoverBien ==
    ASSUME NEW k, Bien(k), NEW p \in Pid,
           NEW desde \in Estado, NEW hacia \in Estado, desde # hacia,
           EnCola(k, p, desde),
           \/ desde = "NUEVO" /\ hacia = "TERMINADO"
           \/ desde \in EnSistema /\ hacia \in EnSistema \cup {"TERMINADO"}
    PROVE  Bien(Mover(k, p, desde, hacia))
<1>. DEFINE m == Mover(k, p, desde, hacia)
            c == k.cola
            d == Movida(c, p, desde, hacia)
<1>1. c \in [Estado -> Seq(Pid)] /\ k.cantidad \in Int /\ Contains(c[desde], p)
  BY DEF Bien, Sistema, EnCola
<1>2. /\ m \in Sistema
      /\ m.cola = d
      /\ m.cantidad = IF hacia = "TERMINADO" /\ desde \in EnSistema
                      THEN k.cantidad - 1 ELSE k.cantidad
      /\ m.maxPID = k.maxPID
  BY MoverTipo DEF Bien
<1>3. SinRepetir(c) /\ Conocidos(c, k.maxPID)
  BY DEF Bien
<1>4. k.cantidad = Len(c["LISTO"]) + Len(c["EJECUTANDO"])
                 + Len(c["BLOQUEADO"])
  BY DEF Bien, Cuenta
<1>. HIDE DEF m, c
<1>5. /\ Len(d[desde]) = Len(c[desde]) - 1
      /\ Len(d[hacia]) = Len(c[hacia]) + 1
      /\ \A e \in Estado \ {desde, hacia} : d[e] = c[e]
  BY <1>1, ColaMovida
<1>6. SinRepetir(d)
  BY <1>1, <1>3, MovidaSinRepetir
<1>7. Conocidos(d, k.maxPID)
  BY <1>1, <1>3, MovidaConocida
<1>. HIDE DEF d
<1>8. Conocidos(m.cola, m.maxPID)
  BY <1>2, <1>7
<1>9. m.cantidad = Len(d["LISTO"]) + Len(d["EJECUTANDO"])
                 + Len(d["BLOQUEADO"])
  <2>. DEFINE l(e) == IF e = desde THEN Len(c[e]) - 1
                      ELSE IF e = hacia THEN Len(c[e]) + 1 ELSE Len(c[e])
  <2>1. /\ Len(c["LISTO"]) \in Nat
        /\ Len(c["EJECUTANDO"]) \in Nat
        /\ Len(c["BLOQUEADO"]) \in Nat
    BY <1>1, LenProperties DEF Estado
  <2>2. /\ Len(d["LISTO"]) = l("LISTO")
        /\ Len(d["EJECUTANDO"]) = l("EJECUTANDO")
        /\ Len(d["BLOQUEADO"]) = l("BLOQUEADO")
    BY <1>5 DEF Estado
  <2>3. m.cantidad = l("LISTO") + l("EJECUTANDO") + l("BLOQUEADO")
    <3>. DEFINE x == Len(c["LISTO"])
                y == Len(c["EJECUTANDO"])
                z == Len(c["BLOQUEADO"])
    <3>1. x \in Int /\ y \in Int /\ z \in Int /\ k.cantidad = x + y + z
      BY <1>4, <2>1
    <3>2. /\ l("LISTO") = IF desde = "LISTO" THEN x - 1
                          ELSE IF hacia = "LISTO" THEN x + 1 ELSE x
          /\ l("EJECUTANDO") = IF desde = "EJECUTANDO" THEN y - 1
                          ELSE IF hacia = "EJECUTANDO" THEN y + 1 ELSE y
          /\ l("BLOQUEADO") = IF desde = "BLOQUEADO" THEN z - 1
                          ELSE IF hacia = "BLOQUEADO" THEN z + 1 ELSE z
      OBVIOUS
    <3>. HIDE DEF x, y, z, l
    <3>3. CASE desde = "NUEVO" /\ hacia = "TERMINADO"
      BY <1>2, <3>1, <3>2, <3>3 DEF EnSistema
    <3>4. CASE hacia = "TERMINADO" /\ desde \in EnSistema
      BY <1>2, <3>1, <3>2, <3>4 DEF EnSistema
    <3>5. CASE desde \in EnSistema /\ hacia \in EnSistema
      <4>1. m.cantidad = x + y + z
        BY <1>2, <3>1, <3>5 DEF EnSistema
      <4>2. CASE desde = "LISTO"
        BY <3>1, <3>2, <3>5, <4>1, <4>2 DEF EnSistema
      <4>3. CASE desde = "EJECUTANDO"
        BY <3>1, <3>2, <3>5, <4>1, <4>3 DEF EnSistema
      <4>4. CASE desde = "BLOQUEADO"
        BY <3>1, <3>2, <3>5, <4>1, <4>4 DEF EnSistema
      <4> QED
        BY <3>5, <4>2, <4>3, <4>4 DEF EnSistema
    <3> QED
      BY <3>3, <3>4, <3>5
  <2> QED
    BY <2>2, <2>3
<1> QED
  BY <1>2, <1>6, <1>8, <1>9 DEF Bien, Cuenta, m

\* So does a move that does nothing when planning is stopped.
LEMMA TrasladarBien ==
    ASSUME NEW k, Bien(k), NEW p \in Pid,
           NEW desde \in EnSistema, NEW hacia \in EnSistema \cup {"TERMINADO"},
           desde # hacia
    PROVE  Bien(Trasladar(k, p, desde, hacia))
BY MoverBien DEF Trasladar, Mueve, EnSistema, Estado

\* Returning the unit of a semaphore touches no queue.
LEMMA LimpiarSemaforosBien ==
    ASSUME NEW k, Bien(k), NEW p \in Pid
    PROVE  LET m == LimpiarSemaforos(k, p)
           IN  Bien(m) /\ m.cola = k.cola /\ m.activa = k.activa
<1>1. CASE k.espera[p] = NoSem
  BY <1>1 DEF LimpiarSemaforos
<1>2. CASE k.espera[p] # NoSem
  <2>. DEFINE s == k.espera[p]
              m == [k EXCEPT !.valor[s] = @ + 1, !.espera[p] = NoSem]
  <2>1. s \in Sems
    BY <1>2 DEF Bien, Sistema
  <2>2. k.valor[s] + 1 \in Int
    BY <2>1 DEF Bien, Sistema
  <2>3. LimpiarSemaforos(k, p) = m
    BY <1>2 DEF LimpiarSemaforos
  <2>. HIDE DEF s
  <2>4. m \in Sistema
    BY <2>1, <2>2 DEF Bien, Sistema
  <2>5. /\ m.cola = k.cola /\ m.cantidad = k.cantidad
        /\ m.maxPID = k.maxPID /\ m.activa = k.activa
    BY DEF Bien, Sistema
  <2> QED
    BY <2>3, <2>4, <2>5, MismasColas
<1> QED
  BY <1>1, <1>2

\* Exit codes, the console list and the pages of memory are apart from the
\* queues.
LEMMA CambioBien ==
    ASSUME NEW k, Bien(k), NEW p \in Pid, NEW code \in ExitCode
    PROVE  /\ Bien([k EXCEPT !.ec[p] = code])
           /\ Bien([k EXCEPT !.ecCopia[p] = code])
           /\ Bien(EliminarPidProgramaSocket(k, p))
           /\ Bien(PedirAMemoriaFinalizarProceso(k, p))
<1>1. /\ [k EXCEPT !.ec[p] = code] \in Sistema
      /\ [k EXCEPT !.ecCopia[p] = code] \in Sistema
      /\ EliminarPidProgramaSocket(k, p) \in Sistema
      /\ PedirAMemoriaFinalizarProceso(k, p) \in Sistema
  BY DEF Bien, Sistema, EliminarPidProgramaSocket,
         PedirAMemoriaFinalizarProceso
<1> QED
  BY <1>1, MismasColas, ZenonT(60) DEF Bien, Sistema, EliminarPidProgramaSocket,
         PedirAMemoriaFinalizarProceso

\* Telling a console leaves the table in order.
LEMMA InformarBien ==
    ASSUME NEW k, Bien(k), NEW p \in Pid, NEW code \in ExitCode
    PROVE  Bien(InformarAConsola(k, p, code))
<1>. DEFINE b == EliminarPidProgramaSocket(k, p)
            a == Append(k.avisos[p], code)
            m == [b EXCEPT !.avisos[p] = a]
<1>1. Bien(b) /\ b.avisos = k.avisos
  BY CambioBien, ZenonT(60) DEF Bien, Sistema, EliminarPidProgramaSocket
<1>2. a \in Seq(ExitCode)
  BY DEF Bien, Sistema
<1>. HIDE DEF a, b
<1>3. Bien(m)
  <2>1. m \in Sistema
    BY <1>1, <1>2 DEF Bien, Sistema
  <2>2. m.cola = b.cola /\ m.cantidad = b.cantidad /\ m.maxPID = b.maxPID
    BY <1>1 DEF Bien, Sistema
  <2> QED
    BY <1>1, <2>1, <2>2, MismasColas
<1>4. CASE p \in k.consolas
  <2>1. InformarAConsola(k, p, code) = m
    BY <1>1, <1>4 DEF InformarAConsola, Bien, Sistema, a, b
  <2> QED
    BY <1>3, <2>1
<1>5. CASE p \notin k.consolas
  BY <1>5 DEF InformarAConsola
<1> QED
  BY <1>4, <1>5

\* So does the PCB that comes back from a CPU.
LEMMA ReemplazarBien ==
    ASSUME NEW k, Bien(k), NEW p \in Pid
    PROVE  Bien(ReemplazarPcbEnEjecutando(k, p))
<1>. DEFINE x == IF EnCola(k, p, "EJECUTANDO") THEN k.ecCopia[p] ELSE k.ec[p]
<1>1. x \in ExitCode
  BY DEF Bien, Sistema
<1>2. ReemplazarPcbEnEjecutando(k, p) = [k EXCEPT !.ec[p] = x]
  BY DEF ReemplazarPcbEnEjecutando, Bien, Sistema
<1>. HIDE DEF x
<1>3. Bien([k EXCEPT !.ec[p] = x])
  BY <1>1, CambioBien
<1> QED
  BY <1>2, <1>3, Zenon

\* A new PCB has a PID that no queue has seen.
LEMMA CrearBien ==
    ASSUME NEW k, Bien(k), k.maxPID < MaxPid
    PROVE  LET m == CrearPcb(k) IN
           /\ Bien(m)
           /\ m.cola = k.cola
           /\ k.maxPID + 1 \in Pid
           /\ m.maxPID = k.maxPID + 1
           /\ \A e \in Estado : ~Contains(m.cola[e], k.maxPID + 1)
<1>. DEFINE p == k.maxPID + 1
            m == [k EXCEPT !.maxPID = p, !.ec[p] = "FINALIZADO_POR_COMANDO"]
<1>1. k.maxPID \in Nat /\ p \in Pid /\ p \in 0..MaxPid
  BY MaxPidAssumption DEF Bien, Sistema, Pid
<1>2. CrearPcb(k) = m
  BY DEF CrearPcb, Bien, Sistema
<1>3. \A e \in Estado : \A i \in 1..Len(k.cola[e]) : k.cola[e][i] <= k.maxPID
  BY DEF Bien, Conocidos
<1>4. \A e \in Estado : \A i \in 1..Len(k.cola[e]) : k.cola[e][i] \in Nat
  <2>1. \A e \in Estado : k.cola[e] \in Seq(Pid)
    BY DEF Bien, Sistema
  <2> QED
    BY <2>1, ElementOfSeq, MaxPidAssumption DEF Pid
<1>5. \A e \in Estado : \A i \in 1..Len(k.cola[e]) :
         k.cola[e][i] <= p /\ k.cola[e][i] # p
  BY <1>1, <1>3, <1>4
<1>. HIDE DEF p
<1>6. m \in Sistema
  BY <1>1 DEF Bien, Sistema, ExitCode
<1>7. m.cola = k.cola /\ m.cantidad = k.cantidad /\ m.maxPID = p
  BY DEF Bien, Sistema
<1>. HIDE DEF m
<1>8. Conocidos(m.cola, m.maxPID)
  BY <1>5, <1>7 DEF Conocidos
<1>9. \A e \in Estado : ~Contains(m.cola[e], p)
  BY <1>5, <1>7 DEF Contains
<1> QED
  BY <1>1, <1>2, <1>6, <1>7, <1>8, <1>9 DEF Bien, Cuenta, p

\* A PCB of no queue becomes ready, and is counted.
LEMMA NuevoAListosBien ==
    ASSUME NEW k, Bien(k), NEW p \in Pid, p <= k.maxPID,
           \A e \in Estado : ~Contains(k.cola[e], p)
    PROVE  Bien(NuevoAListos(k, p))
<1>. DEFINE c == k.cola
            d == Agregada(c, p, "LISTO")
            n == k.cantidad + 1
            m == [k EXCEPT !.cola = d, !.cantidad = n]
<1>1. /\ c \in [Estado -> Seq(Pid)] /\ n \in Int
      /\ SinRepetir(c) /\ Conocidos(c, k.maxPID)
  BY DEF Bien, Sistema
<1>2. k.cantidad = Len(c["LISTO"]) + Len(c["EJECUTANDO"])
                 + Len(c["BLOQUEADO"])
  BY DEF Bien, Cuenta
<1>3. k.activa => NuevoAListos(k, p) = m
  BY DEF NuevoAListos, Agregada, Bien, Sistema
<1>. HIDE DEF c
<1>. HIDE DEF m, n
<1>4. "LISTO" \in Estado /\ "EJECUTANDO" \in Estado \ {"LISTO"}
      /\ "BLOQUEADO" \in Estado \ {"LISTO"}
  BY DEF Estado
<1>5. \A e \in Estado : ~Contains(c[e], p)
  BY DEF c
<1>5a. /\ c \in [Estado -> Seq(Pid)] /\ "LISTO" \in Estado
       /\ SinRepetir(c) /\ \A f \in Estado : ~Contains(c[f], p)
  BY <1>1, <1>4, <1>5
<1>6. /\ d \in [Estado -> Seq(Pid)]
      /\ SinRepetir(d)
  BY <1>5a, AgregadaSinRepetir
<1>6a. \A f \in Estado : \A i \in 1..Len(d[f]) :
          d[f][i] = p \/ \E j \in 1..Len(c[f]) : d[f][i] = c[f][j]
  BY <1>5a, AgregadaSinRepetir
<1>6b. /\ Len(d["LISTO"]) = Len(c["LISTO"]) + 1
       /\ \A f \in Estado \ {"LISTO"} : d[f] = c[f]
  BY <1>5a, AgregadaSinRepetir
<1>. HIDE DEF d
<1>7. Conocidos(d, k.maxPID)
  BY <1>1, <1>6a, ZenonT(60) DEF Conocidos
<1>8. \A e \in Estado : Len(c[e]) \in Nat
  BY <1>1, LenProperties
<1>9. n = Len(d["LISTO"]) + Len(d["EJECUTANDO"]) + Len(d["BLOQUEADO"])
  <2>1. Len(d["EJECUTANDO"]) = Len(c["EJECUTANDO"])
        /\ Len(d["BLOQUEADO"]) = Len(c["BLOQUEADO"])
    BY <1>4, <1>6b
  <2>2. Len(c["LISTO"]) \in Nat /\ Len(c["EJECUTANDO"]) \in Nat
        /\ Len(c["BLOQUEADO"]) \in Nat
    BY <1>4, <1>8
  <2>3. Len(d["LISTO"]) = Len(c["LISTO"]) + 1
    BY <1>6b
  <2> QED
    <3>. DEFINE x == Len(c["LISTO"])
                y == Len(c["EJECUTANDO"])
                z == Len(c["BLOQUEADO"])
    <3>1. x \in Int /\ y \in Int /\ z \in Int /\ n = x + y + z + 1
      BY <1>2, <2>2 DEF n
    <3>. HIDE DEF x, y, z
    <3>2. n = (x + 1) + y + z
      BY <3>1
    <3> QED
      BY <2>1, <2>3, <3>2 DEF x, y, z
<1>10. m \in Sistema
  BY <1>1, <1>6 DEF Bien, Sistema, m
<1>11. m.cola = d /\ m.cantidad = n /\ m.maxPID = k.maxPID
  BY DEF Bien, Sistema, m
<1>12. Bien(m)
  BY <1>6, <1>7, <1>9, <1>10, <1>11 DEF Bien, Cuenta
<1> QED
  BY <1>3, <1>12 DEF NuevoAListos

\* Every way a process changes queue.
LEMMA PasosBien ==
    ASSUME NEW k, Bien(k), NEW p \in Pid
    PROVE  /\ Bien(ListosAEjecutando(k, p))
           /\ Bien(EjecutandoAListos(k, p))
           /\ Bien(BloqueadoAListo(k, p))
           /\ Bien(EjecutandoABloqueados(k, p))
           /\ Bien(ListoAFinalizados(k, p))
BY TrasladarBien DEF ListosAEjecutando, EjecutandoAListos, BloqueadoAListo,
   EjecutandoABloqueados, ListoAFinalizados, EnSistema

\* A process that finishes after its semaphore was looked at.
LEMMA LimpiarYMoverBien ==
    ASSUME NEW k, Bien(k), NEW p \in Pid, NEW desde \in EnSistema,
           EnCola(k, p, desde)
    PROVE  Bien(Mover(LimpiarSemaforos(k, p), p, desde, "TERMINADO"))
<1>. DEFINE m == LimpiarSemaforos(k, p)
<1>1. Bien(m) /\ m.cola = k.cola
  BY LimpiarSemaforosBien
<1>. HIDE DEF m
<1>2. EnCola(m, p, desde)
  BY <1>1 DEF EnCola
<1>3. desde \in Estado /\ "TERMINADO" \in Estado /\ desde # "TERMINADO"
  BY DEF EnSistema, Estado
<1>4. Bien(Mover(m, p, desde, "TERMINADO"))
  BY <1>1, <1>2, <1>3, MoverBien
<1> QED
  BY <1>4 DEF m

\* Every way a process finishes.
LEMMA FinalizarBien ==
    ASSUME NEW k, Bien(k), NEW p \in Pid, NEW code \in ExitCode
    PROVE  /\ Bien(NuevoAFinalizados(k, p, code))
           /\ Bien(EjecutandoAFinalizados(k, p))
           /\ Bien(BloqueadoAFinalizados(k, p, code))
           /\ \A e \in Estado \ {"TERMINADO"} : Bien(AFinalizados(k, p, e))
<1>1. EnCola(k, p, "NUEVO") => Bien(Mover(k, p, "NUEVO", "TERMINADO"))
  BY MoverBien DEF Estado
<1>2. \A e \in EnSistema : EnCola(k, p, e) =>
         Bien(Mover(LimpiarSemaforos(k, p), p, e, "TERMINADO"))
  BY LimpiarYMoverBien
<1>3. Bien(NuevoAFinalizados(k, p, code))
  BY <1>1, CambioBien DEF NuevoAFinalizados, Mueve
<1>4. Bien(EjecutandoAFinalizados(k, p))
  BY <1>2 DEF EjecutandoAFinalizados, Mueve, EnSistema
<1>5. Bien(BloqueadoAFinalizados(k, p, code))
  BY <1>2, CambioBien DEF BloqueadoAFinalizados, Mueve, EnSistema
<1>6. ASSUME NEW e \in Estado \ {"TERMINADO"}
      PROVE  Bien(AFinalizados(k, p, e))
  <2>1. CASE ~Mueve(k, p, e)
    BY <2>1 DEF AFinalizados
  <2>2. CASE Mueve(k, p, e) /\ e = "NUEVO"
    BY <1>1, <2>2 DEF AFinalizados, Mueve
  <2>3. CASE Mueve(k, p, e) /\ e # "NUEVO"
    <3>1. e \in EnSistema
      BY <2>3 DEF Estado, EnSistema
    <3> QED
      BY <1>2, <2>3, <3>1 DEF AFinalizados, Mueve
  <2> QED
    BY <2>1, <2>2, <2>3
<1> QED
  BY <1>3, <1>4, <1>5, <1>6

-----------------------------------------------------------------------------
(* Where every PCB is after an operation, and what the operation leaves    *)
(* alone.                                                                  *)

\* What a list holds after list_add, after its first element left, and after
\* list_remove of another element.
LEMMA Pertenencia ==
    ASSUME NEW T, NEW s \in Seq(T), NEW a \in T, NEW b
    PROVE  /\ Contains(Append(s, a), b) <=> Contains(s, b) \/ b = a
           /\ s # <<>> => (Contains(s, b) <=> Contains(Tail(s), b) \/ b = Head(s))
           /\ b # a => (Contains(RemoveFirst(s, a), b) <=> Contains(s, b))
<1>1. Len(s) \in Nat
  BY LenProperties
<1>2. Contains(Append(s, a), b) <=> Contains(s, b) \/ b = a
  <2>1. /\ Append(s, a) \in Seq(T)
        /\ Len(Append(s, a)) = Len(s) + 1
        /\ \A i \in 1..Len(s) : Append(s, a)[i] = s[i]
        /\ Append(s, a)[Len(s) + 1] = a
    BY AppendProperties
  <2>. DEFINE t == Append(s, a)
  <2>. HIDE DEF t
  <2>2. \A i \in 1..Len(s) + 1 : i \in 1..Len(s) \/ i = Len(s) + 1
    BY <1>1
  <2>3. Len(s) + 1 \in 1..Len(s) + 1 /\ \A i \in 1..Len(s) : i \in 1..Len(s) + 1
    BY <1>1
  <2> QED
    BY <2>1, <2>2, <2>3 DEF Contains, t
<1>3. ASSUME s # <<>>
      PROVE  Contains(s, b) <=> Contains(Tail(s), b) \/ b = Head(s)
  <2>1. /\ Tail(s) \in Seq(T)
        /\ Len(Tail(s)) = Len(s) - 1
        /\ \A i \in 1..Len(Tail(s)) : Tail(s)[i] = s[i + 1]
    BY <1>3, HeadTailProperties
  <2>2. Head(s) = s[1] /\ Len(s) >= 1
    BY <1>1, <1>3, EmptySeq
  <2>. DEFINE t == Tail(s)
  <2>3. ASSUME Contains(s, b)
        PROVE  Contains(t, b) \/ b = Head(s)
    <3>1. PICK i \in 1..Len(s) : s[i] = b
      BY <2>3 DEF Contains
    <3>2. CASE i = 1
      BY <2>2, <3>1, <3>2
    <3>3. CASE i # 1
      <4>1. i - 1 \in 1..Len(t) /\ (i - 1) + 1 = i
        BY <1>1, <2>1, <3>1, <3>3
      <4>2. t[i - 1] = s[i]
        BY <2>1, <4>1
      <4> QED
        BY <3>1, <4>1, <4>2 DEF Contains
    <3> QED
      BY <3>2, <3>3
  <2>4. ASSUME Contains(t, b)
        PROVE  Contains(s, b)
    <3>1. PICK i \in 1..Len(t) : t[i] = b
      BY <2>4 DEF Contains
    <3>2. i + 1 \in 1..Len(s) /\ s[i + 1] = b
      BY <1>1, <2>1, <3>1
    <3> QED
      BY <3>2 DEF Contains
  <2>5. ASSUME b = Head(s)
        PROVE  Contains(s, b)
    <3>1. 1 \in 1..Len(s)
      BY <1>1, <2>2
    <3> QED
      BY <2>2, <2>5, <3>1 DEF Contains
  <2> QED
    BY <2>3, <2>4, <2>5
<1>4. ASSUME b # a
      PROVE  Contains(RemoveFirst(s, a), b) <=> Contains(s, b)
  <2>1. CASE ~Contains(s, a)
    BY <2>1 DEF RemoveFirst, Contains
  <2>2. CASE Contains(s, a)
    <3>. DEFINE t == RemoveFirst(s, a)
    <3>1. t \in Seq(T) /\ Len(t) = Len(s) - 1
      BY <2>2, QuitarPrimero
    <3>2. PICK i \in 1..Len(s) :
             /\ s[i] = a
             /\ \A j \in 1..Len(s) - 1 : t[j] = s[IF j < i THEN j ELSE j + 1]
      BY <2>2, QuitarPrimero
    <3>. HIDE DEF t
    <3>3. ASSUME Contains(t, b)
          PROVE  Contains(s, b)
      <4>1. PICK j \in 1..Len(t) : t[j] = b
        BY <3>3 DEF Contains
      <4>. DEFINE l == IF j < i THEN j ELSE j + 1
      <4>2. l \in 1..Len(s) /\ s[l] = b
        BY <1>1, <3>1, <3>2, <4>1
      <4>. HIDE DEF l
      <4> QED
        BY <4>2 DEF Contains
    <3>4. ASSUME Contains(s, b)
          PROVE  Contains(t, b)
      <4>1. PICK l \in 1..Len(s) : s[l] = b
        BY <3>4 DEF Contains
      <4>2. l # i
        BY <1>4, <3>2, <4>1
      <4>. DEFINE j == IF l < i THEN l ELSE l - 1
      <4>3. j \in 1..Len(s) - 1 /\ (IF j < i THEN j ELSE j + 1) = l
        BY <1>1, <3>2, <4>1, <4>2
      <4>. HIDE DEF j
      <4>4. t[j] = b
        BY <3>2, <4>1, <4>3
      <4> QED
        BY <3>1, <4>3, <4>4 DEF Contains
    <3> QED
      BY <3>3, <3>4 DEF t
  <2> QED
    BY <2>1, <2>2
<1> QED
  BY <1>2, <1>3, <1>4

\* A PCB is in one queue.
LEMMA UnaCola ==
    ASSUME NEW k, Bien(k), NEW p, NEW e \in Estado, NEW f \in Estado,
           EnCola(k, p, e), EnCola(k, p, f)
    PROVE  e = f
<1>1. PICK i \in 1..Len(k.cola[e]) : k.cola[e][i] = p
  BY DEF EnCola, Contains
<1>2. PICK j \in 1..Len(k.cola[f]) : k.cola[f][j] = p
  BY DEF EnCola, Contains
<1> QED
  BY <1>1, <1>2 DEF Bien, SinRepetir

\* Where every PCB is after a move.
LEMMA MoverDonde ==
    ASSUME NEW k, Bien(k), NEW p \in Pid,
           NEW desde \in Estado, NEW hacia \in Estado, desde # hacia,
           EnCola(k, p, desde),
           \/ desde = "NUEVO" /\ hacia = "TERMINADO"
           \/ desde \in EnSistema /\ hacia \in EnSistema \cup {"TERMINADO"}
    PROVE  \A q \in Pid, e \in Estado :
              EnCola(Mover(k, p, desde, hacia), q, e) <=>
                  IF q = p THEN e = hacia ELSE EnCola(k, q, e)
<1>. DEFINE m == Mover(k, p, desde, hacia)
<1>1. Bien(m)
  BY MoverBien
<1>2. m.cola = Movida(k.cola, p, desde, hacia)
  BY MoverTipo DEF Bien
<1>3. k.cola \in [Estado -> Seq(Pid)]
  BY DEF Bien, Sistema
<1>. HIDE DEF m
<1>4. /\ m.cola[desde] = RemoveFirst(k.cola[desde], p)
      /\ m.cola[hacia] = Append(k.cola[hacia], p)
      /\ \A e \in Estado \ {desde, hacia} : m.cola[e] = k.cola[e]
  BY <1>2, <1>3 DEF Movida
<1>5. ASSUME NEW q \in Pid
      PROVE  /\ EnCola(m, q, hacia) <=> EnCola(k, q, hacia) \/ q = p
             /\ q # p => (EnCola(m, q, desde) <=> EnCola(k, q, desde))
             /\ \A e \in Estado \ {desde, hacia} :
                   EnCola(m, q, e) <=> EnCola(k, q, e)
  <2>1. k.cola[desde] \in Seq(Pid) /\ k.cola[hacia] \in Seq(Pid)
    BY <1>3
  <2> QED
    BY <1>4, <2>1, Pertenencia DEF EnCola
<1>6. \A e \in Estado : EnCola(m, p, e) <=> e = hacia
  BY <1>1, <1>5, UnaCola
<1>7. ASSUME NEW q \in Pid, NEW e \in Estado, q # p
      PROVE  EnCola(m, q, e) <=> EnCola(k, q, e)
  BY <1>5, <1>7
<1> QED
  BY <1>6, <1>7 DEF m

\* A PCB of no queue enters one.
LEMMA AgregadaDonde ==
    ASSUME NEW c \in [Estado -> Seq(Pid)], NEW p \in Pid, NEW e \in Estado
    PROVE  \A q \in Pid, f \in Estado :
              Contains(Agregada(c, p, e)[f], q) <=>
                  Contains(c[f], q) \/ (q = p /\ f = e)
<1>. DEFINE d == Agregada(c, p, e)
<1>1. d[e] = Append(c[e], p) /\ \A f \in Estado \ {e} : d[f] = c[f]
  BY DEF Agregada
<1>. HIDE DEF d
<1>2. ASSUME NEW q \in Pid, NEW f \in Estado
      PROVE  Contains(d[f], q) <=> Contains(c[f], q) \/ (q = p /\ f = e)
  <2>1. CASE f = e
    <3>1. c[e] \in Seq(Pid)
      OBVIOUS
    <3>2. Contains(Append(c[e], p), q) <=> Contains(c[e], q) \/ q = p
      BY <3>1, Pertenencia
    <3> QED
      BY <1>1, <2>1, <3>2
  <2>2. CASE f # e
    <3>1. d[f] = c[f]
      BY <1>1, <2>2
    <3> QED
      BY <2>2, <3>1
  <2> QED
    BY <2>1, <2>2
<1> QED
  BY <1>2 DEF d

\* What a change of queue leaves as it was.
MismoResto(k, m) ==
    /\ m.maxPID = k.maxPID /\ m.activa = k.activa /\ m.vivo = k.vivo
    /\ m.libres = k.libres /\ m.ocupadas = k.ocupadas
    /\ m.pidEn = k.pidEn /\ m.enCpu = k.enCpu /\ m.modo = k.modo
    /\ m.ecCopia = k.ecCopia /\ m.destruir = k.destruir
    /\ m.consolas = k.consolas /\ m.consola = k.consola
    /\ m.avisos = k.avisos /\ m.paginas = k.paginas

\* p is in queue e of m, and the others are where k had them.
Traslado(k, m, p, e) ==
    /\ MismoResto(k, m)
    /\ \A q \in Pid, f \in Estado :
          EnCola(m, q, f) <=> IF q = p THEN f = e ELSE EnCola(k, q, f)

\* list_remove and list_add.
LEMMA MoverTraslada ==
    ASSUME NEW k, Bien(k), NEW p \in Pid,
           NEW desde \in Estado, NEW hacia \in Estado, desde # hacia,
           EnCola(k, p, desde),
           \/ desde = "NUEVO" /\ hacia = "TERMINADO"
           \/ desde \in EnSistema /\ hacia \in EnSistema \cup {"TERMINADO"}
    PROVE  LET m == Mover(k, p, desde, hacia)
           IN  Traslado(k, m, p, hacia) /\ m.ec = k.ec
<1>1. MismoResto(k, Mover(k, p, desde, hacia))
  BY DEF Mover, MismoResto, Bien, Sistema
<1>2. Mover(k, p, desde, hacia).ec = k.ec
  BY DEF Mover, Bien, Sistema
<1> QED
  BY <1>1, <1>2, MoverDonde DEF Traslado

\* The unit of a semaphore.
LEMMA LimpiarTraslada ==
    ASSUME NEW k, Bien(k), NEW p \in Pid
    PROVE  LET m == LimpiarSemaforos(k, p)
           IN  MismoResto(k, m) /\ m.cola = k.cola /\ m.ec = k.ec
<1>1. MismoResto(k, LimpiarSemaforos(k, p))
  BY DEF LimpiarSemaforos, MismoResto, Bien, Sistema
<1> QED
  BY <1>1 DEF LimpiarSemaforos, Bien, Sistema

\* A process that finishes after its semaphore was looked at.
LEMMA LimpiarYMoverTraslada ==
    ASSUME NEW k, Bien(k), NEW p \in Pid, NEW desde \in EnSistema,
           EnCola(k, p, desde)
    PROVE  LET m == Mover(LimpiarSemaforos(k, p), p, desde, "TERMINADO")
           IN  Traslado(k, m, p, "TERMINADO") /\ m.ec = k.ec
<1>. DEFINE l == LimpiarSemaforos(k, p)
            m == Mover(l, p, desde, "TERMINADO")
<1>1. Bien(l) /\ MismoResto(k, l) /\ l.cola = k.cola /\ l.ec = k.ec
  BY LimpiarTraslada, LimpiarSemaforosBien
<1>. HIDE DEF l
<1>2. \A q, f : EnCola(l, q, f) <=> EnCola(k, q, f)
  BY <1>1 DEF EnCola
<1>3. desde \in Estado /\ "TERMINADO" \in Estado /\ desde # "TERMINADO"
  BY DEF EnSistema, Estado
<1>4. Traslado(l, m, p, "TERMINADO") /\ m.ec = l.ec
  BY <1>1, <1>2, <1>3, MoverTraslada
<1>. HIDE DEF m
<1> QED
  BY <1>1, <1>2, <1>4 DEF Traslado, MismoResto, m, l

\* Every way a process changes queue.
LEMMA PasosTrasladan ==
    ASSUME NEW k, Bien(k), NEW p \in Pid,
           NEW desde \in EnSistema, NEW hacia \in EnSistema \cup {"TERMINADO"},
           desde # hacia
    PROVE  LET m == Trasladar(k, p, desde, hacia)
           IN  /\ m.ec = k.ec
               /\ IF Mueve(k, p, desde) THEN Traslado(k, m, p, hacia)
                  ELSE m = k
BY MoverTraslada DEF Trasladar, Mueve, EnSistema, Estado

\* Every way a process finishes.
LEMMA FinalizarTraslada ==
    ASSUME NEW k, Bien(k), NEW p \in Pid, NEW code \in ExitCode
    PROVE  /\ LET m == NuevoAFinalizados(k, p, code)
              IN  IF Mueve(k, p, "NUEVO")
                  THEN /\ Traslado(k, m, p, "TERMINADO")
                       /\ m.ec = [k.ec EXCEPT ![p] = code]
                  ELSE m = k
           /\ LET m == EjecutandoAFinalizados(k, p)
              IN  IF Mueve(k, p, "EJECUTANDO")
                  THEN Traslado(k, m, p, "TERMINADO") /\ m.ec = k.ec
                  ELSE m = k
           /\ LET m == BloqueadoAFinalizados(k, p, code)
              IN  IF Mueve(k, p, "BLOQUEADO")
                  THEN /\ Traslado(k, m, p, "TERMINADO")
                       /\ m.ec = [k.ec EXCEPT ![p] = code]
                  ELSE m = k
           /\ \A e \in Estado \ {"TERMINADO"} :
                 LET m == AFinalizados(k, p, e)
                 IN  IF Mueve(k, p, e)
                     THEN Traslado(k, m, p, "TERMINADO") /\ m.ec = k.ec
                     ELSE m = k
<1>1. ASSUME EnCola(k, p, "NUEVO")
      PROVE  LET m == Mover(k, p, "NUEVO", "TERMINADO")
             IN  Bien(m) /\ Traslado(k, m, p, "TERMINADO") /\ m.ec = k.ec
  BY <1>1, MoverBien, MoverTraslada DEF Estado
<1>2. ASSUME NEW e \in EnSistema, EnCola(k, p, e)
      PROVE  LET m == Mover(LimpiarSemaforos(k, p), p, e, "TERMINADO")
             IN  Bien(m) /\ Traslado(k, m, p, "TERMINADO") /\ m.ec = k.ec
  BY <1>2, LimpiarYMoverBien, LimpiarYMoverTraslada
<1>3. ASSUME NEW m, Bien(m), Traslado(k, m, p, "TERMINADO"), m.ec = k.ec
      PROVE  LET n == [m EXCEPT !.ec[p] = code]
             IN  /\ Traslado(k, n, p, "TERMINADO")
                 /\ n.ec = [k.ec EXCEPT ![p] = code]
  <2>. DEFINE n == [m EXCEPT !.ec[p] = code]
  <2>1. MismoResto(m, n) /\ n.cola = m.cola /\ n.ec = [m.ec EXCEPT ![p] = code]
    BY <1>3 DEF MismoResto, Bien, Sistema
  <2>. HIDE DEF n
  <2>2. \A q, f : EnCola(n, q, f) <=> EnCola(m, q, f)
    BY <2>1 DEF EnCola
  <2> QED
    BY <1>3, <2>1, <2>2 DEF Traslado, MismoResto, n
<1>4. LET m == NuevoAFinalizados(k, p, code)
      IN  IF Mueve(k, p, "NUEVO")
          THEN /\ Traslado(k, m, p, "TERMINADO")
               /\ m.ec = [k.ec EXCEPT ![p] = code]
          ELSE m = k
  BY <1>1, <1>3 DEF NuevoAFinalizados, Mueve
<1>5. LET m == EjecutandoAFinalizados(k, p)
      IN  IF Mueve(k, p, "EJECUTANDO")
          THEN Traslado(k, m, p, "TERMINADO") /\ m.ec = k.ec
          ELSE m = k
  BY <1>2 DEF EjecutandoAFinalizados, Mueve, EnSistema
<1>6. LET m == BloqueadoAFinalizados(k, p, code)
      IN  IF Mueve(k, p, "BLOQUEADO")
          THEN /\ Traslado(k, m, p, "TERMINADO")
               /\ m.ec = [k.ec EXCEPT ![p] = code]
          ELSE m = k
  BY <1>2, <1>3 DEF BloqueadoAFinalizados, Mueve, EnSistema
<1>7. ASSUME NEW e \in Estado \ {"TERMINADO"}
      PROVE  LET m == AFinalizados(k, p, e)
             IN  IF Mueve(k, p, e)
                 THEN Traslado(k, m, p, "TERMINADO") /\ m.ec = k.ec
                 ELSE m = k
  <2>1. CASE ~Mueve(k, p, e)
    BY <2>1 DEF AFinalizados
  <2>2. CASE Mueve(k, p, e) /\ e = "NUEVO"
    BY <1>1, <2>2 DEF AFinalizados, Mueve
  <2>3. CASE Mueve(k, p, e) /\ e # "NUEVO"
    <3>1. e \in EnSistema
      BY <2>3 DEF Estado, EnSistema
    <3> QED
      BY <1>2, <2>3, <3>1 DEF AFinalizados, Mueve
  <2> QED
    BY <2>1, <2>2, <2>3
<1> QED
  BY <1>4, <1>5, <1>6, <1>7

\* A PCB of no queue becomes ready.
LEMMA NuevoAListosTraslada ==
    ASSUME NEW k, Bien(k), NEW p \in Pid,
           \A e \in Estado : ~Contains(k.cola[e], p)
    PROVE  LET m == NuevoAListos(k, p)
           IN  /\ m.ec = k.ec
               /\ IF k.activa THEN Traslado(k, m, p, "LISTO") ELSE m = k
<1>. DEFINE c == k.cola
            m == NuevoAListos(k, p)
<1>1. CASE ~k.activa
  BY <1>1 DEF NuevoAListos
<1>2. CASE k.activa
  <2>1. /\ c \in [Estado -> Seq(Pid)] /\ "LISTO" \in Estado
        /\ \A e \in Estado : ~Contains(c[e], p)
    BY DEF Bien, Sistema, Estado
  <2>2. /\ m.cola = Agregada(c, p, "LISTO") /\ m.ec = k.ec
        /\ MismoResto(k, m)
    BY <1>2 DEF NuevoAListos, Agregada, MismoResto, Bien, Sistema
  <2>3. \A q \in Pid, f \in Estado :
           Contains(Agregada(c, p, "LISTO")[f], q) <=>
               Contains(c[f], q) \/ (q = p /\ f = "LISTO")
    BY <2>1, AgregadaDonde
  <2>. HIDE DEF m
  <2>4. ASSUME NEW q \in Pid, NEW f \in Estado
        PROVE  EnCola(m, q, f) <=>
                  IF q = p THEN f = "LISTO" ELSE EnCola(k, q, f)
    BY <2>1, <2>2, <2>3 DEF EnCola
  <2> QED
    BY <1>2, <2>2, <2>4 DEF Traslado, m
<1> QED
  BY <1>1, <1>2

\* The oldest NEW process is in no queue once it left colaNuevos.
LEMMA QuitadoDonde ==
    ASSUME NEW k, Bien(k), k.cola["NUEVO"] # <<>>
    PROVE  LET m == [k EXCEPT !.cola["NUEVO"] = Tail(@)]
           IN  /\ MismoResto(k, m) /\ m.ec = k.ec
               /\ EnCola(k, Head(k.cola["NUEVO"]), "NUEVO")
               /\ \A q \in Pid, f \in Estado :
                     EnCola(m, q, f) <=>
                        EnCola(k, q, f) /\ q # Head(k.cola["NUEVO"])
<1>. DEFINE c == k.cola
            p == Head(c["NUEVO"])
            d == [c EXCEPT !["NUEVO"] = Tail(@)]
            m == [k EXCEPT !.cola["NUEVO"] = Tail(@)]
<1>1. /\ c \in [Estado -> Seq(Pid)] /\ SinRepetir(c)
      /\ c["NUEVO"] # <<>> /\ "NUEVO" \in Estado
  BY DEF Bien, Sistema, Estado
<1>2. m.cola = d /\ MismoResto(k, m) /\ m.ec = k.ec
  BY DEF MismoResto, Bien, Sistema
<1>. HIDE DEF c, m
<1>3. /\ d["NUEVO"] = Tail(c["NUEVO"])
      /\ \A f \in Estado \ {"NUEVO"} : d[f] = c[f]
  BY <1>1
<1>4. \A f \in Estado : ~Contains(d[f], p)
  BY <1>1, DescabezadaSinRepetir
<1>5. \A b : Contains(c["NUEVO"], b) <=> Contains(Tail(c["NUEVO"]), b) \/ b = p
  <2>1. c["NUEVO"] \in Seq(Pid) /\ 1 \in Pid
    BY <1>1, MaxPidAssumption DEF Pid
  <2> QED
    BY <1>1, <2>1, Pertenencia
<1>. HIDE DEF d, p
<1>6. EnCola(k, p, "NUEVO")
  BY <1>5 DEF EnCola, c
<1>7. ASSUME NEW q \in Pid, NEW f \in Estado
      PROVE  EnCola(m, q, f) <=> EnCola(k, q, f) /\ q # p
  <2>1. EnCola(m, q, f) <=> Contains(d[f], q)
    BY <1>2 DEF EnCola
  <2>2. EnCola(k, q, f) <=> Contains(c[f], q)
    BY DEF EnCola, c
  <2>3. CASE q = p
    BY <1>4, <2>1, <2>3
  <2>4. CASE q # p /\ f = "NUEVO"
    BY <1>3, <1>5, <2>1, <2>2, <2>4
  <2>5. CASE q # p /\ f # "NUEVO"
    <3>1. d[f] = c[f]
      BY <1>3, <2>5
    <3>2. EnCola(k, p, f) => f = "NUEVO"
      BY <1>1, <1>6, UnaCola
    <3> QED
      BY <2>1, <2>2, <2>5, <3>1
  <2> QED
    BY <2>3, <2>4, <2>5
<1> QED
  BY <1>2, <1>6, <1>7 DEF m, p, c
====

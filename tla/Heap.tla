------------------------------- MODULE Heap ---------------------------------
(***************************************************************************)
(* The heap of the programs: the kernel's table of pages and their blocks, *)
(* and the pages memory has for each program, which memory numbers by how  *)
(* many there are and the kernel by the largest it knows.  The kernel has  *)
(* one thread; after it answers a liberar it compacts the page, one round  *)
(* trip with memory at a time, before it takes the next request.           *)
(***************************************************************************)
EXTENDS Integers, SequencesExt

CONSTANTS
    Procesos,       \* PIDs
    TamanioPagina,  \* MARCO_SIZE
    TamMetadata,    \* METADATA_BLOQUE_SIZE
    PaginasFijas,   \* the pages of code and stack of each program
    Marcos,         \* frames memory has for heap pages
    Pedidos,        \* the sizes programs ask for
    MaxPagina,      \* bound: page numbers
    Eventos         \* the disturbances this instance lets happen

Disturbios == {"mismoNumero", "hueco"}

\* A header has five bytes, a size and a flag.
ASSUME TamaniosAssumption ==
    TamanioPagina \in Nat /\ TamMetadata \in Nat \ {0} /\ TamMetadata <= TamanioPagina
ASSUME HeapCotasAssumption == Marcos \in Nat /\ MaxPagina \in Nat
ASSUME ProcesosAssumption == Procesos \subseteq Nat
ASSUME PedidosAssumption == Pedidos \subseteq Nat
ASSUME PaginasFijasAssumption == PaginasFijas \in [Procesos -> 0..(MaxPagina + 1)]
ASSUME HeapEventosAssumption == Eventos \subseteq Disturbios

VARIABLES
    tablaHeap,      \* nodo_tabla_heap: pid, number, blocks
    compactando,    \* the page compactar is at, 0 for none
    paginasDe,      \* memory: how many frames hold page k of each program
    marcosLibres,   \* memory: frames left
    estado,         \* of each program: vivo, rechazado, terminado
    contestado      \* the last answer to a CPU

memoria == <<paginasDe, marcosLibres>>
vars == <<tablaHeap, compactando, memoria, estado, contestado>>

Nadie == -1     \* the PID and number of the pages of a program that ended

Init ==
    /\ tablaHeap = <<>>
    /\ compactando = 0
    /\ paginasDe = [p \in Procesos |->
                        [k \in 0..MaxPagina |-> IF k < PaginasFijas[p] THEN 1 ELSE 0]]
    /\ marcosLibres = Marcos
    /\ estado = [p \in Procesos |-> "vivo"]
    /\ contestado = [que |-> "nada"]

-----------------------------------------------------------------------------
(* Memory: see Memoria for the requests in detail.                         *)

\* The entries of the inverted table with the PID of the program.
Entradas(p) == UNION {{k} \X (1..paginasDe[p][k]) : k \in 0..MaxPagina}
CuantasPaginas(p) == Cardinality(Entradas(p))
EnMemoria(p, k) == k \in 0..MaxPagina /\ paginasDe[p][k] > 0

AsignarPaginaDeHeap(p) ==
    /\ paginasDe' = [paginasDe EXCEPT ![p][CuantasPaginas(p)] = @ + 1]
    /\ marcosLibres' = marcosLibres - 1

\* Mutant: memory keeps the page in its table.
DefectoLiberarPagina(p, k) ==
    /\ marcosLibres' = marcosLibres + 1
    /\ UNCHANGED paginasDe

LiberarPagina(p, k) ==
    /\ paginasDe' = [paginasDe EXCEPT ![p][k] = @ - 1]
    /\ marcosLibres' = marcosLibres + 1

-----------------------------------------------------------------------------
(* A page.                                                                 *)

Bloque(o, t, u, e) == [offset |-> o, size |-> t, isUsed |-> u, especial |-> e]
Especial(o, t) == Bloque(o, t, FALSE, TRUE)
PaginaVacia == <<Especial(TamMetadata, TamanioPagina - TamMetadata)>>

\* The block fits n bytes: the special one, at the end, is always split.
Cabe(b, n) == ~b.isUsed /\ b.size >= (IF b.especial THEN n + TamMetadata ELSE n)
BloquesQueCaben(s, n) == {j \in 1..Len(s) : Cabe(s[j], n)}
PrimerBloque(s, n) ==
    CHOOSE j \in BloquesQueCaben(s, n) : \A k \in BloquesQueCaben(s, n) : j <= k

\* crear_nuevo_bloque, recalcular_offset_final: n bytes at the start of the
\* special block j, which moves after them.
PartirEspecial(s, j, n) ==
    RemoveAt(s, j) \o
        << Bloque(s[j].offset, n, TRUE, FALSE),
           Especial(s[j].offset + n + TamMetadata, s[j].size - n - TamMetadata) >>

\* A free block that is taken whole, or in part when something is left.
Sobra(b, n) == b.size > n + TamMetadata
\* Mutant: the header of what is left is not counted.
DefectoResto(b, n) == Bloque(b.offset + n, b.size - n, FALSE, FALSE)

Resto(b, n) ==
    Bloque(b.offset + n + TamMetadata, b.size - n - TamMetadata, FALSE, FALSE)
Tomar(s, j, t) == [s EXCEPT ![j] = Bloque(@.offset, t, TRUE, FALSE)]

-----------------------------------------------------------------------------
(* The table of pages.                                                     *)

\* buscar_pagina
buscar_pagina(p, k) == SelectInSeq(tablaHeap, LAMBDA g : g.pid = p /\ g.numero = k)

\* check_existe_pagina_con_espacio: the first page of the program, 0 if none
PaginaConEspacio(p, n) ==
    SelectInSeq(tablaHeap, LAMBDA g : g.pid = p /\ BloquesQueCaben(g.bloques, n) # {})

\* buscar_primer_bloque_libre looks at the number of the page, not at its PID.
PaginaQueSeToma(k, n) ==
    SelectInSeq(tablaHeap, LAMBDA g : g.numero = k /\ BloquesQueCaben(g.bloques, n) # {})

\* buscar_indice_bloque, 0 if none
buscar_indice_bloque(g, o) == SelectInSeq(g.bloques, LAMBDA b : b.offset = o)

\* calcular_numero_nuevapagina
NumeroNuevo(p) ==
    Max({PaginasFijas[p]} \cup
        {tablaHeap[i].numero + 1 : i \in {j \in 1..Len(tablaHeap) : tablaHeap[j].pid = p}})

Direccion(k, o) == k * TamanioPagina + o

-----------------------------------------------------------------------------
(* pedido_bloque_memoria: asignar_paginas_heap.                            *)

Libre(p) == compactando = 0 /\ estado[p] = "vivo"
Rechazar(p, n) ==
    /\ contestado' = [que |-> "PEDIDO_MEMORIA_RECHAZADO", pid |-> p, bytes |-> n]
    /\ estado' = [estado EXCEPT ![p] = "rechazado"]
Enviar(p, n, k, o) ==
    /\ contestado' = [que |-> "DIRECCION_ENVIADA", pid |-> p, bytes |-> n,
                      dir |-> Direccion(k, o)]
    /\ UNCHANGED estado

ReservarMuyGrande(p, n) ==
    /\ Libre(p) /\ n + 2 * TamMetadata > TamanioPagina
    /\ Rechazar(p, n)
    /\ UNCHANGED <<tablaHeap, compactando, memoria>>

Entra(p, n) == Libre(p) /\ n + 2 * TamMetadata <= TamanioPagina

\* The block may come from the page of another program with that number, and
\* what is left of it goes after the block of the own page at that offset.
ReservarEnPagina(p, n) ==
    LET propia == PaginaConEspacio(p, n)
        k == tablaHeap[propia].numero
        tomada == PaginaQueSeToma(k, n)
        s == tablaHeap[tomada].bloques
        j == PrimerBloque(s, n)
        i == buscar_indice_bloque(tablaHeap[propia], s[j].offset)
        parte == ~s[j].especial /\ Sobra(s[j], n) /\ i # 0
        tras == IF s[j].especial THEN PartirEspecial(s, j, n)
                ELSE Tomar(s, j, IF parte THEN n ELSE s[j].size)
        t == [tablaHeap EXCEPT ![tomada].bloques = tras]
    IN /\ Entra(p, n) /\ propia # 0
       /\ tomada = propia \/ "mismoNumero" \in Eventos
       /\ tablaHeap' =
            IF parte
            THEN [t EXCEPT ![propia].bloques = InsertAt(@, i + 1, Resto(s[j], n))]
            ELSE t
       /\ IF EnMemoria(p, k) THEN Enviar(p, n, k, s[j].offset) ELSE Rechazar(p, n)
       /\ UNCHANGED <<compactando, memoria>>

ReservarSinMarcos(p, n) ==
    /\ Entra(p, n) /\ PaginaConEspacio(p, n) = 0
    /\ marcosLibres = 0
    /\ Rechazar(p, n)
    /\ UNCHANGED <<tablaHeap, compactando, memoria>>

\* Memory numbers the page by CuantasPaginas; the kernel writes the headers in
\* the page NumeroNuevo, and keeps it in the table even when that fails.
ReservarPaginaNueva(p, n) ==
    LET k == NumeroNuevo(p) IN
    /\ Entra(p, n) /\ PaginaConEspacio(p, n) = 0
    /\ marcosLibres > 0
    /\ k <= MaxPagina /\ CuantasPaginas(p) <= MaxPagina
    /\ k = CuantasPaginas(p) \/ "hueco" \in Eventos
    /\ AsignarPaginaDeHeap(p)
    /\ tablaHeap' = Append(tablaHeap,
            [pid |-> p, numero |-> k, bloques |-> PartirEspecial(PaginaVacia, 1, n)])
    /\ IF paginasDe'[p][k] > 0 THEN Enviar(p, n, k, TamMetadata) ELSE Rechazar(p, n)
    /\ UNCHANGED compactando

-----------------------------------------------------------------------------
(* liberar_bloque_heap.                                                    *)

Responde(p, d, q) == contestado' = [que |-> q, pid |-> p, dir |-> d]

LiberarInvalido(p, d) ==
    LET i == buscar_pagina(p, d \div TamanioPagina) IN
    /\ Libre(p)
    /\ i # 0 => buscar_indice_bloque(tablaHeap[i], d % TamanioPagina) = 0
    /\ Responde(p, d, "LIBERACION_INVALIDA")
    /\ estado' = [estado EXCEPT ![p] = "rechazado"]
    /\ UNCHANGED <<tablaHeap, compactando, memoria>>

\* Also of a block that is free already.
Liberar(p, d) ==
    LET k == d \div TamanioPagina
        i == buscar_pagina(p, k)
        j == buscar_indice_bloque(tablaHeap[i], d % TamanioPagina)
    IN /\ Libre(p) /\ i # 0 /\ j # 0
       /\ tablaHeap' = [tablaHeap EXCEPT ![i].bloques[j].isUsed = FALSE]
       /\ IF EnMemoria(p, k)
          THEN /\ Responde(p, d, "LIBERACION_EXITOSA")
               /\ compactando' = i
               /\ UNCHANGED estado
          ELSE /\ Responde(p, d, "LIBERACION_INVALIDA")
               /\ estado' = [estado EXCEPT ![p] = "rechazado"]
               /\ UNCHANGED compactando
       /\ UNCHANGED memoria

-----------------------------------------------------------------------------
(* compactar: joins the first two free blocks in a row, and starts again.  *)

Pares(s) == {j \in 1..(Len(s) - 1) : ~s[j].isUsed /\ ~s[j + 1].isUsed}
PrimerPar(s) == CHOOSE j \in Pares(s) : \A k \in Pares(s) : j <= k
\* Mutant: the bytes of the second header are lost.
DefectoUnir(s, j) == RemoveAt([s EXCEPT ![j].size = @ + s[j + 1].size], j + 1)

Unir(s, j) ==
    RemoveAt([s EXCEPT ![j].size = @ + s[j + 1].size + TamMetadata], j + 1)

PaginaCompactada == tablaHeap[compactando]

\* Mutant: one pair and no more.
DefectoCompactarPar ==
    /\ compactando # 0 /\ Pares(PaginaCompactada.bloques) # {}
    /\ tablaHeap' = [tablaHeap EXCEPT ![compactando].bloques = Unir(@, PrimerPar(@))]
    /\ compactando' = 0
    /\ UNCHANGED <<memoria, estado, contestado>>

CompactarPar ==
    /\ compactando # 0 /\ Pares(PaginaCompactada.bloques) # {}
    /\ tablaHeap' = [tablaHeap EXCEPT ![compactando].bloques = Unir(@, PrimerPar(@))]
    /\ UNCHANGED <<compactando, memoria, estado, contestado>>

\* Mutant: chekear_paginas_libres is not called.
DefectoCompactarTermina ==
    /\ compactando # 0 /\ Pares(PaginaCompactada.bloques) = {}
    /\ compactando' = 0
    /\ UNCHANGED <<tablaHeap, memoria, estado, contestado>>

\* One block left: it is the special one again, and chekear_paginas_libres
\* gives the page back.
CompactarTermina ==
    LET g == PaginaCompactada IN
    /\ compactando # 0 /\ Pares(g.bloques) = {}
    /\ IF Len(g.bloques) = 1
       THEN IF EnMemoria(g.pid, g.numero)
            THEN /\ LiberarPagina(g.pid, g.numero)
                 /\ tablaHeap' = RemoveAt(tablaHeap, compactando)
            ELSE /\ tablaHeap' = [tablaHeap EXCEPT ![compactando].bloques[1].especial = TRUE]
                 /\ UNCHANGED memoria
       ELSE UNCHANGED <<tablaHeap, memoria>>
    /\ compactando' = 0
    /\ UNCHANGED <<estado, contestado>>

-----------------------------------------------------------------------------
\* The end of a program: informar_paginas_heap, and memory gives back its pages.
Fin(p) ==
    /\ compactando = 0 /\ estado[p] # "terminado"
    /\ tablaHeap' = [i \in 1..Len(tablaHeap) |->
            IF tablaHeap[i].pid = p
            THEN [pid |-> Nadie, numero |-> Nadie, bloques |-> PaginaVacia]
            ELSE tablaHeap[i]]
    /\ marcosLibres' = marcosLibres + (CuantasPaginas(p) - PaginasFijas[p])
    /\ paginasDe' = [paginasDe EXCEPT ![p] = [k \in 0..MaxPagina |-> 0]]
    /\ estado' = [estado EXCEPT ![p] = "terminado"]
    /\ contestado' = [que |-> "nada"]
    /\ UNCHANGED compactando

\* The addresses programs free: of the blocks of their pages, and one of no block.
Punteros(p) ==
    {0} \cup UNION {{Direccion(tablaHeap[i].numero, tablaHeap[i].bloques[j].offset) :
                        j \in 1..Len(tablaHeap[i].bloques)} :
                    i \in {h \in 1..Len(tablaHeap) : tablaHeap[h].pid = p}}

Next ==
    \/ \E p \in Procesos :
        \/ \E n \in Pedidos :
            \/ ReservarMuyGrande(p, n) \/ ReservarEnPagina(p, n)
            \/ ReservarSinMarcos(p, n) \/ ReservarPaginaNueva(p, n)
        \/ \E d \in Punteros(p) : LiberarInvalido(p, d) \/ Liberar(p, d)
        \/ Fin(p)
    \/ CompactarPar
    \/ CompactarTermina

Spec == Init /\ [][Next]_vars

-----------------------------------------------------------------------------
(* Properties.                                                             *)

Bloques == [offset : Int, size : Int, isUsed : BOOLEAN, especial : BOOLEAN]
Paginas == [pid : Procesos \cup {Nadie}, numero : Int, bloques : Seq(Bloques)]

TypeOK ==
    /\ tablaHeap \in Seq(Paginas)
    /\ compactando \in 0..Len(tablaHeap)
    /\ paginasDe \in [Procesos -> [0..MaxPagina -> Nat]]
    /\ marcosLibres \in Nat
    /\ estado \in [Procesos -> {"vivo", "rechazado", "terminado"}]

\* The blocks of a page, each after its header, are the page: none overlaps
\* another, none goes past the end and no byte is in none.
Mosaico(s) ==
    /\ s # <<>>
    /\ s[1].offset = TamMetadata
    /\ s[Len(s)].offset + s[Len(s)].size = TamanioPagina
    /\ \A j \in 1..Len(s) : s[j].size >= 0
    /\ \A j \in 1..(Len(s) - 1) :
         /\ s[j + 1].offset = s[j].offset + s[j].size + TamMetadata
         /\ ~s[j].especial
BloquesEnMosaico == \A i \in 1..Len(tablaHeap) : Mosaico(tablaHeap[i].bloques)

\* Between two requests no page has two free blocks in a row: what compactar
\* leaves for later is never more than it had to leave.
SinVecinosLibres ==
    compactando = 0 => \A i \in 1..Len(tablaHeap) : Pares(tablaHeap[i].bloques) = {}

\* A page with nothing in use was given back to memory.
SinPaginasOciosas ==
    compactando = 0 => \A i \in 1..Len(tablaHeap) :
        tablaHeap[i].pid # Nadie =>
            \E j \in 1..Len(tablaHeap[i].bloques) : tablaHeap[i].bloques[j].isUsed

\* The pages the kernel has for a program are the ones memory has beyond the
\* fixed ones, each once.
MismasPaginas ==
    /\ TypeOK
    /\ compactando = 0 => \A p \in Procesos : estado[p] = "vivo" =>
         \A k \in 0..MaxPagina :
            paginasDe[p][k] = (IF k < PaginasFijas[p] THEN 1 ELSE 0)
              + Cardinality({i \in 1..Len(tablaHeap) :
                                tablaHeap[i].pid = p /\ tablaHeap[i].numero = k})

\* protocols.h:150: memory is insufficient "Cuando pide paginas de heap, codigo
\* o stack y no hay disponibles".  A program is refused only for asking more
\* than a page or when there was no frame left.
RechazoSoloSinMemoria ==
    contestado.que = "PEDIDO_MEMORIA_RECHAZADO" /\ estado[contestado.pid] = "rechazado" =>
        contestado.bytes + 2 * TamMetadata > TamanioPagina \/ marcosLibres = 0

\* The promise: the blocks in use of the pages of each program.
Promesa == INSTANCE Reservas WITH
    reservas <- [p \in Procesos |->
        UNION {{[dir |-> Direccion(tablaHeap[i].numero, tablaHeap[i].bloques[j].offset),
                 tam |-> tablaHeap[i].bloques[j].size] :
                    j \in {b \in 1..Len(tablaHeap[i].bloques) : tablaHeap[i].bloques[b].isUsed}} :
               i \in {h \in 1..Len(tablaHeap) : tablaHeap[h].pid = p}}]
PromesaDeReservas == Promesa!Spec
=============================================================================

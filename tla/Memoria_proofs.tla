--------------------------- MODULE Memoria_proofs ---------------------------
(***************************************************************************)
(* However many connections, frames, entries and processes there are, and  *)
(* as long as the kernel ends nobody with a request in flight:             *)
(*   - a frame that a thread looked up without the lock is still of its    *)
(*     page when the thread comes to use it;                               *)
(*   - the counters of the cache tell the truth, and the process dies only *)
(*     for entries that were lost for good;                                *)
(*   - a cached copy says what its frame says;                             *)
(*   - what the kernel and the CPUs are answered is what MemoriaPaginada   *)
(*     answers.                                                            *)
(***************************************************************************)
EXTENDS Memoria, Secuencias_proofs, FiniteSetTheorems, FunctionTheorems

Estados == {"nunca", "asignada", "escrita", "liberada"}
Fases == {"libre", "recibido", "leyendo", "escribiendo"}

\* The owners of frames and the loop of the kernel's thread keep their type.
Tipado ==
    /\ tabla \in [MarcosTodos -> Int \X Nat]
    /\ pc \in [Hilos -> Fases]
    /\ pedido \in [Hilos -> Pedido]
    /\ encontrado \in [Hilos -> MarcosTodos \cup {-1}]
    /\ tarea \in Tarea
    /\ historia \in [Procesos -> [Paginas -> Estados]]

\* A process whose request is in flight is not in a loop over pages, and it
\* was started: the requests that give and take pages wait for it.
EnVueloQuieto ==
    \A h \in Hilos : pedido[h] # SinPedido =>
        /\ tarea # SinTarea => pedido[h].pid # tarea.pid
        /\ \E g \in Paginas : historia[pedido[h].pid][g] # "nunca"

\* What a thread found, it finds there.
SigueSiendoSuyo(h) ==
    pc[h] \in {"leyendo", "escribiendo"} =>
        /\ pedido[h] # SinPedido
        /\ encontrado[h] \in MarcosTodos
        /\ tabla[encontrado[h]] = <<pedido[h].pid, pedido[h].pagina>>

IInv ==
    /\ Tipado
    /\ EnVueloQuieto
    /\ \A h \in Hilos : SigueSiendoSuyo(h)

-----------------------------------------------------------------------------
(* Helpers.                                                                *)

\* A circular search ends at a frame of the set.
LEMMA PrimeroBien ==
    ASSUME NEW ini \in Nat, NEW S \in SUBSET MarcosTodos, S # {}
    PROVE  Primero(ini, S) \in S
<1> DEFINE d(f) == (f - ini) % Marcos
           I == {d(f) : f \in S}
<1>1. I \subseteq Nat /\ I # {}
  <2>1. \A f \in S : (f - ini) % Marcos \in Nat
    BY MarcosAssumption DEF MarcosTodos
  <2> QED BY <2>1
<1>2. Min(I) \in I /\ \A i \in I : Min(I) <= i
  BY <1>1, MinimoExiste
<1>3. PICK f \in S : \A e \in S : d(f) <= d(e)
  BY <1>2
<1> QED BY <1>3 DEF Primero

\* The hash is a frame.
LEMMA InicioBien == \A p \in Procesos, g \in Nat : Inicio(p, g) \in Nat
<1> SUFFICES ASSUME NEW p \in Procesos, NEW g \in Nat PROVE Inicio(p, g) \in Nat
  OBVIOUS
<1>1. p \in Nat /\ Marcos \in Nat /\ Marcos - 1 \in Nat
  BY ProcesosAssumption, MarcosAssumption
<1>2. Marcos \div 100 \in Nat /\ Marcos \div 18 \in Nat
  BY <1>1
<1>3. p * (Marcos \div 18) \in Nat
  BY <1>1, <1>2
<1>4. funcionHash(p, g) \in Nat
  BY <1>2, <1>3 DEF funcionHash
<1> QED BY <1>1, <1>4 DEF Inicio

\* A page that is found is in the frame that is found.
LEMMA BuscarBien ==
    ASSUME NEW p \in Procesos, NEW g \in Paginas, BuscarIndice(p, g) # -1
    PROVE  BuscarIndice(p, g) \in MarcosTodos /\ tabla[BuscarIndice(p, g)] = <<p, g>>
<1>1. MarcosDe(p, g) # {} /\ MarcosDe(p, g) \in SUBSET MarcosTodos
  BY DEF BuscarIndice, MarcosDe
<1>2. BuscarIndice(p, g) \in MarcosDe(p, g)
  BY <1>1, InicioBien, PrimeroBien DEF BuscarIndice, Paginas
<1> QED BY <1>2 DEF MarcosDe

\* A request has a process and a page.
LEMMA PedidoBien ==
    ASSUME NEW r \in Pedido, r # SinPedido
    PROVE  r.pid \in Procesos /\ r.pagina \in Paginas
BY DEF Pedido, SinPedido

\* The fields of a loop over pages.
LEMMA TareaBien ==
    ASSUME NEW t \in Tarea, t # SinTarea
    PROVE  /\ t.pid \in Procesos /\ t.base \in Nat /\ t.desde \in Nat /\ t.hasta \in Nat
           /\ t.cuantas \in Nat
           /\ [t EXCEPT !.desde = @ + 1] \in Tarea
           /\ [t EXCEPT !.desde = @ + 1] # SinTarea
           /\ [t EXCEPT !.desde = @ + 1].pid = t.pid
           /\ [t EXCEPT !.tipo = "deshacer", !.desde = t.base, !.hasta = t.desde] \in Tarea
           /\ [t EXCEPT !.tipo = "deshacer", !.desde = t.base, !.hasta = t.desde].pid = t.pid
<1>1. t \in [tipo : {"iniciar", "asignar", "deshacer", "finalizar"},
             pid : Procesos, base : Nat, desde : Nat, hasta : Nat, cuantas : Nat]
  BY DEF Tarea
<1>2. /\ [t EXCEPT !.desde = @ + 1] \in
            [tipo : {"iniciar", "asignar", "deshacer", "finalizar"},
             pid : Procesos, base : Nat, desde : Nat, hasta : Nat, cuantas : Nat]
      /\ [t EXCEPT !.desde = @ + 1].tipo = t.tipo
      /\ [t EXCEPT !.desde = @ + 1].pid = t.pid
  BY <1>1
<1>3. /\ [t EXCEPT !.tipo = "deshacer", !.desde = t.base, !.hasta = t.desde] \in
            [tipo : {"iniciar", "asignar", "deshacer", "finalizar"},
             pid : Procesos, base : Nat, desde : Nat, hasta : Nat, cuantas : Nat]
      /\ [t EXCEPT !.tipo = "deshacer", !.desde = t.base, !.hasta = t.desde].pid = t.pid
  BY <1>1
<1>4. [t EXCEPT !.desde = @ + 1] # SinTarea
  BY <1>1, <1>2 DEF SinTarea
<1> QED BY <1>1, <1>2, <1>3, <1>4 DEF Tarea

\* A new loop over pages.
LEMMA TareaNueva ==
    ASSUME NEW u \in {"iniciar", "asignar", "deshacer", "finalizar"}, NEW p \in Procesos,
           NEW a \in Nat, NEW b \in Nat, NEW c \in Nat, NEW d \in Nat
    PROVE  [tipo |-> u, pid |-> p, base |-> a, desde |-> b, hasta |-> c,
            cuantas |-> d] \in Tarea
BY DEF Tarea

-----------------------------------------------------------------------------
(* The threads.                                                            *)

\* A thread that answers forgets its frame; nobody's page is forgotten.
LEMMA Respondida ==
    ASSUME IInv, NEW h \in Hilos, NEW r, Responder(h, r), UNCHANGED <<tabla, tarea>>,
           historia' \in [Procesos -> [Paginas -> Estados]],
           \A p \in Procesos, g \in Paginas :
               historia[p][g] # "nunca" => historia'[p][g] # "nunca"
    PROVE  IInv'
<1>1. /\ pc' = [pc EXCEPT ![h] = "libre"]
      /\ pedido' = [pedido EXCEPT ![h] = SinPedido]
      /\ encontrado' = [encontrado EXCEPT ![h] = -1]
  BY DEF Responder
<1>2. Tipado'
  <2>1. pc' \in [Hilos -> Fases] /\ encontrado' \in [Hilos -> MarcosTodos \cup {-1}]
    BY <1>1 DEF IInv, Tipado, Fases
  <2>2. pedido' \in [Hilos -> Pedido]
    BY <1>1 DEF IInv, Tipado, Pedido
  <2> QED BY <2>1, <2>2 DEF IInv, Tipado
<1>3. \A k \in Hilos : k # h =>
         pc'[k] = pc[k] /\ pedido'[k] = pedido[k] /\ encontrado'[k] = encontrado[k]
  BY <1>1 DEF IInv, Tipado
<1>4. pc'[h] = "libre" /\ pedido'[h] = SinPedido
  BY <1>1 DEF IInv, Tipado
<1>5. EnVueloQuieto'
  <2> SUFFICES ASSUME NEW k \in Hilos, pedido'[k] # SinPedido
               PROVE  /\ tarea # SinTarea => pedido'[k].pid # tarea.pid
                      /\ \E g \in Paginas : historia'[pedido'[k].pid][g] # "nunca"
    BY DEF EnVueloQuieto, SinPedido, SinTarea
  <2>1. k # h /\ pedido'[k] = pedido[k]
    BY <1>3, <1>4
  <2>2. pedido[k].pid \in Procesos
    BY <2>1, PedidoBien DEF IInv, Tipado
  <2> QED BY <2>1, <2>2 DEF IInv, EnVueloQuieto
<1>6. \A k \in Hilos : SigueSiendoSuyo(k)'
  <2> TAKE k \in Hilos
  <2>1. CASE k = h
    BY <1>4, <2>1 DEF SigueSiendoSuyo
  <2>2. CASE k # h
    BY <1>3, <2>2 DEF IInv, SigueSiendoSuyo, SinPedido, MarcosTodos
  <2> QED BY <2>1, <2>2
<1> QED BY <1>2, <1>5, <1>6 DEF IInv

\* A thread finds the frame of its page.
LEMMA Encontrada ==
    ASSUME IInv, NEW h \in Hilos, NEW u \in {"leyendo", "escribiendo"},
           pedido[h] # SinPedido,
           BuscarIndice(pedido[h].pid, pedido[h].pagina) # -1,
           pc' = [pc EXCEPT ![h] = u],
           encontrado' = [encontrado EXCEPT ![h] =
                            BuscarIndice(pedido[h].pid, pedido[h].pagina)],
           UNCHANGED <<tabla, pedido, tarea, historia>>
    PROVE  IInv'
<1> DEFINE f == BuscarIndice(pedido[h].pid, pedido[h].pagina)
<1>1. pedido[h].pid \in Procesos /\ pedido[h].pagina \in Paginas
  BY PedidoBien DEF IInv, Tipado
<1>2. f \in MarcosTodos /\ tabla[f] = <<pedido[h].pid, pedido[h].pagina>>
  BY <1>1, BuscarBien
<1> HIDE DEF f
<1>3. encontrado' = [encontrado EXCEPT ![h] = f]
  BY DEF f
<1>4. Tipado'
  BY <1>2, <1>3 DEF IInv, Tipado, Fases
<1>5. EnVueloQuieto'
  BY DEF IInv, EnVueloQuieto, SinPedido, SinTarea
<1>6. \A k \in Hilos : SigueSiendoSuyo(k)'
  <2> TAKE k \in Hilos
  <2>1. CASE k = h
    <3>1. encontrado'[k] = f
      BY <1>3, <2>1 DEF IInv, Tipado
    <3> QED BY <1>2, <2>1, <3>1 DEF SigueSiendoSuyo, SinPedido
  <2>2. CASE k # h
    <3>1. pc'[k] = pc[k] /\ encontrado'[k] = encontrado[k]
      BY <1>3, <2>2 DEF IInv, Tipado
    <3> QED BY <3>1 DEF IInv, SigueSiendoSuyo, SinPedido, MarcosTodos
  <2> QED BY <2>1, <2>2
<1> QED BY <1>4, <1>5, <1>6 DEF IInv

\* A request comes: its process was started and is not in a loop.
LEMMA PasoRecibir ==
    ASSUME IInv, NEW h \in Hilos, NEW r \in Pedido \ {SinPedido}, Recibir(h, r)
    PROVE  IInv'
<1>1. /\ pc' = [pc EXCEPT ![h] = "recibido"]
      /\ pedido' = [pedido EXCEPT ![h] = r]
      /\ UNCHANGED <<tabla, encontrado, tarea, historia>>
      /\ Viva(r.pid) /\ ~EnTarea(r.pid)
  BY DEF Recibir
<1>2. Tipado'
  BY <1>1 DEF IInv, Tipado, Fases
<1>3. EnVueloQuieto'
  <2> SUFFICES ASSUME NEW k \in Hilos, pedido'[k] # SinPedido
               PROVE  /\ tarea # SinTarea => pedido'[k].pid # tarea.pid
                      /\ \E g \in Paginas : historia[pedido'[k].pid][g] # "nunca"
    BY <1>1 DEF EnVueloQuieto, SinPedido, SinTarea
  <2>1. CASE k = h
    <3>1. pedido'[k] = r
      BY <1>1, <2>1 DEF IInv, Tipado
    <3> QED BY <1>1, <3>1 DEF EnTarea, Viva, Tocada
  <2>2. CASE k # h
    <3>1. pedido'[k] = pedido[k]
      BY <1>1, <2>2 DEF IInv, Tipado
    <3> QED BY <3>1 DEF IInv, EnVueloQuieto
  <2> QED BY <2>1, <2>2
<1>4. \A k \in Hilos : SigueSiendoSuyo(k)'
  <2> TAKE k \in Hilos
  <2>1. CASE k = h
    <3>1. pc'[k] = "recibido"
      BY <1>1, <2>1 DEF IInv, Tipado
    <3> QED BY <3>1 DEF SigueSiendoSuyo
  <2>2. CASE k # h
    <3>1. pc'[k] = pc[k] /\ pedido'[k] = pedido[k]
      BY <1>1, <2>2 DEF IInv, Tipado
    <3> QED BY <1>1, <3>1 DEF IInv, SigueSiendoSuyo, SinPedido, MarcosTodos
  <2> QED BY <2>1, <2>2
<1> QED BY <1>2, <1>3, <1>4 DEF IInv

\* Every step of a thread.
LEMMA PasoHilo == ASSUME IInv, NEW h \in Hilos, Hilo(h) PROVE IInv'
<1>1. CASE \E r \in Pedido \ {SinPedido} : Recibir(h, r)
  BY <1>1, PasoRecibir
<1>2. ASSUME UNCHANGED <<tabla, tarea, historia>>, NEW r, Responder(h, r)
      PROVE  IInv'
  BY <1>2, Respondida DEF IInv, Tipado
<1>3. CASE LeerDeCache(h) \/ LeerSinMarco(h) \/ EscribirSinMarco(h)
  BY <1>2, <1>3 DEF LeerDeCache, LeerSinMarco, EscribirSinMarco
<1>4. CASE LeerFallaCache(h)
  <2>1. pedido[h] # SinPedido
    BY <1>4 DEF LeerFallaCache, Pide, SinPedido
  <2> QED BY <1>4, <2>1, Encontrada DEF LeerFallaCache
<1>5. CASE LeerDeMarco(h)
  <2>1. UNCHANGED <<tabla, tarea, historia>>
    BY <1>5 DEF LeerDeMarco
  <2>2. \/ \E r : Responder(h, r)
        \/ UNCHANGED <<pc, pedido, encontrado>>
    BY <1>5 DEF LeerDeMarco
  <2>3. CASE UNCHANGED <<pc, pedido, encontrado>>
    BY <2>1, <2>3 DEF IInv, Tipado, EnVueloQuieto, SigueSiendoSuyo, SinPedido, SinTarea,
                      MarcosTodos
  <2> QED BY <1>2, <2>1, <2>2, <2>3
<1>6. CASE EscribirBuscaMarco(h)
  <2>1. pedido[h] # SinPedido
    BY <1>6 DEF EscribirBuscaMarco, Pide, SinPedido
  <2> QED BY <1>6, <2>1, Encontrada DEF EscribirBuscaMarco
<1>7. CASE EscribirEnMarco(h)
  <2> DEFINE p == pedido[h].pid
             g == pedido[h].pagina
  <2>1. /\ historia' = [historia EXCEPT ![p][g] = IF @ = "asignada" THEN "escrita" ELSE @]
        /\ \E r : Responder(h, r)
        /\ UNCHANGED <<tabla, tarea>>
    BY <1>7 DEF EscribirEnMarco
  <2>2. p \in Procesos /\ g \in Paginas
    BY <1>7, PedidoBien DEF IInv, Tipado, SigueSiendoSuyo, EscribirEnMarco
  <2> HIDE DEF p, g
  <2>3. historia' \in [Procesos -> [Paginas -> Estados]]
    BY <2>1, <2>2 DEF IInv, Tipado, Estados
  <2>4. \A q \in Procesos, k \in Paginas : historia[q][k] # "nunca" => historia'[q][k] # "nunca"
    BY <2>1, <2>2 DEF IInv, Tipado
  <2> QED BY <2>1, <2>3, <2>4, Respondida
<1> QED BY <1>1, <1>3, <1>4, <1>5, <1>6, <1>7 DEF Hilo

-----------------------------------------------------------------------------
(* The kernel's thread.                                                    *)

\* Pages of a process with nothing in flight are given or taken.
LEMMA PaginasMovidas ==
    ASSUME IInv, NEW p \in Procesos, ~EnVuelo(p),
           UNCHANGED <<pc, pedido, encontrado>>,
           tabla' \in [MarcosTodos -> Int \X Nat],
           \A f \in MarcosTodos :
               tabla'[f] = tabla[f] \/ tabla[f] = Vacio \/ tabla[f][1] = p,
           tarea' \in Tarea, tarea' # SinTarea => tarea'.pid = p,
           historia' \in [Procesos -> [Paginas -> Estados]],
           \A q \in Procesos : q # p => historia'[q] = historia[q]
    PROVE  IInv'
<1>1. Tipado'
  BY DEF IInv, Tipado, MarcosTodos
<1>2. \A h \in Hilos : pedido[h] # SinPedido => pedido[h].pid \in Procesos \ {p}
  BY PedidoBien DEF EnVuelo, IInv, Tipado
<1>3. EnVueloQuieto'
  BY <1>2 DEF IInv, EnVueloQuieto, SinPedido, SinTarea
<1>4. \A h \in Hilos : SigueSiendoSuyo(h)'
  <2> SUFFICES ASSUME NEW h \in Hilos, pc[h] \in {"leyendo", "escribiendo"}
               PROVE  /\ pedido[h] # SinPedido
                      /\ encontrado[h] \in MarcosTodos
                      /\ tabla'[encontrado[h]] = <<pedido[h].pid, pedido[h].pagina>>
    BY DEF SigueSiendoSuyo, SinPedido, MarcosTodos
  <2>1. /\ pedido[h] # SinPedido /\ encontrado[h] \in MarcosTodos
        /\ tabla[encontrado[h]] = <<pedido[h].pid, pedido[h].pagina>>
    BY DEF IInv, SigueSiendoSuyo
  <2>2. pedido[h].pid \in Procesos \ {p}
    BY <1>2, <2>1
  <2>3. pedido[h].pid \in Nat
    BY <2>2, ProcesosAssumption
  <2>4. tabla[encontrado[h]] # Vacio /\ tabla[encontrado[h]][1] # p
    BY <2>1, <2>2, <2>3 DEF Vacio
  <2> QED BY <2>1, <2>4
<1> QED BY <1>1, <1>3, <1>4 DEF IInv

\* A process in a loop has nothing in flight.
LEMMA TareaQuieta ==
    ASSUME IInv, tarea # SinTarea
    PROVE  tarea.pid \in Procesos /\ ~EnVuelo(tarea.pid)
BY TareaBien DEF IInv, Tipado, EnVueloQuieto, EnVuelo

\* The tables with the pages of a process taken away, all or one.
LEMMA TablasBien ==
    ASSUME IInv, NEW p \in Procesos
    PROVE  /\ SinPaginasDe(p) \in [MarcosTodos -> Int \X Nat]
           /\ \A f \in MarcosTodos :
                 SinPaginasDe(p)[f] = tabla[f] \/ tabla[f][1] = p
           /\ \A g \in Nat :
                 /\ Vaciada(p, g) \in [MarcosTodos -> Int \X Nat]
                 /\ \A f \in MarcosTodos :
                      Vaciada(p, g)[f] = tabla[f] \/ tabla[f][1] = p
<1>1. tabla \in [MarcosTodos -> Int \X Nat] /\ Vacio \in Int \X Nat
  BY DEF IInv, Tipado, Vacio
<1>2. SinPaginasDe(p) \in [MarcosTodos -> Int \X Nat]
  BY <1>1 DEF SinPaginasDe
<1>3. ASSUME NEW f \in MarcosTodos
      PROVE  SinPaginasDe(p)[f] = tabla[f] \/ tabla[f][1] = p
  BY <1>1 DEF SinPaginasDe
<1>4. ASSUME NEW g \in Nat
      PROVE  /\ Vaciada(p, g) \in [MarcosTodos -> Int \X Nat]
             /\ \A f \in MarcosTodos : Vaciada(p, g)[f] = tabla[f] \/ tabla[f][1] = p
  <2> DEFINE e == Primero(Inicio(p, g), MarcosDe(p, g))
  <2>1. CASE MarcosDe(p, g) = {}
    BY <1>1, <2>1 DEF Vaciada
  <2>2. CASE MarcosDe(p, g) # {}
    <3>1. e \in MarcosDe(p, g)
      BY <2>2, InicioBien, PrimeroBien DEF MarcosDe
    <3>2. e \in MarcosTodos /\ tabla[e] = <<p, g>>
      BY <3>1 DEF MarcosDe
    <3>3. Vaciada(p, g) = [tabla EXCEPT ![e] = Vacio]
      BY <2>2 DEF Vaciada
    <3> HIDE DEF e
    <3> QED BY <1>1, <3>2, <3>3
  <2> QED BY <2>1, <2>2
<1> QED BY <1>2, <1>3, <1>4

\* Every step of a loop over pages.
LEMMA PasoLazo == IInv /\ LazoDePaginas => IInv'
<1> SUFFICES ASSUME IInv, LazoDePaginas PROVE IInv'
  OBVIOUS
<1> DEFINE p == tarea.pid
<1>1. tarea # SinTarea /\ UNCHANGED <<pc, pedido, encontrado>>
  BY DEF LazoDePaginas, AsignarUna, AsignadasTodas, IniciarSinMarcos, AsignarSinMarcos,
         DeshacerUna, DeshechasTodas, EliminarPaginasDeProceso, Asignando, Deshaciendo
<1>2. p \in Procesos /\ ~EnVuelo(p) /\ tarea \in Tarea /\ tarea.desde \in Nat
  BY <1>1, TareaQuieta, TareaBien DEF IInv, Tipado
<1>3. /\ tabla \in [MarcosTodos -> Int \X Nat]
      /\ historia \in [Procesos -> [Paginas -> Estados]]
  BY DEF IInv, Tipado
<1>4. SinTarea' = SinTarea /\ SinTarea \in Tarea
  BY DEF SinTarea, Tarea
<1>5. ASSUME NEW g, NEW e \in Estados, historia' = [historia EXCEPT ![p][g] = e]
      PROVE  /\ historia' \in [Procesos -> [Paginas -> Estados]]
             /\ \A q \in Procesos : q # p => historia'[q] = historia[q]
  BY <1>2, <1>3, <1>5
<1>6. ASSUME NEW e \in Estados, historia' = [historia EXCEPT ![p] = [g \in Paginas |-> e]]
      PROVE  /\ historia' \in [Procesos -> [Paginas -> Estados]]
             /\ \A q \in Procesos : q # p => historia'[q] = historia[q]
  BY <1>2, <1>3, <1>6
<1>7. CASE AsignarUna
  <2> DEFINE f == Primero(Inicio(p, tarea.desde), MarcosVacios)
  <2>1. /\ MarcosVacios # {}
        /\ tabla' = [tabla EXCEPT ![f] = <<p, tarea.desde>>]
        /\ historia' = [historia EXCEPT ![p][tarea.desde] = "asignada"]
        /\ tarea' = [tarea EXCEPT !.desde = @ + 1]
    BY <1>7 DEF AsignarUna
  <2>2. f \in MarcosVacios
    BY <1>2, <2>1, InicioBien, PrimeroBien DEF MarcosVacios
  <2>3. f \in MarcosTodos /\ tabla[f] = Vacio
    BY <2>2 DEF MarcosVacios
  <2> HIDE DEF f
  <2>4. p \in Nat
    BY <1>2, ProcesosAssumption
  <2>5. <<p, tarea.desde>> \in Int \X Nat
    BY <1>2, <2>4
  <2>6. /\ tabla' \in [MarcosTodos -> Int \X Nat]
        /\ \A e \in MarcosTodos : tabla'[e] = tabla[e] \/ tabla[e] = Vacio
    BY <1>3, <2>1, <2>3, <2>5
  <2>7. tarea' \in Tarea /\ tarea'.pid = p
    BY <1>1, <1>2, <2>1, TareaBien
  <2>8. "asignada" \in Estados
    BY DEF Estados
  <2> HIDE DEF p
  <2> QED BY <1>1, <1>2, <1>5, <2>1, <2>6, <2>7, <2>8, PaginasMovidas
<1>8. CASE AsignadasTodas \/ DeshechasTodas
  <2>1. UNCHANGED <<tabla, historia>> /\ tarea' = SinTarea
    BY <1>8 DEF AsignadasTodas, DeshechasTodas
  <2> QED BY <1>1, <1>2, <1>3, <1>4, <2>1, PaginasMovidas
<1>9. CASE IniciarSinMarcos \/ EliminarPaginasDeProceso
  <2>1. /\ tabla' = SinPaginasDe(p) /\ tarea' = SinTarea
        /\ \E e \in Estados : historia' = [historia EXCEPT ![p] = [g \in Paginas |-> e]]
    BY <1>9 DEF IniciarSinMarcos, EliminarPaginasDeProceso, Estados
  <2> HIDE DEF p
  <2> QED BY <1>1, <1>2, <1>4, <1>6, <2>1, TablasBien, PaginasMovidas
<1>10. CASE AsignarSinMarcos
  <2>1. UNCHANGED <<tabla, historia>> /\ tarea' \in Tarea /\ tarea'.pid = p
    BY <1>1, <1>2, <1>10, TareaBien DEF AsignarSinMarcos
  <2> HIDE DEF p
  <2> QED BY <1>1, <1>2, <1>3, <2>1, PaginasMovidas
<1>11. CASE DeshacerUna
  <2>1. /\ tabla' = Vaciada(p, tarea.desde)
        /\ historia' = [historia EXCEPT ![p][tarea.desde] = "liberada"]
        /\ tarea' \in Tarea /\ tarea'.pid = p
    BY <1>1, <1>2, <1>11, TareaBien DEF DeshacerUna
  <2>2. "liberada" \in Estados
    BY DEF Estados
  <2>3. /\ historia' \in [Procesos -> [Paginas -> Estados]]
        /\ \A q \in Procesos : q # p => historia'[q] = historia[q]
    BY <1>5, <2>1, <2>2
  <2> HIDE DEF p
  <2>4. /\ tabla' \in [MarcosTodos -> Int \X Nat]
        /\ \A f \in MarcosTodos : tabla'[f] = tabla[f] \/ tabla[f][1] = p
    BY <1>2, <2>1, TablasBien
  <2> QED BY <1>1, <1>2, <2>1, <2>3, <2>4, PaginasMovidas
<1> QED BY <1>7, <1>8, <1>9, <1>10, <1>11 DEF LazoDePaginas

\* How many pages a process has is a number.
LEMMA AsignadasBien == \A p : PaginasAsignadas(p) \in Nat
<1> TAKE p
<1> DEFINE S == {f \in MarcosTodos : tabla[f] \in {p} \X Paginas}
<1>1. IsFiniteSet(MarcosTodos)
  BY FS_Interval, MarcosAssumption DEF MarcosTodos
<1>2. IsFiniteSet(S)
  BY <1>1, FS_Subset
<1> QED BY <1>2, FS_CardinalityType DEF PaginasAsignadas

\* Every request of the kernel about pages; it does not end a process with a
\* request in flight.
LEMMA PasoPedidoDelKernel ==
    ASSUME IInv, "finEnVuelo" \notin Eventos, PedidoDelKernel
    PROVE  IInv'
<1>1. /\ tabla \in [MarcosTodos -> Int \X Nat]
      /\ historia \in [Procesos -> [Paginas -> Estados]] /\ tarea \in Tarea
  BY DEF IInv, Tipado
<1>2. ASSUME NEW p \in Procesos, NEW n \in 1..MaxIniciales, InicializarPrograma(p, n)
      PROVE  IInv'
  <2>1. ~EnVuelo(p)
    BY <1>2 DEF InicializarPrograma, EnVuelo, IInv, EnVueloQuieto
  <2>2. tarea' \in Tarea /\ tarea'.pid = p
    BY <1>2, TareaNueva DEF InicializarPrograma
  <2> QED BY <1>1, <1>2, <2>1, <2>2, PaginasMovidas DEF InicializarPrograma
<1>3. ASSUME NEW p \in Procesos, NEW n \in 1..MaxPedidas, AsignarPaginasDeHeap(p, n)
      PROVE  IInv'
  <2> DEFINE c == PaginasAsignadas(p)
  <2>1. c \in Nat /\ c + n \in Nat
    BY AsignadasBien
  <2>2. /\ tarea' = [tipo |-> "asignar", pid |-> p, base |-> c, desde |-> c, hasta |-> c + n,
                      cuantas |-> n]
        /\ ~EnVuelo(p) /\ UNCHANGED <<tabla, historia, pc, pedido, encontrado>>
    BY <1>3 DEF AsignarPaginasDeHeap, AsignarDesde
  <2> HIDE DEF c
  <2>3. tarea' \in Tarea /\ tarea'.pid = p
    BY <2>1, <2>2, TareaNueva
  <2> QED BY <1>1, <2>2, <2>3, PaginasMovidas
<1>4. ASSUME NEW p \in Procesos, NEW g \in Paginas, LiberarPagina(p, g)
      PROVE  IInv'
  <2>1. /\ tarea = SinTarea /\ ~EnVuelo(p) /\ tabla' = Vaciada(p, g)
        /\ historia' = [historia EXCEPT ![p][g] = IF @ = "nunca" THEN @ ELSE "liberada"]
        /\ UNCHANGED <<pc, pedido, encontrado, tarea>>
    BY <1>4 DEF LiberarPagina, KernelLibre
  <2>2. /\ historia' \in [Procesos -> [Paginas -> Estados]]
        /\ \A q \in Procesos : q # p => historia'[q] = historia[q]
    BY <1>1, <2>1 DEF Estados
  <2>3. tarea' = SinTarea'
    BY <2>1 DEF SinTarea
  <2>4. g \in Nat
    BY DEF Paginas
  <2>5. /\ tabla' \in [MarcosTodos -> Int \X Nat]
        /\ \A f \in MarcosTodos : tabla'[f] = tabla[f] \/ tabla[f][1] = p
    BY <2>1, <2>4, TablasBien
  <2> QED BY <1>1, <2>1, <2>2, <2>3, <2>5, PaginasMovidas
<1>5. ASSUME NEW p \in Procesos, Finalizar(p)
      PROVE  IInv'
  <2>1. ~EnVuelo(p)
    BY <1>5 DEF Finalizar
  <2>2. tarea' \in Tarea /\ tarea'.pid = p
    BY <1>5, TareaNueva DEF Finalizar
  <2> QED BY <1>1, <1>5, <2>1, <2>2, PaginasMovidas DEF Finalizar
<1> QED BY <1>2, <1>3, <1>4, <1>5 DEF PedidoDelKernel

\* The invariant holds at the start.
LEMMA InvInit == Init => IInv
<1> SUFFICES ASSUME Init PROVE IInv
  OBVIOUS
<1>1. tabla \in [MarcosTodos -> Int \X Nat]
  BY DEF Init, Vacio, Reservado
<1>2. SinPedido \in Pedido /\ SinTarea \in Tarea
  BY DEF Pedido, Tarea
<1> QED BY <1>1, <1>2 DEF Init, IInv, Tipado, EnVueloQuieto, SigueSiendoSuyo, Fases, Estados

\* Every step keeps the invariant.
LEMMA InvPaso == IInv /\ "finEnVuelo" \notin Eventos /\ [Next]_vars => IInv'
<1> SUFFICES ASSUME IInv, "finEnVuelo" \notin Eventos, [Next]_vars PROVE IInv'
  OBVIOUS
<1>1. CASE \E h \in Hilos : Hilo(h)
  BY <1>1, PasoHilo
<1>2. CASE LazoDePaginas
  BY <1>2, PasoLazo
<1>3. CASE PedidoDelKernel
  BY <1>3, PasoPedidoDelKernel
<1>4. CASE FlushCache \/ UNCHANGED vars
  <2>1. UNCHANGED <<tabla, pc, pedido, encontrado, tarea, historia>>
    BY <1>4 DEF FlushCache, vars
  <2> QED BY <2>1 DEF IInv, Tipado, EnVueloQuieto, SigueSiendoSuyo, SinPedido, SinTarea,
                      MarcosTodos
<1> QED BY <1>1, <1>2, <1>3, <1>4 DEF Next

\* gestionDeMemoria.c: leerDato and escribirDato find the frame of a page, wait,
\* and use it without looking again.  Whatever the other connections do in
\* between, it is still the frame of that page, in an instance in which the
\* kernel ends no process whose CPU has a request in flight.
THEOREM MarcoSiempreSuyo ==
    ASSUME "finEnVuelo" \notin Eventos
    PROVE  Spec => []MarcoSigueSiendoSuyo
<1>1. IInv => MarcoSigueSiendoSuyo
  BY DEF IInv, SigueSiendoSuyo, MarcoSigueSiendoSuyo
<1> QED BY <1>1, InvInit, InvPaso, PTL DEF Spec

-----------------------------------------------------------------------------
(* The list of the cache: what happens to it when an entry comes to the    *)
(* front, when one goes, and when all of a process go.                     *)

Lista == Seq(EntradaCache)

\* No page is twice in the list.
SinRepetidas(c) ==
    \A i, j \in 1..Len(c) :
        c[i].pid = c[j].pid /\ c[i].pagina = c[j].pagina => i = j

\* The list has page g of p.
Aparece(c, p, g) == \E i \in 1..Len(c) : c[i].pid = p /\ c[i].pagina = g

\* An entry at the front.
LEMMA AlPrincipio ==
    ASSUME NEW s \in Lista, NEW x \in EntradaCache
    PROVE  /\ <<x>> \o s \in Lista /\ Len(<<x>> \o s) = Len(s) + 1
           /\ (<<x>> \o s)[1] = x
           /\ \A i \in 1..Len(s) : (<<x>> \o s)[i + 1] = s[i]
<1>1. <<x>> \in Lista /\ Len(<<x>>) = 1 /\ <<x>>[1] = x
  BY DEF Lista
<1>2. Len(s) \in Nat
  BY DEF Lista
<1>3. <<x>> \o s \in Lista /\ Len(<<x>> \o s) = Len(s) + 1
  BY <1>1, ConcatProperties DEF Lista
<1>4. (<<x>> \o s)[1] = x
  BY <1>1, <1>2, ConcatProperties DEF Lista
<1>5. ASSUME NEW i \in 1..Len(s) PROVE (<<x>> \o s)[i + 1] = s[i]
  <2>1. i + 1 \in 1..(Len(<<x>>) + Len(s)) /\ ~(i + 1 <= Len(<<x>>))
    BY <1>1, <1>2
  <2>2. (i + 1) - Len(<<x>>) = i
    BY <1>1
  <2> QED BY <1>1, <2>1, <2>2, ConcatProperties DEF Lista
<1> QED BY <1>3, <1>4, <1>5

\* An entry goes from position i.
LEMMA SinUna ==
    ASSUME NEW s \in Lista, NEW i \in 1..Len(s)
    PROVE  /\ RemoveAt(s, i) \in Lista /\ Len(RemoveAt(s, i)) = Len(s) - 1
           /\ \A j \in 1..(Len(s) - 1) :
                 RemoveAt(s, i)[j] = s[IF j < i THEN j ELSE j + 1]
           /\ \A j \in 1..Len(s) : j < i => RemoveAt(s, i)[j] = s[j]
           /\ \A j \in 1..Len(s) : j > i => RemoveAt(s, i)[j - 1] = s[j]
<1> DEFINE r == RemoveAt(s, i)
<1>1. Len(s) \in Nat
  BY DEF Lista
<1>2. /\ r \in Lista /\ Len(r) = Len(s) - 1
      /\ \A j \in 1..(Len(s) - 1) : r[j] = s[IF j < i THEN j ELSE j + 1]
  BY QuitarUno DEF Lista
<1> HIDE DEF r
<1>3. \A j \in 1..Len(s) : j < i => r[j] = s[j]
  BY <1>1, <1>2
<1>4. ASSUME NEW j \in 1..Len(s), j > i PROVE r[j - 1] = s[j]
  <2>1. j - 1 \in 1..(Len(s) - 1) /\ ~(j - 1 < i) /\ (j - 1) + 1 = j
    BY <1>1, <1>4
  <2> QED BY <1>2, <2>1
<1> QED BY <1>2, <1>3, <1>4 DEF r

\* The last entry goes.
LEMMA SinLaUltima ==
    ASSUME NEW s \in Lista, s # <<>>
    PROVE  /\ Len(s) \in 1..Len(s)
           /\ SubSeq(s, 1, Len(s) - 1) = RemoveAt(s, Len(s))
<1> DEFINE n == Len(s)
           a == SubSeq(s, 1, n - 1)
           r == RemoveAt(s, n)
<1>1. n \in Nat \ {0}
  BY EmptySeq DEF Lista
<1>2. /\ r \in Lista /\ Len(r) = n - 1
      /\ \A j \in 1..n : j < n => r[j] = s[j]
  BY <1>1, SinUna
<1>3. a \in Seq(EntradaCache) /\ Len(a) = n - 1 /\ \A j \in 1..(n - 1) : a[j] = s[j]
  <2>1. 1 \in Int /\ n - 1 \in Int /\ \A j \in 1..(n - 1) : s[j] \in EntradaCache
    BY <1>1 DEF Lista
  <2>2. /\ a \in Seq(EntradaCache)
        /\ Len(a) = IF 1 <= n - 1 THEN (n - 1) - 1 + 1 ELSE 0
        /\ \A j \in 1..((n - 1) - 1 + 1) : a[j] = s[1 + j - 1]
    BY <2>1, SubSeqProperties
  <2>3. (n - 1) - 1 + 1 = n - 1 /\ \A j \in 1..(n - 1) : 1 + j - 1 = j
    BY <1>1
  <2> HIDE DEF a, n
  <2>4. Len(a) = n - 1
    BY <1>1, <2>2
  <2>5. \A j \in 1..(n - 1) : a[j] = s[j]
    BY <2>2, <2>3
  <2> QED BY <2>2, <2>4, <2>5
<1> HIDE DEF a, r
<1>4. \A j \in 1..Len(a) : a[j] = r[j]
  BY <1>1, <1>2, <1>3
<1>5. a = r
  BY <1>2, <1>3, <1>4, SeqEqual DEF Lista
<1> QED BY <1>1, <1>5 DEF a, r

\* The positions of a process in the list are finitely many.
LEMMA PosicionesFinitas ==
    ASSUME NEW s \in Lista, NEW p
    PROVE  /\ IsFiniteSet(PaginasCacheadas(s, p))
           /\ Cardinality(PaginasCacheadas(s, p)) \in Nat
           /\ PaginasCacheadas(s, p) = {} <=> Cardinality(PaginasCacheadas(s, p)) = 0
<1>1. Len(s) \in Nat
  BY DEF Lista
<1>2. IsFiniteSet(1..Len(s)) /\ PaginasCacheadas(s, p) \in SUBSET (1..Len(s))
  BY <1>1, FS_Interval DEF PaginasCacheadas
<1> QED BY <1>2, FS_Subset, FS_CardinalityType, FS_EmptySet

\* An entry at the front is counted once, for its process.
LEMMA ContarAlPrincipio ==
    ASSUME NEW s \in Lista, NEW x \in EntradaCache, NEW p
    PROVE  Cardinality(PaginasCacheadas(<<x>> \o s, p)) =
               IF x.pid = p THEN Cardinality(PaginasCacheadas(s, p)) + 1
                            ELSE Cardinality(PaginasCacheadas(s, p))
<1> DEFINE r == <<x>> \o s
           A == PaginasCacheadas(s, p)
           B == PaginasCacheadas(r, p) \ {1}
           f == [i \in A |-> i + 1]
<1>1. /\ Len(s) \in Nat /\ Len(r) = Len(s) + 1 /\ r[1] = x
      /\ \A i \in 1..Len(s) : r[i + 1] = s[i]
  BY AlPrincipio DEF Lista
<1> HIDE DEF r
<1>2. A \subseteq 1..Len(s) /\ \A i \in 1..Len(s) : i \in A <=> s[i].pid = p
  BY DEF PaginasCacheadas
<1>3. \A i \in 1..(Len(s) + 1) : i \in PaginasCacheadas(r, p) <=> r[i].pid = p
  BY <1>1 DEF PaginasCacheadas
<1>4. PaginasCacheadas(r, p) \subseteq 1..(Len(s) + 1)
  BY <1>1 DEF PaginasCacheadas
<1> HIDE DEF A
<1>5. f \in [A -> B]
  <2> SUFFICES ASSUME NEW i \in A PROVE i + 1 \in B
    OBVIOUS
  <2>1. i \in 1..Len(s) /\ i + 1 \in 1..(Len(s) + 1) /\ i + 1 # 1
    BY <1>1, <1>2
  <2> QED BY <1>1, <1>2, <1>3, <2>1
<1>6. \A j \in B : \E i \in A : f[i] = j
  <2> TAKE j \in B
  <2>1. j \in 1..(Len(s) + 1) /\ j # 1 /\ r[j].pid = p
    BY <1>3, <1>4
  <2>2. j - 1 \in 1..Len(s) /\ (j - 1) + 1 = j
    BY <1>1, <2>1
  <2>3. j - 1 \in A
    BY <1>1, <1>2, <2>1, <2>2
  <2> QED BY <2>2, <2>3
<1>7. \A i, j \in A : f[i] = f[j] => i = j
  BY <1>2
<1>8. ExistsBijection(A, B)
  <2> HIDE DEF f, B
  <2>1. f \in Bijection(A, B)
    BY <1>5, <1>6, <1>7, Fun_IsBij
  <2> QED BY <2>1 DEF ExistsBijection
<1>9. IsFiniteSet(B) /\ Cardinality(B) = Cardinality(A)
  BY <1>8, PosicionesFinitas, FS_Bijection DEF A
<1>10. CASE x.pid = p
  <2>1. PaginasCacheadas(r, p) = B \cup {1} /\ 1 \notin B
    BY <1>1, <1>3, <1>10
  <2>2. Cardinality(B \cup {1}) = Cardinality(B) + 1
    <3> HIDE DEF B
    <3> QED BY <1>9, <2>1, FS_AddElement
  <2> QED BY <1>9, <1>10, <2>1, <2>2 DEF A, r
<1>11. CASE x.pid # p
  <2>1. PaginasCacheadas(r, p) = B
    BY <1>1, <1>3, <1>11
  <2> QED BY <1>9, <1>11, <2>1 DEF A, r
<1> QED BY <1>10, <1>11

\* An entry that goes is discounted once, from its process.
LEMMA ContarSinUna ==
    ASSUME NEW s \in Lista, NEW i \in 1..Len(s), NEW p
    PROVE  Cardinality(PaginasCacheadas(RemoveAt(s, i), p)) =
               IF s[i].pid = p THEN Cardinality(PaginasCacheadas(s, p)) - 1
                               ELSE Cardinality(PaginasCacheadas(s, p))
<1> DEFINE r == RemoveAt(s, i)
           A == PaginasCacheadas(r, p)
           B == PaginasCacheadas(s, p) \ {i}
           f == [j \in A |-> IF j < i THEN j ELSE j + 1]
<1>1. /\ Len(s) \in Nat /\ r \in Lista /\ Len(r) = Len(s) - 1
      /\ \A j \in 1..(Len(s) - 1) : r[j] = s[IF j < i THEN j ELSE j + 1]
      /\ \A j \in 1..Len(s) : j < i => r[j] = s[j]
      /\ \A j \in 1..Len(s) : j > i => r[j - 1] = s[j]
  BY SinUna DEF Lista
<1> HIDE DEF r
<1>2. A \subseteq 1..(Len(s) - 1) /\ \A j \in 1..(Len(s) - 1) : j \in A <=> r[j].pid = p
  BY <1>1 DEF PaginasCacheadas
<1>3. /\ PaginasCacheadas(s, p) \subseteq 1..Len(s)
      /\ \A j \in 1..Len(s) : j \in PaginasCacheadas(s, p) <=> s[j].pid = p
  BY DEF PaginasCacheadas
<1>4. IsFiniteSet(A)
  BY <1>1, PosicionesFinitas
<1> HIDE DEF A
<1>5. f \in [A -> B]
  <2> SUFFICES ASSUME NEW j \in A
               PROVE  (IF j < i THEN j ELSE j + 1) \in B
    OBVIOUS
  <2> DEFINE k == IF j < i THEN j ELSE j + 1
  <2>1. j \in 1..(Len(s) - 1) /\ k \in 1..Len(s) /\ k # i
    BY <1>1, <1>2
  <2>2. s[k].pid = p
    BY <1>1, <1>2, <2>1
  <2> QED BY <1>3, <2>1, <2>2
<1>6. \A k \in B : \E j \in A : f[j] = k
  <2> TAKE k \in B
  <2>1. k \in 1..Len(s) /\ k # i /\ s[k].pid = p
    BY <1>3
  <2>2. CASE k < i
    <3>1. k \in 1..(Len(s) - 1) /\ r[k] = s[k]
      BY <1>1, <2>1, <2>2
    <3>2. k \in A /\ f[k] = k
      BY <1>2, <2>1, <2>2, <3>1
    <3> QED BY <3>2
  <2>3. CASE k > i
    <3>1. k - 1 \in 1..(Len(s) - 1) /\ r[k - 1] = s[k] /\ ~(k - 1 < i) /\ (k - 1) + 1 = k
      BY <1>1, <2>1, <2>3
    <3>2. k - 1 \in A
      BY <1>2, <2>1, <3>1
    <3>3. f[k - 1] = k
      BY <3>1, <3>2
    <3> QED BY <3>2, <3>3
  <2> QED BY <2>1, <2>2, <2>3
<1>7. \A j, k \in A : f[j] = f[k] => j = k
  BY <1>2
<1>8. ExistsBijection(A, B)
  <2> HIDE DEF f, B
  <2>1. f \in Bijection(A, B)
    BY <1>5, <1>6, <1>7, Fun_IsBij
  <2> QED BY <2>1 DEF ExistsBijection
<1>9. Cardinality(B) = Cardinality(A)
  BY <1>4, <1>8, FS_Bijection
<1>10. Cardinality(B) = IF s[i].pid = p THEN Cardinality(PaginasCacheadas(s, p)) - 1
                                        ELSE Cardinality(PaginasCacheadas(s, p))
  BY <1>3, PosicionesFinitas, FS_RemoveElement
<1> QED BY <1>9, <1>10 DEF A, r

\* An entry whose page is not in the list keeps it without repetitions.
LEMMA RepetidasAlPrincipio ==
    ASSUME NEW s \in Lista, NEW x \in EntradaCache, SinRepetidas(s),
           ~Aparece(s, x.pid, x.pagina)
    PROVE  SinRepetidas(<<x>> \o s)
<1> DEFINE r == <<x>> \o s
<1>1. /\ Len(s) \in Nat /\ Len(r) = Len(s) + 1 /\ r[1] = x
      /\ \A i \in 1..Len(s) : r[i + 1] = s[i]
  BY AlPrincipio DEF Lista
<1> HIDE DEF r
<1>2. \A i \in 1..Len(r) : i = 1 \/ (i - 1 \in 1..Len(s) /\ r[i] = s[i - 1])
  <2> SUFFICES ASSUME NEW i \in 1..Len(r), i # 1
               PROVE  i - 1 \in 1..Len(s) /\ r[i] = s[i - 1]
    OBVIOUS
  <2>1. i - 1 \in 1..Len(s) /\ (i - 1) + 1 = i
    BY <1>1
  <2> QED BY <1>1, <2>1
<1>3. SUFFICES ASSUME NEW i \in 1..Len(r), NEW j \in 1..Len(r), i # j,
                      r[i].pid = r[j].pid, r[i].pagina = r[j].pagina
               PROVE  FALSE
  BY DEF SinRepetidas, r
<1>4. CASE i = 1 \/ j = 1
  BY <1>1, <1>2, <1>3, <1>4 DEF Aparece
<1>5. CASE i # 1 /\ j # 1
  <2>1. /\ i - 1 \in 1..Len(s) /\ r[i] = s[i - 1]
        /\ j - 1 \in 1..Len(s) /\ r[j] = s[j - 1]
    BY <1>2, <1>5
  <2>2. i - 1 = j - 1
    BY <1>3, <2>1 DEF SinRepetidas
  <2> QED BY <1>1, <1>3, <2>2
<1> QED BY <1>4, <1>5

\* Without an entry there is no repetition, and its page is gone.
LEMMA RepetidasSinUna ==
    ASSUME NEW s \in Lista, NEW i \in 1..Len(s), SinRepetidas(s)
    PROVE  /\ SinRepetidas(RemoveAt(s, i))
           /\ ~Aparece(RemoveAt(s, i), s[i].pid, s[i].pagina)
           /\ \A p, g : ~Aparece(s, p, g) => ~Aparece(RemoveAt(s, i), p, g)
<1> DEFINE r == RemoveAt(s, i)
           d(j) == IF j < i THEN j ELSE j + 1
<1>1. /\ Len(s) \in Nat /\ Len(r) = Len(s) - 1
      /\ \A j \in 1..Len(r) : r[j] = s[d(j)]
  BY SinUna DEF Lista
<1> HIDE DEF r
<1>2. \A j \in 1..Len(r) : d(j) \in 1..Len(s) /\ d(j) # i
  BY <1>1
<1>3. \A j, k \in 1..Len(r) : d(j) = d(k) => j = k
  BY <1>1
<1> HIDE DEF d
<1>4. SinRepetidas(r)
  BY <1>1, <1>2, <1>3 DEF SinRepetidas
<1>5. ~Aparece(r, s[i].pid, s[i].pagina)
  BY <1>1, <1>2 DEF Aparece, SinRepetidas
<1>6. \A p, g : ~Aparece(s, p, g) => ~Aparece(r, p, g)
  BY <1>1, <1>2 DEF Aparece
<1> QED BY <1>4, <1>5, <1>6 DEF r

\* Counting from the front reaches each position of a set once.
LEMMA EnesimaBien ==
    ASSUME NEW N \in Nat, NEW S \in SUBSET (1..N)
    PROVE  /\ IsFiniteSet(S) /\ Cardinality(S) \in Nat /\ Cardinality(S) <= N
           /\ \A n \in 1..Cardinality(S) : Enesima(S, n) \in S
           /\ \A m, n \in 1..Cardinality(S) :
                 Enesima(S, m) = Enesima(S, n) => m = n
           /\ \A i \in S : \E n \in 1..Cardinality(S) : Enesima(S, n) = i
<1> DEFINE hasta(i) == {j \in S : j <= i}
           f == [i \in S |-> Cardinality(hasta(i))]
           C == Cardinality(S)
<1>1. IsFiniteSet(S) /\ C \in Nat /\ C <= N
  <2>1. IsFiniteSet(1..N) /\ Cardinality(1..N) = N
    <3>1. 1 \in Int /\ N \in Int /\ (IF 1 > N THEN 0 ELSE N - 1 + 1) = N
      OBVIOUS
    <3> QED BY <3>1, FS_Interval
  <2> QED BY <2>1, FS_Subset, FS_CardinalityType
<1>2. \A i \in S : i \in Int /\ hasta(i) \in SUBSET S /\ i \in hasta(i)
  OBVIOUS
<1>3. ASSUME NEW i \in S, NEW k \in S, i < k
      PROVE  hasta(i) \in SUBSET hasta(k) /\ k \notin hasta(i)
  <2>1. i \in Int /\ k \in Int /\ ~(k <= i) /\ \A j \in S : j \in Int
    BY <1>2, <1>3
  <2>2. \A j \in S : j <= i => j <= k
    BY <1>3, <2>1
  <2> QED BY <2>1, <2>2
<1>4. ASSUME NEW i \in S
      PROVE  /\ IsFiniteSet(hasta(i)) /\ Cardinality(hasta(i)) \in 1..C
  <2>1. hasta(i) \in SUBSET S /\ hasta(i) # {}
    BY <1>2
  <2> HIDE DEF hasta
  <2>2. IsFiniteSet(hasta(i)) /\ Cardinality(hasta(i)) <= C
    BY <1>1, <2>1, FS_Subset
  <2>3. Cardinality(hasta(i)) \in Nat /\ Cardinality(hasta(i)) # 0
    BY <2>1, <2>2, FS_CardinalityType, FS_EmptySet
  <2> QED BY <1>1, <2>2, <2>3
<1>5. ASSUME NEW i \in S, NEW k \in S, i < k
      PROVE  Cardinality(hasta(i)) # Cardinality(hasta(k))
  <2>1. hasta(i) \in SUBSET hasta(k) /\ hasta(i) # hasta(k)
    BY <1>2, <1>3, <1>5
  <2>2. IsFiniteSet(hasta(k))
    BY <1>4
  <2> HIDE DEF hasta
  <2> QED BY <2>1, <2>2, FS_Subset
<1> HIDE DEF hasta
<1>6. f \in [S -> 1..C]
  BY <1>4
<1>7. \A i, k \in S : f[i] = f[k] => i = k
  <2> SUFFICES ASSUME NEW i \in S, NEW k \in S, i # k PROVE f[i] # f[k]
    OBVIOUS
  <2>1. i < k \/ k < i
    BY <1>2
  <2> QED BY <1>5, <2>1
<1>8. \A n \in 1..C : \E i \in S : f[i] = n
  <2> HIDE DEF f, C
  <2>1. f \in Injection(S, 1..C)
    BY <1>6, <1>7, Fun_IsInj
  <2>2. IsFiniteSet(1..C) /\ Cardinality(1..C) = C
    BY <1>1, FS_Interval
  <2>3. C = Cardinality(S)
    BY DEF C
  <2>4. f \in Surjection(S, 1..C)
    BY <2>1, <2>2, <2>3, FS_Injection
  <2> QED BY <2>4, Fun_SurjectionProperties
<1>9. \A n \in 1..C : Enesima(S, n) \in S /\ f[Enesima(S, n)] = n
  <2> SUFFICES ASSUME NEW n \in 1..C
               PROVE  Enesima(S, n) \in S /\ f[Enesima(S, n)] = n
    OBVIOUS
  <2>1. \E i \in S : Cardinality({j \in S : j <= i}) = n
    BY <1>8 DEF hasta
  <2>2. /\ Enesima(S, n) \in S
        /\ Cardinality({j \in S : j <= Enesima(S, n)}) = n
    BY <2>1 DEF Enesima
  <2> QED BY <2>2 DEF hasta
<1>10. \A i \in S : \E n \in 1..C : Enesima(S, n) = i
  <2> TAKE i \in S
  <2>1. f[i] \in 1..C
    BY <1>6
  <2>2. Enesima(S, f[i]) \in S /\ f[Enesima(S, f[i])] = f[i]
    BY <1>9, <2>1
  <2> QED BY <1>7, <2>1, <2>2
<1>11. \A m, n \in 1..C : Enesima(S, m) = Enesima(S, n) => m = n
  BY <1>9
<1> HIDE DEF f
<1> QED BY <1>1, <1>9, <1>10, <1>11

\* What is left once the entries of p go: the others, in their order.
LEMMA SinEntradasBien ==
    ASSUME cache \in Lista, NEW p
    PROVE  /\ SinEntradasDe(p) \in Lista
           /\ Len(SinEntradasDe(p)) <= Len(cache)
           /\ \A k \in 1..Len(SinEntradasDe(p)) : \E i \in 1..Len(cache) :
                 SinEntradasDe(p)[k] = cache[i]
           /\ SinRepetidas(cache) => SinRepetidas(SinEntradasDe(p))
           /\ Cardinality(PaginasCacheadas(SinEntradasDe(p), p)) = 0
           /\ \A q : q # p => Cardinality(PaginasCacheadas(SinEntradasDe(p), q)) =
                              Cardinality(PaginasCacheadas(cache, q))
<1> DEFINE Q == (1..Len(cache)) \ PaginasCacheadas(cache, p)
           C == Cardinality(Q)
           e(n) == Enesima(Q, n)
           r == SinEntradasDe(p)
<1>1. Len(cache) \in Nat /\ \A i \in 1..Len(cache) : cache[i] \in EntradaCache
  BY DEF Lista
<1>2. \A i : i \in Q <=> i \in 1..Len(cache) /\ cache[i].pid # p
  BY DEF PaginasCacheadas
<1>3. r = [n \in 1..C |-> cache[e(n)]]
  BY DEF SinEntradasDe
<1>4. Q \in SUBSET (1..Len(cache))
  OBVIOUS
<1> HIDE DEF Q
<1>5. /\ C \in Nat /\ C <= Len(cache)
      /\ \A n \in 1..C : e(n) \in Q
      /\ \A m, n \in 1..C : e(m) = e(n) => m = n
      /\ \A i \in Q : \E n \in 1..C : e(n) = i
  BY <1>1, <1>4, EnesimaBien
<1> HIDE DEF C, e, r
<1>6. \A n \in 1..C : /\ e(n) \in 1..Len(cache) /\ r[n] = cache[e(n)]
                      /\ r[n].pid # p
  BY <1>2, <1>3, <1>5
<1>7. r \in Lista /\ Len(r) = C
  <2>1. r \in [1..C -> EntradaCache]
    BY <1>1, <1>3, <1>6
  <2> QED BY <1>5, <2>1 DEF Lista
<1>8. SinRepetidas(cache) => SinRepetidas(r)
  BY <1>5, <1>6, <1>7 DEF SinRepetidas
<1>9. Cardinality(PaginasCacheadas(r, p)) = 0
  <2>1. PaginasCacheadas(r, p) = {}
    BY <1>6, <1>7 DEF PaginasCacheadas
  <2> QED BY <2>1, FS_EmptySet
<1>10. ASSUME NEW q, q # p
       PROVE  Cardinality(PaginasCacheadas(r, q)) =
              Cardinality(PaginasCacheadas(cache, q))
  <2> DEFINE A == PaginasCacheadas(r, q)
             B == PaginasCacheadas(cache, q)
             f == [n \in A |-> e(n)]
  <2>1. \A n : n \in A <=> n \in 1..C /\ cache[e(n)].pid = q
    BY <1>6, <1>7 DEF PaginasCacheadas
  <2>2. \A i : i \in B <=> i \in Q /\ cache[i].pid = q
    BY <1>2, <1>10 DEF PaginasCacheadas
  <2>3. IsFiniteSet(A)
    BY <1>7, PosicionesFinitas
  <2> HIDE DEF A, B
  <2>4. f \in [A -> B]
    BY <1>5, <2>1, <2>2
  <2>5. \A m, n \in A : f[m] = f[n] => m = n
    BY <1>5, <2>1
  <2>6. \A i \in B : \E n \in A : f[n] = i
    BY <1>5, <2>1, <2>2
  <2> HIDE DEF f
  <2>7. f \in Bijection(A, B)
    BY <2>4, <2>5, <2>6, Fun_IsBij
  <2>8. Cardinality(B) = Cardinality(A)
    BY <2>3, <2>7, FS_Bijection DEF ExistsBijection
  <2> QED BY <2>8 DEF A, B
<1> QED BY <1>5, <1>6, <1>7, <1>8, <1>9, <1>10 DEF r

-----------------------------------------------------------------------------
(* The cache: no page twice, and what the thread that fills it has found.  *)

\* Everything has its type but the counters, which a flush spoils.
Tipada ==
    /\ tabla \in [MarcosTodos -> Dueno]
    /\ marco \in [MarcosTodos -> Valores]
    /\ cache \in Lista
    /\ vacios \in 0..EntradasCache
    /\ mutex \in Hilos \cup {Nadie}
    /\ pc \in [Hilos -> Fases]
    /\ pedido \in [Hilos -> Pedido]
    /\ encontrado \in [Hilos -> MarcosTodos \cup {-1}]
    /\ respuesta \in (Hilos \cup {Nadie}) \X Respuesta
    /\ tarea \in Tarea
    /\ viva \in BOOLEAN
    /\ historia \in [Procesos -> [Paginas -> Estados]]

\* What a thread has in its hands between two steps of a request: the one
\* that fills the cache holds mutex_cache, and its page is not there.
EnManos(h) ==
    /\ pc[h] # "libre" => pedido[h] # SinPedido
    /\ pc[h] \in {"leyendo", "escribiendo"} => encontrado[h] \in MarcosTodos
    /\ pc[h] = "escribiendo" => pedido[h].tipo = "escribe"
    /\ pc[h] = "leyendo" => pedido[h].tipo = "lee"
    /\ pc[h] = "leyendo" =>
          mutex = h /\ ~Aparece(cache, pedido[h].pid, pedido[h].pagina)

\* A loop over pages stays within the pages there are.
TareaAcotada == tarea # SinTarea => tarea.hasta <= MaxPagina + 1

Guardada ==
    /\ Tipada /\ TareaAcotada /\ SinRepetidas(cache)
    /\ \A h \in Hilos : EnManos(h)

\* Room for an entry of p: one of its own goes, a free one is spent, or the
\* last one of the list goes; without any of them the process dies.
LEMMA EliminarCasos ==
    ASSUME NEW p, vacios \in Nat
    PROVE  LET u == eliminarRegistroCacheLRU(EstadoCache, p)
               suyas == PaginasCacheadas(cache, p)
               contado == [contador EXCEPT ![p] = @ + 1]
           IN
           /\ u = [cache |-> u.cache, contador |-> u.contador,
                   vacios |-> u.vacios, viva |-> u.viva]
           /\ contador[p] = CacheXProc =>
                 /\ u.contador = contador
                 /\ u.vacios = IF vacios > 0 THEN vacios - 1 ELSE vacios
                 /\ Cardinality(suyas) < CacheXProc => u.viva = FALSE /\ u.cache = cache
                 /\ ~(Cardinality(suyas) < CacheXProc) =>
                       /\ u.viva = viva
                       /\ u.cache = RemoveAt(cache, Enesima(suyas, CacheXProc))
           /\ contador[p] # CacheXProc /\ vacios > 0 =>
                 /\ u.contador = contado /\ u.vacios = vacios - 1
                 /\ u.viva = viva /\ u.cache = cache
           /\ contador[p] # CacheXProc /\ ~(vacios > 0) /\ cache = <<>> =>
                 /\ u.contador = contado /\ u.vacios = vacios
                 /\ u.viva = FALSE /\ u.cache = cache
           /\ contador[p] # CacheXProc /\ ~(vacios > 0) /\ cache # <<>> =>
                 /\ u.contador = [contado EXCEPT ![cache[Len(cache)].pid] = @ - 1]
                 /\ u.vacios = vacios
                 /\ u.viva = viva /\ u.cache = SubSeq(cache, 1, Len(cache) - 1)
<1> DEFINE e == EstadoCache
           u == eliminarRegistroCacheLRU(e, p)
           c == [e EXCEPT !.contador[p] = @ + 1]
<1>1. /\ e.cache = cache /\ e.contador = contador /\ e.vacios = vacios /\ e.viva = viva
      /\ e = [cache |-> cache, contador |-> contador, vacios |-> vacios, viva |-> viva]
  BY DEF EstadoCache
<1>2. CASE contador[p] = CacheXProc
  <2> DEFINE d == DesalojarLocalmente(e, p)
             suyas == PaginasCacheadas(cache, p)
  <2>1. u = IF vacios > 0 THEN [d EXCEPT !.vacios = @ - 1] ELSE d
    BY <1>1, <1>2 DEF eliminarRegistroCacheLRU
  <2>2. d = IF Cardinality(suyas) < CacheXProc THEN [e EXCEPT !.viva = FALSE]
            ELSE [e EXCEPT !.cache = RemoveAt(@, Enesima(suyas, CacheXProc))]
    BY <1>1 DEF DesalojarLocalmente
  <2> HIDE DEF suyas, d, u, e
  <2>3. CASE Cardinality(suyas) < CacheXProc
    <3>1. d = [e EXCEPT !.viva = FALSE]
      BY <2>2, <2>3
    <3>2. /\ u.contador = contador /\ u.viva = FALSE /\ u.cache = cache
          /\ u.vacios = IF vacios > 0 THEN vacios - 1 ELSE vacios
      BY <1>1, <2>1, <3>1
    <3>3. u = [cache |-> u.cache, contador |-> u.contador,
               vacios |-> u.vacios, viva |-> u.viva]
      BY <1>1, <2>1, <3>1
    <3> QED BY <1>2, <2>3, <3>2, <3>3 DEF u, e, suyas
  <2>4. CASE ~(Cardinality(suyas) < CacheXProc)
    <3>1. d = [e EXCEPT !.cache = RemoveAt(cache, Enesima(suyas, CacheXProc))]
      BY <1>1, <2>2, <2>4
    <3>2. /\ u.contador = contador /\ u.viva = viva
          /\ u.cache = RemoveAt(cache, Enesima(suyas, CacheXProc))
          /\ u.vacios = IF vacios > 0 THEN vacios - 1 ELSE vacios
      BY <1>1, <2>1, <3>1
    <3>3. u = [cache |-> u.cache, contador |-> u.contador,
               vacios |-> u.vacios, viva |-> u.viva]
      BY <1>1, <2>1, <3>1
    <3> QED BY <1>2, <2>4, <3>2, <3>3 DEF u, e, suyas
  <2> QED BY <2>3, <2>4
<1>3. c = [cache |-> cache, contador |-> [contador EXCEPT ![p] = @ + 1],
           vacios |-> vacios, viva |-> viva]
  BY <1>1
<1>4. CASE contador[p] # CacheXProc /\ vacios > 0
  <2>1. u = [c EXCEPT !.vacios = @ - 1]
    BY <1>1, <1>4 DEF eliminarRegistroCacheLRU
  <2> HIDE DEF c, u, e
  <2>2. /\ u.contador = [contador EXCEPT ![p] = @ + 1] /\ u.vacios = vacios - 1
        /\ u.viva = viva /\ u.cache = cache
    BY <1>3, <2>1
  <2>3. u = [cache |-> u.cache, contador |-> u.contador,
             vacios |-> u.vacios, viva |-> u.viva]
    BY <1>3, <2>1
  <2> QED BY <1>4, <2>2, <2>3 DEF u, e
<1>5. CASE contador[p] # CacheXProc /\ ~(vacios > 0)
  <2>1. u = DesalojarGlobalmente(c)
    BY <1>1, <1>5 DEF eliminarRegistroCacheLRU
  <2> HIDE DEF c, u, e
  <2>2. CASE cache = <<>>
    <3>1. u = [c EXCEPT !.viva = FALSE]
      BY <1>3, <2>1, <2>2 DEF DesalojarGlobalmente
    <3>2. /\ u.contador = [contador EXCEPT ![p] = @ + 1] /\ u.vacios = vacios
          /\ u.viva = FALSE /\ u.cache = cache
      BY <1>3, <3>1
    <3>3. u = [cache |-> u.cache, contador |-> u.contador,
               vacios |-> u.vacios, viva |-> u.viva]
      BY <1>3, <3>1
    <3> QED BY <1>5, <2>2, <3>2, <3>3 DEF u, e
  <2>3. CASE cache # <<>>
    <3> DEFINE q == cache[Len(cache)].pid
               contado == [contador EXCEPT ![p] = @ + 1]
               s == SubSeq(cache, 1, Len(cache) - 1)
    <3>1. c.cache = cache /\ c.contador = contado
      BY <1>3
    <3>2. u = [c EXCEPT !.contador[q] = @ - 1, !.cache = s]
      BY <2>1, <2>3, <3>1 DEF DesalojarGlobalmente
    <3> HIDE DEF q, contado, s
    <3>3. c = [cache |-> cache, contador |-> contado, vacios |-> vacios, viva |-> viva]
      BY <1>3 DEF contado
    <3>4. /\ u.contador = [contado EXCEPT ![q] = @ - 1] /\ u.vacios = vacios
          /\ u.viva = viva /\ u.cache = s
      BY <3>2, <3>3
    <3>5. u = [cache |-> u.cache, contador |-> u.contador,
               vacios |-> u.vacios, viva |-> u.viva]
      BY <3>2, <3>3
    <3> QED BY <1>5, <2>3, <3>4, <3>5 DEF u, e, q, contado, s
  <2> QED BY <2>2, <2>3
<1> QED BY <1>2, <1>4, <1>5

\* Taking one entry away keeps what the list promises.
LEMMA ListaSinUna ==
    ASSUME NEW s \in Lista, SinRepetidas(s), NEW i \in 1..Len(s)
    PROVE  /\ RemoveAt(s, i) \in Lista /\ SinRepetidas(RemoveAt(s, i))
           /\ \A p, g : ~Aparece(s, p, g) => ~Aparece(RemoveAt(s, i), p, g)
           /\ \A k \in 1..Len(RemoveAt(s, i)) : \E j \in 1..Len(s) :
                 RemoveAt(s, i)[k] = s[j]
<1> DEFINE r == RemoveAt(s, i)
<1>1. /\ r \in Lista /\ Len(r) = Len(s) - 1
      /\ \A j \in 1..(Len(s) - 1) : r[j] = s[IF j < i THEN j ELSE j + 1]
  BY SinUna
<1>2. SinRepetidas(r) /\ \A p, g : ~Aparece(s, p, g) => ~Aparece(r, p, g)
  BY RepetidasSinUna
<1> HIDE DEF r
<1>3. \A k \in 1..Len(r) : \E j \in 1..Len(s) : r[k] = s[j]
  <2> TAKE k \in 1..Len(r)
  <2>1. Len(s) \in Nat
    BY DEF Lista
  <2>2. (IF k < i THEN k ELSE k + 1) \in 1..Len(s)
    BY <1>1, <2>1
  <2> QED BY <1>1, <2>1, <2>2
<1> QED BY <1>1, <1>2, <1>3 DEF r

\* What makes room takes one entry of the list, or none.
LEMMA EliminarBien ==
    ASSUME Tipada, SinRepetidas(cache), NEW p, NEW g, ~Aparece(cache, p, g)
    PROVE  LET u == eliminarRegistroCacheLRU(EstadoCache, p)
           IN  /\ u.cache \in Lista /\ SinRepetidas(u.cache)
               /\ ~Aparece(u.cache, p, g)
               /\ \A k \in 1..Len(u.cache) : \E i \in 1..Len(cache) :
                     u.cache[k] = cache[i]
               /\ u.vacios \in 0..EntradasCache /\ u.viva \in BOOLEAN
               /\ u = [cache |-> u.cache, contador |-> u.contador,
                       vacios |-> u.vacios, viva |-> u.viva]
<1> DEFINE u == eliminarRegistroCacheLRU(EstadoCache, p)
           suyas == PaginasCacheadas(cache, p)
<1>1. /\ cache \in Lista /\ Len(cache) \in Nat /\ viva \in BOOLEAN
      /\ vacios \in 0..EntradasCache /\ vacios \in Nat
      /\ EntradasCache \in Nat /\ CacheXProc \in Nat \ {0}
  BY CacheAssumption DEF Tipada, Lista
<1>2. u = [cache |-> u.cache, contador |-> u.contador,
           vacios |-> u.vacios, viva |-> u.viva]
  BY <1>1, EliminarCasos
<1>3. /\ u.vacios = vacios \/ (vacios > 0 /\ u.vacios = vacios - 1)
      /\ u.viva = viva \/ u.viva = FALSE
      /\ \/ u.cache = cache
         \/ /\ ~(Cardinality(suyas) < CacheXProc)
            /\ u.cache = RemoveAt(cache, Enesima(suyas, CacheXProc))
         \/ cache # <<>> /\ u.cache = SubSeq(cache, 1, Len(cache) - 1)
  <2> HIDE DEF u
  <2> QED BY <1>1, EliminarCasos DEF u
<1> HIDE DEF u
<1> HIDE DEF suyas
<1>4. u.viva \in BOOLEAN /\ u.vacios \in 0..EntradasCache
  <2>1. u.viva = viva \/ u.viva = FALSE
    BY <1>3
  <2>2. u.vacios = vacios \/ (vacios > 0 /\ u.vacios = vacios - 1)
    BY <1>3
  <2>3. u.viva \in BOOLEAN
    BY <1>1, <2>1
  <2>4. u.vacios \in 0..EntradasCache
    BY <1>1, <2>2
  <2> QED BY <2>3, <2>4
<1>5. CASE u.cache = cache
  BY <1>1, <1>2, <1>4, <1>5 DEF u
<1>6. ASSUME NEW i \in 1..Len(cache), u.cache = RemoveAt(cache, i)
      PROVE  /\ u.cache \in Lista /\ SinRepetidas(u.cache)
             /\ ~Aparece(u.cache, p, g)
             /\ \A k \in 1..Len(u.cache) : \E j \in 1..Len(cache) :
                   u.cache[k] = cache[j]
  BY <1>1, <1>6, ListaSinUna
<1>7. CASE /\ ~(Cardinality(suyas) < CacheXProc)
           /\ u.cache = RemoveAt(cache, Enesima(suyas, CacheXProc))
  <2>1. suyas \in SUBSET (1..Len(cache))
    BY DEF PaginasCacheadas, suyas
  <2>2. Cardinality(suyas) \in Nat /\ CacheXProc \in 1..Cardinality(suyas)
    BY <1>1, <1>7, <2>1, EnesimaBien
  <2>3. Enesima(suyas, CacheXProc) \in 1..Len(cache)
    BY <1>1, <2>1, <2>2, EnesimaBien
  <2> QED BY <1>2, <1>4, <1>6, <1>7, <2>3 DEF u
<1>8. CASE cache # <<>> /\ u.cache = SubSeq(cache, 1, Len(cache) - 1)
  <2>1. /\ Len(cache) \in 1..Len(cache)
        /\ SubSeq(cache, 1, Len(cache) - 1) = RemoveAt(cache, Len(cache))
    BY <1>1, <1>8, SinLaUltima
  <2>2. u.cache = RemoveAt(cache, Len(cache))
    BY <1>8, <2>1
  <2> QED BY <1>2, <1>4, <1>6, <2>1, <2>2 DEF u
<1> QED BY <1>3, <1>5, <1>7, <1>8 DEF suyas

\* A page that is not cached comes to the front of the cache.
LEMMA EscribirCacheBien ==
    ASSUME Tipada, SinRepetidas(cache), NEW p \in Procesos, NEW g \in Paginas,
           NEW v \in Valores, ~Aparece(cache, p, g)
    PROVE  LET e == escribirCache(p, g, v)
               x == [pid |-> p, pagina |-> g, valor |-> v]
           IN  /\ e.cache \in Lista /\ SinRepetidas(e.cache)
               /\ \A k \in 1..Len(e.cache) :
                     e.cache[k] = x \/ \E i \in 1..Len(cache) : e.cache[k] = cache[i]
               /\ e.vacios \in 0..EntradasCache /\ e.viva \in BOOLEAN
               /\ ~e.viva => ~Aparece(e.cache, p, g)
<1> DEFINE e == escribirCache(p, g, v)
           x == [pid |-> p, pagina |-> g, valor |-> v]
           u == eliminarRegistroCacheLRU(EstadoCache, p)
<1>1. /\ u.cache \in Lista /\ SinRepetidas(u.cache) /\ ~Aparece(u.cache, p, g)
      /\ \A k \in 1..Len(u.cache) : \E i \in 1..Len(cache) : u.cache[k] = cache[i]
      /\ u.vacios \in 0..EntradasCache /\ u.viva \in BOOLEAN
      /\ u = [cache |-> u.cache, contador |-> u.contador,
              vacios |-> u.vacios, viva |-> u.viva]
  BY EliminarBien
<1>2. e = IF u.viva THEN [u EXCEPT !.cache = <<x>> \o @] ELSE u
  BY DEF escribirCache
<1>3. x \in EntradaCache /\ x.pid = p /\ x.pagina = g
  BY DEF EntradaCache
<1> HIDE DEF u, e, x
<1>4. /\ e.cache = IF u.viva THEN <<x>> \o u.cache ELSE u.cache
      /\ e.vacios = u.vacios /\ e.viva = u.viva
  BY <1>1, <1>2
<1>5. CASE ~u.viva
  <2>1. e.cache = u.cache
    BY <1>4, <1>5
  <2> QED BY <1>1, <1>4, <2>1 DEF e, x
<1>6. CASE u.viva
  <2> DEFINE c == <<x>> \o u.cache
  <2>1. e.cache = c
    BY <1>4, <1>6
  <2>2. c \in Lista /\ SinRepetidas(c)
    BY <1>1, <1>3, AlPrincipio, RepetidasAlPrincipio
  <2>3. /\ Len(c) = Len(u.cache) + 1 /\ c[1] = x /\ Len(u.cache) \in Nat
        /\ \A i \in 1..Len(u.cache) : c[i + 1] = u.cache[i]
    BY <1>1, <1>3, AlPrincipio DEF Lista
  <2> HIDE DEF c
  <2>4. \A k \in 1..Len(c) : c[k] = x \/ \E i \in 1..Len(cache) : c[k] = cache[i]
    <3> TAKE k \in 1..Len(c)
    <3>1. CASE k # 1
      <4>1. k - 1 \in 1..Len(u.cache) /\ (k - 1) + 1 = k
        BY <2>3, <3>1
      <4>2. c[k] = u.cache[k - 1]
        BY <2>3, <4>1
      <4> QED BY <1>1, <4>1, <4>2
    <3> QED BY <2>3, <3>1
  <2>5. e.viva
    BY <1>4, <1>6
  <2> QED BY <1>1, <1>4, <2>1, <2>2, <2>4, <2>5 DEF e, x
<1> QED BY <1>1, <1>5, <1>6

\* A hit: the entry there is of the page.
LEMMA AciertoBien ==
    ASSUME cache \in Lista, NEW p, NEW g, Cacheada(p, g)
    PROVE  /\ Acierto(p, g) \in 1..Len(cache)
           /\ cache[Acierto(p, g)].pid = p /\ cache[Acierto(p, g)].pagina = g
<1> DEFINE P == PosicionEnCache(p, g)
<1>1. P \subseteq Nat /\ P # {}
  BY DEF PosicionEnCache, Cacheada
<1>2. Min(P) \in P /\ \A i \in P : Min(P) <= i
  BY <1>1, MinimoExiste
<1>3. Acierto(p, g) \in P
  BY <1>2 DEF Acierto
<1> QED BY <1>3 DEF PosicionEnCache

\* An entry with another value is an entry of the same page.
LEMMA EntradaConValor ==
    ASSUME NEW e \in EntradaCache, NEW v \in Valores
    PROVE  /\ [e EXCEPT !.valor = v] \in EntradaCache
           /\ [e EXCEPT !.valor = v].pid = e.pid
           /\ [e EXCEPT !.valor = v].pagina = e.pagina
           /\ [e EXCEPT !.valor = v].valor = v
BY DEF EntradaCache

\* What a hit does to the list: the entry comes to the front, the others
\* keep their order, and each process keeps as many as it had.
LEMMA AlFrenteBien ==
    ASSUME cache \in Lista, SinRepetidas(cache),
           NEW i \in 1..Len(cache), NEW v \in Valores
    PROVE  LET a == AlFrente(i, v)
           IN  /\ a \in Lista /\ SinRepetidas(a) /\ Len(a) = Len(cache)
               /\ \A k \in 1..Len(a) :
                     \/ /\ a[k].pid = cache[i].pid /\ a[k].pagina = cache[i].pagina
                        /\ a[k].valor = v
                     \/ \E j \in 1..Len(cache) :
                          a[k] = cache[j] /\ (cache[j].pid # cache[i].pid
                                              \/ cache[j].pagina # cache[i].pagina)
               /\ \A p : Cardinality(PaginasCacheadas(a, p)) =
                         Cardinality(PaginasCacheadas(cache, p))
<1> DEFINE x == [cache[i] EXCEPT !.valor = v]
           r == RemoveAt(cache, i)
           a == <<x>> \o r
<1>1. cache[i] \in EntradaCache /\ Len(cache) \in Nat
  BY DEF Lista
<1>2. x \in EntradaCache /\ x.pid = cache[i].pid /\ x.pagina = cache[i].pagina /\ x.valor = v
  BY <1>1, EntradaConValor
<1> HIDE DEF x
<1>3. r \in Lista /\ Len(r) = Len(cache) - 1 /\ SinRepetidas(r)
  BY SinUna, ListaSinUna
<1>4. ~Aparece(r, cache[i].pid, cache[i].pagina)
  BY RepetidasSinUna
<1>5. \A k \in 1..Len(r) : \E j \in 1..Len(cache) : r[k] = cache[j]
  BY ListaSinUna
<1>6. \A p : Cardinality(PaginasCacheadas(r, p)) =
               IF cache[i].pid = p THEN Cardinality(PaginasCacheadas(cache, p)) - 1
                                   ELSE Cardinality(PaginasCacheadas(cache, p))
  BY ContarSinUna
<1> HIDE DEF r
<1>7. a \in Lista /\ Len(a) = Len(cache) /\ SinRepetidas(a) /\ Len(r) \in Nat
  <2>1. a \in Lista /\ Len(a) = Len(r) + 1
    BY <1>2, <1>3, AlPrincipio
  <2>2. SinRepetidas(a)
    BY <1>2, <1>3, <1>4, RepetidasAlPrincipio
  <2> QED BY <1>1, <1>3, <2>1, <2>2
<1>8. a[1] = x /\ \A k \in 1..Len(r) : a[k + 1] = r[k]
  BY <1>2, <1>3, AlPrincipio
<1>9. ASSUME NEW p
      PROVE  Cardinality(PaginasCacheadas(a, p)) = Cardinality(PaginasCacheadas(cache, p))
  <2>1. Cardinality(PaginasCacheadas(a, p)) =
          IF x.pid = p THEN Cardinality(PaginasCacheadas(r, p)) + 1
                       ELSE Cardinality(PaginasCacheadas(r, p))
    BY <1>2, <1>3, ContarAlPrincipio
  <2>2. Cardinality(PaginasCacheadas(cache, p)) \in Nat
    BY PosicionesFinitas
  <2> QED BY <1>2, <1>6, <2>1, <2>2
<1> HIDE DEF a
<1>10. ASSUME NEW k \in 1..Len(a)
       PROVE  \/ /\ a[k].pid = cache[i].pid /\ a[k].pagina = cache[i].pagina
                 /\ a[k].valor = v
              \/ \E j \in 1..Len(cache) :
                   a[k] = cache[j] /\ (cache[j].pid # cache[i].pid
                                       \/ cache[j].pagina # cache[i].pagina)
  <2>1. CASE k = 1
    BY <1>2, <1>8, <2>1
  <2>2. CASE k # 1
    <3>1. k - 1 \in 1..Len(r) /\ (k - 1) + 1 = k
      BY <1>1, <1>3, <1>7, <2>2
    <3>2. a[k] = r[k - 1]
      BY <1>8, <3>1
    <3>3. PICK j \in 1..Len(cache) : r[k - 1] = cache[j]
      BY <1>5, <3>1
    <3>4. r[k - 1].pid # cache[i].pid \/ r[k - 1].pagina # cache[i].pagina
      BY <1>4, <3>1 DEF Aparece
    <3> QED BY <3>2, <3>3, <3>4
  <2> QED BY <2>1, <2>2
<1>11. AlFrente(i, v) = a
  BY DEF AlFrente, a, x, r
<1> QED BY <1>7, <1>9, <1>10, <1>11

-----------------------------------------------------------------------------
(* Every step keeps what the list promises.                                *)

\* Nobody else fills the cache while h holds mutex_cache, and nobody at all
\* while it is free.
LEMMA Exclusion ==
    ASSUME Guardada, NEW k \in Hilos, pc[k] = "leyendo"
    PROVE  mutex = k /\ mutex # Nadie
BY HilosAssumption DEF Guardada, EnManos

\* A thread that answers has nothing in its hands any more.
LEMMA GuardadaAlResponder ==
    ASSUME Guardada, NEW h \in Hilos, NEW r \in Respuesta, Responder(h, r),
           UNCHANGED <<tabla, tarea>>,
           marco' \in [MarcosTodos -> Valores], cache' \in Lista, SinRepetidas(cache'),
           vacios' \in 0..EntradasCache, mutex' \in Hilos \cup {Nadie}, viva' \in BOOLEAN,
           historia' \in [Procesos -> [Paginas -> Estados]],
           \A k \in Hilos : k # h /\ pc[k] = "leyendo" =>
               mutex' = k /\ ~Aparece(cache', pedido[k].pid, pedido[k].pagina)
    PROVE  Guardada'
<1>1. /\ respuesta' = <<h, r>>
      /\ pc' = [pc EXCEPT ![h] = "libre"]
      /\ pedido' = [pedido EXCEPT ![h] = SinPedido]
      /\ encontrado' = [encontrado EXCEPT ![h] = -1]
  BY DEF Responder
<1>2. Tipada
  BY DEF Guardada
<1>3. Tipada'
  <2>1. pc' \in [Hilos -> Fases] /\ encontrado' \in [Hilos -> MarcosTodos \cup {-1}]
    BY <1>1, <1>2 DEF Tipada, Fases
  <2>2. pedido' \in [Hilos -> Pedido]
    BY <1>1, <1>2 DEF Tipada, Pedido
  <2>3. respuesta' \in (Hilos \cup {Nadie}) \X Respuesta
    BY <1>1
  <2> QED BY <1>2, <2>1, <2>2, <2>3 DEF Tipada
<1>4. TareaAcotada' /\ SinRepetidas(cache')
  BY DEF Guardada, TareaAcotada, SinTarea
<1>5. ASSUME NEW k \in Hilos PROVE EnManos(k)'
  <2>1. CASE k = h
    <3>1. pc'[k] = "libre"
      BY <1>1, <1>2, <2>1 DEF Tipada
    <3> QED BY <3>1 DEF EnManos
  <2>2. CASE k # h
    <3>1. pc'[k] = pc[k] /\ pedido'[k] = pedido[k] /\ encontrado'[k] = encontrado[k]
      BY <1>1, <1>2, <2>2 DEF Tipada
    <3> QED BY <2>2, <3>1 DEF Guardada, EnManos, SinPedido, MarcosTodos, Aparece
  <2> QED BY <2>1, <2>2
<1> QED BY <1>3, <1>4, <1>5 DEF Guardada

\* The steps of the kernel's thread and of the operator: no request moves.
LEMMA GuardadaSinPedidos ==
    ASSUME Guardada, UNCHANGED <<marco, mutex, pc, pedido, encontrado, viva>>,
           tabla' \in [MarcosTodos -> Dueno], cache' \in Lista, SinRepetidas(cache'),
           vacios' \in 0..EntradasCache,
           respuesta' \in (Hilos \cup {Nadie}) \X Respuesta,
           tarea' \in Tarea, tarea' # SinTarea => tarea'.hasta <= MaxPagina + 1,
           historia' \in [Procesos -> [Paginas -> Estados]],
           \A k \in Hilos : pc[k] = "leyendo" =>
               ~Aparece(cache', pedido[k].pid, pedido[k].pagina)
    PROVE  Guardada'
<1>1. Tipada'
  BY DEF Guardada, Tipada
<1>2. TareaAcotada' /\ SinRepetidas(cache')
  BY DEF TareaAcotada, SinTarea
<1>3. ASSUME NEW k \in Hilos PROVE EnManos(k)'
  BY DEF Guardada, EnManos, SinPedido, MarcosTodos, Aparece
<1> QED BY <1>1, <1>2, <1>3 DEF Guardada

\* A thread goes on with its request.
LEMMA GuardadaAlSeguir ==
    ASSUME Guardada, NEW h \in Hilos, NEW f \in Fases,
           pc' = [pc EXCEPT ![h] = f], pedido'[h] # SinPedido,
           UNCHANGED <<tabla, marco, gestion, tarea, viva, historia>>,
           pedido' \in [Hilos -> Pedido], encontrado' \in [Hilos -> MarcosTodos \cup {-1}],
           respuesta' \in (Hilos \cup {Nadie}) \X Respuesta,
           mutex' \in Hilos \cup {Nadie},
           \A k \in Hilos : k # h =>
               pedido'[k] = pedido[k] /\ encontrado'[k] = encontrado[k],
           \A k \in Hilos : k # h /\ pc[k] = "leyendo" => mutex' = mutex,
           f \in {"leyendo", "escribiendo"} => encontrado'[h] \in MarcosTodos,
           f = "escribiendo" => pedido'[h].tipo = "escribe",
           f = "leyendo" => pedido'[h].tipo = "lee",
           f = "leyendo" =>
               mutex' = h /\ ~Aparece(cache, pedido'[h].pid, pedido'[h].pagina)
    PROVE  Guardada'
<1>1. Tipada
  BY DEF Guardada
<1>2. Tipada'
  BY <1>1 DEF Tipada, gestion
<1>3. TareaAcotada' /\ SinRepetidas(cache') /\ cache' = cache
  BY DEF Guardada, TareaAcotada, SinTarea, gestion
<1>4. ASSUME NEW k \in Hilos PROVE EnManos(k)'
  <2>1. CASE k = h
    <3>1. pc'[k] = f
      BY <1>1, <2>1 DEF Tipada
    <3> QED BY <1>3, <2>1, <3>1 DEF EnManos, SinPedido, MarcosTodos, Aparece
  <2>2. CASE k # h
    <3>1. pc'[k] = pc[k]
      BY <1>1, <2>2 DEF Tipada
    <3> QED BY <1>3, <2>2, <3>1 DEF Guardada, EnManos, SinPedido, MarcosTodos, Aparece
  <2> QED BY <2>1, <2>2
<1> QED BY <1>2, <1>3, <1>4 DEF Guardada

\* The page a thread works on.
LEMMA EnManosBien ==
    ASSUME Guardada, NEW h \in Hilos, pc[h] # "libre"
    PROVE  /\ pedido[h] \in Pedido /\ pedido[h] # SinPedido
           /\ pedido[h].pid \in Procesos /\ pedido[h].pagina \in Paginas
           /\ pedido[h].tipo = "escribe" => pedido[h].valor \in Valores
<1>1. pedido[h] \in Pedido /\ pedido[h] # SinPedido
  BY DEF Guardada, Tipada, EnManos
<1>2. pedido[h].tipo = "escribe" => pedido[h].valor \in Valores
  BY <1>1 DEF Pedido, SinPedido
<1> QED BY <1>1, <1>2, PedidoBien

\* A frame is looked for among the frames.
LEMMA BuscarTipo ==
    ASSUME NEW p \in Procesos, NEW g \in Paginas
    PROVE  BuscarIndice(p, g) # -1 => BuscarIndice(p, g) \in MarcosTodos
BY BuscarBien

\* Not to be found in the cache is not to be in the list.
LEMMA NoCacheada ==
    ASSUME NEW p, NEW g, ~Cacheada(p, g)
    PROVE  ~Aparece(cache, p, g)
BY DEF Cacheada, PosicionEnCache, Aparece

\* What is done to the pages of processes keeps the type of the history.
LEMMA HistoriaBien ==
    ASSUME historia \in [Procesos -> [Paginas -> Estados]]
    PROVE  /\ \A p, g : \A e \in Estados :
                 [historia EXCEPT ![p][g] = e] \in [Procesos -> [Paginas -> Estados]]
           /\ \A p : \A e \in Estados :
                 [historia EXCEPT ![p] = [g \in Paginas |-> e]]
                    \in [Procesos -> [Paginas -> Estados]]
           /\ \A p, g : [historia EXCEPT ![p][g] = IF @ = "asignada" THEN "escrita" ELSE @]
                    \in [Procesos -> [Paginas -> Estados]]
           /\ \A p, g : [historia EXCEPT ![p][g] = IF @ = "nunca" THEN @ ELSE "liberada"]
                    \in [Procesos -> [Paginas -> Estados]]
<1>1. "escrita" \in Estados /\ "liberada" \in Estados
  BY DEF Estados
<1>2. ASSUME NEW p, NEW g, NEW e \in Estados
      PROVE  [historia EXCEPT ![p][g] = e] \in [Procesos -> [Paginas -> Estados]]
  OBVIOUS
<1>3. ASSUME NEW p, NEW e \in Estados
      PROVE  [historia EXCEPT ![p] = [g \in Paginas |-> e]]
                \in [Procesos -> [Paginas -> Estados]]
  OBVIOUS
<1>4. ASSUME NEW p, NEW g
      PROVE  [historia EXCEPT ![p][g] = IF @ = "asignada" THEN "escrita" ELSE @]
                \in [Procesos -> [Paginas -> Estados]]
  BY <1>1
<1>5. ASSUME NEW p, NEW g
      PROVE  [historia EXCEPT ![p][g] = IF @ = "nunca" THEN @ ELSE "liberada"]
                \in [Procesos -> [Paginas -> Estados]]
  BY <1>1
<1> QED BY <1>2, <1>3, <1>4, <1>5

\* leerDato and escribirDato on a page of the cache.
LEMMA GuardadaAcierto ==
    ASSUME Guardada, NEW h \in Hilos, LeerDeCache(h) \/ EscribirEnMarco(h)
    PROVE  Guardada'
<1> DEFINE p == pedido[h].pid
           g == pedido[h].pagina
<1>1. Tipada /\ SinRepetidas(cache) /\ cache \in Lista
  BY DEF Guardada, Tipada
<1>2. pc[h] # "libre"
  BY DEF LeerDeCache, EscribirEnMarco, Pide
<1>3. /\ p \in Procesos /\ g \in Paginas
      /\ pedido[h].tipo = "escribe" => pedido[h].valor \in Valores
  BY <1>2, EnManosBien
<1>4. mutex = Nadie
  BY DEF LeerDeCache, EscribirEnMarco
<1>5. \A k \in Hilos : pc[k] # "leyendo"
  BY <1>4, Exclusion
<1>6. Cacheada(p, g) => Acierto(p, g) \in 1..Len(cache)
  BY <1>1, AciertoBien
<1> HIDE DEF p, g
<1>7. CASE LeerDeCache(h)
  <2> DEFINE i == Acierto(p, g)
             v == cache[i].valor
  <2>1. /\ Cacheada(p, g) /\ cache' = AlFrente(i, v) /\ Responder(h, Lectura(v))
        /\ UNCHANGED <<tabla, marco, contador, vacios, mutex, tarea, viva, historia>>
    BY <1>7 DEF LeerDeCache, p, g
  <2>2. i \in 1..Len(cache)
    BY <1>6, <2>1
  <2>3. v \in Valores
    <3>1. cache[i] \in EntradaCache
      BY <1>1, <2>2 DEF Lista
    <3> QED BY <3>1 DEF EntradaCache
  <2>4. cache' \in Lista /\ SinRepetidas(cache')
    BY <1>1, <2>1, <2>2, <2>3, AlFrenteBien
  <2>5. Lectura(v) \in Respuesta
    BY <2>3 DEF Respuesta
  <2> HIDE DEF i, v
  <2>6. /\ marco' \in [MarcosTodos -> Valores] /\ vacios' \in 0..EntradasCache
        /\ mutex' \in Hilos \cup {Nadie} /\ viva' \in BOOLEAN
        /\ historia' \in [Procesos -> [Paginas -> Estados]]
    BY <1>1, <2>1 DEF Tipada
  <2> QED BY <1>5, <2>1, <2>4, <2>5, <2>6, GuardadaAlResponder
<1>8. CASE EscribirEnMarco(h)
  <2> DEFINE i == Acierto(p, g)
             v == pedido[h].valor
  <2>1. /\ pc[h] = "escribiendo"
        /\ marco' = [marco EXCEPT ![encontrado[h]] = v]
        /\ cache' = IF Cacheada(p, g) THEN AlFrente(i, v) ELSE cache
        /\ historia' = [historia EXCEPT ![p][g] = IF @ = "asignada" THEN "escrita" ELSE @]
        /\ Responder(h, Dice("ESCRITURA_SATISFACTORIA"))
        /\ UNCHANGED <<tabla, contador, vacios, mutex, tarea, viva>>
    BY <1>8 DEF EscribirEnMarco, p, g
  <2>2. pedido[h].tipo = "escribe"
    BY <2>1 DEF Guardada, EnManos
  <2>3. v \in Valores
    BY <1>3, <2>2
  <2> HIDE DEF i, v
  <2>4. cache' \in Lista /\ SinRepetidas(cache')
    <3>1. CASE Cacheada(p, g)
      <4>1. cache' = AlFrente(i, v) /\ i \in 1..Len(cache)
        BY <1>6, <2>1, <3>1 DEF i
      <4> QED BY <1>1, <2>3, <4>1, AlFrenteBien
    <3> QED BY <1>1, <2>1, <3>1
  <2>5. Dice("ESCRITURA_SATISFACTORIA") \in Respuesta
    BY DEF Respuesta
  <2>6. historia' \in [Procesos -> [Paginas -> Estados]]
    BY <1>1, <2>1, HistoriaBien DEF Tipada
  <2>7. /\ marco' \in [MarcosTodos -> Valores] /\ vacios' \in 0..EntradasCache
        /\ mutex' \in Hilos \cup {Nadie} /\ viva' \in BOOLEAN
    BY <1>1, <2>1, <2>3 DEF Tipada
  <2> QED BY <1>5, <2>1, <2>4, <2>5, <2>6, <2>7, GuardadaAlResponder
<1> QED BY <1>7, <1>8

\* leerDato after a miss: the thread that holds mutex_cache fills the cache.
LEMMA GuardadaLeerDeMarco ==
    ASSUME Guardada, NEW h \in Hilos, LeerDeMarco(h)
    PROVE  Guardada'
<1> DEFINE p == pedido[h].pid
           g == pedido[h].pagina
           v == marco[encontrado[h]]
           e == escribirCache(p, g, v)
<1>1. Tipada /\ SinRepetidas(cache) /\ cache \in Lista
  BY DEF Guardada, Tipada
<1>2. /\ pc[h] = "leyendo"
      /\ cache' = e.cache /\ contador' = e.contador
      /\ vacios' = e.vacios /\ viva' = e.viva
      /\ IF e.viva THEN mutex' = Nadie /\ Responder(h, Lectura(v))
         ELSE UNCHANGED <<mutex, pc, pedido, encontrado, respuesta>>
      /\ UNCHANGED <<tabla, marco, tarea, historia>>
  BY DEF LeerDeMarco
<1>3. p \in Procesos /\ g \in Paginas
  BY <1>2, EnManosBien
<1>4. encontrado[h] \in MarcosTodos /\ mutex = h /\ ~Aparece(cache, p, g)
  BY <1>2 DEF Guardada, EnManos
<1>5. v \in Valores
  BY <1>1, <1>4 DEF Tipada
<1> HIDE DEF p, g, v
<1>6. /\ e.cache \in Lista /\ SinRepetidas(e.cache)
      /\ e.vacios \in 0..EntradasCache /\ e.viva \in BOOLEAN
      /\ ~e.viva => ~Aparece(e.cache, p, g)
  BY <1>1, <1>3, <1>4, <1>5, EscribirCacheBien
<1> HIDE DEF e
<1>7. \A k \in Hilos : k # h => pc[k] # "leyendo"
  BY <1>4, Exclusion
<1>8. /\ marco' \in [MarcosTodos -> Valores] /\ cache' \in Lista /\ SinRepetidas(cache')
      /\ vacios' \in 0..EntradasCache /\ viva' \in BOOLEAN
      /\ historia' \in [Procesos -> [Paginas -> Estados]]
  BY <1>1, <1>2, <1>6 DEF Tipada
<1>9. CASE e.viva
  <2>1. mutex' = Nadie /\ Responder(h, Lectura(v)) /\ UNCHANGED <<tabla, tarea>>
    BY <1>2, <1>9
  <2>2. Lectura(v) \in Respuesta /\ mutex' \in Hilos \cup {Nadie}
    BY <1>5, <2>1 DEF Respuesta
  <2> QED BY <1>7, <1>8, <2>1, <2>2, GuardadaAlResponder
<1>10. CASE ~e.viva
  <2>1. UNCHANGED <<mutex, pc, pedido, encontrado, respuesta, tabla, tarea>>
    BY <1>2, <1>10
  <2>2. Tipada'
    BY <1>1, <1>8, <2>1 DEF Tipada
  <2>3. TareaAcotada'
    BY <2>1 DEF Guardada, TareaAcotada, SinTarea
  <2>4. ~Aparece(cache', p, g)
    BY <1>2, <1>6, <1>10
  <2>5. ASSUME NEW k \in Hilos PROVE EnManos(k)'
    <3>1. CASE k = h
      BY <1>4, <2>1, <2>4, <3>1 DEF Guardada, EnManos, SinPedido, MarcosTodos, Aparece, p, g
    <3>2. CASE k # h
      BY <1>7, <2>1, <3>2 DEF Guardada, EnManos, SinPedido, MarcosTodos
    <3> QED BY <3>1, <3>2
  <2> QED BY <1>8, <2>2, <2>3, <2>5 DEF Guardada
<1> QED BY <1>6, <1>9, <1>10

\* Every step of a thread.
LEMMA GuardadaHilo == ASSUME Guardada, NEW h \in Hilos, Hilo(h) PROVE Guardada'
<1>1. Tipada /\ SinRepetidas(cache) /\ cache \in Lista
  BY DEF Guardada, Tipada
<1>2. ASSUME NEW r \in Pedido \ {SinPedido}, Recibir(h, r) PROVE Guardada'
  <2>1. /\ pc' = [pc EXCEPT ![h] = "recibido"] /\ pedido' = [pedido EXCEPT ![h] = r]
        /\ respuesta' = SinRespuesta
        /\ UNCHANGED <<tabla, marco, gestion, mutex, encontrado, tarea, viva, historia>>
    BY <1>2 DEF Recibir
  <2>2. /\ pedido' \in [Hilos -> Pedido] /\ pedido'[h] # SinPedido
        /\ \A k \in Hilos : k # h => pedido'[k] = pedido[k]
    BY <1>1, <2>1 DEF Tipada
  <2>3. SinRespuesta \in (Hilos \cup {Nadie}) \X Respuesta
    BY DEF SinRespuesta, Respuesta
  <2>4. /\ encontrado' \in [Hilos -> MarcosTodos \cup {-1}]
        /\ mutex' \in Hilos \cup {Nadie} /\ "recibido" \in Fases
    BY <1>1, <2>1 DEF Tipada, Fases
  <2> QED BY <2>1, <2>2, <2>3, <2>4, GuardadaAlSeguir
<1>3. CASE LeerSinMarco(h) \/ EscribirSinMarco(h)
  <2>1. PICK q \in {"ERROR_EN_LECTURA", "ERROR_EN_ESCRITURA"} : Responder(h, Dice(q))
    BY <1>3 DEF LeerSinMarco, EscribirSinMarco
  <2>2. Dice(q) \in Respuesta
    BY DEF Respuesta
  <2>3. UNCHANGED <<tabla, marco, cache, vacios, mutex, tarea, viva, historia>>
    BY <1>3 DEF LeerSinMarco, EscribirSinMarco, gestion
  <2>4. /\ marco' \in [MarcosTodos -> Valores] /\ cache' \in Lista /\ SinRepetidas(cache')
        /\ vacios' \in 0..EntradasCache /\ mutex' \in Hilos \cup {Nadie} /\ viva' \in BOOLEAN
        /\ historia' \in [Procesos -> [Paginas -> Estados]]
    BY <1>1, <2>3 DEF Tipada
  <2>5. \A k \in Hilos : k # h /\ pc[k] = "leyendo" =>
           mutex' = k /\ ~Aparece(cache', pedido[k].pid, pedido[k].pagina)
    BY <2>3 DEF Guardada, EnManos
  <2> QED BY <2>1, <2>2, <2>3, <2>4, <2>5, GuardadaAlResponder
<1>4. CASE LeerFallaCache(h) \/ EscribirBuscaMarco(h)
  <2> DEFINE f == BuscarIndice(pedido[h].pid, pedido[h].pagina)
  <2>1. /\ f # -1 /\ pc[h] = "recibido"
        /\ encontrado' = [encontrado EXCEPT ![h] = f]
        /\ UNCHANGED <<tabla, marco, gestion, pedido, respuesta, tarea, viva, historia>>
    BY <1>4 DEF LeerFallaCache, EscribirBuscaMarco, Pide
  <2>2. /\ pedido[h] # SinPedido /\ pedido[h].pid \in Procesos
        /\ pedido[h].pagina \in Paginas
    BY <2>1, EnManosBien
  <2>3. f \in MarcosTodos
    BY <2>1, <2>2, BuscarTipo
  <2> HIDE DEF f
  <2>4. /\ encontrado' \in [Hilos -> MarcosTodos \cup {-1}] /\ encontrado'[h] \in MarcosTodos
        /\ \A k \in Hilos : k # h => encontrado'[k] = encontrado[k]
    BY <1>1, <2>1, <2>3 DEF Tipada
  <2>5. /\ pedido' = pedido /\ pedido' \in [Hilos -> Pedido]
        /\ respuesta' \in (Hilos \cup {Nadie}) \X Respuesta
    BY <1>1, <2>1 DEF Tipada
  <2>6. CASE LeerFallaCache(h)
    <3>1. /\ pc' = [pc EXCEPT ![h] = "leyendo"] /\ mutex = Nadie /\ mutex' = h
          /\ ~Cacheada(pedido[h].pid, pedido[h].pagina) /\ pedido[h].tipo = "lee"
      BY <2>6 DEF LeerFallaCache, Pide
    <3>2. ~Aparece(cache, pedido[h].pid, pedido[h].pagina)
      BY <3>1, NoCacheada
    <3>3. \A k \in Hilos : pc[k] # "leyendo"
      BY <3>1, Exclusion
    <3>4. "leyendo" \in Fases /\ mutex' \in Hilos \cup {Nadie}
      BY <3>1 DEF Fases
    <3>5. /\ pedido'[h] # SinPedido /\ ~Aparece(cache, pedido'[h].pid, pedido'[h].pagina)
          /\ pedido'[h].tipo = "lee"
      BY <2>1, <2>2, <2>5, <3>1, <3>2
    <3> QED BY <2>1, <2>4, <2>5, <3>1, <3>3, <3>4, <3>5, GuardadaAlSeguir
  <2>7. CASE EscribirBuscaMarco(h)
    <3>1. /\ pc' = [pc EXCEPT ![h] = "escribiendo"] /\ mutex' = mutex
          /\ pedido[h].tipo = "escribe"
      BY <2>7 DEF EscribirBuscaMarco, Pide
    <3>2. "escribiendo" \in Fases /\ mutex' \in Hilos \cup {Nadie}
      BY <1>1, <3>1 DEF Fases, Tipada
    <3>3. pedido'[h] # SinPedido /\ pedido'[h].tipo = "escribe"
      BY <2>2, <2>5, <3>1
    <3> QED BY <2>1, <2>4, <2>5, <3>1, <3>2, <3>3, GuardadaAlSeguir
  <2> QED BY <1>4, <2>6, <2>7
<1>5. CASE LeerDeCache(h) \/ EscribirEnMarco(h)
  BY <1>5, GuardadaAcierto
<1>6. CASE LeerDeMarco(h)
  BY <1>6, GuardadaLeerDeMarco
<1> QED BY <1>2, <1>3, <1>4, <1>5, <1>6 DEF Hilo

\* The table after an entry or all of a process are taken away.
LEMMA TablasTipo ==
    ASSUME tabla \in [MarcosTodos -> Dueno], NEW p \in Procesos
    PROVE  /\ SinPaginasDe(p) \in [MarcosTodos -> Dueno]
           /\ \A g : Vaciada(p, g) \in [MarcosTodos -> Dueno]
<1>1. Vacio \in Dueno
  BY DEF Dueno
<1>2. SinPaginasDe(p) \in [MarcosTodos -> Dueno]
  BY <1>1 DEF SinPaginasDe
<1>3. ASSUME NEW g PROVE Vaciada(p, g) \in [MarcosTodos -> Dueno]
  BY <1>1 DEF Vaciada
<1> QED BY <1>2, <1>3

\* The answers to the kernel.
LEMMA ContestaBien ==
    ASSUME NEW q \in {"MEMORIA_INSUFICIENTE", "PAGINAS_ASIGNADAS", "PAGINA_LIBERADA",
                      "PAGINA_NO_LIBERADA", "ELIMINACION_DE_PROCESO_SATISFACTORIO"},
           Contesta(q)
    PROVE  respuesta' \in (Hilos \cup {Nadie}) \X Respuesta
BY DEF Contesta, Respuesta, Hilos

\* Once around a loop over pages.
LEMMA GuardadaLazo == Guardada /\ LazoDePaginas => Guardada'
<1> SUFFICES ASSUME Guardada, LazoDePaginas PROVE Guardada'
  OBVIOUS
<1> DEFINE p == tarea.pid
<1>1. Tipada /\ SinRepetidas(cache) /\ cache \in Lista /\ TareaAcotada
  BY DEF Guardada, Tipada
<1>2. /\ tarea # SinTarea
      /\ UNCHANGED <<marco, gestion, mutex, pc, pedido, encontrado, viva>>
  BY DEF LazoDePaginas, AsignarUna, AsignadasTodas, IniciarSinMarcos, AsignarSinMarcos,
         DeshacerUna, DeshechasTodas, EliminarPaginasDeProceso, Asignando, Deshaciendo
<1>3. /\ p \in Procesos /\ tarea \in Tarea /\ tarea.desde \in Nat /\ tarea.hasta \in Nat
      /\ tarea.hasta <= MaxPagina + 1
  BY <1>1, <1>2, TareaBien DEF Tipada, TareaAcotada
<1>4. /\ cache' \in Lista /\ SinRepetidas(cache') /\ vacios' \in 0..EntradasCache
      /\ \A k \in Hilos : pc[k] = "leyendo" =>
            ~Aparece(cache', pedido[k].pid, pedido[k].pagina)
  <2>1. cache' = cache /\ vacios' = vacios
    BY <1>2 DEF gestion
  <2> QED BY <1>1, <2>1 DEF Tipada, Guardada, EnManos
<1>5. SinTarea' = SinTarea /\ SinTarea \in Tarea
  BY DEF SinTarea, Tarea
<1>6. /\ tabla \in [MarcosTodos -> Dueno] /\ historia \in [Procesos -> [Paginas -> Estados]]
      /\ respuesta \in (Hilos \cup {Nadie}) \X Respuesta
  BY <1>1 DEF Tipada
<1>7. MaxPagina \in Nat
  BY PaginasAssumption
<1> HIDE DEF p
<1>8. CASE AsignarUna
  <2> DEFINE f == Primero(Inicio(p, tarea.desde), MarcosVacios)
             d == <<p, tarea.desde>>
  <2>1. /\ tarea.desde < tarea.hasta
        /\ tabla' = [tabla EXCEPT ![f] = d]
        /\ historia' = [historia EXCEPT ![p][tarea.desde] = "asignada"]
        /\ tarea' = [tarea EXCEPT !.desde = @ + 1] /\ respuesta' = respuesta
    BY <1>8 DEF AsignarUna, p
  <2>2. tarea.desde \in Paginas
    BY <1>3, <1>7, <2>1 DEF Paginas
  <2>3. d \in Dueno
    BY <1>3, <2>2 DEF Dueno
  <2> HIDE DEF f, d
  <2>4. tabla' \in [MarcosTodos -> Dueno]
    BY <1>6, <2>1, <2>3
  <2>5. historia' \in [Procesos -> [Paginas -> Estados]]
    BY <1>6, <2>1, HistoriaBien DEF Estados
  <2>6. tarea' \in Tarea
    BY <1>2, <1>3, <2>1, TareaBien
  <2>7. tarea'.hasta = tarea.hasta
    BY <1>2, <1>3, <2>1 DEF Tarea
  <2> QED BY <1>2, <1>3, <1>4, <1>6, <2>1, <2>4, <2>5, <2>6, <2>7, GuardadaSinPedidos
<1>9. CASE AsignadasTodas \/ DeshechasTodas
  <2>1. UNCHANGED <<tabla, historia>> /\ tarea' = SinTarea
    BY <1>9 DEF AsignadasTodas, DeshechasTodas
  <2>2. respuesta' \in (Hilos \cup {Nadie}) \X Respuesta
    BY <1>9, ContestaBien DEF AsignadasTodas, DeshechasTodas
  <2> QED BY <1>2, <1>4, <1>5, <1>6, <2>1, <2>2, GuardadaSinPedidos
<1>10. CASE IniciarSinMarcos \/ EliminarPaginasDeProceso
  <2>1. /\ tabla' = SinPaginasDe(p) /\ tarea' = SinTarea
        /\ \E e \in Estados : historia' = [historia EXCEPT ![p] = [g \in Paginas |-> e]]
    BY <1>10 DEF IniciarSinMarcos, EliminarPaginasDeProceso, Estados, p
  <2>2. respuesta' \in (Hilos \cup {Nadie}) \X Respuesta
    BY <1>10, ContestaBien DEF IniciarSinMarcos, EliminarPaginasDeProceso
  <2>3. tabla' \in [MarcosTodos -> Dueno]
    BY <1>3, <1>6, <2>1, TablasTipo
  <2>4. historia' \in [Procesos -> [Paginas -> Estados]]
    BY <1>6, <2>1, HistoriaBien
  <2> QED BY <1>2, <1>4, <1>5, <2>1, <2>2, <2>3, <2>4, GuardadaSinPedidos
<1>11. CASE AsignarSinMarcos
  <2>1. /\ UNCHANGED <<tabla, historia, respuesta>> /\ tarea.desde < tarea.hasta
        /\ tarea' = [tarea EXCEPT !.tipo = "deshacer", !.desde = tarea.base,
                                  !.hasta = tarea.desde]
    BY <1>11 DEF AsignarSinMarcos
  <2>2. tarea' \in Tarea
    BY <1>2, <1>3, <2>1, TareaBien
  <2>3. tarea'.hasta = tarea.desde
    BY <1>2, <1>3, <2>1 DEF Tarea
  <2>4. tarea'.hasta <= MaxPagina + 1
    BY <1>3, <1>7, <2>1, <2>3
  <2> QED BY <1>2, <1>4, <1>6, <2>1, <2>2, <2>4, GuardadaSinPedidos
<1>12. CASE DeshacerUna
  <2>1. /\ tabla' = Vaciada(p, tarea.desde)
        /\ historia' = [historia EXCEPT ![p][tarea.desde] = "liberada"]
        /\ tarea' = [tarea EXCEPT !.desde = @ + 1] /\ respuesta' = respuesta
    BY <1>12 DEF DeshacerUna, p
  <2>2. historia' \in [Procesos -> [Paginas -> Estados]]
    BY <1>6, <2>1, HistoriaBien DEF Estados
  <2>3. tabla' \in [MarcosTodos -> Dueno]
    BY <1>3, <1>6, <2>1, TablasTipo
  <2>4. tarea' \in Tarea
    BY <1>2, <1>3, <2>1, TareaBien
  <2>5. tarea'.hasta = tarea.hasta
    BY <1>2, <1>3, <2>1 DEF Tarea
  <2> QED BY <1>2, <1>3, <1>4, <1>6, <2>1, <2>2, <2>3, <2>4, <2>5, GuardadaSinPedidos
<1> QED BY <1>8, <1>9, <1>10, <1>11, <1>12 DEF LazoDePaginas

\* What is left of the cache without a process is part of what there was.
LEMMA SinEntradasAparece ==
    ASSUME cache \in Lista, NEW p, NEW q, NEW g, ~Aparece(cache, q, g)
    PROVE  ~Aparece(SinEntradasDe(p), q, g)
<1> DEFINE s == SinEntradasDe(p)
<1>1. \A k \in 1..Len(s) : \E i \in 1..Len(cache) : s[k] = cache[i]
  BY SinEntradasBien
<1> HIDE DEF s
<1>2. ~Aparece(s, q, g)
  BY <1>1 DEF Aparece
<1> QED BY <1>2 DEF s

\* Every request of the kernel about pages.
LEMMA GuardadaPedidoDelKernel == Guardada /\ PedidoDelKernel => Guardada'
<1> SUFFICES ASSUME Guardada, PedidoDelKernel PROVE Guardada'
  OBVIOUS
<1>1. Tipada /\ SinRepetidas(cache) /\ cache \in Lista /\ TareaAcotada
  BY DEF Guardada, Tipada
<1>2. /\ tabla \in [MarcosTodos -> Dueno] /\ historia \in [Procesos -> [Paginas -> Estados]]
      /\ respuesta \in (Hilos \cup {Nadie}) \X Respuesta /\ tarea \in Tarea
      /\ vacios \in 0..EntradasCache
  BY <1>1 DEF Tipada
<1>3. \A k \in Hilos : pc[k] = "leyendo" =>
         ~Aparece(cache, pedido[k].pid, pedido[k].pagina)
  BY DEF Guardada, EnManos
<1>4. SinRespuesta \in (Hilos \cup {Nadie}) \X Respuesta
  BY DEF SinRespuesta, Respuesta
<1>5. /\ MaxPagina \in Nat /\ MaxPedidas \in Nat /\ MaxIniciales \in 0..(MaxPagina + 1)
      /\ SinTarea' = SinTarea
  BY PaginasAssumption DEF SinTarea
<1>6. ASSUME NEW p \in Procesos, NEW n \in 1..MaxIniciales, InicializarPrograma(p, n)
      PROVE  Guardada'
  <2>1. /\ tarea' = [tipo |-> "iniciar", pid |-> p, base |-> 0, desde |-> 0, hasta |-> n,
                      cuantas |-> n]
        /\ respuesta' = SinRespuesta
        /\ UNCHANGED <<tabla, marco, mutex, pc, pedido, encontrado, viva, historia>>
        /\ cache' = cache /\ vacios' = vacios
    BY <1>6 DEF InicializarPrograma, gestion
  <2>2. n \in Nat /\ n <= MaxPagina + 1
    BY <1>5
  <2>3. tarea' \in Tarea /\ tarea'.hasta = n
    BY <2>1, <2>2, TareaNueva
  <2> QED BY <1>1, <1>2, <1>3, <1>4, <2>1, <2>2, <2>3, GuardadaSinPedidos
<1>7. ASSUME NEW p \in Procesos, NEW n \in 1..MaxPedidas, AsignarPaginasDeHeap(p, n)
      PROVE  Guardada'
  <2> DEFINE c == PaginasAsignadas(p)
  <2>1. c \in Nat /\ n \in Nat
    BY <1>5, AsignadasBien
  <2>2. /\ c + n - 1 <= MaxPagina
        /\ tarea' = [tipo |-> "asignar", pid |-> p, base |-> c, desde |-> c, hasta |-> c + n,
                      cuantas |-> n]
        /\ respuesta' = SinRespuesta
        /\ UNCHANGED <<tabla, marco, mutex, pc, pedido, encontrado, viva, historia>>
        /\ cache' = cache /\ vacios' = vacios
    BY <1>7 DEF AsignarPaginasDeHeap, AsignarDesde, gestion
  <2> HIDE DEF c
  <2>3. c + n \in Nat /\ c + n <= MaxPagina + 1
    BY <1>5, <2>1, <2>2
  <2>4. tarea' \in Tarea /\ tarea'.hasta = c + n
    BY <2>1, <2>2, <2>3, TareaNueva
  <2> QED BY <1>1, <1>2, <1>3, <1>4, <2>2, <2>3, <2>4, GuardadaSinPedidos
<1>8. ASSUME NEW p \in Procesos, NEW g \in Paginas, LiberarPagina(p, g)
      PROVE  Guardada'
  <2>1. /\ tarea = SinTarea /\ tarea' = tarea /\ tabla' = Vaciada(p, g)
        /\ historia' = [historia EXCEPT ![p][g] = IF @ = "nunca" THEN @ ELSE "liberada"]
        /\ UNCHANGED <<marco, mutex, pc, pedido, encontrado, viva>>
        /\ cache' = cache /\ vacios' = vacios
    BY <1>8 DEF LiberarPagina, KernelLibre, gestion
  <2>2. respuesta' \in (Hilos \cup {Nadie}) \X Respuesta
    BY <1>8, ContestaBien DEF LiberarPagina
  <2>3. historia' \in [Procesos -> [Paginas -> Estados]]
    BY <1>2, <2>1, HistoriaBien
  <2>4. tabla' \in [MarcosTodos -> Dueno]
    BY <1>2, <2>1, TablasTipo
  <2> QED BY <1>1, <1>2, <1>3, <1>5, <2>1, <2>2, <2>3, <2>4, GuardadaSinPedidos
<1>9. ASSUME NEW p \in Procesos, Finalizar(p)
      PROVE  Guardada'
  <2>1. /\ mutex = Nadie /\ cache' = SinEntradasDe(p)
        /\ tarea' = [tipo |-> "finalizar", pid |-> p, base |-> 0, desde |-> 0, hasta |-> 0,
                      cuantas |-> 0]
        /\ respuesta' = SinRespuesta
        /\ UNCHANGED <<tabla, marco, vacios, mutex, pc, pedido, encontrado, viva, historia>>
    BY <1>9 DEF Finalizar
  <2>2. tarea' \in Tarea /\ tarea'.hasta = 0 /\ 0 <= MaxPagina + 1
    BY <1>5, <2>1, TareaNueva
  <2>3. cache' \in Lista /\ SinRepetidas(cache')
    BY <1>1, <2>1, SinEntradasBien
  <2>4. \A k \in Hilos : pc[k] = "leyendo" =>
           ~Aparece(cache', pedido[k].pid, pedido[k].pagina)
    BY <2>1, Exclusion
  <2> QED BY <1>2, <1>4, <2>1, <2>2, <2>3, <2>4, GuardadaSinPedidos
<1> QED BY <1>6, <1>7, <1>8, <1>9 DEF PedidoDelKernel

\* The operator empties the cache.
LEMMA GuardadaFlush == Guardada /\ FlushCache => Guardada'
<1> SUFFICES ASSUME Guardada, FlushCache PROVE Guardada'
  OBVIOUS
<1>1. /\ cache' = <<>> /\ vacios' = EntradasCache
      /\ UNCHANGED <<tabla, marco, mutex, pc, pedido, encontrado, respuesta, tarea, viva,
                     historia>>
  BY DEF FlushCache
<1>2. EntradasCache \in Nat /\ SinTarea' = SinTarea
  BY CacheAssumption DEF SinTarea
<1>3. cache' \in Lista /\ Len(cache') = 0 /\ vacios' \in 0..EntradasCache
  BY <1>1, <1>2 DEF Lista
<1>4. SinRepetidas(cache') /\ \A p, g : ~Aparece(cache', p, g)
  BY <1>3 DEF SinRepetidas, Aparece
<1>5. /\ tabla' \in [MarcosTodos -> Dueno] /\ historia' \in [Procesos -> [Paginas -> Estados]]
      /\ respuesta' \in (Hilos \cup {Nadie}) \X Respuesta /\ tarea' \in Tarea
      /\ tarea' # SinTarea => tarea'.hasta <= MaxPagina + 1
  BY <1>1 DEF Guardada, Tipada, TareaAcotada
<1> QED BY <1>1, <1>3, <1>4, <1>5, GuardadaSinPedidos

\* The start.
LEMMA GuardadaInit == Init => Guardada
<1> SUFFICES ASSUME Init PROVE Guardada
  OBVIOUS
<1>1. /\ tabla \in [MarcosTodos -> Dueno] /\ marco \in [MarcosTodos -> Valores]
      /\ historia \in [Procesos -> [Paginas -> Estados]]
  BY DEF Init, Dueno, Estados
<1>2. SinPedido \in Pedido /\ SinTarea \in Tarea
  BY DEF Pedido, Tarea
<1>3. cache \in Lista /\ Len(cache) = 0 /\ vacios \in 0..EntradasCache
  BY CacheAssumption DEF Init, Lista
<1>4. SinRepetidas(cache)
  BY <1>3 DEF SinRepetidas
<1>5. respuesta \in (Hilos \cup {Nadie}) \X Respuesta
  BY DEF Init, SinRespuesta, Respuesta
<1>6. /\ mutex \in Hilos \cup {Nadie} /\ pc \in [Hilos -> Fases] /\ pedido \in [Hilos -> Pedido]
      /\ encontrado \in [Hilos -> MarcosTodos \cup {-1}] /\ tarea \in Tarea /\ viva \in BOOLEAN
  BY <1>2 DEF Init, Fases
<1>7. TareaAcotada /\ \A h \in Hilos : EnManos(h)
  BY DEF Init, TareaAcotada, EnManos
<1> QED BY <1>1, <1>3, <1>4, <1>5, <1>6, <1>7 DEF Guardada, Tipada

\* Every step.
LEMMA GuardadaPaso == Guardada /\ [Next]_vars => Guardada'
<1> SUFFICES ASSUME Guardada, [Next]_vars PROVE Guardada'
  OBVIOUS
<1>1. CASE \E h \in Hilos : Hilo(h)
  BY <1>1, GuardadaHilo
<1>2. CASE LazoDePaginas
  BY <1>2, GuardadaLazo
<1>3. CASE PedidoDelKernel
  BY <1>3, GuardadaPedidoDelKernel
<1>4. CASE FlushCache
  BY <1>4, GuardadaFlush
<1>5. CASE UNCHANGED vars
  BY <1>5 DEF vars, gestion, Guardada, Tipada, TareaAcotada, EnManos, SinRepetidas, Aparece,
              SinPedido, SinTarea, MarcosTodos
<1> QED BY <1>1, <1>2, <1>3, <1>4, <1>5 DEF Next

-----------------------------------------------------------------------------
(* The counters of the cache tell the truth as long as nobody flushes it.  *)

\* The list c, the counters k and the free count n agree.
Claras(c, k, n) ==
    /\ Len(c) + n <= EntradasCache
    /\ \A q \in Procesos : /\ k[q] = Cardinality(PaginasCacheadas(c, q))
                           /\ k[q] <= CacheXProc

CuentasClaras ==
    /\ contador \in [Procesos -> Nat]
    /\ viva => Claras(cache, contador, vacios)
    /\ ~viva => vacios = 0 /\ cache = <<>>

\* The owner of a cached page is counted.
LEMMA DuenoContado ==
    ASSUME NEW s \in Lista, NEW i \in 1..Len(s)
    PROVE  /\ s[i].pid \in Procesos
           /\ Cardinality(PaginasCacheadas(s, s[i].pid)) \in Nat \ {0}
<1>1. s[i] \in EntradaCache
  BY DEF Lista
<1>2. i \in PaginasCacheadas(s, s[i].pid)
  BY DEF PaginasCacheadas
<1> QED BY <1>1, <1>2, PosicionesFinitas DEF EntradaCache

\* Room is made for one entry of p, which is charged to p already.
LEMMA CuentasAlEliminar ==
    ASSUME Tipada, CuentasClaras, viva, NEW p \in Procesos
    PROVE  LET u == eliminarRegistroCacheLRU(EstadoCache, p)
           IN  /\ u.contador \in [Procesos -> Nat]
               /\ u.viva => /\ Len(u.cache) + 1 + u.vacios <= EntradasCache
                            /\ \A q \in Procesos :
                                 /\ u.contador[q] <= CacheXProc
                                 /\ u.contador[q] =
                                      IF q = p
                                      THEN Cardinality(PaginasCacheadas(u.cache, q)) + 1
                                      ELSE Cardinality(PaginasCacheadas(u.cache, q))
               /\ ~u.viva => u.vacios = 0 /\ u.cache = <<>>
<1> DEFINE u == eliminarRegistroCacheLRU(EstadoCache, p)
           suyas == PaginasCacheadas(cache, p)
           contado == [contador EXCEPT ![p] = @ + 1]
           n == Len(cache)
<1>1. /\ cache \in Lista /\ n \in Nat /\ vacios \in Nat
      /\ EntradasCache \in Nat /\ CacheXProc \in Nat \ {0}
      /\ contador \in [Procesos -> Nat]
  BY CacheAssumption DEF Tipada, CuentasClaras, Lista
<1>2. /\ n + vacios <= EntradasCache
      /\ \A q \in Procesos : /\ contador[q] = Cardinality(PaginasCacheadas(cache, q))
                             /\ contador[q] <= CacheXProc
  BY DEF CuentasClaras, Claras
<1>3. \A q \in Procesos : contador[q] \in Nat
  BY <1>1
<1>4. /\ contado \in [Procesos -> Nat] /\ contado[p] = contador[p] + 1
      /\ \A q \in Procesos : q # p => contado[q] = contador[q]
  BY <1>1
<1>5. CASE contador[p] = CacheXProc
  <2>1. ~(Cardinality(suyas) < CacheXProc) /\ Cardinality(suyas) = CacheXProc
    BY <1>1, <1>2, <1>5
  <2>2. suyas \in SUBSET (1..n)
    BY DEF PaginasCacheadas
  <2> DEFINE i == Enesima(suyas, CacheXProc)
  <2>3. /\ u.contador = contador
        /\ u.vacios = IF vacios > 0 THEN vacios - 1 ELSE vacios
        /\ u.viva = viva /\ u.cache = RemoveAt(cache, i)
    <3> HIDE DEF u
    <3> QED BY <1>1, <1>5, <2>1, EliminarCasos DEF u
  <2> HIDE DEF u
  <2>4. i \in suyas
    <3> HIDE DEF suyas, n
    <3>1. CacheXProc \in 1..Cardinality(suyas)
      BY <1>1, <2>1
    <3> QED BY <1>1, <2>2, <3>1, EnesimaBien
  <2> HIDE DEF i
  <2>5. i \in 1..Len(cache) /\ cache[i].pid = p
    BY <2>4 DEF PaginasCacheadas
  <2>6. Len(u.cache) = n - 1
    BY <1>1, <2>3, <2>5, SinUna
  <2>7. \A q \in Procesos : Cardinality(PaginasCacheadas(u.cache, q)) =
          IF q = p THEN contador[q] - 1 ELSE contador[q]
    BY <1>1, <1>2, <2>3, <2>5, ContarSinUna
  <2> HIDE DEF n
  <2>8. Len(u.cache) + 1 + u.vacios <= EntradasCache
    BY <1>1, <1>2, <2>3, <2>6
  <2>9. \A q \in Procesos :
          /\ u.contador[q] <= CacheXProc
          /\ u.contador[q] = IF q = p THEN Cardinality(PaginasCacheadas(u.cache, q)) + 1
                             ELSE Cardinality(PaginasCacheadas(u.cache, q))
    BY <1>2, <1>3, <2>3, <2>7
  <2> QED BY <1>1, <2>3, <2>8, <2>9 DEF u
<1>6. CASE contador[p] # CacheXProc /\ vacios > 0
  <2>1. u.contador = contado /\ u.vacios = vacios - 1 /\ u.viva = viva /\ u.cache = cache
    <3> HIDE DEF u, contado
    <3> QED BY <1>1, <1>6, EliminarCasos DEF u, contado
  <2> HIDE DEF u, contado, n
  <2>2. Len(u.cache) + 1 + u.vacios <= EntradasCache
    BY <1>1, <1>2, <1>6, <2>1 DEF n
  <2>3. contador[p] + 1 <= CacheXProc
    BY <1>1, <1>2, <1>3, <1>6
  <2>4. \A q \in Procesos :
          /\ u.contador[q] <= CacheXProc
          /\ u.contador[q] = IF q = p THEN Cardinality(PaginasCacheadas(u.cache, q)) + 1
                             ELSE Cardinality(PaginasCacheadas(u.cache, q))
    BY <1>2, <1>4, <2>1, <2>3
  <2> QED BY <1>4, <2>1, <2>2, <2>4 DEF u
<1>7. CASE contador[p] # CacheXProc /\ ~(vacios > 0) /\ cache = <<>>
  <2>1. u.contador = contado /\ u.vacios = vacios /\ u.viva = FALSE /\ u.cache = cache
    <3> HIDE DEF u, contado
    <3> QED BY <1>1, <1>7, EliminarCasos DEF u, contado
  <2> HIDE DEF u, contado, n
  <2>2. vacios = 0
    BY <1>1, <1>7
  <2> QED BY <1>4, <1>7, <2>1, <2>2 DEF u
<1>8. CASE contador[p] # CacheXProc /\ ~(vacios > 0) /\ cache # <<>>
  <2> DEFINE d == cache[n].pid
             k == [contado EXCEPT ![d] = @ - 1]
  <2>1. n \in 1..n /\ SubSeq(cache, 1, n - 1) = RemoveAt(cache, n)
    BY <1>1, <1>8, SinLaUltima
  <2>2. /\ u.contador = k /\ u.vacios = vacios /\ u.viva = viva
        /\ u.cache = RemoveAt(cache, n)
    <3>1. /\ u.contador = k /\ u.vacios = vacios /\ u.viva = viva
          /\ u.cache = SubSeq(cache, 1, n - 1)
      <4> HIDE DEF u
      <4> QED BY <1>1, <1>8, EliminarCasos DEF u
    <3> QED BY <2>1, <3>1
  <2> HIDE DEF u, contado
  <2>3. d \in Procesos /\ Cardinality(PaginasCacheadas(cache, d)) \in Nat \ {0}
    BY <1>1, <2>1, DuenoContado
  <2>4. /\ Len(u.cache) = n - 1
        /\ \A q : Cardinality(PaginasCacheadas(u.cache, q)) =
             IF d = q THEN Cardinality(PaginasCacheadas(cache, q)) - 1
                      ELSE Cardinality(PaginasCacheadas(cache, q))
    <3>1. Len(u.cache) = n - 1
      BY <1>1, <2>1, <2>2, SinUna
    <3>2. ASSUME NEW q
          PROVE  Cardinality(PaginasCacheadas(RemoveAt(cache, n), q)) =
             IF cache[n].pid = q THEN Cardinality(PaginasCacheadas(cache, q)) - 1
                                 ELSE Cardinality(PaginasCacheadas(cache, q))
      BY <1>1, <2>1, ContarSinUna
    <3> QED BY <2>2, <3>1, <3>2
  <2> HIDE DEF d, n
  <2>5. contador[d] \in Nat \ {0}
    BY <1>2, <2>3
  <2>6. contado[d] \in Nat \ {0}
    BY <1>3, <1>4, <2>3, <2>5
  <2>7. /\ k \in [Procesos -> Nat] /\ k[d] = contado[d] - 1
        /\ \A q \in Procesos : q # d => k[q] = contado[q]
    BY <1>4, <2>3, <2>6
  <2> HIDE DEF k
  <2>8. Len(u.cache) + 1 + u.vacios <= EntradasCache
    BY <1>1, <1>2, <2>2, <2>4
  <2>9. contador[p] + 1 <= CacheXProc
    BY <1>1, <1>2, <1>3, <1>8
  <2>10. ASSUME NEW q \in Procesos
         PROVE  /\ u.contador[q] <= CacheXProc
                /\ u.contador[q] = IF q = p THEN Cardinality(PaginasCacheadas(u.cache, q)) + 1
                                   ELSE Cardinality(PaginasCacheadas(u.cache, q))
    <3>1. /\ contador[q] = Cardinality(PaginasCacheadas(cache, q))
          /\ contador[q] <= CacheXProc /\ contador[q] \in Nat
          /\ CacheXProc \in Nat
      BY <1>1, <1>2, <1>3
    <3>2. Cardinality(PaginasCacheadas(u.cache, q)) =
             IF d = q THEN contador[q] - 1 ELSE contador[q]
      BY <2>4, <3>1
    <3>3. contado[q] = IF q = p THEN contador[q] + 1 ELSE contador[q]
      BY <1>4
    <3>4. contado[q] <= CacheXProc
      BY <2>9, <3>1, <3>3
    <3>5. u.contador[q] = IF d = q THEN contado[q] - 1 ELSE contado[q]
      BY <2>2, <2>7
    <3> QED BY <3>1, <3>2, <3>3, <3>4, <3>5
  <2> QED BY <2>2, <2>7, <2>8, <2>10 DEF u
<1> QED BY <1>5, <1>6, <1>7, <1>8

\* A page that is not cached comes to the front: the counts still agree, or
\* the process fell for want of an entry to take away.
LEMMA CuentasAlEscribir ==
    ASSUME Tipada, SinRepetidas(cache), CuentasClaras, viva, NEW p \in Procesos,
           NEW g \in Paginas, NEW v \in Valores, ~Aparece(cache, p, g)
    PROVE  LET e == escribirCache(p, g, v)
           IN  /\ e.contador \in [Procesos -> Nat]
               /\ e.viva => Claras(e.cache, e.contador, e.vacios)
               /\ ~e.viva => e.vacios = 0 /\ e.cache = <<>>
<1> DEFINE e == escribirCache(p, g, v)
           x == [pid |-> p, pagina |-> g, valor |-> v]
           u == eliminarRegistroCacheLRU(EstadoCache, p)
<1>1. /\ u.cache \in Lista
      /\ u = [cache |-> u.cache, contador |-> u.contador,
              vacios |-> u.vacios, viva |-> u.viva]
  BY EliminarBien
<1>2. /\ u.contador \in [Procesos -> Nat]
      /\ u.viva => /\ Len(u.cache) + 1 + u.vacios <= EntradasCache
                   /\ \A q \in Procesos :
                        /\ u.contador[q] <= CacheXProc
                        /\ u.contador[q] =
                             IF q = p THEN Cardinality(PaginasCacheadas(u.cache, q)) + 1
                             ELSE Cardinality(PaginasCacheadas(u.cache, q))
      /\ ~u.viva => u.vacios = 0 /\ u.cache = <<>>
  BY CuentasAlEliminar
<1>3. e = IF u.viva THEN [u EXCEPT !.cache = <<x>> \o @] ELSE u
  BY DEF escribirCache
<1>4. x \in EntradaCache /\ x.pid = p
  BY DEF EntradaCache
<1> HIDE DEF u, e, x
<1>5. /\ e.cache = IF u.viva THEN <<x>> \o u.cache ELSE u.cache
      /\ e.vacios = u.vacios /\ e.viva = u.viva /\ e.contador = u.contador
  BY <1>1, <1>3
<1>6. CASE ~u.viva
  BY <1>2, <1>5, <1>6 DEF e
<1>7. CASE u.viva
  <2>1. e.cache = <<x>> \o u.cache
    BY <1>5, <1>7
  <2>2. Len(e.cache) = Len(u.cache) + 1
    BY <1>1, <1>4, <2>1, AlPrincipio
  <2>3. \A q : Cardinality(PaginasCacheadas(e.cache, q)) =
           IF x.pid = q THEN Cardinality(PaginasCacheadas(u.cache, q)) + 1
                        ELSE Cardinality(PaginasCacheadas(u.cache, q))
    BY <1>1, <1>4, <2>1, ContarAlPrincipio
  <2>4. Claras(e.cache, e.contador, e.vacios)
    BY <1>2, <1>4, <1>5, <1>7, <2>2, <2>3 DEF Claras
  <2> QED BY <1>2, <1>5, <1>7, <2>4 DEF e
<1> QED BY <1>6, <1>7

\* The steps that leave the cache and its counters alone.
LEMMA CuentasQuietas ==
    ASSUME CuentasClaras, UNCHANGED <<gestion, viva>>
    PROVE  CuentasClaras'
BY DEF CuentasClaras, Claras, gestion, PaginasCacheadas

\* Every step of a thread.
LEMMA CuentasHilo ==
    ASSUME Guardada, CuentasClaras, NEW h \in Hilos, Hilo(h)
    PROVE  CuentasClaras'
<1> DEFINE p == pedido[h].pid
           g == pedido[h].pagina
<1>1. Tipada /\ SinRepetidas(cache) /\ cache \in Lista
  BY DEF Guardada, Tipada
<1>2. CASE (\E r \in Pedido \ {SinPedido} : Recibir(h, r)) \/ LeerSinMarco(h)
           \/ LeerFallaCache(h) \/ EscribirSinMarco(h) \/ EscribirBuscaMarco(h)
  <2>1. UNCHANGED <<gestion, viva>>
    BY <1>2 DEF Recibir, LeerSinMarco, LeerFallaCache, EscribirSinMarco, EscribirBuscaMarco
  <2> QED BY <2>1, CuentasQuietas
<1>3. ASSUME NEW v \in Valores, viva, Cacheada(p, g), cache' = AlFrente(Acierto(p, g), v),
             UNCHANGED <<contador, vacios, viva>>
      PROVE  CuentasClaras'
  <2> DEFINE i == Acierto(p, g)
  <2>1. i \in 1..Len(cache)
    BY <1>1, <1>3, AciertoBien
  <2> HIDE DEF i
  <2>2. cache' = AlFrente(i, v)
    BY <1>3 DEF i
  <2>3. /\ Len(cache') = Len(cache)
        /\ \A q : Cardinality(PaginasCacheadas(cache', q)) =
                  Cardinality(PaginasCacheadas(cache, q))
    BY <1>1, <2>1, <2>2, AlFrenteBien
  <2>4. Claras(cache, contador, vacios)
    BY <1>3 DEF CuentasClaras
  <2>5. Claras(cache', contador', vacios')
    BY <1>3, <2>3, <2>4 DEF Claras
  <2>6. contador' \in [Procesos -> Nat] /\ viva'
    BY <1>3 DEF CuentasClaras
  <2> QED BY <2>5, <2>6 DEF CuentasClaras, Claras, PaginasCacheadas
<1>4. CASE LeerDeCache(h)
  <2> DEFINE v == cache[Acierto(p, g)].valor
  <2>1. /\ viva /\ Cacheada(p, g) /\ cache' = AlFrente(Acierto(p, g), v)
        /\ UNCHANGED <<contador, vacios, viva>>
    BY <1>4 DEF LeerDeCache, Pide
  <2>2. cache[Acierto(p, g)] \in EntradaCache
    BY <1>1, <2>1, AciertoBien DEF Lista
  <2>3. v \in Valores
    BY <2>2 DEF EntradaCache
  <2> HIDE DEF v, p, g
  <2> QED BY <1>3, <2>1, <2>3
<1>5. CASE LeerDeMarco(h)
  <2> DEFINE v == marco[encontrado[h]]
             e == escribirCache(p, g, v)
  <2>1. /\ viva /\ pc[h] = "leyendo"
        /\ cache' = e.cache /\ contador' = e.contador
        /\ vacios' = e.vacios /\ viva' = e.viva
    BY <1>5 DEF LeerDeMarco
  <2>2. p \in Procesos /\ g \in Paginas
    BY <2>1, EnManosBien
  <2>3. encontrado[h] \in MarcosTodos /\ ~Aparece(cache, p, g)
    BY <2>1 DEF Guardada, EnManos
  <2>4. v \in Valores
    BY <1>1, <2>3 DEF Tipada
  <2> HIDE DEF v, p, g
  <2>5. /\ e.contador \in [Procesos -> Nat]
        /\ e.viva => Claras(e.cache, e.contador, e.vacios)
        /\ ~e.viva => e.vacios = 0 /\ e.cache = <<>>
    BY <1>1, <2>1, <2>2, <2>3, <2>4, CuentasAlEscribir
  <2> HIDE DEF e
  <2> QED BY <2>1, <2>5 DEF CuentasClaras, Claras, PaginasCacheadas
<1>6. CASE EscribirEnMarco(h)
  <2> DEFINE v == pedido[h].valor
  <2>1. /\ viva /\ pc[h] = "escribiendo"
        /\ cache' = IF Cacheada(p, g) THEN AlFrente(Acierto(p, g), v) ELSE cache
        /\ UNCHANGED <<contador, vacios, viva>>
    BY <1>6 DEF EscribirEnMarco
  <2>2. v \in Valores
    BY <2>1, EnManosBien DEF Guardada, EnManos
  <2> HIDE DEF v, p, g
  <2>3. CASE Cacheada(p, g)
    BY <1>3, <2>1, <2>2, <2>3
  <2>4. CASE ~Cacheada(p, g)
    BY <2>1, <2>4, CuentasQuietas DEF gestion
  <2> QED BY <2>3, <2>4
<1> QED BY <1>2, <1>4, <1>5, <1>6 DEF Hilo

\* Ending a process takes its entries and its count with them.
LEMMA CuentasFinalizar ==
    ASSUME Guardada, CuentasClaras, NEW p \in Procesos, Finalizar(p)
    PROVE  CuentasClaras'
<1>1. /\ viva /\ viva' = viva /\ vacios' = vacios
      /\ cache' = SinEntradasDe(p) /\ contador' = [contador EXCEPT ![p] = 0]
  BY DEF Finalizar, KernelLibre
<1>2. /\ cache \in Lista /\ Len(cache) \in Nat /\ vacios \in Nat /\ EntradasCache \in Nat
      /\ CacheXProc \in Nat
  BY CacheAssumption DEF Guardada, Tipada, Lista
<1>3. /\ cache' \in Lista /\ Len(cache') <= Len(cache)
      /\ Cardinality(PaginasCacheadas(cache', p)) = 0
      /\ \A q : q # p => Cardinality(PaginasCacheadas(cache', q)) =
                         Cardinality(PaginasCacheadas(cache, q))
  BY <1>1, <1>2, SinEntradasBien
<1>4. Len(cache') \in Nat
  BY <1>3 DEF Lista
<1>5. Claras(cache, contador, vacios) /\ contador \in [Procesos -> Nat]
  BY <1>1 DEF CuentasClaras
<1>6. /\ contador' \in [Procesos -> Nat] /\ contador'[p] = 0
      /\ \A q \in Procesos : q # p => contador'[q] = contador[q]
  BY <1>1, <1>5
<1>7. Len(cache') + vacios' <= EntradasCache
  <2>1. Len(cache) + vacios <= EntradasCache
    BY <1>5 DEF Claras
  <2> QED BY <1>1, <1>2, <1>3, <1>4, <2>1
<1>8. Claras(cache', contador', vacios')
  BY <1>2, <1>3, <1>5, <1>6, <1>7 DEF Claras
<1> QED BY <1>1, <1>6, <1>8 DEF CuentasClaras, Claras, PaginasCacheadas

\* At the start every entry is free.
LEMMA CuentasInit == Init => CuentasClaras
<1> SUFFICES ASSUME Init PROVE CuentasClaras
  OBVIOUS
<1>1. /\ cache = <<>> /\ vacios = EntradasCache /\ viva
      /\ contador = [q \in Procesos |-> 0]
  BY DEF Init
<1>2. EntradasCache \in Nat /\ CacheXProc \in Nat
  BY CacheAssumption
<1>3. cache \in Lista /\ Len(cache) = 0
  BY <1>1 DEF Lista
<1>4. ASSUME NEW q \in Procesos PROVE Cardinality(PaginasCacheadas(cache, q)) = 0
  <2>1. PaginasCacheadas(cache, q) = {}
    BY <1>3 DEF PaginasCacheadas
  <2> QED BY <2>1, FS_EmptySet
<1>5. Claras(cache, contador, vacios)
  BY <1>1, <1>2, <1>3, <1>4 DEF Claras
<1> QED BY <1>1, <1>5 DEF CuentasClaras

\* Every step, while the operator does not flush the cache.
LEMMA CuentasPaso ==
    Guardada /\ CuentasClaras /\ "flush" \notin Eventos /\ [Next]_vars => CuentasClaras'
<1> SUFFICES ASSUME Guardada, CuentasClaras, "flush" \notin Eventos, [Next]_vars
             PROVE  CuentasClaras'
  OBVIOUS
<1>1. CASE \E h \in Hilos : Hilo(h)
  BY <1>1, CuentasHilo
<1>2. CASE LazoDePaginas
  <2>1. UNCHANGED <<gestion, viva>>
    BY <1>2 DEF LazoDePaginas, AsignarUna, AsignadasTodas, IniciarSinMarcos, AsignarSinMarcos,
                DeshacerUna, DeshechasTodas, EliminarPaginasDeProceso
  <2> QED BY <2>1, CuentasQuietas
<1>3. CASE PedidoDelKernel
  <2>1. CASE \E p \in Procesos : Finalizar(p)
    BY <2>1, CuentasFinalizar
  <2>2. CASE \E p \in Procesos :
               \/ \E n \in 1..MaxIniciales : InicializarPrograma(p, n)
               \/ \E n \in 1..MaxPedidas : AsignarPaginasDeHeap(p, n)
               \/ \E g \in Paginas : LiberarPagina(p, g)
    <3>1. UNCHANGED <<gestion, viva>>
      BY <2>2 DEF InicializarPrograma, AsignarPaginasDeHeap, AsignarDesde, LiberarPagina
    <3> QED BY <3>1, CuentasQuietas
  <2> QED BY <1>3, <2>1, <2>2 DEF PedidoDelKernel
<1>4. CASE UNCHANGED vars
  <2>1. UNCHANGED <<gestion, viva>>
    BY <1>4 DEF vars, gestion
  <2> QED BY <2>1, CuentasQuietas
<1> QED BY <1>1, <1>2, <1>3, <1>4 DEF Next, FlushCache

\* gestionDeMemoria.c: no page is cached twice, the counter of each process and
\* the count of free entries agree with the list, no process has more than its
\* share, and the list never outgrows entradasCache -- with any number of
\* connections filling it, in an instance whose operator does not flush it.
THEOREM CuentasSiempreClaras ==
    ASSUME "flush" \notin Eventos
    PROVE  Spec => []CuentasDeCache
<1>1. Guardada /\ CuentasClaras => CuentasDeCache
  <2> SUFFICES ASSUME Guardada, CuentasClaras PROVE CuentasDeCache
    OBVIOUS
  <2>1. TypeOK
    BY DEF Guardada, CuentasClaras, Tipada, TypeOK, Lista, Fases, Estados
  <2> QED BY <2>1 DEF Guardada, CuentasClaras, Claras, SinRepetidas, CuentasDeCache
<1>2. Init => Guardada /\ CuentasClaras
  BY GuardadaInit, CuentasInit
<1>3. Guardada /\ CuentasClaras /\ [Next]_vars => Guardada' /\ CuentasClaras'
  BY GuardadaPaso, CuentasPaso
<1> QED BY <1>1, <1>2, <1>3, PTL DEF Spec

\* The memory process falls only with no free entry left and nothing cached:
\* a local eviction spends a free entry and nothing gives it back.
THEOREM SoloCaeSinEntradas ==
    ASSUME "flush" \notin Eventos
    PROVE  Spec => []SoloCaePorEntradasPerdidas
<1>1. CuentasClaras => SoloCaePorEntradasPerdidas
  BY DEF CuentasClaras, SoloCaePorEntradasPerdidas
<1>2. Init => Guardada /\ CuentasClaras
  BY GuardadaInit, CuentasInit
<1>3. Guardada /\ CuentasClaras /\ [Next]_vars => Guardada' /\ CuentasClaras'
  BY GuardadaPaso, CuentasPaso
<1> QED BY <1>1, <1>2, <1>3, PTL DEF Spec

-----------------------------------------------------------------------------
(* The table: no page has two frames, and the pages of a process are those *)
(* from 0 on, so the number a new page gets is one that is free.  It needs *)
(* that only the last page of a process is given back.                     *)

\* Page g of p has a frame in table t.
Tiene(t, p, g) == \E f \in MarcosTodos : t[f] = <<p, g>>

\* No page has two frames in table t.
Unicos(t) ==
    \A p \in Procesos, g \in Paginas, e, f \in MarcosTodos :
        t[e] = <<p, g>> /\ t[f] = <<p, g>> => e = f

\* In table t, under loop u, the pages of p are those the loop says, or 0 to n - 1.
Contiguas(t, u, p) ==
    IF u # SinTarea /\ u.pid = p /\ u.tipo # "finalizar"
    THEN /\ u.base <= u.desde /\ u.desde <= u.hasta
         /\ \A g \in Paginas : Tiene(t, p, g) <=>
               IF u.tipo = "deshacer"
               THEN g < u.base \/ (u.desde <= g /\ g < u.hasta)
               ELSE g < u.desde
    ELSE \E n \in 0..(MaxPagina + 1) : \A g \in Paginas : Tiene(t, p, g) <=> g < n

TablaSana ==
    /\ Unicos(tabla)
    /\ \A p \in Procesos, g \in Paginas : Tiene(tabla, p, g) => historia[p][g] # "nunca"
    /\ \A p \in Procesos : Contiguas(tabla, tarea, p)

\* An empty frame gets a page that has none.
LEMMA TablaConUna ==
    ASSUME tabla \in [MarcosTodos -> Dueno], Unicos(tabla), NEW p \in Procesos,
           NEW g \in Paginas, NEW f \in MarcosTodos, tabla[f] = Vacio, ~Tiene(tabla, p, g),
           NEW t, t[f] = <<p, g>>, \A e \in MarcosTodos : e # f => t[e] = tabla[e]
    PROVE  /\ Unicos(t)
           /\ \A q \in Procesos, k \in Paginas :
                 Tiene(t, q, k) <=> (Tiene(tabla, q, k) \/ (q = p /\ k = g))
<1>1. \A q \in Procesos, k \in Paginas : Vacio # <<q, k>>
  BY ProcesosAssumption DEF Vacio
<1>2. Unicos(t)
  BY DEF Unicos, Tiene
<1>3. ASSUME NEW q \in Procesos, NEW k \in Paginas
      PROVE  Tiene(t, q, k) <=> (Tiene(tabla, q, k) \/ (q = p /\ k = g))
  <2>1. ASSUME NEW e \in MarcosTodos, t[e] = <<q, k>>
        PROVE  Tiene(tabla, q, k) \/ (q = p /\ k = g)
    BY <2>1 DEF Tiene
  <2>2. ASSUME NEW e \in MarcosTodos, tabla[e] = <<q, k>>
        PROVE  Tiene(t, q, k)
    <3>1. e # f
      BY <1>1, <2>2
    <3> QED BY <2>2, <3>1 DEF Tiene
  <2>3. q = p /\ k = g => Tiene(t, q, k)
    BY DEF Tiene
  <2> QED BY <2>1, <2>2, <2>3 DEF Tiene
<1> QED BY <1>2, <1>3

\* A page loses its frame.
LEMMA TablaSinUna ==
    ASSUME tabla \in [MarcosTodos -> Dueno], Unicos(tabla), NEW p \in Procesos,
           NEW g \in Paginas, NEW t, t = Vaciada(p, g)
    PROVE  /\ Unicos(t)
           /\ \A q \in Procesos, k \in Paginas :
                 Tiene(t, q, k) <=> (Tiene(tabla, q, k) /\ ~(q = p /\ k = g))
<1>1. CASE MarcosDe(p, g) = {}
  BY <1>1 DEF Vaciada, MarcosDe, Tiene
<1>2. CASE MarcosDe(p, g) # {}
  <2> DEFINE f == Primero(Inicio(p, g), MarcosDe(p, g))
  <2>1. f \in MarcosDe(p, g)
    <3>1. Inicio(p, g) \in Nat
      BY InicioBien DEF Paginas
    <3>2. MarcosDe(p, g) \in SUBSET MarcosTodos
      BY DEF MarcosDe
    <3> QED BY <1>2, <3>1, <3>2, PrimeroBien
  <2>2. f \in MarcosTodos /\ tabla[f] = <<p, g>>
    BY <2>1 DEF MarcosDe
  <2>3. t = [tabla EXCEPT ![f] = Vacio]
    BY <1>2 DEF Vaciada
  <2> HIDE DEF f
  <2>4. t[f] = Vacio /\ \A e \in MarcosTodos : e # f => t[e] = tabla[e]
    BY <2>2, <2>3
  <2>5. \A q \in Procesos, k \in Paginas : Vacio # <<q, k>>
    BY ProcesosAssumption DEF Vacio
  <2>6. \A e \in MarcosTodos : tabla[e] = <<p, g>> => e = f
    BY <2>2 DEF Unicos
  <2>7. Unicos(t)
    BY <2>4, <2>5 DEF Unicos
  <2>8. ASSUME NEW q \in Procesos, NEW k \in Paginas
        PROVE  Tiene(t, q, k) <=> (Tiene(tabla, q, k) /\ ~(q = p /\ k = g))
    BY <2>2, <2>4, <2>5, <2>6 DEF Tiene
  <2> QED BY <2>7, <2>8
<1> QED BY <1>1, <1>2

\* All the pages of a process lose their frames.
LEMMA TablaSinNinguna ==
    ASSUME tabla \in [MarcosTodos -> Dueno], Unicos(tabla), NEW p \in Procesos,
           NEW t, t = SinPaginasDe(p)
    PROVE  /\ Unicos(t)
           /\ \A q \in Procesos, k \in Paginas :
                 Tiene(t, q, k) <=> (Tiene(tabla, q, k) /\ q # p)
<1>1. \A f \in MarcosTodos :
         t[f] = IF tabla[f] \in {p} \X Paginas THEN Vacio ELSE tabla[f]
  BY DEF SinPaginasDe
<1>2. \A q \in Procesos, k \in Paginas : Vacio # <<q, k>>
  BY ProcesosAssumption DEF Vacio
<1>3. ASSUME NEW f \in MarcosTodos, NEW q \in Procesos, NEW k \in Paginas
      PROVE  t[f] = <<q, k>> <=> (tabla[f] = <<q, k>> /\ q # p)
  <2>1. CASE tabla[f] \in {p} \X Paginas
    BY <1>1, <1>2, <2>1
  <2>2. CASE tabla[f] \notin {p} \X Paginas
    BY <1>1, <2>2
  <2> QED BY <2>1, <2>2
<1>4. Unicos(t)
  BY <1>3 DEF Unicos
<1>5. ASSUME NEW q \in Procesos, NEW k \in Paginas
      PROVE  Tiene(t, q, k) <=> (Tiene(tabla, q, k) /\ q # p)
  BY <1>3 DEF Tiene
<1> QED BY <1>4, <1>5

\* A process whose pages are 0 to n - 1 has n pages.
LEMMA AsignadasSon ==
    ASSUME tabla \in [MarcosTodos -> Dueno], Unicos(tabla), NEW p \in Procesos,
           NEW n \in 0..(MaxPagina + 1), \A g \in Paginas : Tiene(tabla, p, g) <=> g < n
    PROVE  PaginasAsignadas(p) = n
<1> DEFINE S == {f \in MarcosTodos : tabla[f] \in {p} \X Paginas}
           T == 0..(n - 1)
           de == [g \in T |-> CHOOSE f \in MarcosTodos : tabla[f] = <<p, g>>]
<1>1. n \in Nat /\ MaxPagina \in Nat
  BY PaginasAssumption
<1>2. T \subseteq Paginas /\ \A g \in Paginas : g < n => g \in T
  BY <1>1 DEF Paginas
<1>3. \A g \in T : Tiene(tabla, p, g)
  BY <1>1, <1>2
<1>4. \A g \in T : de[g] \in MarcosTodos /\ tabla[de[g]] = <<p, g>>
  BY <1>3 DEF Tiene
<1> HIDE DEF de
<1>5. ASSUME NEW g \in T PROVE de[g] \in S
  <2>1. <<p, g>> \in {p} \X Paginas
    BY <1>2
  <2> QED BY <1>4, <2>1
<1>6. \A f \in S : tabla[f][2] \in T /\ tabla[f] = <<p, tabla[f][2]>>
  <2> TAKE f \in S
  <2>1. tabla[f][2] \in Paginas /\ tabla[f] = <<p, tabla[f][2]>>
    OBVIOUS
  <2>2. Tiene(tabla, p, tabla[f][2])
    BY <2>1 DEF Tiene
  <2> QED BY <1>2, <2>1, <2>2
<1>7. \A f \in S : de[tabla[f][2]] = f
  BY <1>2, <1>4, <1>6 DEF Unicos
<1>8. ASSUME NEW g \in T, NEW k \in T, de[g] = de[k] PROVE g = k
  <2>1. <<p, g>> = <<p, k>>
    BY <1>4, <1>8
  <2> QED BY <2>1
<1>9. de \in Bijection(T, S)
  <2>1. de \in [T -> S]
    BY <1>5 DEF de
  <2> HIDE DEF de, S, T
  <2>2. \A f \in S : \E g \in T : de[g] = f
    BY <1>6, <1>7
  <2> QED BY <1>8, <2>1, <2>2, Fun_IsBij
<1>10. IsFiniteSet(T) /\ Cardinality(T) = n
  BY <1>1, FS_Interval
<1>11. Cardinality(S) = Cardinality(T)
  <2> HIDE DEF de, S, T
  <2> QED BY <1>9, <1>10, FS_Bijection DEF ExistsBijection
<1> QED BY <1>10, <1>11 DEF PaginasAsignadas

\* A step that only touches the pages of one process.
LEMMA SanaMovida ==
    ASSUME TablaSana, NEW p \in Procesos, Unicos(tabla'),
           \A q \in Procesos : q # p =>
               /\ historia'[q] = historia[q]
               /\ \A k \in Paginas : Tiene(tabla', q, k) <=> Tiene(tabla, q, k),
           \A k \in Paginas : Tiene(tabla', p, k) => historia'[p][k] # "nunca",
           tarea # SinTarea => tarea.pid = p, tarea' # SinTarea => tarea'.pid = p,
           Contiguas(tabla', tarea', p)
    PROVE  TablaSana'
<1>1. Unicos(tabla)'
  BY DEF Unicos, MarcosTodos, Paginas
<1>2. ASSUME NEW q \in Procesos, NEW k \in Paginas, Tiene(tabla', q, k)
      PROVE  historia'[q][k] # "nunca"
  BY <1>2 DEF TablaSana
<1>3. ASSUME NEW q \in Procesos PROVE Contiguas(tabla', tarea', q)
  <2>1. CASE q = p
    BY <2>1
  <2>2. CASE q # p
    <3>1. PICK n \in 0..(MaxPagina + 1) : \A g \in Paginas : Tiene(tabla, q, g) <=> g < n
      BY <2>2 DEF TablaSana, Contiguas
    <3>2. \A g \in Paginas : Tiene(tabla', q, g) <=> g < n
      BY <2>2, <3>1
    <3>3. ~(tarea' # SinTarea /\ tarea'.pid = q)
      BY <2>2
    <3> QED BY <3>2, <3>3 DEF Contiguas
  <2> QED BY <2>1, <2>2
<1> QED BY <1>1, <1>2, <1>3 DEF TablaSana, Paginas, Tiene, MarcosTodos

\* The fields of the next loop over pages.
LEMMA TareaSigue ==
    ASSUME NEW t \in Tarea, t # SinTarea
    PROVE  /\ LET s == [t EXCEPT !.desde = @ + 1]
              IN  /\ s # SinTarea /\ s.tipo = t.tipo /\ s.pid = t.pid /\ s.base = t.base
                  /\ s.desde = t.desde + 1 /\ s.hasta = t.hasta /\ s.cuantas = t.cuantas
           /\ LET s == [t EXCEPT !.tipo = "deshacer", !.desde = t.base, !.hasta = t.desde]
              IN  /\ s # SinTarea /\ s.tipo = "deshacer" /\ s.pid = t.pid /\ s.base = t.base
                  /\ s.desde = t.base /\ s.hasta = t.desde /\ s.cuantas = t.cuantas
<1>1. t \in [tipo : {"iniciar", "asignar", "deshacer", "finalizar"},
             pid : Procesos, base : Nat, desde : Nat, hasta : Nat, cuantas : Nat]
  BY DEF Tarea
<1>2. SinTarea.tipo = "nada"
  BY DEF SinTarea
<1> QED BY <1>1, <1>2

\* Once around a loop over pages.
LEMMA SanaLazo ==
    ASSUME Guardada, TablaSana, LazoDePaginas
    PROVE  TablaSana'
<1> DEFINE p == tarea.pid
           g == tarea.desde
<1>1. /\ tarea # SinTarea /\ tarea \in Tarea
  BY DEF LazoDePaginas, AsignarUna, AsignadasTodas, IniciarSinMarcos, AsignarSinMarcos,
         DeshacerUna, DeshechasTodas, EliminarPaginasDeProceso, Asignando, Deshaciendo,
         Guardada, Tipada
<1>2. p \in Procesos /\ tarea.base \in Nat /\ g \in Nat /\ tarea.hasta \in Nat
  BY <1>1, TareaBien
<1>12. tarea.hasta <= MaxPagina + 1
  BY <1>1 DEF Guardada, TareaAcotada
<1>13. MaxPagina \in Nat /\ Paginas \subseteq Nat
  BY PaginasAssumption DEF Paginas
<1>3. /\ tabla \in [MarcosTodos -> Dueno] /\ historia \in [Procesos -> [Paginas -> Estados]]
  BY DEF Guardada, Tipada
<1>4. SinTarea' = SinTarea
  BY DEF SinTarea
<1>5. /\ Unicos(tabla) /\ Contiguas(tabla, tarea, p)
      /\ \A q \in Procesos, k \in Paginas : Tiene(tabla, q, k) => historia[q][k] # "nunca"
  BY <1>2 DEF TablaSana
<1>6. tarea.tipo # "finalizar" =>
        /\ tarea.base <= g /\ g <= tarea.hasta
        /\ \A k \in Paginas : Tiene(tabla, p, k) <=>
              IF tarea.tipo = "deshacer"
              THEN k < tarea.base \/ (g <= k /\ k < tarea.hasta) ELSE k < g
  BY <1>1, <1>5 DEF Contiguas
<1> HIDE DEF p, g
<1>7. CASE AsignarUna
  <2> DEFINE f == Primero(Inicio(p, g), MarcosVacios)
  <2>1. /\ tarea.tipo \in {"iniciar", "asignar"} /\ g < tarea.hasta
        /\ MarcosVacios # {}
        /\ tabla' = [tabla EXCEPT ![f] = <<p, g>>]
        /\ historia' = [historia EXCEPT ![p][g] = "asignada"]
        /\ tarea' = [tarea EXCEPT !.desde = @ + 1]
    BY <1>7 DEF AsignarUna, Asignando, p, g
  <2>2. f \in MarcosTodos /\ tabla[f] = Vacio
    <3>1. Inicio(p, g) \in Nat /\ MarcosVacios \in SUBSET MarcosTodos
      BY <1>2, InicioBien DEF MarcosVacios
    <3>2. f \in MarcosVacios
      BY <2>1, <3>1, PrimeroBien
    <3> QED BY <3>2 DEF MarcosVacios
  <2> HIDE DEF f
  <2>3. g \in Paginas
    BY <1>2, <1>12, <1>13, <2>1 DEF Paginas
  <2>4. ~Tiene(tabla, p, g) /\ \A k \in Paginas : Tiene(tabla, p, k) <=> k < g
    BY <1>2, <1>6, <2>1, <2>3
  <2>5. /\ Unicos(tabla')
        /\ \A q \in Procesos, k \in Paginas :
              Tiene(tabla', q, k) <=> (Tiene(tabla, q, k) \/ (q = p /\ k = g))
    <3>1. p \in Procesos /\ tabla \in [MarcosTodos -> Dueno] /\ Unicos(tabla)
      BY <1>2, <1>3, <1>5
    <3>2. ~Tiene(tabla, p, g)
      BY <2>4
    <3>3. tabla'[f] = <<p, g>> /\ \A e \in MarcosTodos : e # f => tabla'[e] = tabla[e]
      BY <1>3, <2>1, <2>2
    <3> QED BY <2>2, <2>3, <3>1, <3>2, <3>3, TablaConUna
  <2>6. /\ tarea' # SinTarea /\ tarea'.tipo = tarea.tipo /\ tarea'.pid = p
        /\ tarea'.base = tarea.base /\ tarea'.desde = g + 1 /\ tarea'.hasta = tarea.hasta
    BY <1>1, <2>1, TareaSigue DEF p, g
  <2>7. /\ historia'[p][g] = "asignada"
        /\ \A k \in Paginas : k # g => historia'[p][k] = historia[p][k]
        /\ \A q \in Procesos : q # p => historia'[q] = historia[q]
    BY <1>2, <1>3, <2>1, <2>3
  <2>8. ASSUME NEW k \in Paginas PROVE Tiene(tabla', p, k) <=> k < g + 1
    <3>1. Tiene(tabla', p, k) <=> (k < g \/ k = g)
      BY <1>2, <2>4, <2>5
    <3>2. k \in Nat
      BY <1>13
    <3> QED BY <1>2, <3>1, <3>2
  <2>9. tarea'.base <= tarea'.desde /\ tarea'.desde <= tarea'.hasta
    BY <1>2, <1>6, <2>1, <2>6
  <2>10. Contiguas(tabla', tarea', p)
    BY <2>1, <2>6, <2>8, <2>9 DEF Contiguas
  <2>11. \A k \in Paginas : Tiene(tabla', p, k) => historia'[p][k] # "nunca"
    BY <1>2, <1>5, <2>5, <2>7
  <2>12. \A q \in Procesos : q # p =>
            /\ historia'[q] = historia[q]
            /\ \A k \in Paginas : Tiene(tabla', q, k) <=> Tiene(tabla, q, k)
    BY <2>5, <2>7
  <2>13. tarea.pid = p
    BY DEF p
  <2> QED BY <1>2, <2>5, <2>6, <2>10, <2>11, <2>12, <2>13, SanaMovida
<1>8. CASE AsignadasTodas \/ DeshechasTodas
  <2>1. /\ UNCHANGED <<tabla, historia>> /\ tarea' = SinTarea /\ g = tarea.hasta
        /\ tarea.tipo \in {"iniciar", "asignar", "deshacer"}
    BY <1>8 DEF AsignadasTodas, DeshechasTodas, Asignando, Deshaciendo, g
  <2> DEFINE n == IF tarea.tipo = "deshacer" THEN tarea.base ELSE g
  <2>2. n \in 0..(MaxPagina + 1)
    BY <1>2, <1>6, <1>12, <1>13, <2>1
  <2>3. \A k \in Paginas : Tiene(tabla, p, k) <=> k < n
    <3>1. CASE tarea.tipo = "deshacer"
      BY <1>2, <1>6, <1>13, <2>1, <3>1
    <3>2. CASE tarea.tipo # "deshacer"
      BY <1>2, <1>6, <2>1, <3>2
    <3> QED BY <3>1, <3>2
  <2> HIDE DEF n
  <2>5. Contiguas(tabla', tarea', p)
    BY <2>1, <2>2, <2>3 DEF Contiguas
  <2>6. Unicos(tabla') /\ tarea.pid = p
    BY <1>5, <2>1 DEF p
  <2> QED BY <1>2, <1>5, <2>1, <2>5, <2>6, SanaMovida
<1>9. CASE IniciarSinMarcos \/ EliminarPaginasDeProceso
  <2>1. /\ tabla' = SinPaginasDe(p) /\ tarea' = SinTarea
        /\ \E e : historia' = [historia EXCEPT ![p] = [k \in Paginas |-> e]]
    BY <1>9 DEF IniciarSinMarcos, EliminarPaginasDeProceso, p
  <2>2. /\ Unicos(tabla')
        /\ \A q \in Procesos, k \in Paginas :
              Tiene(tabla', q, k) <=> (Tiene(tabla, q, k) /\ q # p)
    BY <1>2, <1>3, <1>5, <2>1, TablaSinNinguna
  <2>3. \A q \in Procesos : q # p => historia'[q] = historia[q]
    BY <1>2, <1>3, <2>1
  <2>5. \A k \in Paginas : Tiene(tabla', p, k) <=> k < 0
    BY <1>2, <1>13, <2>2
  <2>6. Contiguas(tabla', tarea', p)
    <3>1. 0 \in 0..(MaxPagina + 1)
      BY <1>13
    <3> QED BY <2>1, <2>5, <3>1 DEF Contiguas
  <2>7. tarea.pid = p
    BY DEF p
  <2> QED BY <1>2, <2>1, <2>2, <2>3, <2>6, <2>7, SanaMovida
<1>10. CASE AsignarSinMarcos
  <2>1. /\ UNCHANGED <<tabla, historia>> /\ tarea.tipo = "asignar"
        /\ tarea' = [tarea EXCEPT !.tipo = "deshacer", !.desde = tarea.base,
                                  !.hasta = tarea.desde]
    BY <1>10 DEF AsignarSinMarcos
  <2>2. /\ tarea' # SinTarea /\ tarea'.tipo = "deshacer" /\ tarea'.pid = p
        /\ tarea'.base = tarea.base /\ tarea'.desde = tarea.base /\ tarea'.hasta = g
    BY <1>1, <2>1, TareaSigue DEF p, g
  <2>3. /\ tarea.base <= g
        /\ \A k \in Paginas : Tiene(tabla, p, k) <=>
              (k < tarea.base \/ (tarea.base <= k /\ k < g))
    BY <1>2, <1>6, <1>13, <2>1
  <2>4. tarea'.base <= tarea'.desde /\ tarea'.desde <= tarea'.hasta
    BY <1>2, <2>2, <2>3
  <2>5. Contiguas(tabla', tarea', p)
    BY <2>1, <2>2, <2>3, <2>4 DEF Contiguas
  <2>6. Unicos(tabla') /\ tarea.pid = p
    BY <1>5, <2>1 DEF p
  <2> QED BY <1>2, <1>5, <2>1, <2>2, <2>5, <2>6, SanaMovida
<1>11. CASE DeshacerUna
  <2>1. /\ tarea.tipo = "deshacer" /\ g < tarea.hasta /\ tabla' = Vaciada(p, g)
        /\ historia' = [historia EXCEPT ![p][g] = "liberada"]
        /\ tarea' = [tarea EXCEPT !.desde = @ + 1]
    BY <1>11 DEF DeshacerUna, Deshaciendo, p, g
  <2>2. g \in Paginas
    BY <1>2, <1>12, <1>13, <2>1 DEF Paginas
  <2>3. /\ Unicos(tabla')
        /\ \A q \in Procesos, k \in Paginas :
              Tiene(tabla', q, k) <=> (Tiene(tabla, q, k) /\ ~(q = p /\ k = g))
    BY <1>2, <1>3, <1>5, <2>1, <2>2, TablaSinUna
  <2>4. /\ tarea' # SinTarea /\ tarea'.tipo = tarea.tipo /\ tarea'.pid = p
        /\ tarea'.base = tarea.base /\ tarea'.desde = g + 1 /\ tarea'.hasta = tarea.hasta
    BY <1>1, <2>1, TareaSigue DEF p, g
  <2>5. /\ historia'[p][g] = "liberada"
        /\ \A k \in Paginas : k # g => historia'[p][k] = historia[p][k]
        /\ \A q \in Procesos : q # p => historia'[q] = historia[q]
    BY <1>2, <1>3, <2>1, <2>2
  <2>6. \A k \in Paginas : Tiene(tabla', p, k) <=>
           (k < tarea.base \/ (g + 1 <= k /\ k < tarea.hasta))
    BY <1>2, <1>6, <1>13, <2>1, <2>3
  <2>7. tarea'.base <= tarea'.desde /\ tarea'.desde <= tarea'.hasta
    BY <1>2, <1>6, <2>1, <2>4
  <2>8. Contiguas(tabla', tarea', p)
    BY <2>1, <2>4, <2>6, <2>7 DEF Contiguas
  <2>9. \A k \in Paginas : Tiene(tabla', p, k) => historia'[p][k] # "nunca"
    BY <1>2, <1>5, <2>3, <2>5
  <2>10. \A q \in Procesos : q # p =>
            /\ historia'[q] = historia[q]
            /\ \A k \in Paginas : Tiene(tabla', q, k) <=> Tiene(tabla, q, k)
    BY <2>3, <2>5
  <2>11. tarea.pid = p
    BY DEF p
  <2> QED BY <1>2, <2>3, <2>4, <2>8, <2>9, <2>10, <2>11, SanaMovida
<1> QED BY <1>7, <1>8, <1>9, <1>10, <1>11 DEF LazoDePaginas

\* Every request of the kernel about pages; only the last page of a process
\* is given back.
LEMMA SanaPedidoDelKernel ==
    ASSUME Guardada, TablaSana, "hueco" \notin Eventos, PedidoDelKernel
    PROVE  TablaSana'
<1>1. /\ tabla \in [MarcosTodos -> Dueno] /\ historia \in [Procesos -> [Paginas -> Estados]]
  BY DEF Guardada, Tipada
<1>2. /\ MaxPagina \in Nat /\ Paginas \subseteq Nat /\ SinTarea' = SinTarea
      /\ MaxIniciales \in Nat /\ MaxPedidas \in Nat
  BY PaginasAssumption DEF Paginas, SinTarea
<1>3. Unicos(tabla)
  BY DEF TablaSana
<1>4. ASSUME NEW p \in Procesos, tarea = SinTarea
      PROVE  PaginasAsignadas(p) \in 0..(MaxPagina + 1)
             /\ \A g \in Paginas : Tiene(tabla, p, g) <=> g < PaginasAsignadas(p)
  <2>1. PICK n \in 0..(MaxPagina + 1) : \A g \in Paginas : Tiene(tabla, p, g) <=> g < n
    BY <1>4 DEF TablaSana, Contiguas
  <2>2. PaginasAsignadas(p) = n
    BY <1>1, <1>3, <2>1, AsignadasSon
  <2> QED BY <2>1, <2>2
<1>5. \A p \in Procesos, k \in Paginas : Tiene(tabla, p, k) => historia[p][k] # "nunca"
  BY DEF TablaSana
<1>6. ASSUME NEW t, t.tipo # "nada" PROVE t # SinTarea
  BY <1>6 DEF SinTarea
<1>7. ASSUME NEW p \in Procesos, NEW n \in 1..MaxIniciales, InicializarPrograma(p, n)
      PROVE  TablaSana'
  <2>1. /\ tarea = SinTarea /\ UNCHANGED <<tabla, historia>>
        /\ \A g \in Paginas : historia[p][g] = "nunca"
        /\ tarea' = [tipo |-> "iniciar", pid |-> p, base |-> 0, desde |-> 0, hasta |-> n,
                      cuantas |-> n]
    BY <1>7 DEF InicializarPrograma, KernelLibre
  <2>2. /\ tarea'.tipo = "iniciar" /\ tarea'.pid = p /\ tarea'.base = 0
        /\ tarea'.desde = 0 /\ tarea'.hasta = n
    BY <2>1
  <2>3. \A k \in Paginas : Tiene(tabla, p, k) <=> k < 0
    BY <1>2, <1>5, <2>1
  <2>4. 0 <= n
    OBVIOUS
  <2>5. Contiguas(tabla', tarea', p)
    BY <1>6, <2>1, <2>2, <2>3, <2>4 DEF Contiguas
  <2>6. Unicos(tabla')
    BY <1>3, <2>1
  <2> QED BY <1>5, <2>1, <2>2, <2>5, <2>6, SanaMovida
<1>8. ASSUME NEW p \in Procesos, NEW n \in 1..MaxPedidas, AsignarPaginasDeHeap(p, n)
      PROVE  TablaSana'
  <2> DEFINE c == PaginasAsignadas(p)
  <2>1. /\ tarea = SinTarea /\ UNCHANGED <<tabla, historia>>
        /\ tarea' = [tipo |-> "asignar", pid |-> p, base |-> c, desde |-> c, hasta |-> c + n,
                      cuantas |-> n]
    BY <1>8 DEF AsignarPaginasDeHeap, AsignarDesde, KernelLibre
  <2>2. c \in Nat /\ \A k \in Paginas : Tiene(tabla, p, k) <=> k < c
    BY <1>2, <1>4, <2>1
  <2> HIDE DEF c
  <2>3. /\ tarea'.tipo = "asignar" /\ tarea'.pid = p /\ tarea'.base = c
        /\ tarea'.desde = c /\ tarea'.hasta = c + n
    BY <2>1
  <2>4. c <= c /\ c <= c + n
    BY <2>2
  <2>5. Contiguas(tabla', tarea', p)
    BY <1>6, <2>1, <2>2, <2>3, <2>4 DEF Contiguas
  <2>6. Unicos(tabla')
    BY <1>3, <2>1
  <2> QED BY <1>5, <2>1, <2>3, <2>5, <2>6, SanaMovida
<1>9. ASSUME NEW p \in Procesos, NEW g \in Paginas, LiberarPagina(p, g)
      PROVE  TablaSana'
  <2> DEFINE c == PaginasAsignadas(p)
  <2>1. /\ tarea = SinTarea /\ tarea' = SinTarea /\ g = c - 1
        /\ tabla' = Vaciada(p, g)
        /\ historia' = [historia EXCEPT ![p][g] = IF @ = "nunca" THEN @ ELSE "liberada"]
    BY <1>9 DEF LiberarPagina, KernelLibre
  <2>2. c \in 0..(MaxPagina + 1) /\ \A k \in Paginas : Tiene(tabla, p, k) <=> k < c
    BY <1>4, <2>1
  <2> HIDE DEF c
  <2>3. /\ Unicos(tabla')
        /\ \A q \in Procesos, k \in Paginas :
              Tiene(tabla', q, k) <=> (Tiene(tabla, q, k) /\ ~(q = p /\ k = g))
    BY <1>1, <1>3, <2>1, TablaSinUna
  <2>4. /\ \A k \in Paginas : k # g => historia'[p][k] = historia[p][k]
        /\ \A q \in Procesos : q # p => historia'[q] = historia[q]
    BY <1>1, <2>1
  <2>5. g \in 0..(MaxPagina + 1)
    BY <1>2, <2>1, <2>2
  <2>6. \A k \in Paginas : Tiene(tabla', p, k) <=> k < g
    BY <1>2, <2>1, <2>2, <2>3
  <2>7. Contiguas(tabla', tarea', p)
    BY <2>1, <2>5, <2>6 DEF Contiguas
  <2>8. \A k \in Paginas : Tiene(tabla', p, k) => historia'[p][k] # "nunca"
    BY <1>5, <2>3, <2>4
  <2>9. \A q \in Procesos : q # p =>
            /\ historia'[q] = historia[q]
            /\ \A k \in Paginas : Tiene(tabla', q, k) <=> Tiene(tabla, q, k)
    BY <2>3, <2>4
  <2> QED BY <2>1, <2>3, <2>7, <2>8, <2>9, SanaMovida
<1>10. ASSUME NEW p \in Procesos, Finalizar(p)
       PROVE  TablaSana'
  <2>1. /\ tarea = SinTarea /\ UNCHANGED <<tabla, historia>>
        /\ tarea' = [tipo |-> "finalizar", pid |-> p, base |-> 0, desde |-> 0, hasta |-> 0,
                      cuantas |-> 0]
    BY <1>10 DEF Finalizar, KernelLibre
  <2>2. tarea'.tipo = "finalizar" /\ tarea'.pid = p
    BY <2>1
  <2>3. Contiguas(tabla, tarea, p)
    BY DEF TablaSana
  <2>4. Contiguas(tabla', tarea', p)
    BY <2>1, <2>2, <2>3 DEF Contiguas
  <2>5. Unicos(tabla')
    BY <1>3, <2>1
  <2> QED BY <1>5, <2>1, <2>2, <2>4, <2>5, SanaMovida
<1> QED BY <1>7, <1>8, <1>9, <1>10 DEF PedidoDelKernel

\* The steps of the threads: a page that was asked for is written.
LEMMA SanaHilo ==
    ASSUME Guardada, TablaSana, NEW h \in Hilos, Hilo(h)
    PROVE  TablaSana'
<1>1. UNCHANGED <<tabla, tarea>>
  BY DEF Hilo, Recibir, LeerDeCache, LeerSinMarco, LeerFallaCache, LeerDeMarco,
         EscribirSinMarco, EscribirBuscaMarco, EscribirEnMarco
<1>2. \/ historia' = historia
      \/ \E p, g : historia' = [historia EXCEPT ![p][g] =
                                  IF @ = "asignada" THEN "escrita" ELSE @]
  BY DEF Hilo, Recibir, LeerDeCache, LeerSinMarco, LeerFallaCache, LeerDeMarco,
         EscribirSinMarco, EscribirBuscaMarco, EscribirEnMarco
<1>3. historia \in [Procesos -> [Paginas -> Estados]]
  BY DEF Guardada, Tipada
<1>4. ASSUME NEW q \in Procesos, NEW k \in Paginas, historia[q][k] # "nunca"
      PROVE  historia'[q][k] # "nunca"
  BY <1>2, <1>3, <1>4
<1>5. /\ Unicos(tabla') /\ \A p \in Procesos : Contiguas(tabla', tarea', p)
      /\ \A p \in Procesos, g \in Paginas : Tiene(tabla', p, g) => historia'[p][g] # "nunca"
  BY <1>1, <1>4 DEF TablaSana
<1> QED BY <1>5 DEF TablaSana, Unicos, Contiguas, Tiene, MarcosTodos, Paginas, SinTarea

\* The start.
LEMMA SanaInit == Init => TablaSana
<1> SUFFICES ASSUME Init PROVE TablaSana
  OBVIOUS
<1>1. \A f \in MarcosTodos : tabla[f] \in {Vacio, Reservado}
  BY DEF Init
<1>2. \A p \in Procesos, g \in Paginas : Vacio # <<p, g>> /\ Reservado # <<p, g>>
  BY ProcesosAssumption DEF Vacio, Reservado
<1>3. \A p \in Procesos, g \in Paginas : ~Tiene(tabla, p, g)
  BY <1>1, <1>2 DEF Tiene
<1>4. MaxPagina \in Nat /\ Paginas \subseteq Nat /\ 0 \in 0..(MaxPagina + 1)
  BY PaginasAssumption DEF Paginas
<1>5. ASSUME NEW p \in Procesos PROVE Contiguas(tabla, tarea, p)
  <2>1. \A g \in Paginas : Tiene(tabla, p, g) <=> g < 0
    BY <1>3, <1>4
  <2> QED BY <1>4, <2>1 DEF Init, Contiguas
<1>6. Unicos(tabla)
  BY <1>1, <1>2 DEF Unicos
<1> QED BY <1>3, <1>5, <1>6 DEF TablaSana

\* Every step.
LEMMA SanaPaso ==
    Guardada /\ TablaSana /\ "hueco" \notin Eventos /\ [Next]_vars => TablaSana'
<1> SUFFICES ASSUME Guardada, TablaSana, "hueco" \notin Eventos, [Next]_vars
             PROVE  TablaSana'
  OBVIOUS
<1>1. CASE \E h \in Hilos : Hilo(h)
  BY <1>1, SanaHilo
<1>2. CASE LazoDePaginas
  BY <1>2, SanaLazo
<1>3. CASE PedidoDelKernel
  BY <1>3, SanaPedidoDelKernel
<1>4. CASE FlushCache \/ UNCHANGED vars
  <2>1. UNCHANGED <<tabla, tarea, historia>>
    BY <1>4 DEF FlushCache, vars
  <2>2. /\ Unicos(tabla') /\ \A p \in Procesos : Contiguas(tabla', tarea', p)
        /\ \A p \in Procesos, g \in Paginas : Tiene(tabla', p, g) => historia'[p][g] # "nunca"
    BY <2>1 DEF TablaSana
  <2> QED BY <2>2 DEF TablaSana, Unicos, Contiguas, Tiene, MarcosTodos, Paginas, SinTarea
<1> QED BY <1>1, <1>2, <1>3, <1>4 DEF Next

-----------------------------------------------------------------------------
(* A cached copy of a page that was written says what its frame says.      *)

\* With table t, frames m and history s, entry e says what its frame says.
EntradaFiel(e, t, m, s) ==
    \A f \in MarcosTodos :
        t[f] = <<e.pid, e.pagina>> /\ s[e.pid][e.pagina] = "escrita" => e.valor = m[f]

CacheFiel == \A i \in 1..Len(cache) : EntradaFiel(cache[i], tabla, marco, historia)

\* A step that caches nothing new and gives no frame to a written page.
LEMMA FielSinNuevas ==
    ASSUME CacheFiel, cache \in Lista, marco' = marco,
           \A k \in 1..Len(cache') : \E i \in 1..Len(cache) : cache'[k] = cache[i],
           \A f \in MarcosTodos, p \in Procesos, g \in Paginas :
               tabla'[f] = <<p, g>> /\ historia'[p][g] = "escrita"
                   => tabla[f] = <<p, g>> /\ historia[p][g] = "escrita"
    PROVE  CacheFiel'
<1>1. ASSUME NEW k \in 1..Len(cache')
      PROVE  EntradaFiel(cache'[k], tabla', marco', historia')
  <2>1. PICK i \in 1..Len(cache) : cache'[k] = cache[i]
    OBVIOUS
  <2>2. cache[i] \in EntradaCache
    BY DEF Lista
  <2>3. cache[i].pid \in Procesos /\ cache[i].pagina \in Paginas
    BY <2>2 DEF EntradaCache
  <2>4. EntradaFiel(cache[i], tabla, marco, historia)
    BY DEF CacheFiel
  <2> QED BY <2>1, <2>3, <2>4 DEF EntradaFiel
<1> QED BY <1>1 DEF CacheFiel, EntradaFiel, MarcosTodos

\* leerDato and escribirDato on a page of the cache.
LEMMA FielAcierto ==
    ASSUME IInv, Guardada, Unicos(tabla), CacheFiel, NEW h \in Hilos,
           LeerDeCache(h) \/ EscribirEnMarco(h)
    PROVE  CacheFiel'
<1> DEFINE p == pedido[h].pid
           g == pedido[h].pagina
           a == Acierto(p, g)
<1>1. SinRepetidas(cache) /\ cache \in Lista /\ marco \in [MarcosTodos -> Valores]
      /\ historia \in [Procesos -> [Paginas -> Estados]]
  BY DEF Guardada, Tipada
<1>2. pc[h] # "libre"
  BY DEF LeerDeCache, EscribirEnMarco, Pide
<1>3. /\ p \in Procesos /\ g \in Paginas
      /\ pedido[h].tipo = "escribe" => pedido[h].valor \in Valores
  BY <1>2, EnManosBien
<1>4. Cacheada(p, g) => a \in 1..Len(cache) /\ cache[a].pid = p /\ cache[a].pagina = g
  BY <1>1, AciertoBien
<1>5. ASSUME NEW j \in 1..Len(cache)
      PROVE  /\ EntradaFiel(cache[j], tabla, marco, historia)
             /\ cache[j] \in EntradaCache
             /\ cache[j].pid \in Procesos /\ cache[j].pagina \in Paginas
             /\ cache[j].valor \in Valores
  <2>1. cache[j] \in EntradaCache
    BY <1>1 DEF Lista
  <2>2. cache[j].pid \in Procesos /\ cache[j].pagina \in Paginas /\ cache[j].valor \in Valores
    BY <2>1 DEF EntradaCache
  <2> QED BY <2>1, <2>2 DEF CacheFiel
<1> HIDE DEF p, g, a
<1>6. ASSUME NEW v \in Valores, Cacheada(p, g), cache' = AlFrente(a, v)
      PROVE  \A k \in 1..Len(cache') :
                \/ cache'[k].pid = p /\ cache'[k].pagina = g /\ cache'[k].valor = v
                \/ \E j \in 1..Len(cache) :
                      cache'[k] = cache[j] /\ (cache[j].pid # p \/ cache[j].pagina # g)
  BY <1>1, <1>4, <1>6, AlFrenteBien
<1>7. CASE LeerDeCache(h)
  <2>1. /\ Cacheada(p, g) /\ cache' = AlFrente(a, cache[a].valor)
        /\ UNCHANGED <<tabla, marco, historia>>
    BY <1>7 DEF LeerDeCache, p, g, a
  <2>2. /\ EntradaFiel(cache[a], tabla, marco, historia) /\ cache[a].valor \in Valores
        /\ cache[a].pid = p /\ cache[a].pagina = g
    BY <1>4, <1>5, <2>1
  <2>3. ASSUME NEW k \in 1..Len(cache')
        PROVE  EntradaFiel(cache'[k], tabla', marco', historia')
    <3>1. \/ /\ cache'[k].pid = p /\ cache'[k].pagina = g
             /\ cache'[k].valor = cache[a].valor
          \/ \E j \in 1..Len(cache) : cache'[k] = cache[j]
      BY <1>6, <2>1, <2>2
    <3>2. CASE \E j \in 1..Len(cache) : cache'[k] = cache[j]
      BY <1>5, <2>1, <3>2
    <3>3. CASE /\ cache'[k].pid = p /\ cache'[k].pagina = g
               /\ cache'[k].valor = cache[a].valor
      BY <2>1, <2>2, <3>3 DEF EntradaFiel
    <3> QED BY <3>1, <3>2, <3>3
  <2> QED BY <2>3 DEF CacheFiel, EntradaFiel, MarcosTodos
<1>8. CASE EscribirEnMarco(h)
  <2> DEFINE e == encontrado[h]
             v == pedido[h].valor
  <2>1. /\ pc[h] = "escribiendo" /\ tabla' = tabla
        /\ marco' = [marco EXCEPT ![e] = v]
        /\ cache' = IF Cacheada(p, g) THEN AlFrente(a, v) ELSE cache
        /\ historia' = [historia EXCEPT ![p][g] = IF @ = "asignada" THEN "escrita" ELSE @]
    BY <1>8 DEF EscribirEnMarco, p, g, a
  <2>2. v \in Valores
    BY <1>3, <2>1 DEF Guardada, EnManos
  <2>3. e \in MarcosTodos /\ tabla[e] = <<p, g>>
    BY <2>1 DEF IInv, SigueSiendoSuyo, p, g
  <2> HIDE DEF e, v
  <2>4. marco'[e] = v /\ \A f \in MarcosTodos : f # e => marco'[f] = marco[f]
    BY <1>1, <2>1, <2>3
  <2>5. \A f \in MarcosTodos : tabla[f] = <<p, g>> => f = e
    BY <1>3, <2>3 DEF Unicos
  <2>6. \A q \in Procesos, k \in Paginas : q # p \/ k # g => historia'[q][k] = historia[q][k]
    BY <1>1, <1>3, <2>1
  <2>7. ASSUME NEW j \in 1..Len(cache), cache[j].pid # p \/ cache[j].pagina # g
        PROVE  EntradaFiel(cache[j], tabla', marco', historia')
    <3> DEFINE x == cache[j]
    <3>1. /\ EntradaFiel(x, tabla, marco, historia)
          /\ x.pid \in Procesos /\ x.pagina \in Paginas
      BY <1>5
    <3>2. historia'[x.pid][x.pagina] = historia[x.pid][x.pagina]
      BY <2>6, <2>7, <3>1
    <3>3. ASSUME NEW f \in MarcosTodos, tabla[f] = <<x.pid, x.pagina>>
          PROVE  marco'[f] = marco[f]
      <4>1. f # e
        BY <2>3, <2>7, <3>3
      <4> QED BY <2>4, <4>1
    <3> HIDE DEF x
    <3>4. EntradaFiel(x, tabla', marco', historia')
      BY <2>1, <3>1, <3>2, <3>3 DEF EntradaFiel
    <3> QED BY <3>4 DEF x
  <2>8. ASSUME NEW k \in 1..Len(cache')
        PROVE  EntradaFiel(cache'[k], tabla', marco', historia')
    <3>1. CASE Cacheada(p, g)
      <4>1. \/ cache'[k].pid = p /\ cache'[k].pagina = g /\ cache'[k].valor = v
            \/ \E j \in 1..Len(cache) :
                  cache'[k] = cache[j] /\ (cache[j].pid # p \/ cache[j].pagina # g)
        BY <1>6, <2>1, <2>2, <3>1
      <4>2. CASE cache'[k].pid = p /\ cache'[k].pagina = g /\ cache'[k].valor = v
        BY <2>1, <2>4, <2>5, <4>2 DEF EntradaFiel
      <4> QED BY <2>7, <4>1, <4>2
    <3>2. CASE ~Cacheada(p, g)
      <4>1. cache' = cache /\ ~Aparece(cache, p, g)
        BY <2>1, <3>2, NoCacheada
      <4>2. cache[k].pid # p \/ cache[k].pagina # g
        BY <4>1 DEF Aparece
      <4> QED BY <2>7, <4>1, <4>2
    <3> QED BY <3>1, <3>2
  <2> QED BY <2>8 DEF CacheFiel, EntradaFiel, MarcosTodos
<1> QED BY <1>7, <1>8

\* leerDato after a miss: what is cached is what the frame of the page has.
LEMMA FielLeerDeMarco ==
    ASSUME IInv, Guardada, Unicos(tabla), CacheFiel, NEW h \in Hilos, LeerDeMarco(h)
    PROVE  CacheFiel'
<1> DEFINE p == pedido[h].pid
           g == pedido[h].pagina
           n == encontrado[h]
           v == marco[n]
           x == [pid |-> p, pagina |-> g, valor |-> v]
           e == escribirCache(p, g, v)
<1>1. Tipada /\ SinRepetidas(cache) /\ cache \in Lista
  BY DEF Guardada, Tipada
<1>2. pc[h] = "leyendo" /\ cache' = e.cache /\ UNCHANGED <<tabla, marco, historia>>
  BY DEF LeerDeMarco
<1>3. p \in Procesos /\ g \in Paginas
  BY <1>2, EnManosBien
<1>4. /\ n \in MarcosTodos /\ tabla[n] = <<p, g>> /\ ~Aparece(cache, p, g)
  BY <1>2 DEF Guardada, EnManos, IInv, SigueSiendoSuyo
<1>5. v \in Valores
  BY <1>1, <1>4 DEF Tipada
<1> HIDE DEF p, g, n, v
<1>6. \A k \in 1..Len(e.cache) :
         e.cache[k] = x \/ \E i \in 1..Len(cache) : e.cache[k] = cache[i]
  BY <1>1, <1>3, <1>4, <1>5, EscribirCacheBien
<1>7. x.pid = p /\ x.pagina = g /\ x.valor = v
  OBVIOUS
<1> HIDE DEF e, x
<1>8. \A f \in MarcosTodos : tabla[f] = <<p, g>> => f = n
  BY <1>3, <1>4 DEF Unicos
<1>9. EntradaFiel(x, tabla, marco, historia)
  BY <1>7, <1>8 DEF EntradaFiel, v
<1>10. \A k \in 1..Len(cache') : EntradaFiel(cache'[k], tabla', marco', historia')
  BY <1>2, <1>6, <1>9 DEF CacheFiel
<1> QED BY <1>10 DEF CacheFiel, EntradaFiel, MarcosTodos

\* Every step of a thread.
LEMMA FielHilo ==
    ASSUME IInv, Guardada, Unicos(tabla), CacheFiel, NEW h \in Hilos, Hilo(h)
    PROVE  CacheFiel'
<1>1. CASE (\E r \in Pedido \ {SinPedido} : Recibir(h, r)) \/ LeerSinMarco(h)
           \/ LeerFallaCache(h) \/ EscribirSinMarco(h) \/ EscribirBuscaMarco(h)
  <2>1. UNCHANGED <<tabla, marco, cache, historia>>
    BY <1>1 DEF Recibir, LeerSinMarco, LeerFallaCache, EscribirSinMarco, EscribirBuscaMarco,
                gestion
  <2> QED BY <2>1 DEF CacheFiel, EntradaFiel, MarcosTodos
<1>2. CASE LeerDeCache(h) \/ EscribirEnMarco(h)
  BY <1>2, FielAcierto
<1>3. CASE LeerDeMarco(h)
  BY <1>3, FielLeerDeMarco
<1> QED BY <1>1, <1>2, <1>3 DEF Hilo

\* The steps of the kernel's thread.
LEMMA FielKernel ==
    ASSUME Guardada, CacheFiel, LazoDePaginas \/ PedidoDelKernel
    PROVE  CacheFiel'
<1>1. /\ cache \in Lista /\ tabla \in [MarcosTodos -> Dueno] /\ tarea \in Tarea
      /\ historia \in [Procesos -> [Paginas -> Estados]]
  BY DEF Guardada, Tipada
<1>2. \A q \in Procesos, k \in Paginas : Vacio # <<q, k>>
  BY ProcesosAssumption DEF Vacio
<1>3. ASSUME NEW p \in Procesos, NEW f \in MarcosTodos, NEW q \in Procesos, NEW k \in Paginas,
             SinPaginasDe(p)[f] = <<q, k>>
      PROVE  tabla[f] = <<q, k>> /\ q # p
  <2>1. CASE tabla[f] \in {p} \X Paginas
    BY <1>2, <1>3, <2>1 DEF SinPaginasDe
  <2>2. CASE tabla[f] \notin {p} \X Paginas
    BY <1>3, <2>2 DEF SinPaginasDe
  <2> QED BY <2>1, <2>2
<1>4. ASSUME NEW p \in Procesos, NEW g, NEW f \in MarcosTodos, NEW q \in Procesos,
             NEW k \in Paginas, Vaciada(p, g)[f] = <<q, k>>
      PROVE  tabla[f] = <<q, k>>
  <2>1. CASE MarcosDe(p, g) = {}
    BY <1>4, <2>1 DEF Vaciada
  <2>2. CASE MarcosDe(p, g) # {}
    <3> DEFINE e == Primero(Inicio(p, g), MarcosDe(p, g))
    <3>1. Vaciada(p, g) = [tabla EXCEPT ![e] = Vacio]
      BY <2>2 DEF Vaciada
    <3> HIDE DEF e
    <3> QED BY <1>1, <1>2, <1>4, <3>1
  <2> QED BY <2>1, <2>2
<1>5. ASSUME NEW p, NEW u, NEW q \in Procesos, NEW k \in Paginas, u # "escrita",
             \/ \E g : historia' = [historia EXCEPT ![p][g] = u]
             \/ historia' = [historia EXCEPT ![p] = [j \in Paginas |-> u]],
             historia'[q][k] = "escrita"
      PROVE  historia[q][k] = "escrita"
  BY <1>1, <1>5
<1>6. ASSUME UNCHANGED <<tabla, historia>>, NEW f \in MarcosTodos, NEW q \in Procesos,
             NEW k \in Paginas, tabla'[f] = <<q, k>> /\ historia'[q][k] = "escrita"
      PROVE  tabla[f] = <<q, k>> /\ historia[q][k] = "escrita"
  BY <1>6
<1>7. CASE LazoDePaginas
  <2> DEFINE p == tarea.pid
  <2>1. /\ tarea # SinTarea /\ cache' = cache /\ marco' = marco
    BY <1>7 DEF LazoDePaginas, AsignarUna, AsignadasTodas, IniciarSinMarcos, AsignarSinMarcos,
                DeshacerUna, DeshechasTodas, EliminarPaginasDeProceso, Asignando, Deshaciendo,
                gestion
  <2>2. p \in Procesos
    BY <1>1, <2>1, TareaBien
  <2> DEFINE Pasa(f, q, k) ==
               tabla'[f] = <<q, k>> /\ historia'[q][k] = "escrita"
                   => tabla[f] = <<q, k>> /\ historia[q][k] = "escrita"
  <2>3. CASE AsignadasTodas \/ AsignarSinMarcos \/ DeshechasTodas
    <3>1. UNCHANGED <<tabla, historia>>
      BY <2>3 DEF AsignadasTodas, AsignarSinMarcos, DeshechasTodas
    <3>2. \A f \in MarcosTodos, q \in Procesos, k \in Paginas : Pasa(f, q, k)
      BY <3>1
    <3> QED BY <1>1, <2>1, <3>2, FielSinNuevas
  <2>4. CASE AsignarUna
    <3> DEFINE e == Primero(Inicio(p, tarea.desde), MarcosVacios)
               d == tarea.desde
    <3>1. /\ tabla' = [tabla EXCEPT ![e] = <<p, d>>]
          /\ historia' = [historia EXCEPT ![p][d] = "asignada"]
      BY <2>4 DEF AsignarUna
    <3> HIDE DEF e, d, p
    <3>2. ASSUME NEW f \in MarcosTodos, NEW q \in Procesos, NEW k \in Paginas,
                 tabla'[f] = <<q, k>>, historia'[q][k] = "escrita"
          PROVE  tabla[f] = <<q, k>> /\ historia[q][k] = "escrita"
      <4>1. historia[q][k] = "escrita" /\ ~(q = p /\ k = d)
        BY <1>1, <3>1, <3>2
      <4>2. tabla[f] = <<q, k>>
        BY <1>1, <3>1, <3>2, <4>1
      <4> QED BY <4>1, <4>2
    <3>3. \A f \in MarcosTodos, q \in Procesos, k \in Paginas : Pasa(f, q, k)
      BY <3>2
    <3> QED BY <1>1, <2>1, <3>3, FielSinNuevas
  <2>5. CASE IniciarSinMarcos \/ EliminarPaginasDeProceso
    <3>1. tabla' = SinPaginasDe(p)
      BY <2>5 DEF IniciarSinMarcos, EliminarPaginasDeProceso
    <3>2. PICK u \in {"nunca", "liberada"} :
             historia' = [historia EXCEPT ![p] = [j \in Paginas |-> u]]
      BY <2>5 DEF IniciarSinMarcos, EliminarPaginasDeProceso
    <3> HIDE DEF p
    <3>3. \A f \in MarcosTodos, q \in Procesos, k \in Paginas : Pasa(f, q, k)
      BY <1>3, <1>5, <2>2, <3>1, <3>2
    <3> QED BY <1>1, <2>1, <3>3, FielSinNuevas
  <2>6. CASE DeshacerUna
    <3>1. /\ tabla' = Vaciada(p, tarea.desde)
          /\ historia' = [historia EXCEPT ![p][tarea.desde] = "liberada"]
      BY <2>6 DEF DeshacerUna
    <3> HIDE DEF p
    <3>2. \A f \in MarcosTodos, q \in Procesos, k \in Paginas : Pasa(f, q, k)
      BY <1>4, <1>5, <2>2, <3>1
    <3> QED BY <1>1, <2>1, <3>2, FielSinNuevas
  <2> QED BY <1>7, <2>3, <2>4, <2>5, <2>6 DEF LazoDePaginas
<1>8. CASE PedidoDelKernel
  <2>1. ASSUME NEW p \in Procesos,
               \/ \E n \in 1..MaxIniciales : InicializarPrograma(p, n)
               \/ \E n \in 1..MaxPedidas : AsignarPaginasDeHeap(p, n)
        PROVE  CacheFiel'
    <3>1. UNCHANGED <<tabla, marco, cache, historia>>
      BY <2>1 DEF InicializarPrograma, AsignarPaginasDeHeap, AsignarDesde, gestion
    <3> QED BY <3>1 DEF CacheFiel, EntradaFiel, MarcosTodos
  <2>2. ASSUME NEW p \in Procesos, NEW g \in Paginas, LiberarPagina(p, g)
        PROVE  CacheFiel'
    <3>1. /\ tabla' = Vaciada(p, g) /\ cache' = cache /\ marco' = marco
          /\ historia' = [historia EXCEPT ![p][g] = IF @ = "nunca" THEN @ ELSE "liberada"]
      BY <2>2 DEF LiberarPagina, gestion
    <3>2. ASSUME NEW q \in Procesos, NEW k \in Paginas, historia'[q][k] = "escrita"
          PROVE  historia[q][k] = "escrita"
      BY <1>1, <3>1, <3>2
    <3>3. ASSUME NEW f \in MarcosTodos, NEW q \in Procesos, NEW k \in Paginas,
                 tabla'[f] = <<q, k>>, historia'[q][k] = "escrita"
          PROVE  tabla[f] = <<q, k>> /\ historia[q][k] = "escrita"
      BY <1>4, <3>1, <3>2, <3>3
    <3> QED BY <1>1, <3>1, <3>3, FielSinNuevas
  <2>3. ASSUME NEW p \in Procesos, Finalizar(p)
        PROVE  CacheFiel'
    <3>1. /\ cache' = SinEntradasDe(p) /\ UNCHANGED <<tabla, marco, historia>>
      BY <2>3 DEF Finalizar
    <3>2. \A k \in 1..Len(cache') : \E i \in 1..Len(cache) : cache'[k] = cache[i]
      BY <1>1, <3>1, SinEntradasBien
    <3> QED BY <1>1, <3>1, <3>2, FielSinNuevas
  <2> QED BY <1>8, <2>1, <2>2, <2>3 DEF PedidoDelKernel
<1> QED BY <1>7, <1>8

\* The start and the steps in which nobody takes part.
LEMMA FielPaso ==
    /\ Init => CacheFiel
    /\ IInv /\ Guardada /\ TablaSana /\ CacheFiel /\ [Next]_vars => CacheFiel'
<1>1. ASSUME Init PROVE CacheFiel
  <2>1. Len(cache) = 0
    BY <1>1 DEF Init
  <2> QED BY <2>1 DEF CacheFiel
<1>2. ASSUME IInv, Guardada, TablaSana, CacheFiel, [Next]_vars PROVE CacheFiel'
  <2>1. Unicos(tabla)
    BY <1>2 DEF TablaSana
  <2>2. CASE \E h \in Hilos : Hilo(h)
    BY <1>2, <2>1, <2>2, FielHilo
  <2>3. CASE LazoDePaginas \/ PedidoDelKernel
    BY <1>2, <2>3, FielKernel
  <2>4. CASE FlushCache
    <3>1. Len(cache') = 0
      BY <2>4 DEF FlushCache
    <3> QED BY <3>1 DEF CacheFiel
  <2>5. CASE UNCHANGED vars
    BY <1>2, <2>5 DEF vars, gestion, CacheFiel, EntradaFiel, MarcosTodos
  <2> QED BY <1>2, <2>2, <2>3, <2>4, <2>5 DEF Next
<1> QED BY <1>1, <1>2

\* gestionDeMemoria.c: a page that was written and is cached says in the cache
\* what it says in its frame, flushed or not and whatever the connections do, in
\* an instance in which the kernel only gives back the last page of a process
\* and ends no process whose CPU has a request in flight.
THEOREM CacheSiempreCoherente ==
    ASSUME "hueco" \notin Eventos, "finEnVuelo" \notin Eventos
    PROVE  Spec => []CacheCoherente
<1> DEFINE Todo == IInv /\ Guardada /\ TablaSana /\ CacheFiel
<1>1. Todo => CacheCoherente
  BY DEF CacheFiel, EntradaFiel, CacheCoherente
<1>2. Init => Todo
  BY InvInit, GuardadaInit, SanaInit, FielPaso
<1>3. Todo /\ [Next]_vars => Todo'
  BY InvPaso, GuardadaPaso, SanaPaso, FielPaso
<1> QED BY <1>1, <1>2, <1>3, PTL DEF Spec

-----------------------------------------------------------------------------
(* What else the promise of MemoriaPaginada rests on.                      *)

\* A free connection has no request, and the kernel's is free in its loops.
Ociosos ==
    /\ \A h \in Hilos : pc[h] = "libre" => pedido[h] = SinPedido
    /\ tarea # SinTarea => pc[Kernel] = "libre"

\* Nobody asks for a page that was given back.
PedidosSanos ==
    \A h \in Hilos : pedido[h] # SinPedido =>
        historia[pedido[h].pid][pedido[h].pagina] # "liberada"

\* A page in use has its frame, and a cached page was in use.
ConMarco ==
    \A p \in Procesos, g \in Paginas :
        historia[p][g] \in {"asignada", "escrita"} => Tiene(tabla, p, g)

CacheDeAntes ==
    \A i \in 1..Len(cache) : historia[cache[i].pid][cache[i].pagina] # "nunca"

\* What a loop over pages has done so far: one that undoes its own got fewer
\* pages than were asked for, and the empty frames are those it gave back.
TareaSana ==
    tarea # SinTarea =>
        /\ tarea.tipo = "iniciar" =>
              tarea.base = 0 /\ \A i \in 1..Len(cache) : cache[i].pid # tarea.pid
        /\ tarea.tipo \in {"iniciar", "asignar"} =>
              /\ tarea.base < tarea.hasta
              /\ tarea.base + tarea.cuantas = tarea.hasta
              /\ \A g \in Paginas : tarea.base <= g /\ g < tarea.desde =>
                    historia[tarea.pid][g] = "asignada"
        /\ tarea.tipo = "deshacer" =>
              /\ tarea.hasta <= MaxPagina
              /\ tarea.hasta < tarea.base + tarea.cuantas
              /\ tarea.cuantas <= MaxPagina + 1
              /\ Cardinality(MarcosVacios) <= tarea.desde - tarea.base

\* The first frames are those of the table itself.
ReservadosFijos == \A f \in MarcosTodos : tabla[f] = Reservado <=> f < Reservados

Prometida ==
    /\ Ociosos /\ PedidosSanos /\ ConMarco /\ CacheDeAntes /\ TareaSana
    /\ ReservadosFijos

\* How a step of a thread moves its request.
LEMMA LoDeHilo ==
    ASSUME IInv, Guardada, NEW h \in Hilos, Hilo(h)
    PROVE  /\ UNCHANGED <<tabla, tarea>>
           /\ \A k \in Hilos : k # h => pc'[k] = pc[k] /\ pedido'[k] = pedido[k]
           /\ \/ pc[h] # "libre" /\ pc'[h] # "libre" /\ pedido'[h] = pedido[h]
              \/ pc[h] # "libre" /\ pedido'[h] = SinPedido
              \/ /\ pc[h] = "libre" /\ pc'[h] # "libre"
                 /\ h = Kernel => tarea = SinTarea
                 /\ historia[pedido'[h].pid][pedido'[h].pagina] = "liberada"
                       => "punteroColgado" \in Eventos
                 /\ historia' = historia
<1>1. UNCHANGED <<tabla, tarea>>
  BY DEF Hilo, Recibir, LeerDeCache, LeerSinMarco, LeerFallaCache, LeerDeMarco,
         EscribirSinMarco, EscribirBuscaMarco, EscribirEnMarco
<1>2. pc \in [Hilos -> Fases] /\ pedido \in [Hilos -> Pedido]
  BY DEF Guardada, Tipada
<1>3. ASSUME NEW r \in Pedido \ {SinPedido}, Recibir(h, r)
      PROVE  /\ pc[h] = "libre" /\ pc'[h] # "libre" /\ pedido'[h] = r
             /\ \A k \in Hilos : k # h => pc'[k] = pc[k] /\ pedido'[k] = pedido[k]
             /\ h = Kernel => tarea = SinTarea
             /\ historia[r.pid][r.pagina] = "liberada" => "punteroColgado" \in Eventos
             /\ historia' = historia
  BY <1>2, <1>3 DEF Recibir
<1>4. ASSUME pc[h] # "libre", NEW r, Responder(h, r)
      PROVE  /\ pc[h] # "libre" /\ pedido'[h] = SinPedido
             /\ \A k \in Hilos : k # h => pc'[k] = pc[k] /\ pedido'[k] = pedido[k]
  BY <1>2, <1>4 DEF Responder
<1>5. ASSUME pc[h] # "libre", NEW u \in {"leyendo", "escribiendo"},
             pc' = [pc EXCEPT ![h] = u], pedido' = pedido
      PROVE  /\ pc[h] # "libre" /\ pc'[h] # "libre" /\ pedido'[h] = pedido[h]
             /\ \A k \in Hilos : k # h => pc'[k] = pc[k] /\ pedido'[k] = pedido[k]
  BY <1>2, <1>5
<1>6. CASE \E r \in Pedido \ {SinPedido} : Recibir(h, r)
  BY <1>1, <1>3, <1>6
<1>7. CASE LeerDeCache(h) \/ LeerSinMarco(h) \/ EscribirSinMarco(h) \/ EscribirEnMarco(h)
  <2>1. pc[h] # "libre" /\ \E r : Responder(h, r)
    BY <1>7 DEF LeerDeCache, LeerSinMarco, EscribirSinMarco, EscribirEnMarco, Pide
  <2> QED BY <1>1, <1>4, <2>1
<1>8. CASE LeerFallaCache(h) \/ EscribirBuscaMarco(h)
  <2>1. /\ pc[h] # "libre" /\ pedido' = pedido
        /\ \E u \in {"leyendo", "escribiendo"} : pc' = [pc EXCEPT ![h] = u]
    BY <1>8 DEF LeerFallaCache, EscribirBuscaMarco, Pide
  <2> QED BY <1>1, <1>5, <2>1
<1>9. CASE LeerDeMarco(h)
  <2>1. pc[h] # "libre"
    BY <1>9 DEF LeerDeMarco
  <2>2. (\E r : Responder(h, r)) \/ UNCHANGED <<pc, pedido>>
    BY <1>9 DEF LeerDeMarco
  <2>3. CASE UNCHANGED <<pc, pedido>>
    BY <1>1, <2>1, <2>3
  <2> QED BY <1>1, <1>4, <2>1, <2>2, <2>3
<1> QED BY <1>6, <1>7, <1>8, <1>9 DEF Hilo

\* What a step of a thread does to the history and to the pages cached.
LEMMA HuellaDeHilo ==
    ASSUME IInv, Guardada, NEW h \in Hilos, Hilo(h)
    PROVE  LET p == pedido[h].pid
               g == pedido[h].pagina
           IN  /\ \/ historia' = historia
                  \/ /\ pedido[h] # SinPedido /\ p \in Procesos /\ g \in Paginas
                     /\ historia' = [historia EXCEPT ![p][g] =
                                       IF @ = "asignada" THEN "escrita" ELSE @]
               /\ \A k \in 1..Len(cache') :
                     \/ \E j \in 1..Len(cache) : /\ cache'[k].pid = cache[j].pid
                                                 /\ cache'[k].pagina = cache[j].pagina
                     \/ /\ pedido[h] # SinPedido /\ p \in Procesos /\ g \in Paginas
                        /\ cache'[k].pid = p /\ cache'[k].pagina = g /\ Tiene(tabla, p, g)
<1> DEFINE p == pedido[h].pid
           g == pedido[h].pagina
           a == Acierto(p, g)
<1>1. Tipada /\ SinRepetidas(cache) /\ cache \in Lista
  BY DEF Guardada, Tipada
<1>2. pc[h] # "libre" => /\ pedido[h] # SinPedido /\ p \in Procesos /\ g \in Paginas
                         /\ pedido[h].tipo = "escribe" => pedido[h].valor \in Valores
  BY EnManosBien
<1>3. Cacheada(p, g) => a \in 1..Len(cache)
  BY <1>1, AciertoBien
<1> HIDE DEF p, g, a
<1>4. ASSUME NEW v \in Valores, Cacheada(p, g), cache' = AlFrente(a, v)
      PROVE  \A k \in 1..Len(cache') : \E j \in 1..Len(cache) :
                cache'[k].pid = cache[j].pid /\ cache'[k].pagina = cache[j].pagina
  BY <1>1, <1>3, <1>4, AlFrenteBien
<1>5. CASE (\E r \in Pedido \ {SinPedido} : Recibir(h, r)) \/ LeerSinMarco(h)
           \/ LeerFallaCache(h) \/ EscribirSinMarco(h) \/ EscribirBuscaMarco(h)
  <2>1. cache' = cache /\ historia' = historia
    BY <1>5 DEF Recibir, LeerSinMarco, LeerFallaCache, EscribirSinMarco, EscribirBuscaMarco,
                gestion
  <2> QED BY <2>1
<1>6. CASE LeerDeCache(h)
  <2>1. Cacheada(p, g) /\ cache' = AlFrente(a, cache[a].valor) /\ historia' = historia
    BY <1>6 DEF LeerDeCache, p, g, a
  <2>2. cache[a] \in EntradaCache
    BY <1>1, <1>3, <2>1 DEF Lista
  <2>3. cache[a].valor \in Valores
    BY <2>2 DEF EntradaCache
  <2> QED BY <1>4, <2>1, <2>3
<1>7. CASE LeerDeMarco(h)
  <2> DEFINE v == marco[encontrado[h]]
             x == [pid |-> p, pagina |-> g, valor |-> v]
             e == escribirCache(p, g, v)
  <2>1. pc[h] = "leyendo" /\ cache' = e.cache /\ historia' = historia
    BY <1>7 DEF LeerDeMarco, p, g
  <2>2. /\ encontrado[h] \in MarcosTodos /\ tabla[encontrado[h]] = <<p, g>>
        /\ ~Aparece(cache, p, g)
    BY <2>1 DEF Guardada, EnManos, IInv, SigueSiendoSuyo, p, g
  <2>3. v \in Valores
    BY <1>1, <2>2 DEF Tipada
  <2>4. /\ pedido[h] # SinPedido /\ p \in Procesos /\ g \in Paginas
        /\ Tiene(tabla, p, g)
    BY <1>2, <2>1, <2>2 DEF Tiene
  <2> HIDE DEF v
  <2>5. \A k \in 1..Len(e.cache) :
           e.cache[k] = x \/ \E i \in 1..Len(cache) : e.cache[k] = cache[i]
    BY <1>1, <2>2, <2>3, <2>4, EscribirCacheBien
  <2>6. x.pid = p /\ x.pagina = g
    OBVIOUS
  <2> HIDE DEF e, x
  <2> QED BY <2>1, <2>4, <2>5, <2>6 DEF p, g
<1>8. CASE EscribirEnMarco(h)
  <2> DEFINE v == pedido[h].valor
  <2>1. /\ pc[h] = "escribiendo"
        /\ cache' = IF Cacheada(p, g) THEN AlFrente(a, v) ELSE cache
        /\ historia' = [historia EXCEPT ![p][g] = IF @ = "asignada" THEN "escrita" ELSE @]
    BY <1>8 DEF EscribirEnMarco, p, g, a
  <2>2. v \in Valores
    BY <1>2, <2>1 DEF Guardada, EnManos
  <2> HIDE DEF v
  <2>3. \A k \in 1..Len(cache') : \E j \in 1..Len(cache) :
           cache'[k].pid = cache[j].pid /\ cache'[k].pagina = cache[j].pagina
    BY <1>4, <2>1, <2>2
  <2> QED BY <1>2, <2>1, <2>3 DEF p, g
<1> QED BY <1>5, <1>6, <1>7, <1>8 DEF Hilo

\* Every step of a thread.
LEMMA PrometidaHilo ==
    ASSUME IInv, Guardada, TablaSana, Prometida, "punteroColgado" \notin Eventos,
           NEW h \in Hilos, Hilo(h)
    PROVE  Prometida'
<1> DEFINE p == pedido[h].pid
           g == pedido[h].pagina
<1>1. /\ UNCHANGED <<tabla, tarea>>
      /\ \A k \in Hilos : k # h => pc'[k] = pc[k] /\ pedido'[k] = pedido[k]
      /\ \/ pc[h] # "libre" /\ pc'[h] # "libre" /\ pedido'[h] = pedido[h]
         \/ pc[h] # "libre" /\ pedido'[h] = SinPedido
         \/ /\ pc[h] = "libre" /\ pc'[h] # "libre"
            /\ h = Kernel => tarea = SinTarea
            /\ historia[pedido'[h].pid][pedido'[h].pagina] # "liberada"
            /\ historia' = historia
  BY LoDeHilo
<1>2. /\ \/ historia' = historia
         \/ /\ pedido[h] # SinPedido /\ p \in Procesos /\ g \in Paginas
            /\ historia' = [historia EXCEPT ![p][g] =
                              IF @ = "asignada" THEN "escrita" ELSE @]
      /\ \A k \in 1..Len(cache') :
            \/ \E j \in 1..Len(cache) : /\ cache'[k].pid = cache[j].pid
                                        /\ cache'[k].pagina = cache[j].pagina
            \/ /\ pedido[h] # SinPedido /\ p \in Procesos /\ g \in Paginas
               /\ cache'[k].pid = p /\ cache'[k].pagina = g /\ Tiene(tabla, p, g)
  BY HuellaDeHilo
<1>3. /\ cache \in Lista /\ historia \in [Procesos -> [Paginas -> Estados]]
      /\ pedido \in [Hilos -> Pedido] /\ tarea \in Tarea
  BY DEF Guardada, Tipada
<1> HIDE DEF p, g
<1>4. ASSUME NEW q \in Procesos, NEW k \in Paginas
      PROVE  /\ historia[q][k] # "nunca" => historia'[q][k] # "nunca"
             /\ historia[q][k] # "liberada" => historia'[q][k] # "liberada"
             /\ historia'[q][k] \in {"asignada", "escrita"} =>
                   historia[q][k] \in {"asignada", "escrita"}
             /\ pedido[h] = SinPedido \/ q # p => historia'[q][k] = historia[q][k]
  BY <1>2, <1>3
<1>5. SinPedido' = SinPedido /\ SinTarea' = SinTarea
  BY DEF SinPedido, SinTarea
<1>6. Ociosos'
  <2>1. \A k \in Hilos : pc'[k] = "libre" => pedido'[k] = SinPedido
    <3> TAKE k \in Hilos
    <3>1. CASE k = h
      BY <1>1, <3>1
    <3>2. CASE k # h
      BY <1>1, <3>2 DEF Prometida, Ociosos
    <3> QED BY <3>1, <3>2
  <2>2. tarea # SinTarea => pc'[Kernel] = "libre"
    BY <1>1 DEF Prometida, Ociosos, Hilos
  <2> QED BY <1>1, <1>5, <2>1, <2>2 DEF Ociosos
<1>7. PedidosSanos'
  <2> SUFFICES ASSUME NEW k \in Hilos, pedido'[k] # SinPedido
               PROVE  historia'[pedido'[k].pid][pedido'[k].pagina] # "liberada"
    BY DEF PedidosSanos, SinPedido
  <2>1. CASE pedido'[k] = pedido[k]
    <3>1. pedido[k].pid \in Procesos /\ pedido[k].pagina \in Paginas
      BY <1>3, <2>1, PedidoBien
    <3>2. historia[pedido[k].pid][pedido[k].pagina] # "liberada"
      BY <2>1 DEF Prometida, PedidosSanos
    <3> QED BY <1>4, <2>1, <3>1, <3>2
  <2>2. CASE pedido'[k] # pedido[k]
    BY <1>1, <2>2
  <2> QED BY <2>1, <2>2
<1>8. ConMarco'
  BY <1>1, <1>4 DEF Prometida, ConMarco, Tiene, Paginas, MarcosTodos
<1>9. CacheDeAntes'
  <2> SUFFICES ASSUME NEW k \in 1..Len(cache')
               PROVE  historia'[cache'[k].pid][cache'[k].pagina] # "nunca"
    BY DEF CacheDeAntes
  <2>1. ASSUME NEW j \in 1..Len(cache), cache'[k].pid = cache[j].pid,
               cache'[k].pagina = cache[j].pagina
        PROVE  historia'[cache'[k].pid][cache'[k].pagina] # "nunca"
    <3>1. cache[j] \in EntradaCache
      BY <1>3 DEF Lista
    <3>2. cache[j].pid \in Procesos /\ cache[j].pagina \in Paginas
      BY <3>1 DEF EntradaCache
    <3>3. historia[cache[j].pid][cache[j].pagina] # "nunca"
      BY DEF Prometida, CacheDeAntes
    <3> QED BY <1>4, <2>1, <3>2, <3>3
  <2>2. ASSUME p \in Procesos, g \in Paginas, cache'[k].pid = p, cache'[k].pagina = g,
               Tiene(tabla, p, g)
        PROVE  historia'[cache'[k].pid][cache'[k].pagina] # "nunca"
    BY <1>4, <2>2 DEF TablaSana
  <2> QED BY <1>2, <2>1, <2>2
<1>10. TareaSana'
  <2> SUFFICES ASSUME tarea # SinTarea PROVE TareaSana'
    BY <1>1, <1>5 DEF TareaSana
  <2>1. pedido[h] = SinPedido \/ tarea.pid # p
    BY DEF IInv, EnVueloQuieto, p
  <2>2. tarea.pid \in Procesos
    BY <1>3, TareaBien
  <2>3. \A k \in Paginas : historia'[tarea.pid][k] = historia[tarea.pid][k]
    BY <1>4, <2>1, <2>2
  <2>4. tarea.tipo = "iniciar" => \A k \in 1..Len(cache') : cache'[k].pid # tarea.pid
    BY <1>2, <2>1 DEF Prometida, TareaSana
  <2>5. MarcosVacios' = MarcosVacios
    BY <1>1 DEF MarcosVacios, MarcosTodos, Vacio
  <2> QED BY <1>1, <2>3, <2>4, <2>5 DEF Prometida, TareaSana, Paginas
<1>11. ReservadosFijos'
  BY <1>1 DEF Prometida, ReservadosFijos, Reservado, MarcosTodos
<1> QED BY <1>6, <1>7, <1>8, <1>9, <1>10, <1>11 DEF Prometida

\* A step of the kernel's thread on the pages of one process.
LEMMA PrometidaMovida ==
    ASSUME Guardada, Prometida, NEW p \in Procesos, ~EnVuelo(p),
           UNCHANGED <<pc, pedido>>, pc[Kernel] = "libre", cache \in Lista,
           \A q \in Procesos : q # p =>
               /\ historia'[q] = historia[q]
               /\ \A k \in Paginas : Tiene(tabla, q, k) => Tiene(tabla', q, k),
           \A k \in Paginas : historia'[p][k] \in {"asignada", "escrita"} =>
               Tiene(tabla', p, k),
           \A k \in 1..Len(cache') : \E i \in 1..Len(cache) : cache'[k] = cache[i],
           \/ \A k \in Paginas : historia[p][k] # "nunca" => historia'[p][k] # "nunca"
           \/ \A i \in 1..Len(cache') : cache'[i].pid # p,
           \A f \in MarcosTodos : tabla'[f] = Reservado <=> tabla[f] = Reservado,
           TareaSana'
    PROVE  Prometida'
<1>1. Ociosos'
  BY DEF Prometida, Ociosos, SinPedido, SinTarea
<1>2. PedidosSanos'
  <2> SUFFICES ASSUME NEW k \in Hilos, pedido[k] # SinPedido
               PROVE  historia'[pedido[k].pid][pedido[k].pagina] # "liberada"
    BY DEF PedidosSanos, SinPedido
  <2>1. pedido[k].pid # p
    BY DEF EnVuelo
  <2>2. pedido[k].pid \in Procesos
    BY PedidoBien DEF Guardada, Tipada
  <2> QED BY <2>1, <2>2 DEF Prometida, PedidosSanos
<1>3. ConMarco'
  <2>1. ASSUME NEW q \in Procesos, NEW k \in Paginas, historia'[q][k] \in {"asignada", "escrita"}
        PROVE  Tiene(tabla', q, k)
    <3>1. CASE q = p
      BY <2>1, <3>1
    <3>2. CASE q # p
      BY <2>1, <3>2 DEF Prometida, ConMarco
    <3> QED BY <3>1, <3>2
  <2> QED BY <2>1 DEF ConMarco, Tiene, Paginas, MarcosTodos
<1>4. CacheDeAntes'
  <2> SUFFICES ASSUME NEW k \in 1..Len(cache')
               PROVE  historia'[cache'[k].pid][cache'[k].pagina] # "nunca"
    BY DEF CacheDeAntes
  <2>1. PICK i \in 1..Len(cache) : cache'[k] = cache[i]
    OBVIOUS
  <2>2. cache[i] \in EntradaCache
    BY DEF Lista
  <2>3. cache[i].pid \in Procesos /\ cache[i].pagina \in Paginas
    BY <2>2 DEF EntradaCache
  <2>4. historia[cache[i].pid][cache[i].pagina] # "nunca"
    BY DEF Prometida, CacheDeAntes
  <2>5. CASE cache[i].pid = p
    BY <2>1, <2>3, <2>4, <2>5
  <2>6. CASE cache[i].pid # p
    BY <2>1, <2>3, <2>4, <2>6
  <2> QED BY <2>5, <2>6
<1>5. ReservadosFijos'
  BY DEF Prometida, ReservadosFijos, Reservado, MarcosTodos
<1> QED BY <1>1, <1>2, <1>3, <1>4, <1>5 DEF Prometida

\* Once around a loop over pages, by kind of loop.
LEMMA PrometidaLazo ==
    ASSUME IInv, Guardada, TablaSana, Prometida, LazoDePaginas
    PROVE  Prometida'
<1> DEFINE p == tarea.pid
           g == tarea.desde
<1>1. tarea # SinTarea /\ tarea \in Tarea /\ UNCHANGED <<pc, pedido>> /\ cache' = cache
  BY DEF LazoDePaginas, AsignarUna, AsignadasTodas, IniciarSinMarcos, AsignarSinMarcos,
         DeshacerUna, DeshechasTodas, EliminarPaginasDeProceso, Asignando, Deshaciendo,
         Guardada, Tipada, gestion
<1>2. /\ p \in Procesos /\ tarea.base \in Nat /\ g \in Nat /\ tarea.hasta \in Nat
      /\ tarea.cuantas \in Nat
  BY <1>1, TareaBien
<1>3. ~EnVuelo(p)
  BY <1>1, TareaQuieta
<1>4. tarea.hasta <= MaxPagina + 1 /\ MaxPagina \in Nat /\ Paginas \subseteq Nat
  <2>1. tarea.hasta <= MaxPagina + 1
    BY <1>1 DEF Guardada, TareaAcotada
  <2> QED BY <2>1, PaginasAssumption DEF Paginas
<1>5. /\ tabla \in [MarcosTodos -> Dueno] /\ historia \in [Procesos -> [Paginas -> Estados]]
      /\ cache \in Lista
  BY DEF Guardada, Tipada
<1>6. /\ pc[Kernel] = "libre"
      /\ \A k \in 1..Len(cache') : \E i \in 1..Len(cache) : cache'[k] = cache[i]
  BY <1>1 DEF Prometida, Ociosos
<1>7. Unicos(tabla) /\ Contiguas(tabla, tarea, p)
  BY <1>2 DEF TablaSana
<1>8. \A q \in Procesos, k \in Paginas : historia[q][k] \in {"asignada", "escrita"} =>
         Tiene(tabla, q, k)
  BY DEF Prometida, ConMarco
<1>9. /\ tarea.tipo = "iniciar" => tarea.base = 0 /\ \A i \in 1..Len(cache) : cache[i].pid # p
      /\ tarea.tipo \in {"iniciar", "asignar"} =>
              /\ tarea.base < tarea.hasta
              /\ tarea.base + tarea.cuantas = tarea.hasta
              /\ \A k \in Paginas : tarea.base <= k /\ k < g => historia[p][k] = "asignada"
      /\ tarea.tipo = "deshacer" =>
              /\ tarea.hasta <= MaxPagina
              /\ tarea.hasta < tarea.base + tarea.cuantas
              /\ tarea.cuantas <= MaxPagina + 1
              /\ Cardinality(MarcosVacios) <= g - tarea.base
  BY <1>1 DEF Prometida, TareaSana
<1>10. SinTarea' = SinTarea /\ Reservado # Vacio /\ \A q \in Procesos : \A k : Reservado # <<q, k>>
  BY ProcesosAssumption DEF SinTarea, Reservado, Vacio
<1>11. tarea' = SinTarea => TareaSana'
  BY <1>10 DEF TareaSana
<1> HIDE DEF p, g
<1>12. CASE AsignarUna
  <2> DEFINE f == Primero(Inicio(p, g), MarcosVacios)
  <2>1. /\ tarea.tipo \in {"iniciar", "asignar"} /\ g < tarea.hasta
        /\ MarcosVacios # {}
        /\ tabla' = [tabla EXCEPT ![f] = <<p, g>>]
        /\ historia' = [historia EXCEPT ![p][g] = "asignada"]
        /\ tarea' = [tarea EXCEPT !.desde = @ + 1]
    BY <1>12 DEF AsignarUna, Asignando, p, g
  <2>2. f \in MarcosTodos /\ tabla[f] = Vacio
    <3>1. Inicio(p, g) \in Nat /\ MarcosVacios \in SUBSET MarcosTodos
      BY <1>2, InicioBien DEF MarcosVacios
    <3>2. f \in MarcosVacios
      BY <2>1, <3>1, PrimeroBien
    <3> QED BY <3>2 DEF MarcosVacios
  <2> HIDE DEF f
  <2>3. g \in Paginas
    BY <1>2, <1>4, <2>1 DEF Paginas
  <2>4. /\ tarea.base <= g
        /\ ~Tiene(tabla, p, g)
    BY <1>1, <1>2, <1>7, <2>1, <2>3 DEF Contiguas, p, g
  <2>5. tabla'[f] = <<p, g>> /\ \A e \in MarcosTodos : e # f => tabla'[e] = tabla[e]
    BY <1>5, <2>1, <2>2
  <2>6. \A q \in Procesos, k \in Paginas :
           Tiene(tabla', q, k) <=> (Tiene(tabla, q, k) \/ (q = p /\ k = g))
    <3>1. p \in Procesos /\ tabla \in [MarcosTodos -> Dueno] /\ Unicos(tabla)
      BY <1>2, <1>5, <1>7
    <3>2. ~Tiene(tabla, p, g)
      BY <2>4
    <3> QED BY <2>2, <2>3, <2>5, <3>1, <3>2, TablaConUna
  <2>7. /\ historia'[p][g] = "asignada"
        /\ \A k \in Paginas : k # g => historia'[p][k] = historia[p][k]
        /\ \A q \in Procesos : q # p => historia'[q] = historia[q]
    BY <1>2, <1>5, <2>1, <2>3
  <2>8. /\ tarea' # SinTarea /\ tarea'.tipo = tarea.tipo /\ tarea'.pid = p
        /\ tarea'.base = tarea.base /\ tarea'.desde = g + 1 /\ tarea'.hasta = tarea.hasta
        /\ tarea'.cuantas = tarea.cuantas
    BY <1>1, <2>1, TareaSigue DEF p, g
  <2>9. ASSUME NEW k \in Paginas, tarea.base <= k, k < g + 1
        PROVE  historia'[p][k] = "asignada"
    <3>1. k \in Nat
      BY <1>4
    <3>2. CASE k = g
      BY <2>7, <3>2
    <3>3. CASE k # g
      <4>1. k < g
        BY <1>2, <2>9, <3>1, <3>3
      <4> QED BY <1>9, <2>1, <2>7, <2>9, <3>3, <4>1
    <3> QED BY <3>2, <3>3
  <2>10. TareaSana'
    BY <1>1, <1>9, <2>1, <2>8, <2>9 DEF TareaSana, Paginas
  <2>11. \A e \in MarcosTodos : tabla'[e] = Reservado <=> tabla[e] = Reservado
    BY <1>2, <1>10, <2>2, <2>5
  <2>12. \A k \in Paginas : historia'[p][k] \in {"asignada", "escrita"} => Tiene(tabla', p, k)
    BY <1>2, <1>8, <2>6, <2>7
  <2>13. \A k \in Paginas : historia[p][k] # "nunca" => historia'[p][k] # "nunca"
    BY <2>7
  <2> QED BY <1>1, <1>2, <1>3, <1>5, <1>6, <2>6, <2>7, <2>10, <2>11, <2>12, <2>13,
             PrometidaMovida
<1>13. CASE AsignadasTodas \/ DeshechasTodas
  <2>1. UNCHANGED <<tabla, historia>> /\ tarea' = SinTarea
    BY <1>13 DEF AsignadasTodas, DeshechasTodas
  <2> QED BY <1>1, <1>2, <1>3, <1>5, <1>6, <1>8, <1>11, <2>1, PrometidaMovida
<1>14. CASE IniciarSinMarcos \/ EliminarPaginasDeProceso
  <2>1. tabla' = SinPaginasDe(p) /\ tarea' = SinTarea
    BY <1>14 DEF IniciarSinMarcos, EliminarPaginasDeProceso, p
  <2>2. PICK u \in {"nunca", "liberada"} :
           /\ historia' = [historia EXCEPT ![p] = [k \in Paginas |-> u]]
           /\ u = "nunca" => tarea.tipo = "iniciar"
    BY <1>14 DEF IniciarSinMarcos, EliminarPaginasDeProceso, p
  <2>3. \A q \in Procesos, k \in Paginas :
           Tiene(tabla', q, k) <=> (Tiene(tabla, q, k) /\ q # p)
    BY <1>2, <1>5, <1>7, <2>1, TablaSinNinguna
  <2>4. /\ \A q \in Procesos : q # p => historia'[q] = historia[q]
        /\ \A k \in Paginas : historia'[p][k] = u
    BY <1>2, <1>5, <2>2
  <2>5. \A e \in MarcosTodos : tabla'[e] = Reservado <=> tabla[e] = Reservado
    <3>1. Reservado \notin {p} \X Paginas
      BY <1>2, <1>10
    <3> QED BY <1>10, <2>1, <3>1 DEF SinPaginasDe
  <2>6. \/ \A k \in Paginas : historia[p][k] # "nunca" => historia'[p][k] # "nunca"
        \/ \A i \in 1..Len(cache') : cache'[i].pid # p
    BY <1>1, <1>9, <2>2, <2>4
  <2>7. \A k \in Paginas : historia'[p][k] \in {"asignada", "escrita"} => Tiene(tabla', p, k)
    BY <2>4
  <2> QED BY <1>1, <1>2, <1>3, <1>5, <1>6, <1>11, <2>1, <2>3, <2>4, <2>5, <2>6, <2>7,
             PrometidaMovida
<1>15. CASE AsignarSinMarcos
  <2>1. /\ UNCHANGED <<tabla, historia>> /\ tarea.tipo = "asignar" /\ g < tarea.hasta
        /\ MarcosVacios = {}
        /\ tarea' = [tarea EXCEPT !.tipo = "deshacer", !.desde = tarea.base,
                                  !.hasta = tarea.desde]
    BY <1>15 DEF AsignarSinMarcos, g
  <2>2. /\ tarea' # SinTarea /\ tarea'.tipo = "deshacer" /\ tarea'.pid = p
        /\ tarea'.base = tarea.base /\ tarea'.desde = tarea.base /\ tarea'.hasta = g
        /\ tarea'.cuantas = tarea.cuantas
    BY <1>1, <2>1, TareaSigue DEF p, g
  <2>3. /\ g <= MaxPagina /\ g < tarea.base + tarea.cuantas
        /\ tarea.cuantas <= MaxPagina + 1
    BY <1>2, <1>4, <1>9, <2>1
  <2>4. MarcosVacios' = {}
    BY <2>1 DEF MarcosVacios, MarcosTodos, Vacio
  <2>5. Cardinality(MarcosVacios') <= tarea'.desde - tarea'.base
    BY <1>2, <2>2, <2>4, FS_EmptySet
  <2>6. TareaSana'
    BY <2>2, <2>3, <2>5 DEF TareaSana
  <2> QED BY <1>1, <1>2, <1>3, <1>5, <1>6, <1>8, <2>1, <2>6, PrometidaMovida
<1>16. CASE DeshacerUna
  <2>1. /\ tarea.tipo = "deshacer" /\ g < tarea.hasta /\ tabla' = Vaciada(p, g)
        /\ historia' = [historia EXCEPT ![p][g] = "liberada"]
        /\ tarea' = [tarea EXCEPT !.desde = @ + 1]
    BY <1>16 DEF DeshacerUna, Deshaciendo, p, g
  <2>2. g \in Paginas
    BY <1>2, <1>4, <2>1 DEF Paginas
  <2>3. \A q \in Procesos, k \in Paginas :
           Tiene(tabla', q, k) <=> (Tiene(tabla, q, k) /\ ~(q = p /\ k = g))
    BY <1>2, <1>5, <1>7, <2>1, <2>2, TablaSinUna
  <2>4. /\ tarea' # SinTarea /\ tarea'.tipo = tarea.tipo /\ tarea'.pid = p
        /\ tarea'.base = tarea.base /\ tarea'.desde = g + 1 /\ tarea'.hasta = tarea.hasta
        /\ tarea'.cuantas = tarea.cuantas
    BY <1>1, <2>1, TareaSigue DEF p, g
  <2>5. /\ historia'[p][g] = "liberada"
        /\ \A k \in Paginas : k # g => historia'[p][k] = historia[p][k]
        /\ \A q \in Procesos : q # p => historia'[q] = historia[q]
    BY <1>2, <1>5, <2>1, <2>2
  <2>6. PICK f : \/ tabla' = tabla
                 \/ tabla' = [tabla EXCEPT ![f] = Vacio] /\ tabla[f] = <<p, g>>
    <3>1. CASE MarcosDe(p, g) = {}
      BY <2>1, <3>1 DEF Vaciada
    <3>2. CASE MarcosDe(p, g) # {}
      <4> DEFINE f == Primero(Inicio(p, g), MarcosDe(p, g))
      <4>1. Inicio(p, g) \in Nat /\ MarcosDe(p, g) \in SUBSET MarcosTodos
        BY <1>2, InicioBien DEF MarcosDe
      <4>2. f \in MarcosDe(p, g)
        BY <3>2, <4>1, PrimeroBien
      <4>3. tabla[f] = <<p, g>>
        BY <4>2 DEF MarcosDe
      <4> QED BY <2>1, <3>2, <4>3 DEF Vaciada
    <3> QED BY <3>1, <3>2
  <2>7. \A e \in MarcosTodos : tabla'[e] = Reservado <=> tabla[e] = Reservado
    BY <1>2, <1>5, <1>10, <2>6
  <2>8. Cardinality(MarcosVacios') <= Cardinality(MarcosVacios) + 1
        /\ Cardinality(MarcosVacios) \in Nat /\ Cardinality(MarcosVacios') \in Nat
    <3>1. IsFiniteSet(MarcosTodos)
      BY FS_Interval, MarcosAssumption DEF MarcosTodos
    <3>2. MarcosVacios \subseteq MarcosTodos /\ MarcosVacios' \subseteq MarcosVacios \cup {f}
      BY <1>5, <2>6 DEF MarcosVacios, MarcosTodos, Vacio
    <3>3. IsFiniteSet(MarcosVacios) /\ Cardinality(MarcosVacios) \in Nat
      BY <3>1, <3>2, FS_Subset, FS_CardinalityType
    <3>4. /\ IsFiniteSet(MarcosVacios \cup {f})
          /\ Cardinality(MarcosVacios \cup {f}) <= Cardinality(MarcosVacios) + 1
      BY <3>3, FS_AddElement
    <3>5. /\ IsFiniteSet(MarcosVacios')
          /\ Cardinality(MarcosVacios') <= Cardinality(MarcosVacios \cup {f})
          /\ Cardinality(MarcosVacios') \in Nat
          /\ Cardinality(MarcosVacios \cup {f}) \in Nat
      BY <3>2, <3>4, FS_Subset, FS_CardinalityType
    <3> QED BY <3>3, <3>4, <3>5
  <2>9. Cardinality(MarcosVacios') <= tarea'.desde - tarea'.base
    BY <1>2, <1>9, <2>1, <2>4, <2>8
  <2>10. TareaSana'
    BY <1>9, <2>1, <2>4, <2>9 DEF TareaSana
  <2>11. \A k \in Paginas : historia'[p][k] \in {"asignada", "escrita"} => Tiene(tabla', p, k)
    BY <1>2, <1>8, <2>3, <2>5
  <2>12. \A k \in Paginas : historia[p][k] # "nunca" => historia'[p][k] # "nunca"
    BY <2>5
  <2> QED BY <1>1, <1>2, <1>3, <1>5, <1>6, <2>3, <2>5, <2>7, <2>10, <2>11, <2>12,
             PrometidaMovida
<1> QED BY <1>12, <1>13, <1>14, <1>15, <1>16 DEF LazoDePaginas

\* Every request of the kernel about pages.
LEMMA PrometidaPedidoDelKernel ==
    ASSUME IInv, Guardada, TablaSana, Prometida, "finEnVuelo" \notin Eventos, PedidoDelKernel
    PROVE  Prometida'
<1>1. /\ tabla \in [MarcosTodos -> Dueno] /\ historia \in [Procesos -> [Paginas -> Estados]]
      /\ cache \in Lista
  BY DEF Guardada, Tipada
<1>2. \A q \in Procesos, k \in Paginas : historia[q][k] \in {"asignada", "escrita"} =>
         Tiene(tabla, q, k)
  BY DEF Prometida, ConMarco
<1>3. cache' = cache => \A k \in 1..Len(cache') : \E i \in 1..Len(cache) : cache'[k] = cache[i]
  OBVIOUS
<1>4. SinTarea' = SinTarea /\ Unicos(tabla)
  BY DEF SinTarea, TablaSana
<1>5. ASSUME NEW p \in Procesos, NEW n \in 1..MaxIniciales, InicializarPrograma(p, n)
      PROVE  Prometida'
  <2>1. /\ UNCHANGED <<tabla, historia, pc, pedido>> /\ cache' = cache
        /\ pc[Kernel] = "libre" /\ \A g \in Paginas : historia[p][g] = "nunca"
        /\ tarea' = [tipo |-> "iniciar", pid |-> p, base |-> 0, desde |-> 0, hasta |-> n,
                      cuantas |-> n]
    BY <1>5 DEF InicializarPrograma, KernelLibre, gestion
  <2>2. ~EnVuelo(p)
    BY <2>1 DEF EnVuelo, IInv, EnVueloQuieto
  <2>3. /\ tarea'.tipo = "iniciar" /\ tarea'.pid = p /\ tarea'.base = 0
        /\ tarea'.desde = 0 /\ tarea'.hasta = n /\ tarea'.cuantas = n
    BY <2>1
  <2>4. ASSUME NEW i \in 1..Len(cache) PROVE cache[i].pid # p
    <3>1. cache[i] \in EntradaCache
      BY <1>1 DEF Lista
    <3>2. cache[i].pagina \in Paginas
      BY <3>1 DEF EntradaCache
    <3>3. historia[cache[i].pid][cache[i].pagina] # "nunca"
      BY DEF Prometida, CacheDeAntes
    <3> QED BY <2>1, <3>2, <3>3
  <2>5. 0 < n /\ 0 + n = n /\ \A g \in Paginas : ~(0 <= g /\ g < 0)
    BY DEF Paginas
  <2>6. TareaSana'
    BY <2>1, <2>3, <2>4, <2>5 DEF TareaSana, Paginas
  <2> QED BY <1>1, <1>2, <1>3, <2>1, <2>2, <2>6, PrometidaMovida
<1>6. ASSUME NEW p \in Procesos, NEW n \in 1..MaxPedidas, AsignarPaginasDeHeap(p, n)
      PROVE  Prometida'
  <2> DEFINE c == PaginasAsignadas(p)
  <2>1. /\ UNCHANGED <<tabla, historia, pc, pedido>> /\ cache' = cache
        /\ pc[Kernel] = "libre" /\ ~EnVuelo(p)
        /\ tarea' = [tipo |-> "asignar", pid |-> p, base |-> c, desde |-> c, hasta |-> c + n,
                      cuantas |-> n]
    BY <1>6 DEF AsignarPaginasDeHeap, AsignarDesde, KernelLibre, gestion
  <2>2. c \in Nat /\ n > 0
    BY AsignadasBien
  <2> HIDE DEF c
  <2>3. /\ tarea'.tipo = "asignar" /\ tarea'.pid = p /\ tarea'.base = c
        /\ tarea'.desde = c /\ tarea'.hasta = c + n /\ tarea'.cuantas = n
    BY <2>1
  <2>4. c < c + n
    BY <2>2
  <2>5. \A g \in Paginas : ~(c <= g /\ g < c)
    BY <2>2 DEF Paginas
  <2>6. TareaSana'
    BY <2>1, <2>3, <2>4, <2>5 DEF TareaSana, Paginas
  <2> QED BY <1>1, <1>2, <1>3, <2>1, <2>6, PrometidaMovida
<1>7. ASSUME NEW p \in Procesos, NEW g \in Paginas, LiberarPagina(p, g)
      PROVE  Prometida'
  <2>1. /\ tarea = SinTarea /\ tarea' = tarea /\ tabla' = Vaciada(p, g) /\ cache' = cache
        /\ pc[Kernel] = "libre" /\ ~EnVuelo(p) /\ UNCHANGED <<pc, pedido>>
        /\ historia' = [historia EXCEPT ![p][g] = IF @ = "nunca" THEN @ ELSE "liberada"]
    BY <1>7 DEF LiberarPagina, KernelLibre, gestion
  <2>2. \A q \in Procesos, k \in Paginas :
           Tiene(tabla', q, k) <=> (Tiene(tabla, q, k) /\ ~(q = p /\ k = g))
    BY <1>1, <1>4, <2>1, TablaSinUna
  <2>3. /\ historia'[p][g] \in {"nunca", "liberada"}
        /\ historia[p][g] # "nunca" => historia'[p][g] # "nunca"
        /\ \A k \in Paginas : k # g => historia'[p][k] = historia[p][k]
        /\ \A q \in Procesos : q # p => historia'[q] = historia[q]
    BY <1>1, <2>1
  <2>4. TareaSana'
    BY <1>4, <2>1 DEF TareaSana
  <2>5. \A e \in MarcosTodos : tabla'[e] = Reservado <=> tabla[e] = Reservado
    <3>1. Reservado # Vacio /\ Reservado # <<p, g>>
      BY ProcesosAssumption DEF Reservado, Vacio
    <3>2. CASE MarcosDe(p, g) = {}
      BY <2>1, <3>2 DEF Vaciada
    <3>3. CASE MarcosDe(p, g) # {}
      <4> DEFINE f == Primero(Inicio(p, g), MarcosDe(p, g))
      <4>1. Inicio(p, g) \in Nat
        BY InicioBien DEF Paginas
      <4>2. f \in MarcosDe(p, g)
        BY <3>3, <4>1, PrimeroBien DEF MarcosDe
      <4>3. tabla[f] = <<p, g>> /\ tabla' = [tabla EXCEPT ![f] = Vacio]
        BY <2>1, <3>3, <4>2 DEF MarcosDe, Vaciada
      <4> HIDE DEF f
      <4> QED BY <1>1, <3>1, <4>3
    <3> QED BY <3>2, <3>3
  <2>6. \A k \in Paginas : historia'[p][k] \in {"asignada", "escrita"} => Tiene(tabla', p, k)
    BY <1>2, <2>2, <2>3
  <2>7. \A k \in Paginas : historia[p][k] # "nunca" => historia'[p][k] # "nunca"
    BY <2>3
  <2> QED BY <1>1, <1>3, <2>1, <2>2, <2>3, <2>4, <2>5, <2>6, <2>7, PrometidaMovida
<1>8. ASSUME NEW p \in Procesos, Finalizar(p)
      PROVE  Prometida'
  <2>1. /\ UNCHANGED <<tabla, historia, pc, pedido>> /\ cache' = SinEntradasDe(p)
        /\ pc[Kernel] = "libre" /\ ~EnVuelo(p)
        /\ tarea' = [tipo |-> "finalizar", pid |-> p, base |-> 0, desde |-> 0, hasta |-> 0,
                      cuantas |-> 0]
    BY <1>8 DEF Finalizar, KernelLibre
  <2>2. \A k \in 1..Len(cache') : \E i \in 1..Len(cache) : cache'[k] = cache[i]
    BY <1>1, <2>1, SinEntradasBien
  <2>3. tarea'.tipo = "finalizar"
    BY <2>1
  <2>4. TareaSana'
    BY <2>3 DEF TareaSana
  <2> QED BY <1>1, <1>2, <2>1, <2>2, <2>4, PrometidaMovida
<1> QED BY <1>5, <1>6, <1>7, <1>8 DEF PedidoDelKernel

\* The start.
LEMMA PrometidaInit == Init => Prometida
<1> SUFFICES ASSUME Init PROVE Prometida
  OBVIOUS
<1>1. Ociosos /\ PedidosSanos /\ TareaSana
  BY DEF Init, Ociosos, PedidosSanos, TareaSana
<1>2. ConMarco
  BY DEF Init, ConMarco
<1>3. Len(cache) = 0
  BY DEF Init
<1>4. CacheDeAntes
  BY <1>3 DEF CacheDeAntes
<1>5. ReservadosFijos
  BY DEF Init, ReservadosFijos, Reservado, Vacio
<1> QED BY <1>1, <1>2, <1>4, <1>5 DEF Prometida

\* Every step; the cache may be flushed.
LEMMA PrometidaPaso ==
    ASSUME IInv, Guardada, TablaSana, Prometida, [Next]_vars,
           "finEnVuelo" \notin Eventos, "punteroColgado" \notin Eventos
    PROVE  Prometida'
<1>1. CASE \E h \in Hilos : Hilo(h)
  BY <1>1, PrometidaHilo
<1>2. CASE LazoDePaginas
  BY <1>2, PrometidaLazo
<1>3. CASE PedidoDelKernel
  BY <1>3, PrometidaPedidoDelKernel
<1>4. CASE FlushCache \/ UNCHANGED vars
  <2>1. UNCHANGED <<tabla, pc, pedido, tarea, historia>>
    BY <1>4 DEF FlushCache, vars
  <2>2. \A k \in 1..Len(cache') : \E i \in 1..Len(cache) : cache'[k] = cache[i]
    <3>1. CASE FlushCache
      <4>1. Len(cache') = 0
        BY <3>1 DEF FlushCache
      <4> QED BY <4>1
    <3>2. CASE UNCHANGED vars
      BY <3>2 DEF vars, gestion
    <3> QED BY <1>4, <3>1, <3>2
  <2>3. Ociosos' /\ PedidosSanos' /\ ConMarco' /\ ReservadosFijos'
    BY <2>1 DEF Prometida, Ociosos, PedidosSanos, ConMarco, ReservadosFijos, SinPedido, SinTarea,
                Tiene, Paginas, MarcosTodos, Reservado
  <2>4. CacheDeAntes'
    BY <2>1, <2>2 DEF Prometida, CacheDeAntes
  <2>5. MarcosVacios' = MarcosVacios /\ SinTarea' = SinTarea
    BY <2>1 DEF MarcosVacios, MarcosTodos, Vacio, SinTarea
  <2>6. TareaSana'
    BY <2>1, <2>2, <2>5 DEF Prometida, TareaSana, Paginas
  <2> QED BY <2>3, <2>4, <2>6 DEF Prometida
<1> QED BY <1>1, <1>2, <1>3, <1>4 DEF Next

-----------------------------------------------------------------------------
(* The cells of MemoriaPaginada that the frames, the loop and the history  *)
(* of a state stand for.                                                   *)

\* The loop u works on page g of p.
Corre(u, p, g) ==
    /\ (u # SinTarea /\ u.pid = p) /\ u.tipo # "finalizar"
    /\ g >= u.base
    /\ IF u.tipo = "deshacer" THEN g < u.hasta ELSE g < u.desde

\* The cells for table t, loop u, frames m and history s.
Imagen(t, u, m, s) ==
    [p \in Procesos |-> [g \in Paginas |->
        IF Corre(u, p, g) \/ {f \in MarcosTodos : t[f] = <<p, g>>} = {}
        THEN [hay |-> "libre"]
        ELSE IF s[p][g] = "escrita"
             THEN [hay |-> "valor", valor |->
                     m[IF {f \in MarcosTodos : t[f] = <<p, g>>} = {} THEN -1
                       ELSE Primero(Inicio(p, g), {f \in MarcosTodos : t[f] = <<p, g>>})]]
             ELSE [hay |-> "indefinido"]]]

\* x is what page g of p holds.
Celda(x, t, u, m, s, p, g) ==
    /\ Corre(u, p, g) \/ ~Tiene(t, p, g) => x = [hay |-> "libre"]
    /\ \A f \in MarcosTodos : t[f] = <<p, g>> /\ ~Corre(u, p, g) =>
          x = IF s[p][g] = "escrita" THEN [hay |-> "valor", valor |-> m[f]]
                                     ELSE [hay |-> "indefinido"]

\* A page with one frame holds what that frame does.
LEMMA CeldaBien ==
    ASSUME NEW t, NEW u, NEW m, NEW s, Unicos(t), NEW p \in Procesos, NEW g \in Paginas
    PROVE  Celda(Imagen(t, u, m, s)[p][g], t, u, m, s, p, g)
<1> DEFINE S == {f \in MarcosTodos : t[f] = <<p, g>>}
           b == Primero(Inicio(p, g), S)
           x == Imagen(t, u, m, s)[p][g]
<1>1. x = IF Corre(u, p, g) \/ S = {} THEN [hay |-> "libre"]
          ELSE IF s[p][g] = "escrita"
               THEN [hay |-> "valor", valor |-> m[IF S = {} THEN -1 ELSE b]]
               ELSE [hay |-> "indefinido"]
  BY DEF Imagen
<1>2. S # {} => b \in S
  <2>1. Inicio(p, g) \in Nat /\ S \in SUBSET MarcosTodos
    BY InicioBien DEF Paginas
  <2> HIDE DEF S
  <2> QED BY <2>1, PrimeroBien
<1>3. Tiene(t, p, g) <=> S # {}
  BY DEF Tiene
<1>4. \A f \in S : S # {} /\ f = b
  BY <1>2 DEF Unicos
<1>5. \A f \in MarcosTodos : t[f] = <<p, g>> => f \in S
  OBVIOUS
<1> HIDE DEF S, b, x
<1>6. Celda(x, t, u, m, s, p, g)
  BY <1>1, <1>3, <1>4, <1>5 DEF Celda
<1> QED BY <1>6 DEF x

\* The cells are a function, before a step and after it.
LEMMA Celdas ==
    ASSUME Unicos(tabla), Unicos(tabla')
    PROVE  /\ Contenido = [p \in Procesos |-> [g \in Paginas |-> Contenido[p][g]]]
           /\ Contenido' = [p \in Procesos |-> [g \in Paginas |-> Contenido'[p][g]]]
           /\ \A p \in Procesos, g \in Paginas :
                 /\ Celda(Contenido[p][g], tabla, tarea, marco, historia, p, g)
                 /\ Celda(Contenido'[p][g], tabla', tarea', marco', historia', p, g)
<1>1. Contenido = Imagen(tabla, tarea, marco, historia)
  BY DEF Contenido, EnCurso, EnTarea, MarcosDe, BuscarIndice, Imagen, Corre
<1>2. Contenido' = Imagen(tabla', tarea', marco', historia')
  BY DEF Contenido, EnCurso, EnTarea, MarcosDe, BuscarIndice, Imagen, Corre, SinTarea,
         Paginas, MarcosTodos, Primero, Inicio, funcionHash
<1>3. ASSUME NEW t, NEW u, NEW m, NEW s
      PROVE  Imagen(t, u, m, s) = [p \in Procesos |-> [g \in Paginas |->
                                      Imagen(t, u, m, s)[p][g]]]
  BY DEF Imagen
<1>4. ASSUME NEW p \in Procesos, NEW g \in Paginas
      PROVE  /\ Celda(Contenido[p][g], tabla, tarea, marco, historia, p, g)
             /\ Celda(Contenido'[p][g], tabla', tarea', marco', historia', p, g)
  BY <1>1, <1>2, CeldaBien
<1>5. Contenido = [p \in Procesos |-> [g \in Paginas |-> Contenido[p][g]]]
  BY <1>1, <1>3
<1>6. Contenido' = [p \in Procesos |-> [g \in Paginas |-> Contenido'[p][g]]]
  BY <1>2, <1>3
<1> QED BY <1>4, <1>5, <1>6

\* Page g of p is free for MemoriaPaginada.
Suelta(t, u, p, g) == Corre(u, p, g) \/ ~Tiene(t, p, g)

\* What a cell holds before a step and after it.
LEMMA CeldaLibre ==
    ASSUME Unicos(tabla), Unicos(tabla'), NEW p \in Procesos, NEW g \in Paginas
    PROVE  /\ Contenido[p][g] = [hay |-> "libre"] <=> Suelta(tabla, tarea, p, g)
           /\ Contenido'[p][g] = [hay |-> "libre"] <=> Suelta(tabla', tarea', p, g)
<1>1. ASSUME NEW x, NEW t, NEW u, NEW m, NEW s, Celda(x, t, u, m, s, p, g)
      PROVE  x = [hay |-> "libre"] <=> Suelta(t, u, p, g)
  <2>1. CASE Suelta(t, u, p, g)
    BY <1>1, <2>1 DEF Celda, Suelta
  <2>2. CASE ~Suelta(t, u, p, g)
    <3>1. PICK f \in MarcosTodos : t[f] = <<p, g>>
      BY <2>2 DEF Suelta, Tiene
    <3>2. x = IF s[p][g] = "escrita" THEN [hay |-> "valor", valor |-> m[f]]
                                     ELSE [hay |-> "indefinido"]
      BY <1>1, <2>2, <3>1 DEF Celda, Suelta
    <3>3. x.hay \in {"valor", "indefinido"}
      BY <3>2
    <3>4. x # [hay |-> "libre"]
      BY <3>3
    <3> QED BY <2>2, <3>4
  <2> QED BY <2>1, <2>2
<1>2. /\ Celda(Contenido[p][g], tabla, tarea, marco, historia, p, g)
      /\ Celda(Contenido'[p][g], tabla', tarea', marco', historia', p, g)
  BY Celdas
<1> QED BY <1>1, <1>2

\* A page in use holds what was written to its frame, or anything.
LEMMA CeldaUsada ==
    ASSUME Unicos(tabla), Unicos(tabla'), NEW p \in Procesos, NEW g \in Paginas,
           NEW f \in MarcosTodos
    PROVE  /\ ~Corre(tarea, p, g) /\ tabla[f] = <<p, g>> =>
                 Contenido[p][g] = IF historia[p][g] = "escrita"
                                   THEN [hay |-> "valor", valor |-> marco[f]]
                                   ELSE [hay |-> "indefinido"]
           /\ ~Corre(tarea', p, g) /\ tabla'[f] = <<p, g>> =>
                 Contenido'[p][g] = IF historia'[p][g] = "escrita"
                                    THEN [hay |-> "valor", valor |-> marco'[f]]
                                    ELSE [hay |-> "indefinido"]
<1>1. /\ Celda(Contenido[p][g], tabla, tarea, marco, historia, p, g)
      /\ Celda(Contenido'[p][g], tabla', tarea', marco', historia', p, g)
  BY Celdas
<1> QED BY <1>1 DEF Celda

\* A page nothing was done to holds what it held.
LEMMA CeldaIgual ==
    ASSUME Unicos(tabla), Unicos(tabla'), NEW p \in Procesos, NEW g \in Paginas,
           Suelta(tabla', tarea', p, g) <=> Suelta(tabla, tarea, p, g),
           Suelta(tabla, tarea, p, g) \/
               /\ historia'[p][g] = historia[p][g]
               /\ \A f \in MarcosTodos : tabla[f] = <<p, g>> =>
                     tabla'[f] = <<p, g>> /\ marco'[f] = marco[f]
    PROVE  Contenido'[p][g] = Contenido[p][g]
<1>1. CASE Suelta(tabla, tarea, p, g)
  BY <1>1, CeldaLibre
<1>2. CASE ~Suelta(tabla, tarea, p, g)
  <2>1. PICK f \in MarcosTodos : tabla[f] = <<p, g>>
    BY <1>2 DEF Suelta, Tiene
  <2>2. tabla'[f] = <<p, g>> /\ marco'[f] = marco[f] /\ historia'[p][g] = historia[p][g]
    BY <1>2, <2>1
  <2>3. ~Corre(tarea, p, g) /\ ~Corre(tarea', p, g)
    BY <1>2 DEF Suelta
  <2> QED BY <2>1, <2>2, <2>3, CeldaUsada
<1> QED BY <1>1, <1>2

\* The cells as a whole, by cell.
LEMMA ContenidoIgual ==
    ASSUME Unicos(tabla), Unicos(tabla'),
           \A p \in Procesos, g \in Paginas : Contenido'[p][g] = Contenido[p][g]
    PROVE  Contenido' = Contenido
<1>1. /\ Contenido = [p \in Procesos |-> [g \in Paginas |-> Contenido[p][g]]]
      /\ Contenido' = [p \in Procesos |-> [g \in Paginas |-> Contenido'[p][g]]]
  BY Celdas
<1>2. [p \in Procesos |-> [g \in Paginas |-> Contenido[p][g]]] =
      [p \in Procesos |-> [g \in Paginas |-> Contenido'[p][g]]]
  OBVIOUS
<1> QED BY <1>1, <1>2

\* All but one, and that one.
LEMMA ContenidoConUna ==
    ASSUME Unicos(tabla), Unicos(tabla'), NEW q \in Procesos, NEW k \in Paginas, NEW x,
           Contenido'[q][k] = x,
           \A p \in Procesos, g \in Paginas : p # q \/ g # k =>
               Contenido'[p][g] = Contenido[p][g]
    PROVE  Contenido' = [Contenido EXCEPT ![q][k] = x]
<1>1. /\ Contenido = [p \in Procesos |-> [g \in Paginas |-> Contenido[p][g]]]
      /\ Contenido' = [p \in Procesos |-> [g \in Paginas |-> Contenido'[p][g]]]
  BY Celdas
<1>2. ASSUME NEW a, NEW b, NEW A, NEW B,
             a = [p \in Procesos |-> [g \in Paginas |-> A[p][g]]],
             b = [p \in Procesos |-> [g \in Paginas |-> B[p][g]]],
             b[q][k] = x,
             \A p \in Procesos, g \in Paginas : p # q \/ g # k => b[p][g] = a[p][g]
      PROVE  b = [a EXCEPT ![q][k] = x]
  <2>1. \A p \in Procesos, g \in Paginas :
           a[p][g] = A[p][g] /\ b[p][g] = B[p][g]
    BY <1>2
  <2>2. [a EXCEPT ![q][k] = x] =
        [p \in Procesos |-> IF p = q THEN [a[q] EXCEPT ![k] = x] ELSE a[p]]
    BY <1>2
  <2>3. ASSUME NEW p \in Procesos
        PROVE  b[p] = IF p = q THEN [a[q] EXCEPT ![k] = x] ELSE a[p]
    <3>1. a[p] = [g \in Paginas |-> A[p][g]] /\ b[p] = [g \in Paginas |-> B[p][g]]
      BY <1>2
    <3>2. CASE p # q
      <4>1. \A g \in Paginas : A[p][g] = B[p][g]
        BY <1>2, <2>1, <3>2
      <4> QED BY <3>1, <3>2, <4>1
    <3>3. CASE p = q
      <4>1. \A g \in Paginas : b[p][g] = IF g = k THEN x ELSE a[p][g]
        BY <1>2, <3>3
      <4>2. [a[q] EXCEPT ![k] = x] = [g \in Paginas |-> IF g = k THEN x ELSE a[p][g]]
        BY <3>1, <3>3
      <4>3. b[p] = [g \in Paginas |-> IF g = k THEN x ELSE a[p][g]]
        BY <2>1, <3>1, <4>1
      <4> QED BY <3>3, <4>2, <4>3
    <3> QED BY <3>2, <3>3
  <2>4. b = [p \in Procesos |-> b[p]]
    BY <1>2
  <2> QED BY <2>2, <2>3, <2>4
<1> QED BY <1>1, <1>2

\* All but those of one process, and those.
LEMMA ContenidoConFila ==
    ASSUME Unicos(tabla), Unicos(tabla'), NEW q \in Procesos, NEW F,
           F = [g \in Paginas |-> F[g]],
           \A g \in Paginas : Contenido'[q][g] = F[g],
           \A p \in Procesos, g \in Paginas : p # q =>
               Contenido'[p][g] = Contenido[p][g]
    PROVE  Contenido' = [Contenido EXCEPT ![q] = F]
<1>1. /\ Contenido = [p \in Procesos |-> [g \in Paginas |-> Contenido[p][g]]]
      /\ Contenido' = [p \in Procesos |-> [g \in Paginas |-> Contenido'[p][g]]]
  BY Celdas
<1>2. ASSUME NEW p \in Procesos
      PROVE  [g \in Paginas |-> Contenido'[p][g]] =
             IF p = q THEN F ELSE [g \in Paginas |-> Contenido[p][g]]
  <2>1. CASE p = q
    <3>1. [g \in Paginas |-> Contenido'[p][g]] = [g \in Paginas |-> F[g]]
      BY <2>1
    <3> QED BY <2>1, <3>1
  <2>2. CASE p # q
    BY <2>2
  <2> QED BY <2>1, <2>2
<1>3. ASSUME NEW p \in Procesos
      PROVE  Contenido'[p] = IF p = q THEN F ELSE Contenido[p]
  <2>1. Contenido[p] = [g \in Paginas |-> Contenido[p][g]]
    BY <1>1
  <2>2. Contenido'[p] = [g \in Paginas |-> Contenido'[p][g]]
    BY <1>1
  <2> QED BY <1>2, <2>1, <2>2
<1>4. Contenido' = [p \in Procesos |-> Contenido'[p]]
  BY <1>1
<1>5. [Contenido EXCEPT ![q] = F] =
      [p \in Procesos |-> IF p = q THEN F ELSE Contenido[p]]
  BY <1>1
<1> QED BY <1>3, <1>4, <1>5

-----------------------------------------------------------------------------
(* The frames are those of the table itself, the empty ones, those of the  *)
(* pages MemoriaPaginada sees and those of the pages of a loop.            *)

EnUso == {pg \in Procesos \X Paginas : ~Suelta(tabla, tarea, pg[1], pg[2])}
Corridas ==
    {pg \in Procesos \X Paginas : Corre(tarea, pg[1], pg[2]) /\ Tiene(tabla, pg[1], pg[2])}

\* Pages with a frame each have as many frames as they are.
LEMMA MarcosPorPagina ==
    ASSUME Unicos(tabla), NEW P \in SUBSET (Procesos \X Paginas),
           \A pg \in P : Tiene(tabla, pg[1], pg[2])
    PROVE  /\ IsFiniteSet(P) /\ IsFiniteSet({f \in MarcosTodos : tabla[f] \in P})
           /\ Cardinality({f \in MarcosTodos : tabla[f] \in P}) = Cardinality(P)
<1> DEFINE S == {f \in MarcosTodos : tabla[f] \in P}
           de == [f \in S |-> tabla[f]]
<1>1. IsFiniteSet(MarcosTodos)
  BY FS_Interval, MarcosAssumption DEF MarcosTodos
<1>2. IsFiniteSet(S)
  BY <1>1, FS_Subset
<1>3. de \in [S -> P]
  OBVIOUS
<1>4. ASSUME NEW e \in S, NEW f \in S, de[e] = de[f] PROVE e = f
  <2>1. PICK p \in Procesos, g \in Paginas : tabla[e] = <<p, g>>
    OBVIOUS
  <2>2. tabla[f] = <<p, g>>
    BY <1>4, <2>1
  <2> QED BY <2>1, <2>2 DEF Unicos
<1>5. ASSUME NEW pg \in P PROVE \E f \in S : de[f] = pg
  <2>1. pg = <<pg[1], pg[2]>>
    OBVIOUS
  <2>2. PICK f \in MarcosTodos : tabla[f] = <<pg[1], pg[2]>>
    BY DEF Tiene
  <2> QED BY <2>1, <2>2
<1> HIDE DEF S, de
<1>6. de \in Bijection(S, P)
  BY <1>3, <1>4, <1>5, Fun_IsBij
<1>7. IsFiniteSet(P) /\ Cardinality(P) = Cardinality(S)
  BY <1>2, <1>6, FS_Bijection DEF ExistsBijection
<1> QED BY <1>2, <1>7 DEF S

\* No two of four sets meet: their sizes add up.
LEMMA CuatroPartes ==
    ASSUME NEW A, NEW B, NEW C, NEW D, IsFiniteSet(A), IsFiniteSet(B), IsFiniteSet(C),
           IsFiniteSet(D), A \cap B = {}, (A \cup B) \cap C = {}, (A \cup B \cup C) \cap D = {}
    PROVE  Cardinality(A \cup B \cup C \cup D) =
               Cardinality(A) + Cardinality(B) + Cardinality(C) + Cardinality(D)
<1>1. Cardinality({}) = 0
  BY FS_EmptySet
<1>2. /\ Cardinality(A) \in Nat /\ Cardinality(B) \in Nat /\ Cardinality(C) \in Nat
      /\ Cardinality(D) \in Nat
  BY FS_CardinalityType
<1>0. ASSUME NEW X, NEW Y, IsFiniteSet(X), IsFiniteSet(Y), X \cap Y = {}
      PROVE  IsFiniteSet(X \cup Y) /\ Cardinality(X \cup Y) = Cardinality(X) + Cardinality(Y)
  <2>1. /\ IsFiniteSet(X \cup Y)
        /\ Cardinality(X \cup Y) = Cardinality(X) + Cardinality(Y) - Cardinality(X \cap Y)
    BY <1>0, FS_Union
  <2>2. Cardinality(X \cap Y) = 0
    BY <1>0, <1>1
  <2>3. Cardinality(X) \in Nat /\ Cardinality(Y) \in Nat
    BY <1>0, FS_CardinalityType
  <2> QED BY <2>1, <2>2, <2>3
<1>3. IsFiniteSet(A \cup B) /\ Cardinality(A \cup B) = Cardinality(A) + Cardinality(B)
  BY <1>0
<1>4. /\ IsFiniteSet(A \cup B \cup C)
      /\ Cardinality(A \cup B \cup C) = Cardinality(A \cup B) + Cardinality(C)
  BY <1>0, <1>3
<1>5. Cardinality(A \cup B \cup C \cup D) = Cardinality(A \cup B \cup C) + Cardinality(D)
  BY <1>0, <1>4
<1> QED BY <1>2, <1>3, <1>4, <1>5

\* Every frame is in one of the four parts.
LEMMA Reparto ==
    ASSUME tabla \in [MarcosTodos -> Dueno], Unicos(tabla), ReservadosFijos
    PROVE  /\ Cardinality(EnUso) \in Nat /\ Cardinality(MarcosVacios) \in Nat
           /\ Cardinality(Corridas) \in Nat
           /\ Cardinality(EnUso) + Cardinality(MarcosVacios) + Cardinality(Corridas)
                 = Marcos - Reservados
<1> DEFINE O == {f \in MarcosTodos : tabla[f] \in EnUso}
           K == {f \in MarcosTodos : tabla[f] \in Corridas}
           R == {f \in MarcosTodos : tabla[f] = Reservado}
           V == MarcosVacios
<1>1. /\ \A q, k : Reservado # Vacio
      /\ \A q \in Procesos, k \in Paginas : Reservado # <<q, k>> /\ Vacio # <<q, k>>
  BY ProcesosAssumption DEF Reservado, Vacio
<1>2. /\ EnUso \subseteq Procesos \X Paginas /\ Corridas \subseteq Procesos \X Paginas
      /\ EnUso \cap Corridas = {}
      /\ \A pg \in EnUso \cup Corridas : Tiene(tabla, pg[1], pg[2])
  BY DEF EnUso, Corridas, Suelta
<1>3. \A f \in MarcosTodos :
         tabla[f] \in EnUso \/ tabla[f] \in Corridas \/ tabla[f] = Reservado \/ tabla[f] = Vacio
  <2> TAKE f \in MarcosTodos
  <2>1. SUFFICES ASSUME tabla[f] \in Procesos \X Paginas
                 PROVE  tabla[f] \in EnUso \/ tabla[f] \in Corridas
    BY DEF Dueno
  <2>2. Tiene(tabla, tabla[f][1], tabla[f][2])
    BY <2>1 DEF Tiene
  <2> QED BY <2>1, <2>2 DEF EnUso, Corridas, Suelta
<1>4. /\ IsFiniteSet(EnUso) /\ IsFiniteSet(O) /\ Cardinality(O) = Cardinality(EnUso)
      /\ IsFiniteSet(Corridas) /\ IsFiniteSet(K) /\ Cardinality(K) = Cardinality(Corridas)
  BY <1>2, MarcosPorPagina
<1>5. Marcos \in Nat /\ Reservados \in Nat /\ Reservados <= Marcos
  BY MarcosAssumption
<1>6. /\ IsFiniteSet(MarcosTodos) /\ Cardinality(MarcosTodos) = Marcos
      /\ IsFiniteSet(R) /\ Cardinality(R) = Reservados /\ IsFiniteSet(V)
  <2>1. IsFiniteSet(MarcosTodos) /\ Cardinality(MarcosTodos) = Marcos
    BY <1>5, FS_Interval DEF MarcosTodos
  <2>2. R = 0..(Reservados - 1)
    BY <1>5 DEF ReservadosFijos, MarcosTodos
  <2>3. IsFiniteSet(R) /\ Cardinality(R) = Reservados
    <3>1. /\ IsFiniteSet(0..(Reservados - 1))
          /\ Cardinality(0..(Reservados - 1)) =
                IF 0 > Reservados - 1 THEN 0 ELSE Reservados - 1 - 0 + 1
      BY <1>5, FS_Interval
    <3>2. (IF 0 > Reservados - 1 THEN 0 ELSE Reservados - 1 - 0 + 1) = Reservados
      BY <1>5
    <3> HIDE DEF R
    <3> QED BY <2>2, <3>1, <3>2
  <2>4. IsFiniteSet(V)
    BY <2>1, FS_Subset DEF MarcosVacios
  <2> QED BY <2>1, <2>3, <2>4
<1>7. /\ MarcosTodos = O \cup V \cup K \cup R
      /\ O \cap V = {} /\ (O \cup V) \cap K = {} /\ (O \cup V \cup K) \cap R = {}
  <2>1. MarcosTodos = O \cup V \cup K \cup R
    BY <1>3 DEF MarcosVacios
  <2>2. \A pg \in EnUso \cup Corridas : pg # Reservado /\ pg # Vacio
    <3> TAKE pg \in EnUso \cup Corridas
    <3>1. PICK q \in Procesos, k \in Paginas : pg = <<q, k>>
      BY <1>2
    <3> QED BY <1>1, <3>1
  <2>3. O \cap V = {} /\ (O \cup V) \cap K = {} /\ (O \cup V \cup K) \cap R = {}
    BY <1>1, <1>2, <2>2 DEF MarcosVacios
  <2> QED BY <2>1, <2>3
<1>8. Cardinality(V) \in Nat /\ Cardinality(O) \in Nat /\ Cardinality(K) \in Nat
  BY <1>4, <1>6, FS_CardinalityType
<1> HIDE DEF O, K, R, V
<1>9. Marcos = Cardinality(O) + Cardinality(V) + Cardinality(K) + Cardinality(R)
  BY <1>4, <1>6, <1>7, CuatroPartes
<1>10. V = MarcosVacios
  BY DEF V
<1> QED BY <1>4, <1>5, <1>6, <1>8, <1>9, <1>10

\* The pages of a loop that gives them are those from base to desde.
LEMMA CorridasSon ==
    ASSUME Guardada, TablaSana, tarea # SinTarea, tarea.tipo \in {"iniciar", "asignar"}
    PROVE  Cardinality(Corridas) = tarea.desde - tarea.base
<1> DEFINE p == tarea.pid
           T == tarea.base..(tarea.desde - 1)
           de == [g \in T |-> <<p, g>>]
<1>1. /\ p \in Procesos /\ tarea.base \in Nat /\ tarea.desde \in Nat /\ tarea.hasta \in Nat
  BY TareaBien DEF Guardada, Tipada
<1>2. tarea.hasta <= MaxPagina + 1 /\ MaxPagina \in Nat
  BY PaginasAssumption DEF Guardada, TareaAcotada
<1>3. /\ tarea.base <= tarea.desde /\ tarea.desde <= tarea.hasta
      /\ \A g \in Paginas : Tiene(tabla, p, g) <=> g < tarea.desde
  BY <1>1 DEF TablaSana, Contiguas
<1>4. \A q, k : Corre(tarea, q, k) <=> q = p /\ tarea.base <= k /\ k < tarea.desde
  BY DEF Corre
<1>5. T \subseteq Paginas
  BY <1>1, <1>2, <1>3 DEF Paginas
<1>6. \A g \in Paginas : g \in T <=> tarea.base <= g /\ g < tarea.desde
  BY <1>1 DEF Paginas
<1> HIDE DEF p
<1>7. \A q \in Procesos, k \in Paginas : <<q, k>> \in Corridas <=> q = p /\ k \in T
  <2>1. ASSUME NEW q \in Procesos, NEW k \in Paginas
        PROVE  Corre(tarea, q, k) /\ Tiene(tabla, q, k) <=> q = p /\ k \in T
    BY <1>3, <1>4, <1>6
  <2> HIDE DEF T
  <2> QED BY <2>1 DEF Corridas
<1>8. IsFiniteSet(T) /\ Cardinality(T) = tarea.desde - tarea.base
  <2>1. /\ IsFiniteSet(T)
        /\ Cardinality(T) = IF tarea.base > tarea.desde - 1 THEN 0
                            ELSE tarea.desde - 1 - tarea.base + 1
    <3>1. tarea.base \in Int /\ tarea.desde - 1 \in Int
      BY <1>1
    <3> QED BY <3>1, FS_Interval
  <2> HIDE DEF T
  <2> QED BY <1>1, <1>3, <2>1
<1>9. de \in Bijection(T, Corridas)
  <2> HIDE DEF T
  <2>1. \A g \in T : <<p, g>> \in Corridas
    BY <1>1, <1>5, <1>7
  <2>2. de \in [T -> Corridas]
    BY <2>1
  <2>3. \A g, k \in T : de[g] = de[k] => g = k
    OBVIOUS
  <2>4. ASSUME NEW pg \in Corridas PROVE \E g \in T : de[g] = pg
    <3>1. PICK q \in Procesos, k \in Paginas : pg = <<q, k>>
      BY DEF Corridas
    <3> QED BY <1>7, <3>1
  <2> HIDE DEF de
  <2> QED BY <2>2, <2>3, <2>4, Fun_IsBij
<1> HIDE DEF T, de
<1> QED BY <1>8, <1>9, FS_Bijection DEF ExistsBijection

\* What MemoriaPaginada counts is what is counted here.
LEMMA Contadas ==
    ASSUME Unicos(tabla), Unicos(tabla')
    PROVE  /\ Abstracta!Ocupadas = EnUso
           /\ \A p : Abstracta!De(p) = {g \in Paginas : Contenido[p][g] # [hay |-> "libre"]}
<1>1. \A pg \in Procesos \X Paginas :
         Contenido[pg[1]][pg[2]] = [hay |-> "libre"] <=> Suelta(tabla, tarea, pg[1], pg[2])
  BY CeldaLibre
<1>2. Abstracta!Ocupadas =
         {pg \in Procesos \X Paginas : Contenido[pg[1]][pg[2]] # [hay |-> "libre"]}
  BY DEF Abstracta!Ocupadas, Abstracta!Libre, Paginas, Abstracta!Paginas
<1>3. \A p : Abstracta!De(p) = {g \in Paginas : Contenido[p][g] # [hay |-> "libre"]}
  BY DEF Abstracta!De, Abstracta!Libre, Paginas, Abstracta!Paginas
<1> QED BY <1>1, <1>2, <1>3 DEF EnUso

-----------------------------------------------------------------------------
(* The steps of the threads are steps of MemoriaPaginada, or none.         *)

Siguiente == Abstracta!Next \/ UNCHANGED <<Contenido, pedido, Solicitud, respuesta>>

\* A step that leaves the loop alone leaves what the kernel asked for alone.
LEMMA SolicitudQuieta == tarea' = tarea => Solicitud' = Solicitud
BY DEF Solicitud, SinTarea

\* A step that changes neither frames nor loops.
LEMMA ContenidoQuieto ==
    ASSUME Unicos(tabla), UNCHANGED <<tabla, marco, tarea, historia>>
    PROVE  Contenido' = Contenido
<1>1. Unicos(tabla')
  BY DEF Unicos
<1>2. ASSUME NEW p \in Procesos, NEW g \in Paginas
      PROVE  Contenido'[p][g] = Contenido[p][g]
  <2>1. Suelta(tabla', tarea', p, g) <=> Suelta(tabla, tarea, p, g)
    BY DEF Suelta, Tiene
  <2> QED BY <1>1, <2>1, CeldaIgual
<1> QED BY <1>1, <1>2, ContenidoIgual

\* What a request in flight is about: a page in use, or one never given.
LEMMA PedidoAlDia ==
    ASSUME IInv, Guardada, TablaSana, Prometida, NEW h \in Hilos, pc[h] # "libre"
    PROVE  LET p == pedido[h].pid
               g == pedido[h].pagina
           IN  /\ pedido[h] # SinPedido /\ p \in Procesos /\ g \in Paginas
               /\ ~Corre(tarea, p, g)
               /\ Suelta(tabla, tarea, p, g) <=> ~Tiene(tabla, p, g)
               /\ Tiene(tabla, p, g) <=> historia[p][g] \in {"asignada", "escrita"}
<1> DEFINE p == pedido[h].pid
           g == pedido[h].pagina
<1>1. pedido[h] # SinPedido /\ p \in Procesos /\ g \in Paginas
  BY EnManosBien
<1>2. ~Corre(tarea, p, g)
  BY <1>1 DEF Corre, IInv, EnVueloQuieto
<1>3. historia[p][g] \in Estados \ {"liberada"}
  BY <1>1 DEF Prometida, PedidosSanos, Guardada, Tipada
<1>4. Tiene(tabla, p, g) => historia[p][g] # "nunca"
  BY <1>1 DEF TablaSana
<1>5. historia[p][g] \in {"asignada", "escrita"} => Tiene(tabla, p, g)
  BY <1>1 DEF Prometida, ConMarco
<1> QED BY <1>1, <1>2, <1>3, <1>4, <1>5 DEF Suelta, Estados

\* An answer to a read that is what the page holds.
LEMMA LecturaBien ==
    ASSUME NEW h \in Hilos, pedido[h] # SinPedido, pedido[h].tipo = "lee",
           NEW v \in Valores, Responder(h, Lectura(v)), Contenido' = Contenido,
           UNCHANGED tarea,
           Contenido[pedido[h].pid][pedido[h].pagina]
               \in {[hay |-> "valor", valor |-> v], [hay |-> "indefinido"]}
    PROVE  Siguiente
<1> DEFINE c == Contenido[pedido[h].pid][pedido[h].pagina]
<1>1. c # [hay |-> "libre"]
  <2>1. c.hay \in {"valor", "indefinido"}
    OBVIOUS
  <2> HIDE DEF c
  <2> QED BY <2>1
<1>2. h \in Abstracta!Hilos /\ Abstracta!Responder(h, Abstracta!Lectura(v))
  BY SolicitudQuieta
     DEF Hilos, Responder, Lectura, SinPedido, Abstracta!Hilos, Abstracta!Responder,
         Abstracta!Lectura, Abstracta!SinPedido
<1>3. c \in {Abstracta!Valor(v), Abstracta!Indefinido}
  BY DEF Abstracta!Valor, Abstracta!Indefinido
<1> HIDE DEF c
<1>4. IF c = [hay |-> "libre"] THEN Abstracta!Responder(h, Abstracta!Dice("ERROR_EN_LECTURA"))
      ELSE \E w \in Valores : c \in {Abstracta!Valor(w), Abstracta!Indefinido}
                              /\ Abstracta!Responder(h, Abstracta!Lectura(w))
  BY <1>1, <1>2, <1>3
<1>5. Abstracta!Leer(h)
  BY <1>4 DEF Abstracta!Leer, Abstracta!SinPedido, SinPedido, Abstracta!Libre, c
<1> QED BY <1>2, <1>5 DEF Siguiente, Abstracta!Next

\* An answer that the page is not there, to a read or to a write.
LEMMA FaltaBien ==
    ASSUME NEW h \in Hilos, pedido[h] # SinPedido, Contenido' = Contenido,
           UNCHANGED tarea,
           \/ pedido[h].tipo = "lee" /\ Responder(h, Dice("ERROR_EN_LECTURA"))
           \/ pedido[h].tipo = "escribe" /\ Responder(h, Dice("ERROR_EN_ESCRITURA")),
           Contenido[pedido[h].pid][pedido[h].pagina] = [hay |-> "libre"]
    PROVE  Siguiente
<1>1. h \in Abstracta!Hilos
  BY DEF Hilos, Abstracta!Hilos
<1>2. CASE pedido[h].tipo = "lee" /\ Responder(h, Dice("ERROR_EN_LECTURA"))
  <2>1. Abstracta!Leer(h)
    BY <1>2, SolicitudQuieta DEF Abstracta!Leer, Abstracta!SinPedido, SinPedido, Abstracta!Libre,
            Abstracta!Responder, Responder, Abstracta!Dice, Dice
  <2> QED BY <1>1, <2>1 DEF Siguiente, Abstracta!Next
<1>3. CASE pedido[h].tipo = "escribe" /\ Responder(h, Dice("ERROR_EN_ESCRITURA"))
  <2>1. Abstracta!Escribir(h)
    BY <1>3, SolicitudQuieta DEF Abstracta!Escribir, Abstracta!SinPedido, SinPedido, Abstracta!Libre,
            Abstracta!Responder, Responder, Abstracta!Dice, Dice
  <2> QED BY <1>1, <2>1 DEF Siguiente, Abstracta!Next
<1> QED BY <1>2, <1>3

\* A write: its page, and no other, holds the value.
LEMMA EscrituraBien ==
    ASSUME IInv, Guardada, TablaSana, Prometida, NEW h \in Hilos, EscribirEnMarco(h)
    PROVE  Siguiente
<1> DEFINE p == pedido[h].pid
           g == pedido[h].pagina
           v == pedido[h].valor
           f == encontrado[h]
<1>1. /\ pc[h] = "escribiendo" /\ UNCHANGED <<tabla, tarea>>
      /\ marco' = [marco EXCEPT ![f] = v]
      /\ historia' = [historia EXCEPT ![p][g] = IF @ = "asignada" THEN "escrita" ELSE @]
      /\ Responder(h, Dice("ESCRITURA_SATISFACTORIA"))
  BY DEF EscribirEnMarco
<1>2. pedido[h] # SinPedido /\ p \in Procesos /\ g \in Paginas /\ ~Corre(tarea, p, g)
      /\ (Suelta(tabla, tarea, p, g) <=> ~Tiene(tabla, p, g))
      /\ (Tiene(tabla, p, g) <=> historia[p][g] \in {"asignada", "escrita"})
  BY <1>1, PedidoAlDia
<1>3. f \in MarcosTodos /\ tabla[f] = <<p, g>> /\ pedido[h].tipo = "escribe"
  BY <1>1 DEF IInv, SigueSiendoSuyo, Guardada, EnManos
<1>4. Unicos(tabla) /\ Unicos(tabla')
  BY <1>1 DEF TablaSana
<1>5. historia[p][g] \in {"asignada", "escrita"}
  BY <1>2, <1>3 DEF Tiene
<1>6. marco \in [MarcosTodos -> Valores] /\ historia \in [Procesos -> [Paginas -> Estados]]
  BY DEF Guardada, Tipada
<1> HIDE DEF p, g, v, f
<1>7. historia'[p][g] = "escrita" /\ marco'[f] = v
  BY <1>1, <1>2, <1>3, <1>5, <1>6
<1>8. Contenido'[p][g] = [hay |-> "valor", valor |-> v]
  BY <1>1, <1>2, <1>3, <1>4, <1>7, CeldaUsada
<1>9. ASSUME NEW q \in Procesos, NEW k \in Paginas, q # p \/ k # g
      PROVE  Contenido'[q][k] = Contenido[q][k]
  <2>1. historia'[q][k] = historia[q][k]
    BY <1>1, <1>2, <1>6, <1>9
  <2>2. ASSUME NEW e \in MarcosTodos, tabla[e] = <<q, k>>
        PROVE  tabla'[e] = <<q, k>> /\ marco'[e] = marco[e]
    <3>1. e # f
      BY <1>3, <1>9, <2>2
    <3> QED BY <1>1, <1>6, <2>2, <3>1
  <2>3. Suelta(tabla', tarea', q, k) <=> Suelta(tabla, tarea, q, k)
    BY <1>1 DEF Suelta, Tiene
  <2> QED BY <1>4, <2>1, <2>2, <2>3, CeldaIgual
<1>10. Contenido' = [Contenido EXCEPT ![p][g] = [hay |-> "valor", valor |-> v]]
  BY <1>2, <1>4, <1>8, <1>9, ContenidoConUna
<1>11. Contenido[p][g] # [hay |-> "libre"]
  BY <1>2, <1>3, <1>4, CeldaLibre DEF Tiene
<1>12. Abstracta!Escribir(h)
  BY <1>1, <1>2, <1>3, <1>10, <1>11, SolicitudQuieta DEF Abstracta!Escribir, Abstracta!SinPedido, SinPedido,
     Abstracta!Libre, Abstracta!Valor, Abstracta!Responder, Responder, Abstracta!Dice, Dice,
     p, g, v
<1>13. h \in Abstracta!Hilos
  BY DEF Hilos, Abstracta!Hilos
<1> QED BY <1>12, <1>13 DEF Siguiente, Abstracta!Next

\* What a read answers from the cache is what the page holds.
LEMMA AciertoDice ==
    ASSUME IInv, Guardada, TablaSana, CacheFiel, Prometida, NEW h \in Hilos,
           pc[h] # "libre", Cacheada(pedido[h].pid, pedido[h].pagina), Unicos(tabla')
    PROVE  LET p == pedido[h].pid
               g == pedido[h].pagina
               v == cache[Acierto(p, g)].valor
           IN  /\ v \in Valores
               /\ Contenido[p][g] \in {[hay |-> "valor", valor |-> v], [hay |-> "indefinido"]}
<1> DEFINE p == pedido[h].pid
           g == pedido[h].pagina
           i == Acierto(p, g)
           v == cache[i].valor
<1>1. p \in Procesos /\ g \in Paginas /\ ~Corre(tarea, p, g)
      /\ (Tiene(tabla, p, g) <=> historia[p][g] \in {"asignada", "escrita"})
  BY PedidoAlDia
<1>2. cache \in Lista /\ historia \in [Procesos -> [Paginas -> Estados]]
  BY DEF Guardada, Tipada
<1>3. i \in 1..Len(cache) /\ cache[i].pid = p /\ cache[i].pagina = g
  BY <1>2, AciertoBien
<1> HIDE DEF i
<1>4. cache[i] \in EntradaCache
  BY <1>2, <1>3 DEF Lista
<1>5. v \in Valores
  BY <1>4 DEF EntradaCache
<1>6. pedido[h] # SinPedido
  BY PedidoAlDia
<1>7. historia[p][g] \notin {"nunca", "liberada"}
  BY <1>3, <1>6 DEF Prometida, CacheDeAntes, PedidosSanos
<1>8. Tiene(tabla, p, g)
  BY <1>1, <1>2, <1>7 DEF Estados
<1>9. PICK f \in MarcosTodos : tabla[f] = <<p, g>>
  BY <1>8 DEF Tiene
<1>10. historia[p][g] = "escrita" => v = marco[f]
  BY <1>3, <1>9 DEF CacheFiel, EntradaFiel
<1>11. Unicos(tabla)
  BY DEF TablaSana
<1>12. Contenido[p][g] = IF historia[p][g] = "escrita"
                         THEN [hay |-> "valor", valor |-> marco[f]]
                         ELSE [hay |-> "indefinido"]
  BY <1>1, <1>9, <1>11, CeldaUsada
<1>13. Contenido[p][g] \in {[hay |-> "valor", valor |-> v], [hay |-> "indefinido"]}
  BY <1>10, <1>12
<1> QED BY <1>5, <1>13 DEF i

\* Every step of a thread.
LEMMA PromesaDeHilo ==
    ASSUME IInv, Guardada, TablaSana, CacheFiel, Prometida, NEW h \in Hilos, Hilo(h)
    PROVE  Siguiente
<1> DEFINE p == pedido[h].pid
           g == pedido[h].pagina
<1>1. /\ UNCHANGED <<tabla, tarea>> /\ Unicos(tabla) /\ Unicos(tabla')
      /\ UNCHANGED Solicitud
  <2>1. UNCHANGED <<tabla, tarea>>
    BY DEF Hilo, Recibir, LeerDeCache, LeerSinMarco, LeerFallaCache, LeerDeMarco,
           EscribirSinMarco, EscribirBuscaMarco, EscribirEnMarco
  <2> QED BY <2>1, SolicitudQuieta DEF TablaSana
<1>2. UNCHANGED <<marco, historia>> => Contenido' = Contenido
  BY <1>1, ContenidoQuieto
<1>3. ASSUME pc[h] # "libre"
      PROVE  /\ pedido[h] # SinPedido /\ p \in Procesos /\ g \in Paginas
             /\ ~Corre(tarea, p, g)
             /\ Suelta(tabla, tarea, p, g) <=> ~Tiene(tabla, p, g)
             /\ Tiene(tabla, p, g) <=> historia[p][g] \in {"asignada", "escrita"}
  BY <1>3, PedidoAlDia
<1>4. ASSUME NEW r \in Pedido \ {SinPedido}, Recibir(h, r) PROVE Siguiente
  <2>1. /\ pc[h] = "libre" /\ ~EnVuelo(r.pid) /\ pedido' = [pedido EXCEPT ![h] = r]
        /\ respuesta' = SinRespuesta /\ UNCHANGED <<marco, historia>>
    BY <1>4 DEF Recibir
  <2>2. pedido[h] = SinPedido /\ pedido \in [Hilos -> Pedido]
    BY <2>1 DEF Prometida, Ociosos, Guardada, Tipada
  <2>3. pedido'[h] = r /\ pedido' = [pedido EXCEPT ![h] = pedido'[h]]
    BY <2>1, <2>2
  <2>4. \A k \in Hilos : pedido[k] # SinPedido => pedido[k].pid # r.pid
    BY <2>1 DEF EnVuelo
  <2>5. Abstracta!Recibir(h)
    BY <1>1, <1>2, <2>1, <2>2, <2>3, <2>4 DEF Abstracta!Recibir, Abstracta!Ajeno,
       Abstracta!SinPedido, SinPedido, Abstracta!SinRespuesta, SinRespuesta,
       Abstracta!Dice, Dice, Abstracta!Hilos, Hilos
  <2>6. h \in Abstracta!Hilos
    BY DEF Hilos, Abstracta!Hilos
  <2> QED BY <2>5, <2>6 DEF Siguiente, Abstracta!Next
<1>5. CASE LeerDeCache(h)
  <2>1. /\ pc[h] # "libre" /\ pedido[h].tipo = "lee" /\ Cacheada(p, g)
        /\ Responder(h, Lectura(cache[Acierto(p, g)].valor))
        /\ UNCHANGED <<marco, historia>>
    BY <1>5 DEF LeerDeCache, Pide
  <2>2. cache[Acierto(p, g)].valor \in Valores
        /\ Contenido[p][g] \in {[hay |-> "valor", valor |-> cache[Acierto(p, g)].valor],
                                [hay |-> "indefinido"]}
    BY <1>1, <2>1, AciertoDice
  <2> QED BY <1>1, <1>2, <1>3, <2>1, <2>2, LecturaBien
<1>6. CASE LeerSinMarco(h) \/ EscribirSinMarco(h)
  <2>1. /\ pc[h] # "libre" /\ BuscarIndice(p, g) = -1 /\ UNCHANGED <<marco, historia>>
        /\ \/ pedido[h].tipo = "lee" /\ Responder(h, Dice("ERROR_EN_LECTURA"))
           \/ pedido[h].tipo = "escribe" /\ Responder(h, Dice("ERROR_EN_ESCRITURA"))
    BY <1>6 DEF LeerSinMarco, EscribirSinMarco, Pide
  <2>2. ~Tiene(tabla, p, g)
    <3> SUFFICES ASSUME Tiene(tabla, p, g) PROVE FALSE
      OBVIOUS
    <3>1. MarcosDe(p, g) # {} /\ MarcosDe(p, g) \in SUBSET MarcosTodos
      BY DEF Tiene, MarcosDe
    <3>2. Inicio(p, g) \in Nat
      BY <1>3, <2>1, InicioBien DEF Paginas
    <3>3. BuscarIndice(p, g) \in MarcosTodos
      BY <3>1, <3>2, PrimeroBien DEF BuscarIndice
    <3> QED BY <2>1, <3>3 DEF MarcosTodos
  <2>3. Contenido[p][g] = [hay |-> "libre"]
    BY <1>1, <1>3, <2>1, <2>2, CeldaLibre
  <2> QED BY <1>1, <1>2, <1>3, <2>1, <2>3, FaltaBien
<1>7. CASE LeerFallaCache(h) \/ EscribirBuscaMarco(h)
  <2>1. UNCHANGED <<marco, historia, pedido, respuesta>>
    BY <1>7 DEF LeerFallaCache, EscribirBuscaMarco
  <2> QED BY <1>1, <1>2, <2>1 DEF Siguiente
<1>8. CASE LeerDeMarco(h)
  <2> DEFINE f == encontrado[h]
             v == marco[f]
  <2>1. pc[h] = "leyendo" /\ UNCHANGED <<marco, historia>>
    BY <1>8 DEF LeerDeMarco
  <2>2. Responder(h, Lectura(v)) \/ UNCHANGED <<pedido, respuesta>>
    BY <1>8 DEF LeerDeMarco
  <2>3. CASE UNCHANGED <<pedido, respuesta>>
    BY <1>1, <1>2, <2>1, <2>3 DEF Siguiente
  <2>4. CASE Responder(h, Lectura(v))
    <3>1. f \in MarcosTodos /\ tabla[f] = <<p, g>>
      BY <2>1 DEF IInv, SigueSiendoSuyo
    <3>2. v \in Valores
      BY <3>1 DEF Guardada, Tipada
    <3>3. Contenido[p][g] \in {[hay |-> "valor", valor |-> v], [hay |-> "indefinido"]}
      BY <1>1, <1>3, <2>1, <3>1, CeldaUsada
    <3>4. pedido[h].tipo = "lee"
      BY <2>1 DEF Guardada, EnManos
    <3> QED BY <1>1, <1>2, <1>3, <2>1, <2>4, <3>2, <3>3, <3>4, LecturaBien
  <2> QED BY <2>2, <2>3, <2>4
<1>9. CASE EscribirEnMarco(h)
  BY <1>9, EscrituraBien
<1> QED BY <1>4, <1>5, <1>6, <1>7, <1>8, <1>9 DEF Hilo

-----------------------------------------------------------------------------
(* So are those of the kernel's thread.                                    *)

\* The two modules count alike.
LEMMA MismaCuenta == \A S : Abstracta!Cardinality(S) = Cardinality(S)
BY DEF Abstracta!Cardinality, Cardinality

\* What the kernel asked for, when its loop is not about pages to give, and
\* when it is.
LEMMA SolicitudDice ==
    /\ tarea = SinTarea => Solicitud = [cuantas |-> 0]
    /\ tarea # SinTarea /\ tarea.tipo = "finalizar" => Solicitud = [cuantas |-> 0]
    /\ tarea # SinTarea /\ tarea.tipo # "finalizar" =>
          Solicitud = [pid |-> tarea.pid, cuantas |-> tarea.cuantas]
BY DEF Solicitud

\* An answer of the kernel's thread about a process nobody asks for.
LEMMA Contestado ==
    ASSUME NEW p \in Procesos, ~EnVuelo(p), pedido[Kernel] = SinPedido,
           UNCHANGED pedido, NEW q, Contesta(q), tarea' = SinTarea
    PROVE  Abstracta!Ajeno(p) /\ Abstracta!Contesta(q)
<1>1. Solicitud' = [cuantas |-> 0]
  BY DEF Solicitud, SinTarea
<1> QED BY <1>1 DEF Abstracta!Ajeno, Abstracta!Contesta, Abstracta!Hilos,
           Abstracta!SinPedido, Abstracta!SinSolicitud, Abstracta!Dice, EnVuelo, Hilos,
           SinPedido, Contesta, Dice

\* Pages that are not given: there is no room for them.
LEMMA Negadas ==
    ASSUME NEW p \in Procesos, ~EnVuelo(p), pedido[Kernel] = SinPedido,
           UNCHANGED pedido, Contesta("MEMORIA_INSUFICIENTE"),
           Unicos(tabla), Unicos(tabla'), Contenido' = Contenido,
           NEW n \in 1..(MaxPagina + 1), Cardinality(EnUso) \in Nat,
           Cardinality(EnUso) + n > Marcos - Reservados,
           tarea # SinTarea, tarea.tipo # "finalizar", tarea' = SinTarea,
           tarea.pid = p, tarea.cuantas = n
    PROVE  Siguiente
<1>1. Abstracta!Ajeno(p) /\ Abstracta!Contesta("MEMORIA_INSUFICIENTE")
  BY Contestado
<1>2. Abstracta!Ocupadas = EnUso
  BY Contadas
<1>3. n \in Int /\ Marcos - Reservados \in Int
  BY PaginasAssumption, MarcosAssumption
<1>4. ~(Abstracta!Cardinality(Abstracta!Ocupadas) + n <= Marcos - Reservados)
  <2>1. Abstracta!Cardinality(Abstracta!Ocupadas) = Cardinality(EnUso)
    BY <1>2, MismaCuenta
  <2> QED BY <1>3, <2>1
<1>5. Abstracta!Asignar(p, n)
  BY <1>1, <1>4, SolicitudDice DEF Abstracta!Asignar
<1> QED BY <1>5 DEF Siguiente, Abstracta!Next

\* Pages that are given: after those the process has, and there is room.
LEMMA Dadas ==
    ASSUME NEW p \in Procesos, ~EnVuelo(p), pedido[Kernel] = SinPedido,
           UNCHANGED pedido, Contesta("PAGINAS_ASIGNADAS"),
           Unicos(tabla), Unicos(tabla'), NEW c \in 0..(MaxPagina + 1),
           NEW n \in 1..(MaxPagina + 1),
           \A g \in Paginas : Suelta(tabla, tarea, p, g) <=> ~(g < c),
           \A g \in Paginas : c <= g /\ g < c + n =>
               Contenido'[p][g] = [hay |-> "indefinido"],
           \A q \in Procesos, g \in Paginas : q # p \/ g < c \/ c + n <= g =>
               Contenido'[q][g] = Contenido[q][g],
           Cardinality(EnUso) \in Nat,
           Cardinality(EnUso) + n <= Marcos - Reservados,
           tarea # SinTarea, tarea.tipo # "finalizar", tarea' = SinTarea,
           tarea.pid = p, tarea.cuantas = n
    PROVE  Siguiente
<1> DEFINE F == [g \in Paginas |-> IF g \in c..(c + n - 1) THEN [hay |-> "indefinido"]
                                                         ELSE Contenido[p][g]]
<1>1. Abstracta!Ajeno(p) /\ Abstracta!Contesta("PAGINAS_ASIGNADAS")
  BY Contestado
<1>2. Abstracta!Ocupadas = EnUso
        /\ Abstracta!De(p) = {g \in Paginas : Contenido[p][g] # [hay |-> "libre"]}
  BY Contadas
<1>3. MaxPagina \in Nat /\ c \in Nat /\ n \in Nat
  BY PaginasAssumption
<1>4. Abstracta!De(p) = 0..(c - 1)
  <2>1. \A g \in Paginas : Contenido[p][g] # [hay |-> "libre"] <=> g < c
    BY CeldaLibre
  <2> QED BY <1>2, <1>3, <2>1 DEF Paginas
<1>5. Cardinality(0..(c - 1)) = c
  <2>1. 0 \in Int /\ c - 1 \in Int
    BY <1>3
  <2>2. Cardinality(0..(c - 1)) = IF 0 > c - 1 THEN 0 ELSE c - 1 - 0 + 1
    BY <2>1, FS_Interval
  <2> QED BY <1>3, <2>2
<1>6. Abstracta!Cardinality(Abstracta!De(p)) = c
  BY <1>4, <1>5, MismaCuenta
<1>7. Contenido' = [Contenido EXCEPT ![p] = F]
  <2>1. \A g \in Paginas : Contenido'[p][g] = F[g]
    <3> TAKE g \in Paginas
    <3>1. g \in Nat
      BY DEF Paginas
    <3> QED BY <1>3, <3>1
  <2>2. \A q \in Procesos, g \in Paginas : q # p => Contenido'[q][g] = Contenido[q][g]
    OBVIOUS
  <2>3. F = [g \in Paginas |-> F[g]]
    OBVIOUS
  <2> HIDE DEF F
  <2> QED BY <2>1, <2>2, <2>3, ContenidoConFila
<1>8. [Contenido EXCEPT ![p] = F] = [Contenido EXCEPT ![p] =
         [g \in Paginas |-> IF g \in c..(c + n - 1) THEN [hay |-> "indefinido"] ELSE @[g]]]
  <2>1. Contenido = [q \in Procesos |-> [g \in Paginas |-> Contenido[q][g]]]
    BY Celdas
  <2> QED BY <2>1
<1>9. Abstracta!Cardinality(Abstracta!Ocupadas) + n <= Marcos - Reservados
  BY <1>2, MismaCuenta
<1> HIDE DEF F
<1>10. Abstracta!Asignar(p, n)
  BY <1>1, <1>6, <1>7, <1>8, <1>9, SolicitudDice
     DEF Abstracta!Asignar, Abstracta!Indefinido, Abstracta!Paginas, Paginas
<1> QED BY <1>10 DEF Siguiente, Abstracta!Next

\* The pages a loop is about to give or to take, before its step.
LEMMA LazoEnCurso ==
    ASSUME IInv, Guardada, TablaSana, Prometida, tarea # SinTarea
    PROVE  /\ tarea.pid \in Procesos /\ ~EnVuelo(tarea.pid) /\ pedido[Kernel] = SinPedido
           /\ tarea.base \in Nat /\ tarea.desde \in Nat /\ tarea.hasta \in Nat
           /\ tarea.cuantas \in Nat
           /\ tarea.hasta <= MaxPagina + 1 /\ MaxPagina \in Nat
           /\ \A g \in Paginas : g \in Nat
           /\ Contiguas(tabla, tarea, tarea.pid)
           /\ \A q, k : q # tarea.pid => ~Corre(tarea, q, k)
<1>1. /\ tarea.pid \in Procesos /\ tarea.base \in Nat /\ tarea.desde \in Nat
      /\ tarea.hasta \in Nat /\ tarea.cuantas \in Nat
  BY TareaBien DEF Guardada, Tipada
<1>2. ~EnVuelo(tarea.pid)
  BY TareaQuieta
<1>3. pedido[Kernel] = SinPedido
  BY DEF Prometida, Ociosos, Hilos
<1>4. tarea.hasta <= MaxPagina + 1 /\ MaxPagina \in Nat /\ \A g \in Paginas : g \in Nat
  BY PaginasAssumption DEF Guardada, TareaAcotada, Paginas
<1>5. Contiguas(tabla, tarea, tarea.pid)
  BY <1>1 DEF TablaSana
<1>6. \A q, k : q # tarea.pid => ~Corre(tarea, q, k)
  BY DEF Corre
<1> QED BY <1>1, <1>2, <1>3, <1>4, <1>5, <1>6

\* A step that changes only pages that are free before and after.
LEMMA ContenidoOculto ==
    ASSUME Unicos(tabla), Unicos(tabla'), UNCHANGED marco,
           \A q \in Procesos, g \in Paginas :
               \/ Suelta(tabla, tarea, q, g) /\ Suelta(tabla', tarea', q, g)
               \/ /\ Suelta(tabla', tarea', q, g) <=> Suelta(tabla, tarea, q, g)
                  /\ historia'[q][g] = historia[q][g]
                  /\ \A f \in MarcosTodos : tabla[f] = <<q, g>> => tabla'[f] = <<q, g>>
    PROVE  Contenido' = Contenido
<1>1. ASSUME NEW q \in Procesos, NEW g \in Paginas
      PROVE  Contenido'[q][g] = Contenido[q][g]
  <2>1. CASE Suelta(tabla, tarea, q, g) /\ Suelta(tabla', tarea', q, g)
    BY <2>1, CeldaIgual
  <2>2. CASE /\ Suelta(tabla', tarea', q, g) <=> Suelta(tabla, tarea, q, g)
             /\ historia'[q][g] = historia[q][g]
             /\ \A f \in MarcosTodos : tabla[f] = <<q, g>> => tabla'[f] = <<q, g>>
    BY <2>2, CeldaIgual
  <2> QED BY <2>1, <2>2
<1> QED BY <1>1, ContenidoIgual

\* One more page of a loop that gives them: not seen yet.
LEMMA PromesaAsignarUna ==
    ASSUME IInv, Guardada, TablaSana, Prometida, Unicos(tabla'), AsignarUna
    PROVE  Siguiente
<1> DEFINE p == tarea.pid
           g == tarea.desde
           f == Primero(Inicio(p, g), MarcosVacios)
<1>1. /\ tarea # SinTarea /\ tarea.tipo \in {"iniciar", "asignar"} /\ g < tarea.hasta
      /\ MarcosVacios # {}
      /\ tabla' = [tabla EXCEPT ![f] = <<p, g>>]
      /\ historia' = [historia EXCEPT ![p][g] = "asignada"]
      /\ tarea' = [tarea EXCEPT !.desde = @ + 1]
      /\ UNCHANGED <<marco, pedido, respuesta>>
  BY DEF AsignarUna, Asignando
<1>2. /\ p \in Procesos /\ tarea.base \in Nat /\ g \in Nat /\ tarea.hasta \in Nat
      /\ tarea.hasta <= MaxPagina + 1 /\ MaxPagina \in Nat
      /\ \A k \in Paginas : k \in Nat
      /\ Contiguas(tabla, tarea, p)
      /\ \A q, k : q # p => ~Corre(tarea, q, k)
  BY <1>1, LazoEnCurso
<1>3. g \in Paginas
  BY <1>1, <1>2 DEF Paginas
<1>4. /\ tarea.base <= g
      /\ \A k \in Paginas : Tiene(tabla, p, k) <=> k < g
  BY <1>1, <1>2 DEF Contiguas
<1>5. /\ tarea' # SinTarea /\ tarea'.tipo = tarea.tipo /\ tarea'.pid = p
      /\ tarea'.base = tarea.base /\ tarea'.desde = g + 1
      /\ tarea'.cuantas = tarea.cuantas
  BY <1>1, TareaSigue DEF Guardada, Tipada
<1>6. f \in MarcosTodos /\ tabla[f] = Vacio
  <2>1. MarcosVacios \in SUBSET MarcosTodos /\ Inicio(p, g) \in Nat
    BY <1>2, InicioBien DEF MarcosVacios
  <2>2. f \in MarcosVacios
    BY <1>1, <2>1, PrimeroBien
  <2> QED BY <2>2 DEF MarcosVacios
<1>7. Unicos(tabla) /\ tabla \in [MarcosTodos -> Dueno]
      /\ historia \in [Procesos -> [Paginas -> Estados]]
  BY DEF TablaSana, Guardada, Tipada
<1>8. \A k : Corre(tarea, p, k) <=> tarea.base <= k /\ k < g
  BY <1>1 DEF Corre
<1>9. \A k : Corre(tarea', p, k) <=> tarea.base <= k /\ k < g + 1
  BY <1>1, <1>5 DEF Corre
<1>10. \A q, k : q # p => ~Corre(tarea', q, k)
  BY <1>5 DEF Corre
<1>11. \A q \in Procesos, k \in Paginas : <<q, k>> # Vacio
  BY ProcesosAssumption DEF Vacio
<1> HIDE DEF p, g, f
<1>12. tabla'[f] = <<p, g>> /\ \A e \in MarcosTodos : e # f => tabla'[e] = tabla[e]
  BY <1>1, <1>6, <1>7
<1>13. \A q \in Procesos, k \in Paginas :
          Tiene(tabla', q, k) <=> (Tiene(tabla, q, k) \/ (q = p /\ k = g))
  <2>1. ~Tiene(tabla, p, g)
    BY <1>2, <1>3, <1>4
  <2>2. p \in Procesos /\ tabla \in [MarcosTodos -> Dueno] /\ Unicos(tabla)
    BY <1>2, <1>7
  <2> QED BY <1>3, <1>6, <1>12, <2>1, <2>2, TablaConUna
<1>14. Suelta(tabla, tarea, p, g) /\ Suelta(tabla', tarea', p, g)
  BY <1>2, <1>3, <1>4, <1>9 DEF Suelta
<1>15. ASSUME NEW q \in Procesos, NEW k \in Paginas, q # p \/ k # g
       PROVE  /\ Suelta(tabla', tarea', q, k) <=> Suelta(tabla, tarea, q, k)
              /\ historia'[q][k] = historia[q][k]
              /\ \A e \in MarcosTodos : tabla[e] = <<q, k>> => tabla'[e] = <<q, k>>
  <2>1. historia'[q][k] = historia[q][k]
    BY <1>1, <1>2, <1>3, <1>7, <1>15
  <2>2. \A e \in MarcosTodos : tabla[e] = <<q, k>> => tabla'[e] = <<q, k>>
    BY <1>6, <1>11, <1>12
  <2>3. Corre(tarea', q, k) <=> Corre(tarea, q, k)
    <3>1. CASE q # p
      BY <1>2, <1>10, <3>1
    <3>2. CASE q = p
      BY <1>2, <1>8, <1>9, <1>15, <3>2
    <3> QED BY <3>1, <3>2
  <2>4. Suelta(tabla', tarea', q, k) <=> Suelta(tabla, tarea, q, k)
    BY <1>13, <1>15, <2>3 DEF Suelta
  <2> QED BY <2>1, <2>2, <2>4
<1>16. UNCHANGED marco
  BY <1>1
<1>17. Contenido' = Contenido
  <2>1. \A q \in Procesos, k \in Paginas :
           \/ Suelta(tabla, tarea, q, k) /\ Suelta(tabla', tarea', q, k)
           \/ /\ Suelta(tabla', tarea', q, k) <=> Suelta(tabla, tarea, q, k)
              /\ historia'[q][k] = historia[q][k]
              /\ \A e \in MarcosTodos : tabla[e] = <<q, k>> => tabla'[e] = <<q, k>>
    BY <1>14, <1>15
  <2>2. Unicos(tabla)
    BY <1>7
  <2> QED BY <1>16, <2>1, <2>2, ContenidoOculto
<1>18. Solicitud' = Solicitud
  BY <1>1, <1>5 DEF Solicitud, SinTarea, p
<1> QED BY <1>1, <1>17, <1>18 DEF Siguiente

\* The last page of a loop is given: now they are seen, all at once.
LEMMA PromesaAsignadasTodas ==
    ASSUME IInv, Guardada, TablaSana, Prometida, Unicos(tabla'), AsignadasTodas
    PROVE  Siguiente
<1> DEFINE p == tarea.pid
           c == tarea.base
           n == tarea.hasta - tarea.base
<1>1. /\ tarea # SinTarea /\ tarea.tipo \in {"iniciar", "asignar"}
      /\ tarea.desde = tarea.hasta /\ tarea' = SinTarea
      /\ Contesta("PAGINAS_ASIGNADAS")
      /\ UNCHANGED <<tabla, marco, pedido, historia>>
  BY DEF AsignadasTodas, Asignando
<1>2. /\ p \in Procesos /\ ~EnVuelo(p) /\ pedido[Kernel] = SinPedido
      /\ c \in Nat /\ tarea.hasta \in Nat /\ tarea.cuantas \in Nat
      /\ tarea.hasta <= MaxPagina + 1 /\ MaxPagina \in Nat
      /\ \A k \in Paginas : k \in Nat
      /\ Contiguas(tabla, tarea, p)
      /\ \A q, k : q # p => ~Corre(tarea, q, k)
  BY <1>1, LazoEnCurso
<1>3. \A k \in Paginas : Tiene(tabla, p, k) <=> k < tarea.hasta
  BY <1>1, <1>2 DEF Contiguas
<1>4. /\ c < tarea.hasta /\ c + tarea.cuantas = tarea.hasta
      /\ \A k \in Paginas : c <= k /\ k < tarea.hasta => historia[p][k] = "asignada"
  BY <1>1 DEF Prometida, TareaSana
<1>5. \A k : Corre(tarea, p, k) <=> c <= k /\ k < tarea.hasta
  BY <1>1 DEF Corre
<1>6. \A q, k : ~Corre(tarea', q, k)
  BY <1>1 DEF Corre, SinTarea
<1>7. /\ Unicos(tabla) /\ tabla \in [MarcosTodos -> Dueno] /\ ReservadosFijos
  BY DEF TablaSana, Guardada, Tipada, Prometida
<1>8. Cardinality(EnUso) \in Nat /\ Cardinality(EnUso) + n <= Marcos - Reservados
  <2>1. /\ Cardinality(EnUso) \in Nat /\ Cardinality(MarcosVacios) \in Nat
        /\ Cardinality(EnUso) + Cardinality(MarcosVacios) + Cardinality(Corridas)
              = Marcos - Reservados
    BY <1>7, Reparto
  <2>2. Cardinality(Corridas) = n
    BY <1>1, CorridasSon
  <2>3. n \in Int
    BY <1>2
  <2> HIDE DEF n
  <2> QED BY <2>1, <2>2, <2>3
<1>9. c + n = tarea.hasta /\ n = tarea.cuantas /\ n \in 1..(MaxPagina + 1) /\ c \in 0..(MaxPagina + 1)
  BY <1>2, <1>4
<1> HIDE DEF p, c, n
<1>10. \A k \in Paginas : Suelta(tabla, tarea, p, k) <=> ~(k < c)
  BY <1>2, <1>3, <1>4, <1>5 DEF Suelta
<1>11. ASSUME NEW k \in Paginas, c <= k, k < c + n
       PROVE  Contenido'[p][k] = [hay |-> "indefinido"]
  <2>1. historia'[p][k] # "escrita"
    BY <1>1, <1>4, <1>9, <1>11
  <2>2. PICK f \in MarcosTodos : tabla[f] = <<p, k>>
    BY <1>3, <1>9, <1>11 DEF Tiene
  <2>3. tabla'[f] = <<p, k>>
    BY <1>1, <2>2
  <2> QED BY <1>2, <1>6, <1>7, <2>1, <2>3, CeldaUsada
<1>12. ASSUME NEW q \in Procesos, NEW k \in Paginas, q # p \/ k < c \/ c + n <= k
       PROVE  Contenido'[q][k] = Contenido[q][k]
  <2>1. Tiene(tabla', q, k) <=> Tiene(tabla, q, k)
    BY <1>1 DEF Tiene
  <2>2. Suelta(tabla, tarea, q, k) <=> ~Tiene(tabla, q, k)
    BY <1>2, <1>3, <1>5, <1>9, <1>12 DEF Suelta
  <2>3. Suelta(tabla', tarea', q, k) <=> Suelta(tabla, tarea, q, k)
    BY <1>6, <2>1, <2>2 DEF Suelta
  <2>4. /\ historia'[q][k] = historia[q][k]
        /\ \A f \in MarcosTodos : tabla[f] = <<q, k>> =>
              tabla'[f] = <<q, k>> /\ marco'[f] = marco[f]
    BY <1>1
  <2> QED BY <1>7, <2>3, <2>4, CeldaIgual
<1>13. Contesta("PAGINAS_ASIGNADAS") /\ UNCHANGED pedido
  BY <1>1
<1>14. p \in Procesos /\ ~EnVuelo(p) /\ pedido[Kernel] = SinPedido /\ Unicos(tabla)
  BY <1>2, <1>7
<1>15. n \in 1..(MaxPagina + 1) /\ c \in 0..(MaxPagina + 1)
  BY <1>9
<1>16. /\ tarea # SinTarea /\ tarea.tipo # "finalizar" /\ tarea' = SinTarea
       /\ tarea.pid = p /\ tarea.cuantas = n
  BY <1>1, <1>9 DEF p
<1> QED BY <1>8, <1>10, <1>11, <1>12, <1>13, <1>14, <1>15,
           <1>16, Dadas

\* No room for the pages a program starts with: none was seen, none is left.
LEMMA PromesaIniciarSinMarcos ==
    ASSUME IInv, Guardada, TablaSana, Prometida, Unicos(tabla'), IniciarSinMarcos
    PROVE  Siguiente
<1> DEFINE p == tarea.pid
           n == tarea.hasta
<1>1. /\ tarea # SinTarea /\ tarea.tipo = "iniciar" /\ tarea.desde < n
      /\ MarcosVacios = {} /\ tabla' = SinPaginasDe(p) /\ tarea' = SinTarea
      /\ historia' = [historia EXCEPT ![p] = [g \in Paginas |-> "nunca"]]
      /\ Contesta("MEMORIA_INSUFICIENTE") /\ UNCHANGED <<marco, pedido>>
  BY DEF IniciarSinMarcos, Asignando
<1>2. /\ p \in Procesos /\ ~EnVuelo(p) /\ pedido[Kernel] = SinPedido
      /\ tarea.base \in Nat /\ tarea.desde \in Nat /\ n \in Nat /\ tarea.cuantas \in Nat
      /\ n <= MaxPagina + 1 /\ MaxPagina \in Nat
      /\ \A k \in Paginas : k \in Nat
      /\ Contiguas(tabla, tarea, p)
      /\ \A q, k : q # p => ~Corre(tarea, q, k)
  BY <1>1, LazoEnCurso
<1>3. tarea.base = 0 /\ tarea.base + tarea.cuantas = n
  BY <1>1 DEF Prometida, TareaSana
<1>4. \A k \in Paginas : Tiene(tabla, p, k) <=> k < tarea.desde
  BY <1>1, <1>2 DEF Contiguas
<1>5. \A k \in Paginas : Suelta(tabla, tarea, p, k)
  BY <1>1, <1>2, <1>3, <1>4 DEF Suelta, Corre
<1>6. \A q, k : ~Corre(tarea', q, k)
  BY <1>1 DEF Corre, SinTarea
<1>7. /\ Unicos(tabla) /\ tabla \in [MarcosTodos -> Dueno] /\ ReservadosFijos
      /\ historia \in [Procesos -> [Paginas -> Estados]]
  BY DEF TablaSana, Guardada, Tipada, Prometida
<1>8. Cardinality(EnUso) \in Nat /\ Cardinality(EnUso) + n > Marcos - Reservados
  <2>1. /\ Cardinality(EnUso) \in Nat
        /\ Cardinality(EnUso) + Cardinality(MarcosVacios) + Cardinality(Corridas)
              = Marcos - Reservados
    BY <1>7, Reparto
  <2>2. Cardinality(Corridas) = tarea.desde - tarea.base
    BY <1>1, CorridasSon
  <2>3. Cardinality(MarcosVacios) = 0
    BY <1>1, FS_EmptySet
  <2>4. Cardinality(EnUso) + 0 + tarea.desde = Marcos - Reservados
    BY <1>2, <1>3, <2>1, <2>2, <2>3
  <2> QED BY <1>1, <1>2, <2>1, <2>4
<1>9. n \in 1..(MaxPagina + 1) /\ tarea.cuantas = n
  BY <1>1, <1>2, <1>3
<1> HIDE DEF p, n
<1>10. \A q \in Procesos, k \in Paginas :
          Tiene(tabla', q, k) <=> (Tiene(tabla, q, k) /\ q # p)
  BY <1>1, <1>2, <1>7, TablaSinNinguna
<1>11. \A q \in Procesos, k \in Paginas :
           \/ Suelta(tabla, tarea, q, k) /\ Suelta(tabla', tarea', q, k)
           \/ /\ Suelta(tabla', tarea', q, k) <=> Suelta(tabla, tarea, q, k)
              /\ historia'[q][k] = historia[q][k]
              /\ \A e \in MarcosTodos : tabla[e] = <<q, k>> => tabla'[e] = <<q, k>>
  <2> TAKE q \in Procesos, k \in Paginas
  <2>1. CASE q = p
    <3>1. Suelta(tabla', tarea', q, k)
      BY <1>10, <2>1 DEF Suelta
    <3>2. Suelta(tabla, tarea, q, k)
      BY <1>5, <2>1
    <3> QED BY <3>1, <3>2
  <2>2. CASE q # p
    <3>1. Suelta(tabla', tarea', q, k) <=> Suelta(tabla, tarea, q, k)
      BY <1>2, <1>6, <1>10, <2>2 DEF Suelta
    <3>2. historia'[q][k] = historia[q][k]
      BY <1>1, <1>7, <2>2
    <3>3. \A e \in MarcosTodos : tabla[e] = <<q, k>> => tabla'[e] = <<q, k>>
      BY <1>1, <2>2 DEF SinPaginasDe
    <3> QED BY <3>1, <3>2, <3>3
  <2> QED BY <2>1, <2>2
<1>12. UNCHANGED marco /\ UNCHANGED pedido /\ Contesta("MEMORIA_INSUFICIENTE")
  BY <1>1
<1>13. p \in Procesos /\ ~EnVuelo(p) /\ pedido[Kernel] = SinPedido /\ Unicos(tabla)
  BY <1>2, <1>7
<1>14. Contenido' = Contenido
  BY <1>11, <1>12, <1>13, ContenidoOculto
<1>15. /\ tarea # SinTarea /\ tarea.tipo # "finalizar" /\ tarea' = SinTarea
       /\ tarea.pid = p /\ tarea.cuantas = n
  BY <1>1, <1>9 DEF p
<1> QED BY <1>8, <1>9, <1>12, <1>13, <1>14, <1>15, Negadas

\* A loop that finds no room turns round: it is about the same pages.
LEMMA PromesaAsignarSinMarcos ==
    ASSUME IInv, Guardada, TablaSana, Prometida, Unicos(tabla'), AsignarSinMarcos
    PROVE  Siguiente
<1>1. /\ tarea # SinTarea /\ tarea.tipo = "asignar"
      /\ tarea' = [tarea EXCEPT !.tipo = "deshacer", !.desde = tarea.base,
                                !.hasta = tarea.desde]
      /\ UNCHANGED <<tabla, marco, pedido, respuesta, historia>>
  BY DEF AsignarSinMarcos, Asignando
<1>2. /\ tarea' # SinTarea /\ tarea'.tipo = "deshacer" /\ tarea'.pid = tarea.pid
      /\ tarea'.base = tarea.base /\ tarea'.hasta = tarea.desde
      /\ tarea'.cuantas = tarea.cuantas
  BY <1>1, TareaSigue DEF Guardada, Tipada
<1>3. \A q, k : Corre(tarea', q, k) <=> Corre(tarea, q, k)
  BY <1>1, <1>2 DEF Corre
<1>4. \A q \in Procesos, k \in Paginas :
           \/ Suelta(tabla, tarea, q, k) /\ Suelta(tabla', tarea', q, k)
           \/ /\ Suelta(tabla', tarea', q, k) <=> Suelta(tabla, tarea, q, k)
              /\ historia'[q][k] = historia[q][k]
              /\ \A e \in MarcosTodos : tabla[e] = <<q, k>> => tabla'[e] = <<q, k>>
  <2> TAKE q \in Procesos, k \in Paginas
  <2>1. Suelta(tabla', tarea', q, k) <=> Suelta(tabla, tarea, q, k)
    BY <1>1, <1>3 DEF Suelta, Tiene
  <2>2. /\ historia'[q][k] = historia[q][k]
        /\ \A e \in MarcosTodos : tabla[e] = <<q, k>> => tabla'[e] = <<q, k>>
    BY <1>1
  <2> QED BY <2>1, <2>2
<1>5. Unicos(tabla) /\ UNCHANGED marco
  BY <1>1 DEF TablaSana
<1>6. Contenido' = Contenido
  BY <1>4, <1>5, ContenidoOculto
<1>7. Solicitud' = Solicitud
  BY <1>1, <1>2 DEF Solicitud, SinTarea
<1> QED BY <1>1, <1>6, <1>7 DEF Siguiente

\* A page given back by a loop that undoes its own: it was not seen.
LEMMA PromesaDeshacerUna ==
    ASSUME IInv, Guardada, TablaSana, Prometida, Unicos(tabla'), DeshacerUna
    PROVE  Siguiente
<1> DEFINE p == tarea.pid
           g == tarea.desde
<1>1. /\ tarea # SinTarea /\ tarea.tipo = "deshacer" /\ g < tarea.hasta
      /\ tabla' = Vaciada(p, g)
      /\ historia' = [historia EXCEPT ![p][g] = "liberada"]
      /\ tarea' = [tarea EXCEPT !.desde = @ + 1]
      /\ UNCHANGED <<marco, pedido, respuesta>>
  BY DEF DeshacerUna, Deshaciendo
<1>2. /\ p \in Procesos /\ tarea.base \in Nat /\ g \in Nat /\ tarea.hasta \in Nat
      /\ tarea.hasta <= MaxPagina + 1 /\ MaxPagina \in Nat
      /\ \A k \in Paginas : k \in Nat
      /\ Contiguas(tabla, tarea, p)
      /\ \A q, k : q # p => ~Corre(tarea, q, k)
  BY <1>1, LazoEnCurso
<1>3. g \in Paginas
  BY <1>1, <1>2 DEF Paginas
<1>4. tarea.base <= g
  BY <1>1, <1>2 DEF Contiguas
<1>5. /\ tarea' # SinTarea /\ tarea'.tipo = "deshacer" /\ tarea'.pid = p
      /\ tarea'.base = tarea.base /\ tarea'.hasta = tarea.hasta
      /\ tarea'.cuantas = tarea.cuantas
  BY <1>1, TareaSigue DEF Guardada, Tipada
<1>6. \A q, k : Corre(tarea', q, k) <=> Corre(tarea, q, k)
  BY <1>1, <1>5 DEF Corre
<1>7. Corre(tarea, p, g)
  BY <1>1, <1>4 DEF Corre
<1>8. /\ Unicos(tabla) /\ tabla \in [MarcosTodos -> Dueno]
      /\ historia \in [Procesos -> [Paginas -> Estados]] /\ UNCHANGED marco
  BY <1>1 DEF TablaSana, Guardada, Tipada
<1> HIDE DEF p, g
<1>9. \A q \in Procesos, k \in Paginas :
         Tiene(tabla', q, k) <=> (Tiene(tabla, q, k) /\ ~(q = p /\ k = g))
  BY <1>1, <1>2, <1>3, <1>8, TablaSinUna
<1>10. \A e \in MarcosTodos : tabla[e] = <<p, g>> \/ tabla'[e] = tabla[e]
  <2>1. CASE MarcosDe(p, g) = {}
    BY <1>1, <2>1 DEF Vaciada
  <2>2. CASE MarcosDe(p, g) # {}
    <3> DEFINE f == Primero(Inicio(p, g), MarcosDe(p, g))
    <3>1. MarcosDe(p, g) \in SUBSET MarcosTodos /\ Inicio(p, g) \in Nat
      BY <1>2, InicioBien DEF MarcosDe
    <3>2. f \in MarcosDe(p, g)
      BY <2>2, <3>1, PrimeroBien
    <3>3. tabla[f] = <<p, g>>
      BY <3>2 DEF MarcosDe
    <3>4. tabla' = [tabla EXCEPT ![f] = Vacio]
      BY <1>1, <2>2 DEF Vaciada
    <3> HIDE DEF f
    <3> QED BY <1>8, <3>3, <3>4
  <2> QED BY <2>1, <2>2
<1>11. \A q \in Procesos, k \in Paginas :
           \/ Suelta(tabla, tarea, q, k) /\ Suelta(tabla', tarea', q, k)
           \/ /\ Suelta(tabla', tarea', q, k) <=> Suelta(tabla, tarea, q, k)
              /\ historia'[q][k] = historia[q][k]
              /\ \A e \in MarcosTodos : tabla[e] = <<q, k>> => tabla'[e] = <<q, k>>
  <2> TAKE q \in Procesos, k \in Paginas
  <2>1. CASE q = p /\ k = g
    BY <1>6, <1>7, <2>1 DEF Suelta
  <2>2. CASE q # p \/ k # g
    <3>1. Suelta(tabla', tarea', q, k) <=> Suelta(tabla, tarea, q, k)
      BY <1>6, <1>9, <2>2 DEF Suelta
    <3>2. historia'[q][k] = historia[q][k]
      BY <1>1, <1>2, <1>3, <1>8, <2>2
    <3>3. \A e \in MarcosTodos : tabla[e] = <<q, k>> => tabla'[e] = <<q, k>>
      BY <1>10, <2>2
    <3> QED BY <3>1, <3>2, <3>3
  <2> QED BY <2>1, <2>2
<1>12. Unicos(tabla) /\ UNCHANGED marco
  BY <1>8
<1>13. Contenido' = Contenido
  BY <1>11, <1>12, ContenidoOculto
<1>14. Solicitud' = Solicitud
  BY <1>1, <1>5 DEF Solicitud, SinTarea, p
<1> QED BY <1>1, <1>13, <1>14 DEF Siguiente

\* All given back: there was no room for the pages that were asked for.
LEMMA PromesaDeshechasTodas ==
    ASSUME IInv, Guardada, TablaSana, Prometida, Unicos(tabla'), DeshechasTodas
    PROVE  Siguiente
<1> DEFINE p == tarea.pid
           n == tarea.cuantas
<1>1. /\ tarea # SinTarea /\ tarea.tipo = "deshacer" /\ tarea.desde = tarea.hasta
      /\ tarea' = SinTarea /\ Contesta("MEMORIA_INSUFICIENTE")
      /\ UNCHANGED <<tabla, marco, pedido, historia>>
  BY DEF DeshechasTodas, Deshaciendo
<1>2. /\ p \in Procesos /\ ~EnVuelo(p) /\ pedido[Kernel] = SinPedido
      /\ tarea.base \in Nat /\ tarea.hasta \in Nat /\ MaxPagina \in Nat /\ n \in Nat
      /\ \A k \in Paginas : k \in Nat
      /\ Contiguas(tabla, tarea, p)
      /\ \A q, k : q # p => ~Corre(tarea, q, k)
  BY <1>1, LazoEnCurso
<1>3. \A k \in Paginas : Tiene(tabla, p, k) => k < tarea.base
  BY <1>1, <1>2 DEF Contiguas
<1>4. \A q \in Procesos, k \in Paginas : Tiene(tabla, q, k) => ~Corre(tarea, q, k)
  BY <1>2, <1>3 DEF Corre
<1>5. \A q, k : ~Corre(tarea', q, k)
  BY <1>1 DEF Corre, SinTarea
<1>6. /\ Unicos(tabla) /\ tabla \in [MarcosTodos -> Dueno] /\ ReservadosFijos
      /\ UNCHANGED marco /\ UNCHANGED pedido
  BY <1>1 DEF TablaSana, Guardada, Tipada, Prometida
<1>7. /\ tarea.hasta <= MaxPagina /\ tarea.base <= tarea.hasta
      /\ tarea.hasta < tarea.base + n /\ n <= MaxPagina + 1
      /\ Cardinality(MarcosVacios) <= tarea.desde - tarea.base
  BY <1>1, <1>2 DEF Prometida, TareaSana, Contiguas
<1>8. /\ Cardinality(EnUso) \in Nat /\ Cardinality(MarcosVacios) \in Nat
      /\ Cardinality(EnUso) + Cardinality(MarcosVacios) = Marcos - Reservados
  <2>1. /\ Cardinality(EnUso) \in Nat /\ Cardinality(MarcosVacios) \in Nat
        /\ Cardinality(EnUso) + Cardinality(MarcosVacios) + Cardinality(Corridas)
              = Marcos - Reservados
    BY <1>6, Reparto
  <2>2. Corridas = {}
    BY <1>4 DEF Corridas
  <2>3. Cardinality(Corridas) = 0
    BY <2>2, FS_EmptySet
  <2> QED BY <2>1, <2>3
<1>9. n \in 1..(MaxPagina + 1) /\ Cardinality(EnUso) + n > Marcos - Reservados
  BY <1>1, <1>2, <1>7, <1>8
<1> HIDE DEF p, n
<1>10. \A q \in Procesos, k \in Paginas :
           \/ Suelta(tabla, tarea, q, k) /\ Suelta(tabla', tarea', q, k)
           \/ /\ Suelta(tabla', tarea', q, k) <=> Suelta(tabla, tarea, q, k)
              /\ historia'[q][k] = historia[q][k]
              /\ \A e \in MarcosTodos : tabla[e] = <<q, k>> => tabla'[e] = <<q, k>>
  <2> TAKE q \in Procesos, k \in Paginas
  <2>1. Suelta(tabla', tarea', q, k) <=> Suelta(tabla, tarea, q, k)
    BY <1>1, <1>4, <1>5 DEF Suelta, Tiene
  <2>2. /\ historia'[q][k] = historia[q][k]
        /\ \A e \in MarcosTodos : tabla[e] = <<q, k>> => tabla'[e] = <<q, k>>
    BY <1>1
  <2> QED BY <2>1, <2>2
<1>11. Contenido' = Contenido
  BY <1>6, <1>10, ContenidoOculto
<1>12. Contesta("MEMORIA_INSUFICIENTE") /\ UNCHANGED pedido
  BY <1>1
<1>13. /\ tarea # SinTarea /\ tarea.tipo # "finalizar" /\ tarea' = SinTarea
       /\ tarea.pid = p /\ tarea.cuantas = n
  BY <1>1 DEF p, n
<1> QED BY <1>2, <1>6, <1>8, <1>9, <1>11, <1>12, <1>13, Negadas

\* The pages of a process that ends go all at once.
LEMMA PromesaEliminar ==
    ASSUME IInv, Guardada, TablaSana, Prometida, Unicos(tabla'), EliminarPaginasDeProceso
    PROVE  Siguiente
<1> DEFINE p == tarea.pid
           F == [g \in Paginas |-> [hay |-> "libre"]]
<1>1. /\ tarea # SinTarea /\ tarea.tipo = "finalizar"
      /\ tabla' = SinPaginasDe(p) /\ tarea' = SinTarea
      /\ historia' = [historia EXCEPT ![p] = [g \in Paginas |-> "liberada"]]
      /\ Contesta("ELIMINACION_DE_PROCESO_SATISFACTORIO")
      /\ UNCHANGED <<marco, pedido>>
  BY DEF EliminarPaginasDeProceso
<1>2. p \in Procesos /\ ~EnVuelo(p) /\ pedido[Kernel] = SinPedido
  BY <1>1, LazoEnCurso
<1>3. \A q, k : ~Corre(tarea, q, k) /\ ~Corre(tarea', q, k)
  BY <1>1 DEF Corre, SinTarea
<1>4. /\ Unicos(tabla) /\ tabla \in [MarcosTodos -> Dueno]
      /\ historia \in [Procesos -> [Paginas -> Estados]]
  BY DEF TablaSana, Guardada, Tipada
<1> HIDE DEF p
<1>5. \A q \in Procesos, k \in Paginas :
         Tiene(tabla', q, k) <=> (Tiene(tabla, q, k) /\ q # p)
  BY <1>1, <1>2, <1>4, TablaSinNinguna
<1>6. \A k \in Paginas : Contenido'[p][k] = F[k]
  <2>1. \A k \in Paginas : Suelta(tabla', tarea', p, k)
    BY <1>2, <1>5 DEF Suelta
  <2>2. \A k \in Paginas : Contenido'[p][k] = [hay |-> "libre"]
    BY <1>2, <1>4, <2>1, CeldaLibre
  <2> QED BY <2>2
<1>7. ASSUME NEW q \in Procesos, NEW k \in Paginas, q # p
      PROVE  Contenido'[q][k] = Contenido[q][k]
  <2>1. Suelta(tabla', tarea', q, k) <=> Suelta(tabla, tarea, q, k)
    BY <1>3, <1>5, <1>7 DEF Suelta
  <2>2. historia'[q][k] = historia[q][k]
    BY <1>1, <1>4, <1>7
  <2>3. \A e \in MarcosTodos : tabla[e] = <<q, k>> =>
           tabla'[e] = <<q, k>> /\ marco'[e] = marco[e]
    BY <1>1, <1>7 DEF SinPaginasDe
  <2> QED BY <1>4, <2>1, <2>2, <2>3, CeldaIgual
<1>8. F = [g \in Paginas |-> F[g]]
  OBVIOUS
<1>9. Contenido' = [Contenido EXCEPT ![p] = F]
  <2> HIDE DEF F
  <2> QED BY <1>2, <1>4, <1>6, <1>7, <1>8, ContenidoConFila
<1>10. /\ Abstracta!Ajeno(p)
       /\ Abstracta!Contesta("ELIMINACION_DE_PROCESO_SATISFACTORIO")
  BY <1>1, <1>2, Contestado
<1>11. Abstracta!Finalizar(p)
  BY <1>1, <1>2, <1>9, <1>10, SolicitudDice
     DEF Abstracta!SinPreguntas, Abstracta!SinSolicitud, Abstracta!SinPedido, SinPedido,
          Abstracta!Finalizar, Abstracta!Libre, Abstracta!Paginas, Paginas
<1> QED BY <1>2, <1>11 DEF Siguiente, Abstracta!Next

\* Once around a loop over pages.
LEMMA PromesaDeLazo ==
    ASSUME IInv, Guardada, TablaSana, Prometida, Unicos(tabla'), LazoDePaginas
    PROVE  Siguiente
BY PromesaAsignarUna, PromesaAsignadasTodas, PromesaIniciarSinMarcos,
   PromesaAsignarSinMarcos, PromesaDeshacerUna, PromesaDeshechasTodas, PromesaEliminar
   DEF LazoDePaginas

\* A loop that starts or an end that begins: what was asked for is all that
\* is seen of it yet.
LEMMA PromesaDeEspera ==
    ASSUME Unicos(tabla),
           \A q \in Procesos, k \in Paginas : ~Corre(tarea, q, k) /\ ~Corre(tarea', q, k),
           pedido[Kernel] = SinPedido, respuesta' = SinRespuesta, tarea = SinTarea,
           \/ Solicitud' = [cuantas |-> 0]
           \/ \E p \in Procesos, n \in 1..(MaxPagina + 1) :
                 Solicitud' = [pid |-> p, cuantas |-> n],
           UNCHANGED <<tabla, marco, pedido, historia>>
    PROVE  Siguiente
<1>1. Unicos(tabla')
  BY DEF Unicos
<1>2. ASSUME NEW q \in Procesos, NEW k \in Paginas
      PROVE  Contenido'[q][k] = Contenido[q][k]
  <2>1. Suelta(tabla', tarea', q, k) <=> Suelta(tabla, tarea, q, k)
    BY DEF Suelta, Tiene
  <2> QED BY <1>1, <2>1, CeldaIgual
<1>3. Contenido' = Contenido
  BY <1>1, <1>2, ContenidoIgual
<1>4. /\ Abstracta!SinPreguntas /\ respuesta' = Abstracta!SinRespuesta
      /\ UNCHANGED <<Contenido, pedido>>
  BY <1>3, SolicitudDice
     DEF Abstracta!SinPreguntas, Abstracta!SinPedido, SinPedido, Abstracta!SinSolicitud,
         Abstracta!SinRespuesta, SinRespuesta, Abstracta!Dice, Dice
<1>5. CASE Solicitud' = [cuantas |-> 0]
  <2>1. Abstracta!Espera
    BY <1>4, <1>5, SolicitudDice DEF Abstracta!Espera
  <2> QED BY <2>1 DEF Siguiente, Abstracta!Next
<1>6. ASSUME NEW p \in Procesos, NEW n \in 1..(MaxPagina + 1),
             Solicitud' = [pid |-> p, cuantas |-> n]
      PROVE  Siguiente
  <2>1. Abstracta!Solicitar(p, n)
    BY <1>4, <1>6 DEF Abstracta!Solicitar
  <2> QED BY <2>1 DEF Siguiente, Abstracta!Next
<1> QED BY <1>5, <1>6

\* A page given back by its program.
LEMMA PromesaLiberar ==
    ASSUME IInv, Guardada, TablaSana, Prometida, Unicos(tabla'),
           NEW p \in Procesos, NEW g \in Paginas, LiberarPagina(p, g)
    PROVE  Siguiente
<1>1. /\ pc[Kernel] = "libre" /\ tarea = SinTarea /\ tarea' = tarea /\ ~EnVuelo(p)
      /\ tabla' = Vaciada(p, g)
      /\ Contesta(IF MarcosDe(p, g) = {} THEN "PAGINA_NO_LIBERADA" ELSE "PAGINA_LIBERADA")
      /\ historia' = [historia EXCEPT ![p][g] = IF @ = "nunca" THEN @ ELSE "liberada"]
      /\ UNCHANGED <<marco, pedido>>
  BY DEF LiberarPagina, KernelLibre
<1>2. pedido[Kernel] = SinPedido
  BY <1>1 DEF Prometida, Ociosos, Hilos
<1>3. \A q, k : ~Corre(tarea, q, k) /\ ~Corre(tarea', q, k)
  BY <1>1 DEF Corre, SinTarea
<1>4. /\ Unicos(tabla) /\ tabla \in [MarcosTodos -> Dueno]
      /\ historia \in [Procesos -> [Paginas -> Estados]]
  BY DEF TablaSana, Guardada, Tipada
<1>5. \A q \in Procesos, k \in Paginas :
         Tiene(tabla', q, k) <=> (Tiene(tabla, q, k) /\ ~(q = p /\ k = g))
  BY <1>1, <1>4, TablaSinUna
<1>6. \A e \in MarcosTodos : tabla[e] = <<p, g>> \/ tabla'[e] = tabla[e]
  <2>1. CASE MarcosDe(p, g) = {}
    BY <1>1, <2>1 DEF Vaciada
  <2>2. CASE MarcosDe(p, g) # {}
    <3> DEFINE f == Primero(Inicio(p, g), MarcosDe(p, g))
    <3>1. MarcosDe(p, g) \in SUBSET MarcosTodos /\ Inicio(p, g) \in Nat
      BY InicioBien DEF MarcosDe, Paginas
    <3>2. f \in MarcosDe(p, g)
      BY <2>2, <3>1, PrimeroBien
    <3>3. tabla[f] = <<p, g>>
      BY <3>2 DEF MarcosDe
    <3>4. tabla' = [tabla EXCEPT ![f] = Vacio]
      BY <1>1, <2>2 DEF Vaciada
    <3> HIDE DEF f
    <3> QED BY <1>4, <3>3, <3>4
  <2> QED BY <2>1, <2>2
<1>7. Contenido'[p][g] = [hay |-> "libre"]
  <2>1. Suelta(tabla', tarea', p, g)
    BY <1>5 DEF Suelta
  <2> QED BY <1>4, <2>1, CeldaLibre
<1>8. ASSUME NEW q \in Procesos, NEW k \in Paginas, q # p \/ k # g
      PROVE  Contenido'[q][k] = Contenido[q][k]
  <2>1. Suelta(tabla', tarea', q, k) <=> Suelta(tabla, tarea, q, k)
    BY <1>3, <1>5, <1>8 DEF Suelta
  <2>2. historia'[q][k] = historia[q][k]
    BY <1>1, <1>4, <1>8
  <2>3. \A e \in MarcosTodos : tabla[e] = <<q, k>> =>
           tabla'[e] = <<q, k>> /\ marco'[e] = marco[e]
    BY <1>1, <1>6, <1>8
  <2> QED BY <1>4, <2>1, <2>2, <2>3, CeldaIgual
<1>9. Contenido' = [Contenido EXCEPT ![p][g] = [hay |-> "libre"]]
  BY <1>4, <1>7, <1>8, ContenidoConUna
<1>10. Contenido[p][g] = [hay |-> "libre"] <=> MarcosDe(p, g) = {}
  <2>1. Contenido[p][g] = [hay |-> "libre"] <=> Suelta(tabla, tarea, p, g)
    BY <1>4, CeldaLibre
  <2> QED BY <1>3, <2>1 DEF Suelta, Tiene, MarcosDe
<1>11. /\ Abstracta!Ajeno(p)
       /\ Abstracta!Contesta(IF MarcosDe(p, g) = {} THEN "PAGINA_NO_LIBERADA"
                                                  ELSE "PAGINA_LIBERADA")
  BY <1>1, <1>2, Contestado
<1>12. Abstracta!Liberar(p, g)
  BY <1>1, <1>2, <1>9, <1>10, <1>11, SolicitudDice
     DEF Abstracta!Liberar, Abstracta!Libre, Abstracta!SinPreguntas,
         Abstracta!SinSolicitud, Abstracta!SinPedido, SinPedido
<1>13. g \in Abstracta!Paginas
  BY DEF Abstracta!Paginas, Paginas
<1> QED BY <1>12, <1>13 DEF Siguiente, Abstracta!Next

\* The kernel's requests about pages.
LEMMA PromesaDePedidoDelKernel ==
    ASSUME IInv, Guardada, TablaSana, Prometida, Unicos(tabla'), PedidoDelKernel
    PROVE  Siguiente
<1>1. Unicos(tabla)
  BY DEF TablaSana
<1>2. ASSUME KernelLibre
      PROVE  /\ pedido[Kernel] = SinPedido
             /\ tarea = SinTarea
             /\ \A q, k : ~Corre(tarea, q, k)
  BY <1>2 DEF KernelLibre, Prometida, Ociosos, Hilos, Corre
<1>3. /\ \A k \in Paginas : k \in Nat
      /\ MaxPagina \in Nat /\ MaxPedidas \in Nat /\ MaxIniciales \in 0..(MaxPagina + 1)
  BY PaginasAssumption DEF Paginas
<1>4. ASSUME NEW p \in Procesos, NEW n \in 1..MaxIniciales, InicializarPrograma(p, n)
      PROVE  Siguiente
  <2>1. /\ KernelLibre /\ respuesta' = SinRespuesta
        /\ tarea' = [tipo |-> "iniciar", pid |-> p, base |-> 0, desde |-> 0, hasta |-> n,
                      cuantas |-> n]
        /\ UNCHANGED <<tabla, marco, pedido, historia>>
    BY <1>4 DEF InicializarPrograma
  <2>2. \A q \in Procesos, k \in Paginas : ~Corre(tarea', q, k)
    BY <1>3, <2>1 DEF Corre
  <2>3. \A q \in Procesos, k \in Paginas : ~Corre(tarea, q, k) /\ ~Corre(tarea', q, k)
    BY <1>2, <2>1, <2>2
  <2>4. Solicitud' = [pid |-> p, cuantas |-> n] /\ n \in 1..(MaxPagina + 1)
    BY <1>3, <2>1 DEF Solicitud, SinTarea
  <2> QED BY <1>1, <1>2, <2>1, <2>3, <2>4, PromesaDeEspera
<1>5. ASSUME NEW p \in Procesos, NEW n \in 1..MaxPedidas, AsignarPaginasDeHeap(p, n)
      PROVE  Siguiente
  <2> DEFINE c == PaginasAsignadas(p)
  <2>1. /\ KernelLibre /\ respuesta' = SinRespuesta
        /\ tarea' = [tipo |-> "asignar", pid |-> p, base |-> c, desde |-> c, hasta |-> c + n,
                      cuantas |-> n]
        /\ UNCHANGED <<tabla, marco, pedido, historia>>
    BY <1>5 DEF AsignarPaginasDeHeap, AsignarDesde
  <2>5. c \in Nat /\ c + n - 1 <= MaxPagina
    BY <1>5, AsignadasBien DEF AsignarPaginasDeHeap, AsignarDesde
  <2>2. \A q \in Procesos, k \in Paginas : ~Corre(tarea', q, k)
    <3> HIDE DEF c
    <3> QED BY <1>3, <2>1, <2>5 DEF Corre
  <2>3. \A q \in Procesos, k \in Paginas : ~Corre(tarea, q, k) /\ ~Corre(tarea', q, k)
    BY <1>2, <2>1, <2>2
  <2>4. Solicitud' = [pid |-> p, cuantas |-> n] /\ n \in 1..(MaxPagina + 1)
    <3>1. n \in 1..(MaxPagina + 1)
      <4> HIDE DEF c
      <4> QED BY <1>3, <2>5
    <3>2. Solicitud' = [pid |-> p, cuantas |-> n]
      BY <2>1 DEF Solicitud, SinTarea
    <3> QED BY <3>1, <3>2
  <2> QED BY <1>1, <1>2, <2>1, <2>3, <2>4, PromesaDeEspera
<1>6. ASSUME NEW p \in Procesos, NEW g \in Paginas, LiberarPagina(p, g) PROVE Siguiente
  BY <1>6, PromesaLiberar
<1>7. ASSUME NEW p \in Procesos, Finalizar(p) PROVE Siguiente
  <2>1. /\ KernelLibre /\ respuesta' = SinRespuesta
        /\ tarea' = [tipo |-> "finalizar", pid |-> p, base |-> 0, desde |-> 0, hasta |-> 0,
                      cuantas |-> 0]
        /\ UNCHANGED <<tabla, marco, pedido, historia>>
    BY <1>7 DEF Finalizar
  <2>2. \A q \in Procesos, k \in Paginas : ~Corre(tarea', q, k)
    BY <2>1 DEF Corre
  <2>3. \A q \in Procesos, k \in Paginas : ~Corre(tarea, q, k) /\ ~Corre(tarea', q, k)
    BY <1>2, <2>1, <2>2
  <2>4. Solicitud' = [cuantas |-> 0]
    BY <2>1 DEF Solicitud, SinTarea
  <2> QED BY <1>1, <1>2, <2>1, <2>3, <2>4, PromesaDeEspera
<1> QED BY <1>4, <1>5, <1>6, <1>7 DEF PedidoDelKernel

\* Every step.
LEMMA PromesaDePaso ==
    ASSUME IInv, Guardada, TablaSana, CacheFiel, Prometida, Unicos(tabla'), [Next]_vars
    PROVE  Siguiente
<1>1. CASE \E h \in Hilos : Hilo(h)
  BY <1>1, PromesaDeHilo
<1>2. CASE LazoDePaginas
  BY <1>2, PromesaDeLazo
<1>3. CASE PedidoDelKernel
  BY <1>3, PromesaDePedidoDelKernel
<1>4. CASE FlushCache \/ UNCHANGED vars
  <2>1. UNCHANGED <<tabla, marco, pedido, respuesta, tarea, historia>>
    BY <1>4 DEF FlushCache, vars
  <2>2. Unicos(tabla)
    BY DEF TablaSana
  <2>3. Contenido' = Contenido
    BY <2>1, <2>2, ContenidoQuieto
  <2> QED BY <2>1, <2>3, SolicitudQuieta DEF Siguiente
<1> QED BY <1>1, <1>2, <1>3, <1>4 DEF Next

\* At the start no page holds anything.
LEMMA PromesaDeInit == ASSUME Init PROVE Abstracta!Init
<1>1. /\ tabla = [f \in MarcosTodos |-> IF f < Reservados THEN Reservado ELSE Vacio]
      /\ pedido = [h \in Hilos |-> SinPedido] /\ respuesta = SinRespuesta
      /\ Solicitud = [cuantas |-> 0]
  BY SolicitudDice DEF Init
<1>2. \A p \in Procesos : \A g : Vacio # <<p, g>> /\ Reservado # <<p, g>>
  BY ProcesosAssumption DEF Vacio, Reservado
<1>3. \A p \in Procesos : \A g : MarcosDe(p, g) = {}
  BY <1>1, <1>2 DEF MarcosDe
<1>4. Contenido = [p \in Procesos |-> [g \in Paginas |-> [hay |-> "libre"]]]
  BY <1>3 DEF Contenido
<1> QED BY <1>1, <1>4 DEF Abstracta!Init, Abstracta!Libre, Abstracta!Paginas, Paginas,
           Abstracta!Hilos, Hilos, Abstracta!SinPedido, SinPedido, Abstracta!SinSolicitud,
            Abstracta!SinRespuesta,
           SinRespuesta, Abstracta!Dice, Dice

\* The memory process keeps its promise: with any number of frames, entries,
\* connections and processes, what the kernel and the CPUs are answered is
\* what MemoriaPaginada answers, pages are given all together or not at all,
\* and a refusal means there was no room for all that was asked for.  The kernel asks for contiguous
\* pages, ends nobody with a request in flight, and no program uses a page it
\* gave back.
THEOREM PromesaCumplida ==
    ASSUME "hueco" \notin Eventos, "finEnVuelo" \notin Eventos,
           "punteroColgado" \notin Eventos
    PROVE  Spec => Promesa
<1> DEFINE Todo == IInv /\ Guardada /\ TablaSana /\ CacheFiel /\ Prometida
<1>1. Init => Todo
  BY InvInit, GuardadaInit, SanaInit, FielPaso, PrometidaInit
<1>2. Todo /\ [Next]_vars => Todo'
  BY InvPaso, GuardadaPaso, SanaPaso, FielPaso, PrometidaPaso
<1>3. Todo /\ Todo' /\ [Next]_vars => [Abstracta!Next]_(Abstracta!vars)
  <2> SUFFICES ASSUME Todo, Todo', [Next]_vars
               PROVE  [Abstracta!Next]_(Abstracta!vars)
    OBVIOUS
  <2>1. Unicos(tabla')
    BY DEF TablaSana
  <2>2. Siguiente
    BY <2>1, PromesaDePaso
  <2> QED BY <2>2 DEF Siguiente, Abstracta!vars
<1>4. Init => Abstracta!Init
  BY PromesaDeInit
<1> QED BY <1>1, <1>2, <1>3, <1>4, PTL DEF Spec, Promesa, Abstracta!Spec
=============================================================================

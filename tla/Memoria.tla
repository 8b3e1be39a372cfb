------------------------------ MODULE Memoria -------------------------------
(***************************************************************************)
(* The memory process: the inverted page table, the frames and the cache   *)
(* of memoria/src, and one thread per connection working on them.  The     *)
(* thread of the kernel is the only one that changes the table, one entry  *)
(* per step; the threads of the CPUs look frames up without any lock and   *)
(* hold mutex_cache while they use the cache or copy a page.  usleep() of  *)
(* retardoMemoria is what separates the steps of a request.                *)
(***************************************************************************)
EXTENDS Integers, Sequences, FiniteSets, SequencesExt

CONSTANTS
    Procesos,       \* PIDs
    Cpus,           \* connections of CPUs
    Kernel,         \* the connection of the kernel
    Nadie,          \* nobody holds mutex_cache
    Marcos,         \* memoria_config->marcos
    Reservados,     \* frames the table itself takes
    EntradasCache,  \* memoria_config->entradasCache
    CacheXProc,     \* memoria_config->cacheXProc
    Valores,        \* what a page can hold
    MaxPagina,      \* bound: highest page number a request names
    MaxIniciales,   \* bound: pages a program starts with
    MaxPedidas,     \* bound: pages of heap asked for at once
    Eventos         \* the disturbances this instance lets happen

Hilos == Cpus \cup {Kernel}
Paginas == 0..MaxPagina
MarcosTodos == 0..(Marcos - 1)
Disturbios == {"flush", "hueco", "punteroColgado", "finEnVuelo"}

ASSUME ProcesosAssumption == Procesos \subseteq Nat /\ IsFiniteSet(Procesos)
ASSUME HilosAssumption == Kernel \notin Cpus /\ Nadie \notin Hilos
ASSUME MarcosAssumption == Marcos \in Nat \ {0} /\ Reservados \in 0..Marcos
ASSUME CacheAssumption ==
    EntradasCache \in Nat \ {0} /\ CacheXProc \in Nat \ {0}
ASSUME ValoresAssumption == Valores # {}
ASSUME PaginasAssumption == MaxPagina \in Nat /\ MaxPedidas \in Nat /\ MaxIniciales \in 0..(MaxPagina + 1)
ASSUME DisturbiosAssumption == Eventos \subseteq Disturbios

VARIABLES
    tabla,      \* owner of each frame: registroMarcoPagina
    marco,      \* contents of each frame
    cache,      \* cached pages, most recently used first
    contador,   \* cantidadPaginasCacheadas of each process
    vacios,     \* cantidadPaginasCacheadas of the first entry: free entries
    mutex,      \* holder of mutex_cache
    pc,         \* where the thread of each connection is
    pedido,     \* the request a thread works on
    encontrado, \* the frame it found for it, -1 before
    respuesta,  \* the last answer sent, and by which thread
    tarea,      \* the loop over pages the kernel's thread is in
    viva,       \* the process did not dereference NULL
    historia    \* auxiliary: what was done to each page of each process

gestion == <<cache, contador, vacios>>
vars == <<tabla, marco, cache, contador, vacios, mutex, pc, pedido,
          encontrado, respuesta, tarea, viva, historia>>

\* FRAME_VACIO and FRAME_RESERVADO as the owner of a frame.
Vacio == <<-1, 0>>
Reservado == <<-2, 0>>
Dueno == (Procesos \X Paginas) \cup {Vacio, Reservado}

EntradaCache == [pid : Procesos, pagina : Paginas, valor : Valores]

-----------------------------------------------------------------------------
(* The inverted page table.                                                *)

funcionHash(p, g) == (Marcos \div 100) * 4 + p * (Marcos \div 18) + g

Inicio(p, g) ==
    IF funcionHash(p, g) >= Marcos THEN Marcos - 1 ELSE funcionHash(p, g)

\* The first frame of S that a circular search from ini meets.
Primero(ini, S) ==
    CHOOSE f \in S : \A e \in S : (f - ini) % Marcos <= (e - ini) % Marcos

MarcosDe(p, g) == {f \in MarcosTodos : tabla[f] = <<p, g>>}
MarcosVacios == {f \in MarcosTodos : tabla[f] = Vacio}
PaginasAsignadas(p) ==
    Cardinality({f \in MarcosTodos : tabla[f] \in {p} \X Paginas})

\* Mutant: the frame the hash says, without looking at its entry.
DefectoBuscarIndice(p, g) == IF MarcosDe(p, g) = {} THEN -1 ELSE Inicio(p, g)

\* buscarIndiceEnPaginaDeFrames, -1 when the page has no frame.
BuscarIndice(p, g) ==
    IF MarcosDe(p, g) = {} THEN -1 ELSE Primero(Inicio(p, g), MarcosDe(p, g))

-----------------------------------------------------------------------------
(* The cache.  A function of the three counters and lists to their next    *)
(* value; "viva" tells that no NULL was dereferenced on the way.           *)

PosicionEnCache(p, g) ==
    {i \in 1..Len(cache) : cache[i].pid = p /\ cache[i].pagina = g}
Cacheada(p, g) == PosicionEnCache(p, g) # {}
\* The entry leerCache stops at.
Acierto(p, g) ==
    CHOOSE i \in PosicionEnCache(p, g) : \A j \in PosicionEnCache(p, g) : i <= j

\* A hit moves the entry to the front, as it is or rewritten.
AlFrente(i, v) ==
    <<[cache[i] EXCEPT !.valor = v]>> \o RemoveAt(cache, i)

PaginasCacheadas(c, p) == {i \in 1..Len(c) : c[i].pid = p}

\* The n-th of the positions in S, from the front.
Enesima(S, n) == CHOOSE i \in S : Cardinality({j \in S : j <= i}) = n

\* desalojarLocalmente: the entry of p at which the count gets to cacheXProc.
DesalojarLocalmente(e, p) ==
    LET suyas == PaginasCacheadas(e.cache, p)
    IN IF Cardinality(suyas) < CacheXProc THEN [e EXCEPT !.viva = FALSE]
       ELSE [e EXCEPT !.cache = RemoveAt(@, Enesima(suyas, CacheXProc))]

\* The loop of limpiarCachePorPid: what is left keeps its order.
SinEntradasDe(p) ==
    LET quedan == (1..Len(cache)) \ PaginasCacheadas(cache, p)
    IN [n \in 1..Cardinality(quedan) |-> cache[Enesima(quedan, n)]]

\* Mutant: the owner of the entry is still charged for it.
DefectoDesalojarGlobalmente(e) ==
    IF e.cache = <<>> THEN [e EXCEPT !.viva = FALSE]
    ELSE [e EXCEPT !.cache = SubSeq(@, 1, Len(@) - 1)]

\* desalojarGlobalmente: the least recently used entry, whoever owns it.
DesalojarGlobalmente(e) ==
    IF e.cache = <<>> THEN [e EXCEPT !.viva = FALSE]
    ELSE [e EXCEPT !.contador[e.cache[Len(e.cache)].pid] = @ - 1,
                   !.cache = SubSeq(@, 1, Len(@) - 1)]

\* A process with no counter of its own and one whose counter is 0 are
\* treated the same everywhere, so contador is total.
eliminarRegistroCacheLRU(e, p) ==
    LET enCuota == e.contador[p] = CacheXProc
        contado == [e EXCEPT !.contador[p] = @ + 1]
    IN CASE enCuota /\ e.vacios > 0 ->
              [DesalojarLocalmente(e, p) EXCEPT !.vacios = @ - 1]
         [] enCuota /\ e.vacios = 0 -> DesalojarLocalmente(e, p)
         [] ~enCuota /\ e.vacios > 0 -> [contado EXCEPT !.vacios = @ - 1]
         [] OTHER -> DesalojarGlobalmente(contado)

EstadoCache == [cache |-> cache, contador |-> contador, vacios |-> vacios,
                viva |-> viva]

escribirCache(p, g, v) ==
    LET e == eliminarRegistroCacheLRU(EstadoCache, p)
    IN IF e.viva
       THEN [e EXCEPT !.cache = <<[pid |-> p, pagina |-> g, valor |-> v]>> \o @]
       ELSE e

-----------------------------------------------------------------------------
(* Requests and answers.                                                   *)

SinPedido == [tipo |-> "nada"]
Pedido == [tipo : {"lee"}, pid : Procesos, pagina : Paginas]
            \cup [tipo : {"escribe"}, pid : Procesos, pagina : Paginas,
                  valor : Valores]
            \cup {SinPedido}
Dice(q) == [que |-> q]
Lectura(v) == [que |-> "LECTURA_SATISFACTORIA", valor |-> v]
SinRespuesta == <<Nadie, Dice("nada")>>
Respuesta ==
    {Dice(q) : q \in {"nada", "ERROR_EN_ESCRITURA", "ERROR_EN_LECTURA",
        "ESCRITURA_SATISFACTORIA", "MEMORIA_INSUFICIENTE", "PAGINAS_ASIGNADAS",
        "PAGINA_LIBERADA", "PAGINA_NO_LIBERADA",
        "ELIMINACION_DE_PROCESO_SATISFACTORIO"}}
      \cup {Lectura(v) : v \in Valores}

SinTarea == [tipo |-> "nada"]
Tarea == [tipo : {"iniciar", "asignar", "deshacer", "finalizar"},
          pid : Procesos, base : Nat, desde : Nat, hasta : Nat, cuantas : Nat]
            \cup {SinTarea}

Init ==
    /\ tabla = [f \in MarcosTodos |-> IF f < Reservados THEN Reservado ELSE Vacio]
    /\ \E v \in Valores : marco = [f \in MarcosTodos |-> v]
    /\ cache = <<>>
    /\ contador = [p \in Procesos |-> 0]
    /\ vacios = EntradasCache
    /\ mutex = Nadie
    /\ pc = [h \in Hilos |-> "libre"]
    /\ pedido = [h \in Hilos |-> SinPedido]
    /\ encontrado = [h \in Hilos |-> -1]
    /\ respuesta = SinRespuesta
    /\ tarea = SinTarea
    /\ viva = TRUE
    /\ historia = [p \in Procesos |-> [g \in Paginas |-> "nunca"]]

EnVuelo(p) == \E h \in Hilos : pedido[h] # SinPedido /\ pedido[h].pid = p
EnTarea(p) == tarea # SinTarea /\ tarea.pid = p
Tocada(p, g) == historia[p][g] \in {"asignada", "escrita"}
Viva(p) == \E g \in Paginas : Tocada(p, g)

\* The next request of a connection.  A process runs on one CPU, which waits
\* for the kernel while the kernel works for the process, so no two requests
\* are of one process.  A program names its own pages, pages it never had
\* and, with "punteroColgado", pages it gave back.
Recibir(h, r) ==
    /\ viva /\ pc[h] = "libre"
    /\ h = Kernel => tarea = SinTarea
    /\ Viva(r.pid) /\ ~EnVuelo(r.pid) /\ ~EnTarea(r.pid)
    /\ historia[r.pid][r.pagina] = "liberada" => "punteroColgado" \in Eventos
    /\ pc' = [pc EXCEPT ![h] = "recibido"]
    /\ pedido' = [pedido EXCEPT ![h] = r]
    /\ respuesta' = SinRespuesta
    /\ UNCHANGED <<tabla, marco, gestion, mutex, encontrado, tarea, viva, historia>>

Pide(h, tipo) == viva /\ pc[h] = "recibido" /\ pedido[h].tipo = tipo

Responder(h, r) ==
    /\ respuesta' = <<h, r>>
    /\ pc' = [pc EXCEPT ![h] = "libre"]
    /\ pedido' = [pedido EXCEPT ![h] = SinPedido]
    /\ encontrado' = [encontrado EXCEPT ![h] = -1]

-----------------------------------------------------------------------------
(* leerDato and escribirDato, by the thread of a CPU or of the kernel.     *)

LeerDeCache(h) ==
    LET p == pedido[h].pid
        g == pedido[h].pagina
    IN /\ Pide(h, "lee") /\ mutex = Nadie
       /\ Cacheada(p, g)
       /\ cache' = AlFrente(Acierto(p, g), cache[Acierto(p, g)].valor)
       /\ Responder(h, Lectura(cache[Acierto(p, g)].valor))
       /\ UNCHANGED <<tabla, marco, contador, vacios, mutex, tarea, viva, historia>>

LeerSinMarco(h) ==
    LET p == pedido[h].pid
        g == pedido[h].pagina
    IN /\ Pide(h, "lee") /\ mutex = Nadie
       /\ ~Cacheada(p, g)
       /\ BuscarIndice(p, g) = -1
       /\ Responder(h, Dice("ERROR_EN_LECTURA"))
       /\ UNCHANGED <<tabla, marco, gestion, mutex, tarea, viva, historia>>

\* A miss: the frame is found and mutex_cache stays taken during the delay.
LeerFallaCache(h) ==
    LET p == pedido[h].pid
        g == pedido[h].pagina
    IN /\ Pide(h, "lee") /\ mutex = Nadie
       /\ ~Cacheada(p, g)
       /\ BuscarIndice(p, g) # -1
       /\ mutex' = h
       /\ pc' = [pc EXCEPT ![h] = "leyendo"]
       /\ encontrado' = [encontrado EXCEPT ![h] = BuscarIndice(p, g)]
       /\ UNCHANGED <<tabla, marco, gestion, pedido, respuesta, tarea, viva,
                      historia>>

\* Mutant: mutex_cache is never given back.
DefectoLeerDeMarco(h) ==
    LET v == marco[encontrado[h]]
        e == escribirCache(pedido[h].pid, pedido[h].pagina, v)
    IN /\ viva /\ pc[h] = "leyendo"
       /\ cache' = e.cache /\ contador' = e.contador
       /\ vacios' = e.vacios /\ viva' = e.viva
       /\ Responder(h, Lectura(v))
       /\ UNCHANGED <<tabla, marco, mutex, tarea, historia>>

\* The page goes to the cache and the answer leaves; with no entry to evict
\* where the counters promise one, the process ends here.
LeerDeMarco(h) ==
    LET v == marco[encontrado[h]]
        e == escribirCache(pedido[h].pid, pedido[h].pagina, v)
    IN /\ viva /\ pc[h] = "leyendo"
       /\ cache' = e.cache /\ contador' = e.contador
       /\ vacios' = e.vacios /\ viva' = e.viva
       /\ IF e.viva
          THEN mutex' = Nadie /\ Responder(h, Lectura(v))
          ELSE UNCHANGED <<mutex, pc, pedido, encontrado, respuesta>>
       /\ UNCHANGED <<tabla, marco, tarea, historia>>

EscribirSinMarco(h) ==
    /\ Pide(h, "escribe")
    /\ BuscarIndice(pedido[h].pid, pedido[h].pagina) = -1
    /\ Responder(h, Dice("ERROR_EN_ESCRITURA"))
    /\ UNCHANGED <<tabla, marco, gestion, mutex, tarea, viva, historia>>

\* The frame is found before the delay and without the lock.
EscribirBuscaMarco(h) ==
    LET f == BuscarIndice(pedido[h].pid, pedido[h].pagina)
    IN /\ Pide(h, "escribe") /\ f # -1
       /\ pc' = [pc EXCEPT ![h] = "escribiendo"]
       /\ encontrado' = [encontrado EXCEPT ![h] = f]
       /\ UNCHANGED <<tabla, marco, gestion, mutex, pedido, respuesta, tarea,
                      viva, historia>>

\* Mutant: the cached copy is left as it was.
DefectoEscribirEnMarco(h) ==
    /\ viva /\ pc[h] = "escribiendo" /\ mutex = Nadie
    /\ marco' = [marco EXCEPT ![encontrado[h]] = pedido[h].valor]
    /\ historia' = [historia EXCEPT ![pedido[h].pid][pedido[h].pagina] =
                        IF @ = "asignada" THEN "escrita" ELSE @]
    /\ Responder(h, Dice("ESCRITURA_SATISFACTORIA"))
    /\ UNCHANGED <<tabla, cache, contador, vacios, mutex, tarea, viva>>

EscribirEnMarco(h) ==
    LET r == pedido[h]
    IN /\ viva /\ pc[h] = "escribiendo" /\ mutex = Nadie
       /\ marco' = [marco EXCEPT ![encontrado[h]] = r.valor]
       /\ cache' = IF Cacheada(r.pid, r.pagina)
                   THEN AlFrente(Acierto(r.pid, r.pagina), r.valor) ELSE cache
       /\ historia' = [historia EXCEPT ![r.pid][r.pagina] =
                           IF @ = "asignada" THEN "escrita" ELSE @]
       /\ Responder(h, Dice("ESCRITURA_SATISFACTORIA"))
       /\ UNCHANGED <<tabla, contador, vacios, mutex, tarea, viva>>

-----------------------------------------------------------------------------
(* The kernel's thread: pages given and taken, one table entry per step.   *)

KernelLibre == viva /\ pc[Kernel] = "libre" /\ tarea = SinTarea
Contesta(q) == respuesta' = <<Kernel, Dice(q)>>

\* INICIALIZAR_PROGRAMA: crearPaginasIniciales starts its loop.
InicializarPrograma(p, n) ==
    /\ KernelLibre
    /\ \A g \in Paginas : historia[p][g] = "nunca"
    /\ tarea' = [tipo |-> "iniciar", pid |-> p, base |-> 0, desde |-> 0, hasta |-> n,
                 cuantas |-> n]
    /\ respuesta' = SinRespuesta
    /\ UNCHANGED <<tabla, marco, gestion, mutex, pc, pedido, encontrado, viva,
                   historia>>

\* PEDIDO_ASIGNAR_PAGINAS: n pages numbered from c.
AsignarDesde(p, n, c) ==
    /\ KernelLibre
    /\ Viva(p) /\ ~EnVuelo(p)
    /\ PaginasAsignadas(p) + n - 1 <= MaxPagina
    /\ tarea' = [tipo |-> "asignar", pid |-> p, base |-> c, desde |-> c,
                 hasta |-> c + n, cuantas |-> n]
    /\ respuesta' = SinRespuesta
    /\ UNCHANGED <<tabla, marco, gestion, mutex, pc, pedido, encontrado,
                   viva, historia>>

\* asignarPaginasDeHeap starts its loop: the new pages are numbered from how
\* many pages the process has.
AsignarPaginasDeHeap(p, n) == AsignarDesde(p, n, PaginasAsignadas(p))

Asignando ==
    viva /\ tarea # SinTarea /\ tarea.tipo \in {"iniciar", "asignar"}

\* escribirEnTablaDeFrame with vaciar = 0: once around the loop.
AsignarUna ==
    LET p == tarea.pid
        g == tarea.desde
        f == Primero(Inicio(p, g), MarcosVacios)
    IN /\ Asignando /\ tarea.desde < tarea.hasta
       /\ MarcosVacios # {}
       /\ tabla' = [tabla EXCEPT ![f] = <<p, g>>]
       /\ historia' = [historia EXCEPT ![p][g] = "asignada"]
       /\ tarea' = [tarea EXCEPT !.desde = @ + 1]
       /\ UNCHANGED <<marco, gestion, mutex, pc, pedido, encontrado, respuesta,
                      viva>>

AsignadasTodas ==
    /\ Asignando /\ tarea.desde = tarea.hasta
    /\ Contesta("PAGINAS_ASIGNADAS")
    /\ tarea' = SinTarea
    /\ UNCHANGED <<tabla, marco, gestion, mutex, pc, pedido, encontrado, viva,
                   historia>>

SinPaginasDe(p) ==
    [f \in MarcosTodos |-> IF tabla[f] \in {p} \X Paginas THEN Vacio ELSE tabla[f]]

\* Mutant: the pages it got stay with it.
DefectoIniciarSinMarcos ==
    /\ Asignando /\ tarea.tipo = "iniciar" /\ tarea.desde < tarea.hasta
    /\ MarcosVacios = {}
    /\ Contesta("MEMORIA_INSUFICIENTE")
    /\ tarea' = SinTarea
    /\ UNCHANGED <<tabla, marco, gestion, mutex, pc, pedido, encontrado, viva,
                   historia>>

\* crearPaginasIniciales with no empty frame: eliminarPaginasDeProceso.
IniciarSinMarcos ==
    /\ Asignando /\ tarea.tipo = "iniciar" /\ tarea.desde < tarea.hasta
    /\ MarcosVacios = {}
    /\ tabla' = SinPaginasDe(tarea.pid)
    /\ historia' = [historia EXCEPT ![tarea.pid] = [g \in Paginas |-> "nunca"]]
    /\ Contesta("MEMORIA_INSUFICIENTE")
    /\ tarea' = SinTarea
    /\ UNCHANGED <<marco, gestion, mutex, pc, pedido, encontrado, viva>>

\* Mutant: the loop starts again instead of giving up.
DefectoAsignarSinMarcos ==
    /\ Asignando /\ tarea.tipo = "asignar" /\ tarea.desde < tarea.hasta
    /\ MarcosVacios = {}
    /\ tarea' = [tarea EXCEPT !.desde = tarea.base]
    /\ UNCHANGED <<tabla, marco, gestion, mutex, pc, pedido, encontrado,
                   respuesta, viva, historia>>

\* asignarPaginasDeHeap with no empty frame: its pages go back one by one.
AsignarSinMarcos ==
    /\ Asignando /\ tarea.tipo = "asignar" /\ tarea.desde < tarea.hasta
    /\ MarcosVacios = {}
    /\ tarea' = [tarea EXCEPT !.tipo = "deshacer", !.desde = tarea.base,
                              !.hasta = tarea.desde]
    /\ UNCHANGED <<tabla, marco, gestion, mutex, pc, pedido, encontrado,
                   respuesta, viva, historia>>

Deshaciendo == viva /\ tarea # SinTarea /\ tarea.tipo = "deshacer"

\* escribirEnTablaDeFrame with vaciar = 1.
Vaciada(p, g) ==
    IF MarcosDe(p, g) = {} THEN tabla
    ELSE [tabla EXCEPT ![Primero(Inicio(p, g), MarcosDe(p, g))] = Vacio]

DeshacerUna ==
    /\ Deshaciendo /\ tarea.desde < tarea.hasta
    /\ tabla' = Vaciada(tarea.pid, tarea.desde)
    /\ historia' = [historia EXCEPT ![tarea.pid][tarea.desde] = "liberada"]
    /\ tarea' = [tarea EXCEPT !.desde = @ + 1]
    /\ UNCHANGED <<marco, gestion, mutex, pc, pedido, encontrado, respuesta, viva>>

DeshechasTodas ==
    /\ Deshaciendo /\ tarea.desde = tarea.hasta
    /\ Contesta("MEMORIA_INSUFICIENTE")
    /\ tarea' = SinTarea
    /\ UNCHANGED <<tabla, marco, gestion, mutex, pc, pedido, encontrado, viva,
                   historia>>

\* LIBERAR_PAGINA, for pages of the heap; the cache keeps its copy.  Without
\* "hueco" only the last page of a process is given back.
LiberarPagina(p, g) ==
    /\ KernelLibre
    /\ Viva(p) /\ ~EnVuelo(p)
    /\ g >= 1
    /\ g = PaginasAsignadas(p) - 1 \/ "hueco" \in Eventos
    /\ tabla' = Vaciada(p, g)
    /\ Contesta(IF MarcosDe(p, g) = {} THEN "PAGINA_NO_LIBERADA"
                                       ELSE "PAGINA_LIBERADA")
    /\ historia' = [historia EXCEPT ![p][g] = IF @ = "nunca" THEN @ ELSE "liberada"]
    /\ UNCHANGED <<marco, gestion, mutex, pc, pedido, encontrado, tarea, viva>>

\* FINALIZAR_PROGRAMA: limpiarCachePorPid under the lock, then the table
\* without it.  The kernel sends it when no CPU runs the process or, with
\* "finEnVuelo", when the CPU that ran it is lost and its request is not over.
Finalizar(p) ==
    /\ KernelLibre /\ mutex = Nadie
    /\ Viva(p)
    /\ EnVuelo(p) => "finEnVuelo" \in Eventos
    /\ cache' = SinEntradasDe(p)
    /\ contador' = [contador EXCEPT ![p] = 0]
    /\ tarea' = [tipo |-> "finalizar", pid |-> p, base |-> 0, desde |-> 0, hasta |-> 0,
                 cuantas |-> 0]
    /\ respuesta' = SinRespuesta
    /\ UNCHANGED <<tabla, marco, vacios, mutex, pc, pedido, encontrado, viva, historia>>

EliminarPaginasDeProceso ==
    /\ viva /\ tarea # SinTarea /\ tarea.tipo = "finalizar"
    /\ tabla' = SinPaginasDe(tarea.pid)
    /\ historia' = [historia EXCEPT ![tarea.pid] = [g \in Paginas |-> "liberada"]]
    /\ Contesta("ELIMINACION_DE_PROCESO_SATISFACTORIO")
    /\ tarea' = SinTarea
    /\ UNCHANGED <<marco, gestion, mutex, pc, pedido, encontrado, viva>>

\* The operator's flush.
FlushCache ==
    /\ viva /\ "flush" \in Eventos /\ mutex = Nadie
    /\ cache' = <<>>
    /\ vacios' = EntradasCache
    /\ UNCHANGED <<tabla, marco, contador, mutex, pc, pedido, encontrado,
                   respuesta, tarea, viva, historia>>

Hilo(h) ==
    \/ \E r \in Pedido \ {SinPedido} : Recibir(h, r)
    \/ LeerDeCache(h) \/ LeerSinMarco(h) \/ LeerFallaCache(h) \/ LeerDeMarco(h)
    \/ EscribirSinMarco(h) \/ EscribirBuscaMarco(h) \/ EscribirEnMarco(h)

LazoDePaginas ==
    \/ AsignarUna \/ AsignadasTodas \/ IniciarSinMarcos \/ AsignarSinMarcos
    \/ DeshacerUna \/ DeshechasTodas \/ EliminarPaginasDeProceso

PedidoDelKernel ==
    \E p \in Procesos :
        \/ \E n \in 1..MaxIniciales : InicializarPrograma(p, n)
        \/ \E n \in 1..MaxPedidas : AsignarPaginasDeHeap(p, n)
        \/ \E g \in Paginas : LiberarPagina(p, g)
        \/ Finalizar(p)

Next ==
    \/ \E h \in Hilos : Hilo(h)
    \/ LazoDePaginas
    \/ PedidoDelKernel
    \/ FlushCache

Spec == Init /\ [][Next]_vars

\* A thread that can go on goes on.  pthread_mutex_lock is taken to be
\* strongly fair: the thread that lets mutex_cache go has to answer through
\* its socket and wait for the next request before it competes again.
SinEspera(h) == LeerDeMarco(h) \/ EscribirSinMarco(h) \/ EscribirBuscaMarco(h)
ConMutex(h) ==
    LeerDeCache(h) \/ LeerSinMarco(h) \/ LeerFallaCache(h) \/ EscribirEnMarco(h)
SpecJusta ==
    /\ Spec
    /\ \A h \in Hilos : WF_vars(SinEspera(h)) /\ SF_vars(ConMutex(h))
    /\ WF_vars(LazoDePaginas)

-----------------------------------------------------------------------------
(* Properties.                                                             *)

TypeOK ==
    /\ tabla \in [MarcosTodos -> Dueno]
    /\ marco \in [MarcosTodos -> Valores]
    /\ cache \in Seq(EntradaCache)
    /\ contador \in [Procesos -> Nat]
    /\ vacios \in 0..EntradasCache
    /\ mutex \in Hilos \cup {Nadie}
    /\ pc \in [Hilos -> {"libre", "recibido", "leyendo", "escribiendo"}]
    /\ pedido \in [Hilos -> Pedido]
    /\ encontrado \in [Hilos -> MarcosTodos \cup {-1}]
    /\ respuesta \in (Hilos \cup {Nadie}) \X Respuesta
    /\ tarea \in Tarea
    /\ viva \in BOOLEAN
    /\ historia \in [Procesos -> [Paginas ->
                       {"nunca", "asignada", "escrita", "liberada"}]]

\* A frame found before the delay of a request is still the frame of that
\* page when the delay is over: nobody else's page is read or written.
MarcoSigueSiendoSuyo ==
    \A h \in Hilos : pc[h] \in {"leyendo", "escribiendo"} =>
        tabla[encontrado[h]] = <<pedido[h].pid, pedido[h].pagina>>

\* A cached copy of a page somebody wrote says what its frame says.
CacheCoherente ==
    viva => \A i \in 1..Len(cache), f \in MarcosTodos :
        LET e == cache[i] IN
        tabla[f] = <<e.pid, e.pagina>> /\ historia[e.pid][e.pagina] = "escrita"
            => e.valor = marco[f]

\* The counters have their range and tell the truth: no page is cached twice,
\* each process has in the cache as many pages as its counter says, and no more
\* than its share; the cache does not outgrow its entries.
CuentasDeCache ==
    /\ TypeOK
    /\ \A i, j \in 1..Len(cache) :
         cache[i].pid = cache[j].pid /\ cache[i].pagina = cache[j].pagina => i = j
    /\ viva => /\ Len(cache) + vacios <= EntradasCache
               /\ \A p \in Procesos :
                    /\ contador[p] = Cardinality(PaginasCacheadas(cache, p))
                    /\ contador[p] <= CacheXProc

\* The memory process only dies for entries lost for good: a local eviction
\* spends one of the free entries and nothing gives them back.
SoloCaePorEntradasPerdidas == ~viva => vacios = 0 /\ cache = <<>>

\* The promise of the component.
EnCurso(p, g) ==
    /\ EnTarea(p) /\ tarea.tipo # "finalizar"
    /\ g >= tarea.base
    /\ IF tarea.tipo = "deshacer" THEN g < tarea.hasta ELSE g < tarea.desde
Contenido ==
    [p \in Procesos |-> [g \in Paginas |->
        IF EnCurso(p, g) \/ MarcosDe(p, g) = {} THEN [hay |-> "libre"]
        ELSE IF historia[p][g] = "escrita"
             THEN [hay |-> "valor", valor |-> marco[BuscarIndice(p, g)]]
             ELSE [hay |-> "indefinido"]]]
Solicitud ==
    IF tarea # SinTarea /\ tarea.tipo # "finalizar"
    THEN [pid |-> tarea.pid, cuantas |-> tarea.cuantas]
    ELSE [cuantas |-> 0]
Abstracta == INSTANCE MemoriaPaginada
    WITH contenido <- Contenido, solicitud <- Solicitud,
         Capacidad <- Marcos - Reservados
Promesa == Abstracta!Spec

\* Every request is answered, unless the memory process dies.
PedidoAtendido ==
    \A h \in Hilos : (pedido[h] # SinPedido) ~> (pedido[h] = SinPedido \/ ~viva)

\* Every loop over pages of the kernel's thread ends with an answer.
TareaTermina == (tarea # SinTarea) ~> (tarea = SinTarea \/ ~viva)

\* memoria.c:23 offers the operator "Realiza un flush de la memoria cache":
\* a command of the normal use of the process, after which it goes on.
MemoriaSobreviveAlFlush == viva
=============================================================================

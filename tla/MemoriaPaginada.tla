--------------------------- MODULE MemoriaPaginada ---------------------------
(***************************************************************************)
(* What the memory process promises to the kernel and the CPUs, without    *)
(* frames, cache or locks: each page of each process is a cell that holds  *)
(* what was last written, requests of several connections are each done at *)
(* one instant, and pages are granted all together or not at all.          *)
(***************************************************************************)
EXTENDS Integers, FiniteSets

CONSTANTS Procesos, Cpus, Kernel, Nadie, Valores, MaxPagina, Capacidad

VARIABLES
    contenido,  \* what each page of each process holds
    pedido,     \* the request of each connection
    solicitud,  \* the pages the kernel asked for and has no answer about
    respuesta   \* the last answer, and to which connection

vars == <<contenido, pedido, solicitud, respuesta>>

Hilos == Cpus \cup {Kernel}
Paginas == 0..MaxPagina
Libre == [hay |-> "libre"]
Indefinido == [hay |-> "indefinido"]
Valor(v) == [hay |-> "valor", valor |-> v]

SinPedido == [tipo |-> "nada"]
SinSolicitud == [cuantas |-> 0]
Dice(q) == [que |-> q]
Lectura(v) == [que |-> "LECTURA_SATISFACTORIA", valor |-> v]
SinRespuesta == <<Nadie, Dice("nada")>>

De(p) == {g \in Paginas : contenido[p][g] # Libre}
Ocupadas == {pg \in Procesos \X Paginas : contenido[pg[1]][pg[2]] # Libre}
Ajeno(p) == \A h \in Hilos : pedido[h] # SinPedido => pedido[h].pid # p

Init ==
    /\ contenido = [p \in Procesos |-> [g \in Paginas |-> Libre]]
    /\ pedido = [h \in Hilos |-> SinPedido]
    /\ solicitud = SinSolicitud
    /\ respuesta = SinRespuesta

Recibir(h) ==
    /\ pedido[h] = SinPedido
    /\ pedido'[h] # SinPedido
    /\ Ajeno(pedido'[h].pid)
    /\ pedido' = [pedido EXCEPT ![h] = pedido'[h]]
    /\ respuesta' = SinRespuesta
    /\ UNCHANGED <<contenido, solicitud>>

Responder(h, r) ==
    /\ respuesta' = <<h, r>>
    /\ pedido' = [pedido EXCEPT ![h] = SinPedido]
    /\ UNCHANGED solicitud

\* A read sees the last write; a page nobody wrote may hold anything.
Leer(h) ==
    /\ pedido[h] # SinPedido /\ pedido[h].tipo = "lee"
    /\ LET c == contenido[pedido[h].pid][pedido[h].pagina] IN
        IF c = Libre THEN Responder(h, Dice("ERROR_EN_LECTURA"))
        ELSE \E v \in Valores : c \in {Valor(v), Indefinido} /\ Responder(h, Lectura(v))
    /\ UNCHANGED contenido

Escribir(h) ==
    LET r == pedido[h] IN
    /\ r # SinPedido /\ r.tipo = "escribe"
    /\ IF contenido[r.pid][r.pagina] = Libre
       THEN UNCHANGED contenido /\ Responder(h, Dice("ERROR_EN_ESCRITURA"))
       ELSE /\ contenido' = [contenido EXCEPT ![r.pid][r.pagina] = Valor(r.valor)]
            /\ Responder(h, Dice("ESCRITURA_SATISFACTORIA"))

\* The kernel asks about pages, with no other question of its own pending:
\* the first instant of a request is its reception.
SinPreguntas == pedido[Kernel] = SinPedido /\ solicitud = SinSolicitud

Espera ==
    /\ SinPreguntas
    /\ respuesta' = SinRespuesta
    /\ UNCHANGED <<contenido, pedido, solicitud>>

Solicitar(p, n) ==
    /\ SinPreguntas
    /\ solicitud' = [pid |-> p, cuantas |-> n]
    /\ respuesta' = SinRespuesta
    /\ UNCHANGED <<contenido, pedido>>

Contesta(q) ==
    /\ pedido[Kernel] = SinPedido
    /\ respuesta' = <<Kernel, Dice(q)>>
    /\ solicitud' = SinSolicitud
    /\ UNCHANGED pedido

\* The n pages asked for p, numbered after the ones it has: the answer is yes
\* exactly when they all fit.
Asignar(p, n) ==
    LET c == Cardinality(De(p)) IN
    /\ solicitud = [pid |-> p, cuantas |-> n]
    /\ Ajeno(p)
    /\ IF Cardinality(Ocupadas) + n <= Capacidad
       THEN /\ contenido' = [contenido EXCEPT ![p] =
                  [g \in Paginas |-> IF g \in c..(c + n - 1) THEN Indefinido ELSE @[g]]]
            /\ Contesta("PAGINAS_ASIGNADAS")
       ELSE /\ UNCHANGED contenido
            /\ Contesta("MEMORIA_INSUFICIENTE")

Liberar(p, g) ==
    /\ SinPreguntas /\ Ajeno(p)
    /\ contenido' = [contenido EXCEPT ![p][g] = Libre]
    /\ Contesta(IF contenido[p][g] = Libre THEN "PAGINA_NO_LIBERADA" ELSE "PAGINA_LIBERADA")

Finalizar(p) ==
    /\ SinPreguntas /\ Ajeno(p)
    /\ contenido' = [contenido EXCEPT ![p] = [g \in Paginas |-> Libre]]
    /\ Contesta("ELIMINACION_DE_PROCESO_SATISFACTORIO")

Next ==
    \/ \E h \in Hilos : Recibir(h) \/ Leer(h) \/ Escribir(h)
    \/ Espera
    \/ \E p \in Procesos :
        \/ \E n \in 1..(MaxPagina + 1) : Solicitar(p, n) \/ Asignar(p, n)
        \/ \E g \in Paginas : Liberar(p, g)
        \/ Finalizar(p)

Spec == Init /\ [][Next]_vars
=============================================================================

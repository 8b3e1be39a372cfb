-------------------------------- MODULE Cpu ---------------------------------
(***************************************************************************)
(* A process as the CPUs run it: the loop of sentences, the AnSISOP        *)
(* primitives, the accesses to memory, and the messages with the kernel,   *)
(* whose only thread reads them one by one.  The PCB travels in them: each *)
(* side works on its own copy.  A process runs on one CPU at a time, and a *)
(* CPU without a program has nothing in its socket, so one pair of wires   *)
(* stands for those of the CPU that has it.                                *)
(***************************************************************************)
EXTENDS AccesoMemoria, Sequences, FiniteSets, SequencesExt

CONSTANTS
    Programas,      \* the scripts: sequences of sentences
    Cpus,
    PaginaDePila,   \* SP of the PCB: pages of code
    PaginasTotales, \* cantidad_paginas_totales
    Eventos         \* the disturbances this instance lets happen

Disturbios == {"migracion", "variablePartida", "asignarInexistente",
               "anidadas", "senalEnPedido", "stop"}

(* A sentence: prims, the primitives analizadorLinea calls for it; end, its *)
(* text contains "end"; ini and largo, where its text is.                   *)
ASSUME DisturbiosAssumption == Eventos \subseteq Disturbios
ASSUME PaginasAssumption ==
    /\ PaginaDePila \in Nat /\ PaginasTotales \in Nat
    /\ PaginaDePila <= PaginasTotales

VARIABLES
    programa,   \* the script
    pcbCpu,     \* pcbActual
    pcbKernel,  \* the copy in the kernel's queues
    cpu,        \* which one, where in its loop, and the flags of a sentence
    acceso,     \* the access to memory in course
    aKernel,    \* the socket, towards the kernel
    aCpu,       \* the socket, towards the CPU
    kernel,     \* what the kernel's thread is reading from this socket
    proceso,    \* where the process is: the queue its PCB is in
    activa,     \* planificacionActivada
    callada,    \* auxiliary: the kernel read a TERMINE_SENTENCIA for nothing
    hechos      \* auxiliary: the requests the kernel has answered

vars == <<programa, pcbCpu, pcbKernel, cpu, acceso, aKernel, aCpu, kernel,
          proceso, activa, callada, hechos>>

\* The messages the primitives send after the header of each request, and the
\* answers that bring one more.
Datos == [OBTENER_VALOR_COMPARTIDA |-> 2, ASIGNAR_VALOR_COMPARTIDA |-> 3,
          WAIT |-> 2, SIGNAL |-> 2, PEDIDO_BLOQUE_MEMORIA |-> 2,
          LIBERAR_BLOQUE |-> 2, PRIMITIVA_ABRIR_ARCHIVO |-> 4,
          PRIMITIVA_BORRAR_ARCHIVO |-> 2, PRIMITIVA_CERRAR_ARCHIVO |-> 2,
          PRIMITIVA_MOVER_CURSOR_ARCHIVO |-> 3, PRIMITIVA_ESCRIBIR_ARCHIVO |-> 4,
          PRIMITIVA_LEER_ARCHIVO |-> 3]
ConDato == {"OBTENER_VALOR_COMPARTIDA", "ASIGNAR_VALOR_COMPARTIDA",
            "PEDIDO_BLOQUE_MEMORIA", "PRIMITIVA_ABRIR_ARCHIVO", "PRIMITIVA_LEER_ARCHIVO"}

\* Mutant: the handler of liberar waits for one message more.
DefectoLecturas == [Datos EXCEPT !.LIBERAR_BLOQUE = 3]

\* The messages the handlers of the kernel read after the header.
Lecturas == [OBTENER_VALOR_COMPARTIDA |-> 2, ASIGNAR_VALOR_COMPARTIDA |-> 3,
             WAIT |-> 2, SIGNAL |-> 2, PEDIDO_BLOQUE_MEMORIA |-> 2,
             LIBERAR_BLOQUE |-> 2, PRIMITIVA_ABRIR_ARCHIVO |-> 4,
             PRIMITIVA_BORRAR_ARCHIVO |-> 2, PRIMITIVA_CERRAR_ARCHIVO |-> 2,
             PRIMITIVA_MOVER_CURSOR_ARCHIVO |-> 3, PRIMITIVA_ESCRIBIR_ARCHIVO |-> 4,
             PRIMITIVA_LEER_ARCHIVO |-> 3]
Pedidos == DOMAIN Lecturas

Saltos == {"irAlLabel", "llamarSinRetorno", "llamarConRetorno"}
ASSUME ProgramasAssumption ==
    \A p \in Programas : \A k \in DOMAIN p :
        /\ k \in Nat /\ p[k].ini \in Nat /\ p[k].largo \in Nat
        /\ Len(p[k].prims) \in Nat
        /\ \A j \in 1..Len(p[k].prims) :
            /\ p[k].prims[j].op \in Saltos => p[k].prims[j].etiqueta \in Nat
            /\ p[k].prims[j].op = "kernel" => p[k].prims[j].pedido \in Pedidos

\* "end" and "wait s" are lines of their own: analizadorLinea calls no other
\* primitive after theirs.
ASSUME SentenciasAssumption ==
    \A p \in Programas : \A k \in DOMAIN p : \A j \in 1..Len(p[k].prims) :
        \/ p[k].prims[j].op = "finalizar"
        \/ p[k].prims[j].op = "kernel" /\ p[k].prims[j].pedido = "WAIT"
        => j = Len(p[k].prims)

Cabeza(q) == [que |-> "cabeza", es |-> q]
Dato == [que |-> "dato"]
MsjPcb(p) == [que |-> "pcb", pcb |-> p]
Veces(n) == [k \in 1..n |-> Dato]

RegistroInicial == [ret |-> 0, destino |-> 0, vars |-> <<>>, args |-> <<>>]
PcbInicial ==
    [PC |-> 1, pila |-> <<RegistroInicial>>,
     pagina |-> PaginaDePila, pos |-> 0,    \* fin_stack
     sinRetorno |-> FALSE, anormal |-> FALSE, termino |-> FALSE]
CpuOciosa(c) == [nombre |-> c, fase |-> "ociosa", linea |-> 0, i |-> 1,
                 llamada |-> FALSE, wait |-> FALSE, cambio |-> FALSE]

Init ==
    /\ programa \in Programas
    /\ pcbCpu = PcbInicial /\ pcbKernel = PcbInicial
    /\ cpu \in {CpuOciosa(c) : c \in Cpus}
    /\ acceso = SinAcceso
    /\ aKernel = <<>> /\ aCpu = <<>>
    /\ kernel = [fase |-> "select"]
    /\ proceso = "listo"
    /\ activa = TRUE /\ callada = FALSE
    /\ hechos = <<>>

-----------------------------------------------------------------------------
(* Helpers of the primitives.                                              *)

En(f) == cpu.fase = f
Sentencia == programa[cpu.linea]    \* instruccionActual
Primitiva == Sentencia.prims[cpu.i]

\* analizadorLinea goes on calling primitives after an error; each returns at
\* its first test.
Ejecuta(op) ==
    /\ En("primitiva") /\ acceso = SinAcceso /\ ~pcbCpu.anormal
    /\ cpu.i <= Len(Sentencia.prims)
    /\ Primitiva.op = op
Sigue == cpu' = [cpu EXCEPT !.i = @ + 1]
Anormal == pcbCpu' = [pcbCpu EXCEPT !.anormal = TRUE]
SinMensajes ==
    UNCHANGED <<programa, pcbKernel, kernel, proceso, activa, callada, hechos>>
SinKernel == SinMensajes /\ UNCHANGED <<aKernel, aCpu>>

registroActual == Last(pcbCpu.pila)
EnCima(p, r) == [p EXCEPT !.pila = Append(Front(@), r)]

\* Mutant: the next page is the same one.
DefectoAvanzarFinPagina(p) ==
    [p EXCEPT !.pos = (@ + TamanioVariable) % TamanioPagina]

\* Mutant: room for the one byte of the name of a variable too.
DefectoAvanzarFinNombre(p) ==
    LET fin == p.pos + 1 + TamanioVariable IN
    IF fin >= TamanioPagina
    THEN [p EXCEPT !.pos = fin - TamanioPagina, !.pagina = @ + 1]
    ELSE [p EXCEPT !.pos = fin]

\* Past the end of its page fin_stack goes to the next one.
AvanzarFin(p) ==
    IF p.pos + TamanioVariable >= TamanioPagina
    THEN [p EXCEPT !.pos = @ + TamanioVariable - TamanioPagina, !.pagina = @ + 1]
    ELSE [p EXCEPT !.pos = @ + TamanioVariable]
FinDePila(p) == posicionMemoria_a_puntero(p.pagina, p.pos)

\* obtenerPosicionVariable: the first variable of that name, or the last one
\* there is; an argument, by its number, through a pointer that the PCB
\* carries as it is: only the CPU that allocated it can follow it.  Where
\* nothing is promised, any address.
Cualquiera == 0..(PaginasTotales * TamanioPagina)
Posiciones(id) ==
    LET vs == registroActual.vars
        iguales == {j \in 1..Len(vs) : vs[j].id = id}
    IN IF vs = <<>> THEN Cualquiera
       ELSE IF iguales = {} THEN {Last(vs).dir}
       ELSE {vs[j].dir : j \in {h \in iguales : \A g \in iguales : h <= g}}
PosicionesDeArgumento(n) ==
    LET as == registroActual.args IN
    IF n + 1 \in 1..Len(as) /\ as[n + 1].cpu = cpu.nombre THEN {as[n + 1].dir}
    ELSE Cualquiera
Direcciones(x) ==
    IF x.argumento THEN PosicionesDeArgumento(x.id) ELSE Posiciones(x.id)

-----------------------------------------------------------------------------
(* ejecutarPrograma: the sentence is fetched.                              *)

pedirInstruccionAMemoria ==
    /\ En("sentencia")
    /\ pcbCpu.PC \in DOMAIN programa
    /\ cpu' = [cpu EXCEPT !.fase = "primitiva", !.linea = pcbCpu.PC, !.i = 1,
                          !.llamada = FALSE, !.wait = FALSE]
    /\ LET s == programa[pcbCpu.PC] IN
         acceso' = AccesoNuevo("instruccion", s.ini, s.largo)
    /\ SinKernel /\ UNCHANGED pcbCpu

\* One request to memory and its answer.
PedirParte ==
    /\ acceso # SinAcceso /\ ~Completo(acceso)
    /\ acceso' = Siguiente(acceso)
    /\ SinKernel /\ UNCHANGED <<pcbCpu, cpu>>

Saliendo(p) == [p EXCEPT !.pila = Front(@), !.PC = Last(p.pila).ret]

\* retornar takes the register away whether the assignment worked or not.
AccesoFallido ==
    /\ acceso # SinAcceso /\ ~Completo(acceso)
    /\ acceso' = SinAcceso
    /\ pcbCpu' = [(IF acceso.tipo = "asignar" /\ Primitiva.op = "retornar"
                   THEN Saliendo(pcbCpu) ELSE pcbCpu) EXCEPT !.anormal = TRUE]
    /\ SinKernel /\ UNCHANGED cpu

AccesoTerminado ==
    /\ acceso # SinAcceso /\ Completo(acceso)
    /\ acceso' = SinAcceso
    /\ IF acceso.tipo = "instruccion" THEN UNCHANGED <<cpu, pcbCpu>>
       ELSE /\ Sigue
            /\ pcbCpu' = IF Primitiva.op = "retornar" THEN Saliendo(pcbCpu) ELSE pcbCpu
    /\ SinKernel

-----------------------------------------------------------------------------
(* The primitives.                                                         *)

HayPila == pcbCpu.pagina # PaginasTotales
definirVariable ==
    /\ Ejecuta("definir") /\ HayPila
    /\ pcbCpu.pos + TamanioVariable <= TamanioPagina \/ "variablePartida" \in Eventos
    /\ LET x == Primitiva
           r == registroActual
           fin == FinDePila(pcbCpu)
           nuevo == IF x.argumento
                    THEN [r EXCEPT !.args = Append(@, [dir |-> fin, cpu |-> cpu.nombre])]
                    ELSE [r EXCEPT !.vars = Append(@, [id |-> x.id, dir |-> fin])]
       IN pcbCpu' = AvanzarFin(EnCima(pcbCpu, nuevo))
    /\ Sigue
    /\ SinKernel /\ UNCHANGED acceso

\* EC = STACKOVERFLOW
DesbordarPila ==
    /\ Ejecuta("definir") /\ ~HayPila
    /\ Anormal
    /\ SinKernel /\ UNCHANGED <<cpu, acceso>>

\* obtenerPosicionVariable and then dereferenciar or asignar.
Acceder(op, tipo) ==
    /\ Ejecuta(op)
    /\ \E d \in Direcciones(Primitiva) : acceso' = AccesoNuevo(tipo, d, TamanioVariable)
    /\ SinKernel /\ UNCHANGED <<pcbCpu, cpu>>
dereferenciar == Acceder("dereferenciar", "leer")
asignar == Acceder("asignar", "asignar")

irAlLabel ==
    /\ Ejecuta("irAlLabel")
    /\ pcbCpu' = [pcbCpu EXCEPT !.PC = Primitiva.etiqueta]
    /\ cpu' = [cpu EXCEPT !.llamada = TRUE, !.i = @ + 1]
    /\ SinKernel /\ UNCHANGED acceso

Registro(destino) ==
    [ret |-> pcbCpu.PC, destino |-> destino, vars |-> <<>>, args |-> <<>>]
Llamar(destino, sinRetorno) ==
    /\ pcbCpu' = [pcbCpu EXCEPT !.pila = Append(@, Registro(destino)),
                                !.PC = Primitiva.etiqueta,
                                !.sinRetorno = sinRetorno]
    /\ cpu' = [cpu EXCEPT !.llamada = TRUE, !.i = @ + 1]
    /\ SinKernel /\ UNCHANGED acceso

llamarSinRetorno ==
    /\ Ejecuta("llamarSinRetorno")
    /\ ~pcbCpu.sinRetorno \/ "anidadas" \in Eventos
    /\ Llamar(0, TRUE)

llamarConRetorno ==
    /\ Ejecuta("llamarConRetorno")
    /\ \E d \in Posiciones(Primitiva.id) : Llamar(d, pcbCpu.sinRetorno)

retornar ==
    /\ Ejecuta("retornar") /\ Len(pcbCpu.pila) > 1
    /\ acceso' = AccesoNuevo("asignar", registroActual.destino, TamanioVariable)
    /\ SinKernel /\ UNCHANGED <<pcbCpu, cpu>>

\* Inside a call without return the primitive does nothing.
finalizar ==
    /\ Ejecuta("finalizar")
    /\ Sigue
    /\ IF pcbCpu.sinRetorno THEN UNCHANGED <<pcbCpu, aKernel>>
       ELSE /\ pcbCpu' = [pcbCpu EXCEPT !.termino = TRUE]
            /\ aKernel' = Append(aKernel, Cabeza("PROGRAMA_TERMINADO"))
    /\ SinMensajes /\ UNCHANGED <<acceso, aCpu>>

\* The other ones ask the kernel and wait for its answer.
PedirAlKernel ==
    /\ Ejecuta("kernel")
    /\ aKernel' = aKernel \o <<Cabeza(Primitiva.pedido)>> \o Veces(Datos[Primitiva.pedido])
    /\ cpu' = [cpu EXCEPT !.fase = "espera", !.wait = @ \/ Primitiva.pedido = "WAIT"]
    /\ SinMensajes /\ UNCHANGED <<pcbCpu, acceso, aCpu>>

Respuesta(q) == En("espera") /\ aCpu # <<>> /\ Head(aCpu) = Cabeza(q)
ConsumeRespuesta(n) ==
    /\ Len(aCpu) > n
    /\ aCpu' = SubSeq(aCpu, n + 2, Len(aCpu))
    /\ SinMensajes /\ UNCHANGED aKernel

RespuestaNo ==
    /\ Respuesta("NO")
    /\ ConsumeRespuesta(0)
    /\ Anormal
    /\ cpu' = [cpu EXCEPT !.fase = "primitiva"]
    /\ UNCHANGED acceso

\* leer leaves what it read where the program says.
RespuestaSi ==
    /\ Respuesta("SI") /\ Primitiva.pedido # "WAIT"
    /\ ConsumeRespuesta(IF Primitiva.pedido \in ConDato THEN 1 ELSE 0)
    /\ IF Primitiva.pedido = "PRIMITIVA_LEER_ARCHIVO"
       THEN /\ \E d \in Posiciones(Primitiva.id) :
                 acceso' = AccesoNuevo("asignar", d, TamanioVariable)
            /\ cpu' = [cpu EXCEPT !.fase = "primitiva"]
       ELSE /\ cpu' = [cpu EXCEPT !.fase = "primitiva", !.i = @ + 1]
            /\ UNCHANGED acceso
    /\ UNCHANGED pcbCpu

RespuestaWait(q) ==
    /\ Respuesta("SI") /\ Primitiva.pedido = "WAIT"
    /\ Len(aCpu) > 1 /\ aCpu[2] = Cabeza(q)
    /\ ConsumeRespuesta(1)
    /\ cpu' = [cpu EXCEPT !.fase = "primitiva", !.i = @ + 1,
                          !.cambio = @ \/ q = "CAMBIAR_PROCESO"]
    /\ UNCHANGED <<pcbCpu, acceso>>

-----------------------------------------------------------------------------
(* The end of a sentence.                                                  *)

SentenciaHecha ==
    /\ acceso = SinAcceso
    /\ En("primitiva") /\ (pcbCpu.anormal \/ cpu.i > Len(Sentencia.prims))

\* volverAlMain
Volver(p) ==
    IF p.sinRetorno /\ Sentencia.end THEN [Saliendo(p) EXCEPT !.sinRetorno = FALSE] ELSE p

\* Mutant: a program that ended asks whether to go on.
DefectoSentenciaTermina ==
    /\ SentenciaHecha /\ ~pcbCpu.anormal
    /\ pcbCpu' = Volver(pcbCpu)
    /\ cpu' = [cpu EXCEPT !.fase = "esperaTermine"]
    /\ aKernel' = Append(aKernel, Cabeza("TERMINE_SENTENCIA"))
    /\ SinMensajes /\ UNCHANGED <<acceso, aCpu>>

\* A procedure does not return a value too: there is a call to go back from.
SentenciaTermina ==
    /\ SentenciaHecha /\ ~pcbCpu.anormal /\ ~pcbCpu.termino
    /\ Sentencia.end /\ pcbCpu.sinRetorno => Len(pcbCpu.pila) > 1
    /\ pcbCpu' = Volver(pcbCpu)
    /\ IF cpu.wait
       THEN cpu' = [cpu EXCEPT !.fase = "avanza"] /\ UNCHANGED aKernel
       ELSE /\ cpu' = [cpu EXCEPT !.fase = "esperaTermine"]
            /\ aKernel' = Append(aKernel, Cabeza("TERMINE_SENTENCIA"))
    /\ SinMensajes /\ UNCHANGED <<acceso, aCpu>>

\* Mutant: the answer is read and not looked at.
DefectoTermineContestado(q) ==
    /\ En("esperaTermine") /\ aCpu # <<>> /\ Head(aCpu) = Cabeza(q)
    /\ ConsumeRespuesta(0)
    /\ cpu' = [cpu EXCEPT !.fase = "avanza", !.cambio = FALSE]
    /\ UNCHANGED <<pcbCpu, acceso>>

\* termine_sentencia
TermineContestado(q) ==
    /\ En("esperaTermine") /\ aCpu # <<>> /\ Head(aCpu) = Cabeza(q)
    /\ ConsumeRespuesta(0)
    /\ cpu' = [cpu EXCEPT !.fase = "avanza", !.cambio = q = "CAMBIAR_PROCESO"]
    /\ UNCHANGED <<pcbCpu, acceso>>

\* Mutant: PC advances after a jump too.
DefectoAvanza ==
    /\ En("avanza")
    /\ pcbCpu' = [pcbCpu EXCEPT !.PC = @ + 1]
    /\ cpu' = [cpu EXCEPT !.fase = IF cpu.cambio THEN "entrega" ELSE "sentencia"]
    /\ SinKernel /\ UNCHANGED acceso

Avanza ==
    /\ En("avanza")
    /\ pcbCpu' = IF cpu.llamada THEN pcbCpu ELSE [pcbCpu EXCEPT !.PC = @ + 1]
    /\ cpu' = [cpu EXCEPT !.fase = IF cpu.cambio THEN "entrega" ELSE "sentencia"]
    /\ SinKernel /\ UNCHANGED acceso

ProgramaTermina ==
    /\ SentenciaHecha /\ (pcbCpu.anormal \/ pcbCpu.termino)
    /\ cpu' = [cpu EXCEPT !.fase = "entrega"]
    /\ SinKernel /\ UNCHANGED <<pcbCpu, acceso>>

\* After the loop: the PCB goes back, and the CPU listens again.
EntregarPcb ==
    /\ En("entrega")
    /\ aKernel' = aKernel
         \o (IF pcbCpu.anormal THEN <<Cabeza("ABORTAR_PROGRAMA")>> ELSE <<>>)
         \o <<MsjPcb(pcbCpu)>>
    /\ cpu' = CpuOciosa(cpu.nombre)
    /\ SinMensajes /\ UNCHANGED <<pcbCpu, acceso, aCpu>>

\* procesarMensajeDelKernel, EJECUTAR_PROGRAMA
RecibirPrograma ==
    /\ En("ociosa") /\ Len(aCpu) = 2 /\ Head(aCpu) = Cabeza("EJECUTAR_PROGRAMA")
    /\ aCpu[2].que = "pcb"
    /\ pcbCpu' = aCpu[2].pcb
    /\ aCpu' = <<>>
    /\ cpu' = [cpu EXCEPT !.fase = "sentencia", !.cambio = FALSE]
    /\ SinMensajes /\ UNCHANGED <<acceso, aKernel>>

\* SIGUSR1: desconectarse, at whatever point the thread is.  While the CPU
\* waits for an answer, or has to give the PCB back, its message goes where
\* another one is expected.
desconectarse ==
    /\ \/ cpu.fase \in {"sentencia", "primitiva"} /\ ~pcbCpu.termino /\ ~cpu.cambio
       \/ "senalEnPedido" \in Eventos /\ ~En("ociosa") /\ ~En("apagada")
    /\ aKernel' = aKernel \o <<Cabeza("ME_DESCONECTO"), MsjPcb(pcbCpu)>>
    /\ cpu' = [cpu EXCEPT !.fase = "apagada"]
    /\ acceso' = SinAcceso
    /\ SinMensajes /\ UNCHANGED <<pcbCpu, aCpu>>

-----------------------------------------------------------------------------
(* The kernel's thread, on this socket.                                    *)

KernelEn(f) == kernel.fase = f
Toma == aKernel' = Tail(aKernel)
Desfase == kernel' = [fase |-> "desfasado"]
DelKernel == UNCHANGED <<programa, pcbCpu, cpu, acceso, activa>>

\* A header that announces a PCB.
ConPcb == {"PROGRAMA_TERMINADO", "ABORTAR_PROGRAMA", "ME_DESCONECTO"}

LeerCabeza ==
    /\ KernelEn("select") /\ aKernel # <<>>
    /\ Head(aKernel) # Cabeza("TERMINE_SENTENCIA")
    /\ LET m == Head(aKernel) IN
        CASE m.que = "cabeza" /\ m.es \in Pedidos ->
               kernel' = [fase |-> "datos", pedido |-> m.es, faltan |-> Lecturas[m.es]]
          [] m.que = "cabeza" /\ m.es \in ConPcb -> kernel' = [fase |-> "pcb", por |-> m.es]
          [] OTHER -> Desfase
    /\ Toma
    /\ DelKernel /\ UNCHANGED <<pcbKernel, aCpu, proceso, callada, hechos>>

LeerDato ==
    /\ KernelEn("datos") /\ kernel.faltan > 0 /\ aKernel # <<>>
    /\ IF Head(aKernel) = Dato THEN kernel' = [kernel EXCEPT !.faltan = @ - 1] ELSE Desfase
    /\ Toma
    /\ DelKernel /\ UNCHANGED <<pcbKernel, aCpu, proceso, callada, hechos>>

Contesta(s) ==
    /\ aCpu' = aCpu \o s
    /\ hechos' = Append(hechos, kernel.pedido)
    /\ DelKernel /\ UNCHANGED <<pcbKernel, aKernel, proceso, callada>>

Atender ==
    /\ KernelEn("datos") /\ kernel.faltan = 0 /\ kernel.pedido # "WAIT"
    /\ Contesta(<<Cabeza("SI")>> \o Veces(IF kernel.pedido \in ConDato THEN 1 ELSE 0))
    /\ kernel' = [fase |-> "select"]

\* No to a request all of whose messages were read, or to a shared variable
\* that does not exist: existeCompartida reads the value only when it does.
Negar ==
    /\ KernelEn("datos")
    /\ \/ kernel.faltan = 0
       \/ /\ kernel.pedido = "ASIGNAR_VALOR_COMPARTIDA" /\ kernel.faltan = 1
          /\ "asignarInexistente" \in Eventos
    /\ kernel.pedido = "ASIGNAR_VALOR_COMPARTIDA" => kernel.faltan = 1
    /\ Contesta(<<Cabeza("NO")>>)
    /\ kernel' = [fase |-> "select"]

\* pedido_wait: with the semaphore taken, the PCB is waited for.
WaitSigue ==
    /\ KernelEn("datos") /\ kernel.faltan = 0 /\ kernel.pedido = "WAIT"
    /\ Contesta(<<Cabeza("SI"), Cabeza("SEGUI_EJECUTANDO")>>)
    /\ kernel' = [fase |-> "select"]
WaitBloquea ==
    /\ KernelEn("datos") /\ kernel.faltan = 0 /\ kernel.pedido = "WAIT"
    /\ Contesta(<<Cabeza("SI"), Cabeza("CAMBIAR_PROCESO")>>)
    /\ kernel' = [fase |-> "pcb", por |-> "WAIT"]

\* planificar: the quantum goes on, or it is over, or the process was killed.
LeerTermine ==
    /\ KernelEn("select") /\ aKernel # <<>>
    /\ Head(aKernel) = Cabeza("TERMINE_SENTENCIA")
    /\ Toma
    /\ DelKernel /\ UNCHANGED <<pcbKernel, proceso, hechos>>
Planificar(q, sigue) ==
    /\ LeerTermine /\ activa
    /\ aCpu' = Append(aCpu, Cabeza(q))
    /\ kernel' = sigue
    /\ UNCHANGED callada
PlanificarSegui == Planificar("SEGUI_EJECUTANDO", [fase |-> "select"])
PlanificarCambiar(por) == Planificar("CAMBIAR_PROCESO", [fase |-> "pcb", por |-> por])

\* While planning is stopped it returns at once: the CPU gets no answer, nor
\* will it when planning goes on.
PlanificarDetenido ==
    /\ LeerTermine /\ ~activa
    /\ callada' = TRUE
    /\ UNCHANGED <<aCpu, kernel>>

\* The operator's commands: the same thread reads them.
Comando(valor) ==
    /\ "stop" \in Eventos /\ KernelEn("select")
    /\ activa' = valor
    /\ UNCHANGED <<programa, pcbCpu, pcbKernel, cpu, acceso, aKernel, aCpu, kernel,
                   proceso, callada, hechos>>
DetenerPlanificacion == Comando(FALSE)
ReanudarPlanificacion == Comando(TRUE)

Destino == [PROGRAMA_TERMINADO |-> {"terminado"}, ABORTAR_PROGRAMA |-> {"abortado"},
            ME_DESCONECTO |-> {"abortado"}, quantum |-> {"listo"},
            kill |-> {"abortado"}, WAIT |-> {"bloqueado", "abortado"}]

\* The PCB replaces the kernel's copy; pasarPcb* moves it only while planning
\* is active.
RecibirPcb ==
    /\ KernelEn("pcb") /\ aKernel # <<>>
    /\ Toma
    /\ IF Head(aKernel).que = "pcb"
       THEN /\ pcbKernel' = Head(aKernel).pcb
            /\ proceso' \in (IF activa THEN Destino[kernel.por] ELSE {proceso})
            /\ kernel' = [fase |-> "select"]
       ELSE Desfase /\ UNCHANGED <<pcbKernel, proceso>>
    /\ DelKernel /\ UNCHANGED <<aCpu, callada, hechos>>

\* Another process signals.
Despertar ==
    /\ proceso = "bloqueado" /\ activa
    /\ proceso' = "listo"
    /\ UNCHANGED <<programa, pcbCpu, pcbKernel, cpu, acceso, aKernel, aCpu, kernel,
                   activa, callada, hechos>>

\* ejecutarSiguientePcbEnCpu, on the CPU it had or on another one.
Despachar(c) ==
    /\ proceso = "listo" /\ activa /\ KernelEn("select") /\ En("ociosa")
    /\ c # cpu.nombre =>
         "migracion" \in Eventos \/ \A k \in 1..Len(pcbKernel.pila) : pcbKernel.pila[k].args = <<>>
    /\ cpu' = CpuOciosa(c)
    /\ aCpu' = <<Cabeza("EJECUTAR_PROGRAMA"), MsjPcb(pcbKernel)>>
    /\ proceso' = "ejecutando"
    /\ UNCHANGED <<programa, pcbCpu, pcbKernel, acceso, aKernel, kernel,
                   activa, callada, hechos>>

-----------------------------------------------------------------------------
PasoDeCpu ==
    \/ pedirInstruccionAMemoria \/ PedirParte \/ AccesoFallido \/ AccesoTerminado
    \/ definirVariable \/ DesbordarPila \/ dereferenciar \/ asignar \/ irAlLabel
    \/ llamarSinRetorno \/ llamarConRetorno \/ retornar \/ finalizar
    \/ PedirAlKernel \/ RespuestaNo \/ RespuestaSi
    \/ \E q \in {"SEGUI_EJECUTANDO", "CAMBIAR_PROCESO"} :
         RespuestaWait(q) \/ TermineContestado(q)
    \/ SentenciaTermina \/ Avanza \/ ProgramaTermina \/ EntregarPcb \/ RecibirPrograma

PasoDelKernel ==
    \/ LeerCabeza \/ LeerDato \/ Atender \/ Negar \/ WaitSigue \/ WaitBloquea
    \/ PlanificarSegui \/ \E por \in {"quantum", "kill"} : PlanificarCambiar(por)
    \/ PlanificarDetenido \/ RecibirPcb

Next ==
    \/ PasoDeCpu \/ PasoDelKernel
    \/ desconectarse \/ Despertar \/ DetenerPlanificacion \/ ReanudarPlanificacion
    \/ \E c \in Cpus : Despachar(c)

Spec == Init /\ [][Next]_vars

\* Each process of the system runs whenever it has something to do.  A quantum
\* of sentences ends (round robin: quantumAcumulado grows with each one, and
\* planificar answers CAMBIAR_PROCESO when it gets to the quantum), so a
\* program that never ends is told to leave.  FIFO promises no such thing.
SpecJusta ==
    /\ Spec
    /\ WF_vars(PasoDeCpu) /\ WF_vars(PasoDelKernel)
    /\ SF_vars(PlanificarCambiar("quantum"))

-----------------------------------------------------------------------------
(* Properties.                                                             *)

TypeOK ==
    /\ cpu \in [nombre : Cpus,
                fase : {"ociosa", "sentencia", "primitiva", "espera",
                        "esperaTermine", "avanza", "entrega", "apagada"},
                linea : Nat, i : Nat, llamada : BOOLEAN, wait : BOOLEAN, cambio : BOOLEAN]
    /\ kernel.fase \in {"select", "datos", "pcb", "desfasado"}
    /\ proceso \in {"listo", "ejecutando", "bloqueado", "terminado", "abortado"}
    /\ activa \in BOOLEAN /\ callada \in BOOLEAN
    /\ AccesoTypeOK(acceso)
    /\ pcbCpu.pila # <<>> /\ pcbCpu.pos \in 0..(TamanioPagina - 1)
    /\ pcbCpu.pagina \in PaginaDePila..PaginasTotales

\* The kernel reads the socket as the CPU wrote it: never a value, or a PCB,
\* where it expects a header.
SinDesfase == ~KernelEn("desfasado")

\* Kernel and CPU never wait for each other, nor the kernel for a CPU that
\* has nothing more to send.  The one wait for nothing the code has is that of
\* a CPU whose TERMINE_SENTENCIA was read while planning was stopped.
NadieEsperaANadie ==
    /\ cpu.fase \in {"espera", "esperaTermine"} =>
         aCpu # <<>> \/ aKernel # <<>> \/ ~KernelEn("select")
                    \/ (En("esperaTermine") /\ callada)
    /\ KernelEn("datos") => Len(aKernel) >= kernel.faltan
    /\ KernelEn("pcb") => aKernel # <<>> \/ ~(En("ociosa") \/ En("apagada"))

\* pedidosMemoria.c: whatever the page size and wherever it starts, an access
\* is split in requests that cover it once, in order, none across pages.
AccesoExacto == acceso # SinAcceso => AccesoAlineado(acceso) /\ PedidoExacto(acceso)

\* A script that follows addresses it was given reads and writes whole
\* variables, each in one request, whatever calls and returns moved the end of
\* the stack: what pedidosMemoria.c does with the second piece of a variable
\* ("&valorPedido + bytes_leidos" in a read, the value from its first byte
\* again in a write) is never reached.
VariableEntera ==
    acceso # SinAcceso /\ acceso.tipo # "instruccion" =>
        (acceso.dir % TamanioPagina) + acceso.tam <= TamanioPagina

\* The end of the stack, and with it the variables and arguments of all the
\* calls in course, keep to the pages of the stack; no two share a byte.
DireccionesEnUso(p) ==
    UNION {{<<k, 0, j>> : j \in 1..Len(p.pila[k].vars)}
             \cup {<<k, 1, j>> : j \in 1..Len(p.pila[k].args)} : k \in 1..Len(p.pila)}
DireccionDe(p, u) ==
    IF u[2] = 0 THEN p.pila[u[1]].vars[u[3]].dir ELSE p.pila[u[1]].args[u[3]].dir
VariablesSinSolaparse ==
    TypeOK /\ \A u \in DireccionesEnUso(pcbCpu) :
        /\ DireccionDe(pcbCpu, u) >= PaginaDePila * TamanioPagina
        /\ DireccionDe(pcbCpu, u) + TamanioVariable <= PaginasTotales * TamanioPagina
        /\ \A v \in DireccionesEnUso(pcbCpu) :
            DireccionDe(pcbCpu, v) \in
              DireccionDe(pcbCpu, u)..(DireccionDe(pcbCpu, u) + TamanioVariable - 1) => u = v

\* structs.c:81 "Recibo argumentos" and :171 "Envio argumentos": the arguments
\* of the calls in course come with the PCB, so the CPU that runs it has them.
ArgumentosLlegan ==
    ~En("ociosa") /\ ~En("apagada") =>
        \A k \in 1..Len(pcbCpu.pila) : \A j \in 1..Len(pcbCpu.pila[k].args) :
            pcbCpu.pila[k].args[j].cpu = cpu.nombre

\* A CPU that was given a program gives it back, even one that never ends, and
\* the kernel reads it, unless planning was stopped when a sentence ended.
EnCpu == ~En("ociosa") /\ ~En("apagada")
PcbDevuelto == ~EnCpu /\ aKernel = <<>> /\ aCpu = <<>> /\ KernelEn("select")
VuelveElPcb == (proceso = "ejecutando") ~> (PcbDevuelto \/ callada)

-----------------------------------------------------------------------------
(* The promise: a program does not notice where, nor in how many pieces, it *)
(* runs.                                                                    *)

Vigente ==
    IF EnCpu THEN pcbCpu
    ELSE IF aKernel # <<>> /\ Last(aKernel).que = "pcb" THEN Last(aKernel).pcb
    ELSE pcbKernel
EstadoVisto ==
    IF Vigente.termino THEN "terminado"
    ELSE IF Vigente.anormal \/ proceso = "abortado" \/ En("apagada") THEN "abortado"
    ELSE "vivo"
Vive == EstadoVisto = "vivo"
EnSentencia == Vive /\ (En("primitiva") \/ En("espera"))
EnFin == Vive /\ (En("esperaTermine") \/ En("avanza"))
PilaVista ==
    [k \in 1..Len(Vigente.pila) |->
        [ret |-> Vigente.pila[k].ret,
         vars |-> [j \in 1..Len(Vigente.pila[k].vars) |-> Vigente.pila[k].vars[j].id],
         args |-> Len(Vigente.pila[k].args)]]
Contestada ==
    \/ En("espera") /\ aCpu # <<>>
    \/ acceso # SinAcceso /\ acceso.tipo = "asignar" /\ Primitiva.op = "kernel"

Promesa == INSTANCE Programa WITH
    PC <- IF Vive THEN Vigente.PC ELSE 0,
    pila <- IF Vive THEN PilaVista ELSE <<>>,
    estado <- EstadoVisto,
    linea <- IF EnSentencia \/ EnFin THEN cpu.linea ELSE 0,
    i <- IF EnSentencia THEN cpu.i ELSE 0,
    salto <- (EnSentencia \/ EnFin) /\ cpu.llamada,
    atendida <- EnSentencia /\ Contestada
PromesaDePrograma == Promesa!Spec
=============================================================================

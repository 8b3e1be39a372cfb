------------------------- MODULE KernelPlanificador -------------------------
(***************************************************************************)
(* The kernel process with its CPUs, its consoles and its operator.  Every *)
(* action is one message, one end of file or one command that the select() *)
(* loop of the kernel handles to the end before it looks at the next, or   *)
(* a step of a process at the other end of a socket.                       *)
(***************************************************************************)
EXTENDS Planificacion

CONSTANTS
    Grados,             \* the multiprogramming levels the operator sets
    PidSinInicializar,  \* what an uninitialised PID_en_ejecucion may hold
    MaxSentencias,      \* bound: sentences a program runs at most
    MaxKills,           \* bound: dangling kill flags at the same time
    Eventos             \* the disturbances this instance lets happen

Disturbios == {"abortar", "malloc", "sinMemoria", "finalizar", "cierre",
               "kill", "stop", "multiprog", "caidaCpu", "desconecta",
               "saludoLento"}

ASSUME GradosAssumption == Grados \subseteq Nat /\ Grados # {}
ASSUME BasuraAssumption ==
    PidSinInicializar \subseteq 0..MaxPid /\ PidSinInicializar # {}
ASSUME CotasAssumption == MaxSentencias \in Nat /\ MaxKills \in Nat
ASSUME EventosAssumption == Eventos \subseteq Disturbios

VARIABLES
    sistema,    \* the kernel and what its sockets lead to
    restan      \* sentences each program may still run

vars == <<sistema, restan>>

Init ==
    /\ \E g \in Grados : sistema = Inicial(g)
    /\ restan = [p \in Pid |-> MaxSentencias]

\* The kernel is back in select(): no handler and no admission round is on.
Libre == sistema.vivo = "vivo" /\ sistema.iteraciones = 0

\* Without "saludoLento" the handshake of a CPU is the first thing the kernel
\* reads after it accepts the connection.
EnSelect ==
    /\ Libre
    /\ \/ "saludoLento" \in Eventos
       \/ \A c \in Cpus : sistema.modo[c] # "saludando"

\* The answers the outside can give to this handler.
Respuestas ==
    {x \in Exterior :
        /\ x.memoria \/ "sinMemoria" \in Eventos
        /\ x.colgado => sistema.colgados > 0
        /\ x.basura => "cierre" \in Eventos
        /\ x.cpu # NoCpu => Algoritmo = "RR" /\ sistema.ocupadas = <<>>}

-----------------------------------------------------------------------------
(* CPUs.                                                                   *)

NuevoCpuConectado(c) ==
    /\ EnSelect
    /\ sistema.modo[c] = "ausente"
    /\ \E basura \in PidSinInicializar :
          sistema' = [sistema EXCEPT !.modo[c] = "saludando",
                                     !.libres = Append(@, c),
                                     !.quantum[c] = 0,
                                     !.pidEn[c] = basura]
    /\ UNCHANGED restan

MsjHandshake(c) ==
    /\ Libre
    /\ sistema.modo[c] \in {"saludando", "rechazada"}
    /\ sistema' = PlanificarSiHayListos(
          [sistema EXCEPT !.modo[c] =
              IF @ = "saludando" THEN "activa" ELSE "muerta"])
    /\ UNCHANGED restan

Ejecuta(c) == sistema.enCpu[c] # 0 /\ sistema.modo[c] = "activa"

GastarSentencia(c) ==
    /\ restan[sistema.enCpu[c]] > 0
    /\ restan' = [restan EXCEPT ![sistema.enCpu[c]] = @ - 1]

MsjTermineSentencia(c) ==
    /\ EnSelect
    /\ sistema.enCpu[c] # 0
    /\ sistema.modo[c] \in {"activa", "sentencia"}
    /\ GastarSentencia(c)
    /\ \E x \in Respuestas : sistema' = PlanificarCpu(sistema, c, x)

MsjWait(c, s) ==
    /\ EnSelect
    /\ Ejecuta(c)
    /\ GastarSentencia(c)
    /\ \E x \in Respuestas : sistema' = Wait(sistema, c, s, x)

\* The sentence is spent by the TERMINE_SENTENCIA that follows.
MsjSignal(c, s) ==
    /\ EnSelect
    /\ Ejecuta(c)
    /\ restan[sistema.enCpu[c]] > 0
    /\ sistema' = Signal(sistema, c, s)
    /\ UNCHANGED restan

MsjProgramaTerminado(c) ==
    /\ EnSelect
    /\ Ejecuta(c)
    /\ \E x \in Respuestas : sistema' = ProgramaTerminado(sistema, c, x)
    /\ UNCHANGED restan

MsjAbortarPrograma(c) ==
    /\ EnSelect
    /\ sistema.enCpu[c] # 0
    /\ \/ sistema.modo[c] = "abortando"
       \/ sistema.modo[c] = "activa" /\ "abortar" \in Eventos
    /\ \E x \in Respuestas :
          sistema' = AbortarDeCpu([sistema EXCEPT !.modo[c] = "activa"], c,
                                  "ERROR_DE_EJECUCION", x)
    /\ UNCHANGED restan

MsjPedidoBloqueMemoria(c) ==
    /\ "malloc" \in Eventos
    /\ EnSelect
    /\ Ejecuta(c)
    /\ sistema' = PedidoBloqueGrande(sistema, c)
    /\ UNCHANGED restan

\* SIGUSR1 while a PCB is loaded: ME_DESCONECTO, the PCB, exit.
MsjMeDesconecto(c) ==
    /\ "desconecta" \in Eventos
    /\ EnSelect
    /\ sistema.enCpu[c] # 0
    /\ \E x \in Respuestas :
          sistema' = AbortarDeCpu([sistema EXCEPT !.modo[c] = "muerta"], c,
                                  "DESCONEXION_CPU", x)
    /\ UNCHANGED restan

\* A CPU process dies between two messages, with the PCB it holds.
CaidaCpu(c) ==
    /\ "caidaCpu" \in Eventos
    /\ sistema.vivo = "vivo"
    /\ sistema.modo[c] \in {"activa", "sentencia", "abortando", "esperando"}
    /\ sistema' = [sistema EXCEPT !.modo[c] = "muerta", !.enCpu[c] = 0]
    /\ UNCHANGED restan

\* recv() returns 0 on a CPU socket.
DesconexionCpu(c) ==
    /\ EnSelect
    /\ sistema.modo[c] = "muerta"
    /\ \E x \in Respuestas, basura \in PidSinInicializar :
          sistema' = RemoverCpuDeLaLista(
              TerminarProcesoEjecutandoEnCpu(sistema, c, x), c, basura)
    /\ UNCHANGED restan

-----------------------------------------------------------------------------
(* Consoles.                                                               *)

MsjIniciarProceso ==
    /\ EnSelect
    /\ sistema.maxPID < MaxPid
    /\ \E x \in Respuestas : sistema' = IniciarProceso(sistema, x)
    /\ UNCHANGED restan

\* A console whose program it still believes alive.
Pendiente(p) == p \in sistema.consolas /\ sistema.consola[p] = "conectada"

ConsolaPideFinalizar(p) ==
    /\ "finalizar" \in Eventos
    /\ sistema.vivo = "vivo"
    /\ Pendiente(p)
    /\ sistema' = [sistema EXCEPT !.consola[p] = "finalizando"]
    /\ UNCHANGED restan

ConsolaCierra(p) ==
    /\ "cierre" \in Eventos
    /\ sistema.vivo = "vivo"
    /\ Pendiente(p)
    /\ sistema' = [sistema EXCEPT !.consola[p] = "cerrando"]
    /\ UNCHANGED restan

AtiendeConsola(p, modo, code) ==
    /\ EnSelect
    /\ sistema.consola[p] = modo
    /\ sistema' = PedidoAbortarProgramaDeConsola(
          [sistema EXCEPT !.consola[p] = "atendida"], p, code)
    /\ UNCHANGED restan

MsjFinalizarProceso(p) ==
    AtiendeConsola(p, "finalizando", "FINALIZADO_POR_COMANDO")

DesconexionConsola(p) == AtiendeConsola(p, "cerrando", "DESCONEXION_CONSOLA")

-----------------------------------------------------------------------------
(* Commands of the kernel's operator.                                      *)

CmdKill(p) ==
    /\ "kill" \in Eventos
    /\ EnSelect
    /\ p <= sistema.maxPID
    /\ sistema.colgados < MaxKills
    /\ sistema' = MatarProceso(sistema, p)
    /\ UNCHANGED restan

CmdStop ==
    /\ "stop" \in Eventos
    /\ EnSelect
    /\ sistema' = [sistema EXCEPT !.activa = FALSE]
    /\ UNCHANGED restan

CmdRestart ==
    /\ "stop" \in Eventos
    /\ EnSelect
    /\ sistema' = [sistema EXCEPT !.activa = TRUE]
    /\ UNCHANGED restan

CmdMultiprogramacion(n) ==
    /\ "multiprog" \in Eventos
    /\ EnSelect
    /\ sistema' = Multiprogramacion(sistema, n)
    /\ UNCHANGED restan

RondaAdmision ==
    /\ sistema.vivo = "vivo"
    /\ sistema.iteraciones > 0
    /\ \E x \in Respuestas :
          sistema' = RondaDeMultiprogramacion(sistema, x)
    /\ UNCHANGED restan

-----------------------------------------------------------------------------
PasoCpu(c) ==
    \/ MsjHandshake(c)
    \/ MsjTermineSentencia(c)
    \/ \E s \in Sems : MsjWait(c, s)
    \/ \E s \in Sems : MsjSignal(c, s)
    \/ MsjProgramaTerminado(c)
    \/ MsjAbortarPrograma(c)
    \/ MsjPedidoBloqueMemoria(c)
    \/ DesconexionCpu(c)

PasoConsola(p) == MsjFinalizarProceso(p) \/ DesconexionConsola(p)

Next ==
    \/ \E c \in Cpus : NuevoCpuConectado(c)
    \/ \E c \in Cpus : PasoCpu(c)
    \/ \E c \in Cpus : MsjMeDesconecto(c)
    \/ \E c \in Cpus : CaidaCpu(c)
    \/ MsjIniciarProceso
    \/ \E p \in Pid : ConsolaPideFinalizar(p)
    \/ \E p \in Pid : ConsolaCierra(p)
    \/ \E p \in Pid : PasoConsola(p)
    \/ \E p \in Pid : CmdKill(p)
    \/ CmdStop
    \/ CmdRestart
    \/ \E n \in Grados : CmdMultiprogramacion(n)
    \/ RondaAdmision

Spec == Init /\ [][Next]_vars

\* Some CPU always goes on with what it was given, the kernel reads its
\* sockets while any of them has something, and a CPU that can connect does.
\* Nothing is assumed of the operator, of new programs or of failures.
Equidad ==
    /\ WF_vars(\E c \in Cpus : NuevoCpuConectado(c))
    /\ WF_vars(\E c \in Cpus : PasoCpu(c))
    /\ WF_vars(\E p \in Pid : PasoConsola(p))
    /\ WF_vars(RondaAdmision)

SpecJusta == Spec /\ Equidad

-----------------------------------------------------------------------------
\* The variables hold what the C types and the bounds of the model allow.
TypeOK ==
    /\ sistema \in Sistema
    /\ restan \in [Pid -> 0..MaxSentencias]

En(p, e) == EnCola(sistema, p, e)

Creado(p) == p <= sistema.maxPID

\* cantidadDeProcesosEnSistema counts the processes in colaListos,
\* colaEjecutando and colaBloqueados: every path that puts one in or takes
\* one out moves the counter exactly once (pcbOperaciones.c:139-372).
CantidadCoherente ==
    sistema.cantidad = Len(sistema.cola["LISTO"])
                     + Len(sistema.cola["EJECUTANDO"])
                     + Len(sistema.cola["BLOQUEADO"])

\* A PCB is in at most one queue, once, whatever CPUs, consoles and the
\* operator do to it at the same time (pcbOperaciones.c:139-372).
PcbEnUnaSolaCola ==
    \A e, f \in Estado :
        \A i \in DOMAIN sistema.cola[e], j \in DOMAIN sistema.cola[f] :
            sistema.cola[e][i] = sistema.cola[f][j] => e = f /\ i = j

\* Memory keeps no page of a finished process that has left its CPU: each
\* way to finish asks memory to free it (planificacion.c:174, 376, 382, 419,
\* 465; conexionesKernelCpu.c:110-117, 211, 368).
FinalizadoSinPaginas ==
    \A p \in sistema.paginas :
        En(p, "TERMINADO") => \E c \in Cpus : sistema.enCpu[c] = p

\* What a console is told is what happened: its process is finished and the
\* code is the one its PCB keeps (planificacion.c:471-483).
AvisoVeraz ==
    \A p \in Pid : sistema.avisos[p] # <<>> =>
        En(p, "TERMINADO") /\ Last(sistema.avisos[p]) = sistema.ec[p]

\* No finished process leaves its console waiting: once no CPU holds it, its
\* entry in listaProgramaSocketPid is gone (planificacion.c:482,
\* conexionesKernelCpu.c:127, 219).
ConsolaEnterada ==
    \A p \in sistema.consolas :
        En(p, "TERMINADO") => \E c \in Cpus : sistema.enCpu[c] = p

\* A negative semaphore counts its blocked processes, and a process waits
\* for a semaphore exactly while it is blocked (conexionesKernelCpu.c:340-452,
\* pcbOperaciones.c:114-137).
SemaforoCuentaBloqueados ==
    /\ \A s \in Sems :
          LET esperan == {p \in Pid : sistema.espera[p] = s}
          IN  Cardinality(esperan) =
                IF sistema.valor[s] < 0 THEN -sistema.valor[s] ELSE 0
    /\ \A p \in Pid : En(p, "BLOQUEADO") <=> sistema.espera[p] # NoSem

\* The kernel's lists and the CPUs agree: a CPU that holds a PCB is in
\* cpusOcupadas with that PID and the process is EJECUTANDO; an EJECUTANDO
\* process is on a CPU, or was sent to one that is gone and whose end of
\* file will finish it (planificacion.c:274-341, conexionesKernelCpu.c:181).
CpuYProcesoConcuerdan ==
    /\ \A c \in Cpus : sistema.enCpu[c] # 0 =>
          /\ En(sistema.enCpu[c], "EJECUTANDO")
          /\ sistema.pidEn[c] = sistema.enCpu[c]
          /\ Contains(sistema.ocupadas, c)
          /\ ~Contains(sistema.libres, c)
    /\ \A p \in Pid : En(p, "EJECUTANDO") =>
          \E c \in Cpus :
              \/ sistema.enCpu[c] = p
              \/ /\ sistema.modo[c] \in {"rechazada", "muerta"}
                 /\ sistema.pidEn[c] = p

\* Two CPUs never run the same process.
UnaCpuPorProceso ==
    \A c, d \in Cpus :
        sistema.enCpu[c] = sistema.enCpu[d] /\ c # d => sistema.enCpu[c] = 0

\* The kernel never sends a CPU a PCB it is not waiting for, and never
\* dereferences NULL (planificacion.c:36, 234-247, 292-298).
KernelSano == sistema.vivo = "vivo"

\* No ready process waits while a CPU that shook hands is free
\* (planificacion.c:101, conexionesKernelCpu.c:63, 133, 400, 442;
\* conexionesKernelConsola.c:172).
TrabajoConservado ==
    EnSelect /\ sistema.activa /\ HayListos(sistema) =>
        \A i \in DOMAIN sistema.libres :
            sistema.modo[sistema.libres[i]] # "activa"

\* No NEW process waits while the level has room (planificacion.c:23-107).
AdmisionConservada ==
    sistema.iteraciones = 0 /\ sistema.cola["NUEVO"] # <<>> =>
        ~CheckNivelMultiprogramacion(sistema)

\* Every process the kernel gave a PID to is in some queue.
NingunPcbPerdido ==
    \A p \in Pid : Creado(p) => \E e \in Estado : En(p, e)

\* pcbOperaciones.c:434-438 says of estaElProcesoEnEjecucion that it finds
\* the CPU that runs the process: it does for each CPU that holds a PCB.
EncuentraLaCpu ==
    \A c \in Cpus : sistema.enCpu[c] # 0 =>
        EstaElProcesoEnEjecucion(sistema, sistema.enCpu[c])

\* The end of a CPU finishes the process it had (conexionesKernelCpu.c:23)
\* and not one that another CPU is running.
TerminadoFueraDeCpu ==
    \A c \in Cpus : ~En(sistema.enCpu[c], "TERMINADO")

\* A process that is let in, from colaNuevos or on its arrival, fits the
\* level: planificacion.c:15-17 says checkNivelMultiprogramacion is false when
\* no more are allowed.
AdmiteSegunNivel ==
    [][(\E p \in Pid : /\ ~ \E e \in EnSistema : En(p, e)
                       /\ \E e \in EnSistema : En(p, e)')
           => sistema'.cantidad <= sistema'.grado]_vars

\* kernel.h:140 says procesosADestruir holds the PIDs of the processes that
\* have to be killed: a kill of a running process adds its PID.
KillDejaMarca ==
    [][\A p \in Pid :
          CmdKill(p) /\ EstaElProcesoEnEjecucion(sistema, p) =>
              p \in sistema'.destruir]_vars

\* A process with a kill flag never goes back to a queue it can run from
\* (planificacion.c:165-184, conexionesKernelCpu.c:364-376).
MarcadoNoVuelve ==
    [][\A p \in sistema.destruir :
          En(p, "EJECUTANDO") =>
              ~En(p, "LISTO")' /\ ~En(p, "BLOQUEADO")']_vars

\* Once planning is resumed for good (consolaKernel.c:95-99) every CPU that
\* waits for an answer to TERMINE_SENTENCIA gets one.
ReanudarDespierta ==
    <>[](sistema.activa) =>
        \A c \in Cpus :
            sistema.modo[c] = "esperando" ~> sistema.modo[c] # "esperando"

\* Every program that is started finishes, whatever the level is set to.
TodosTerminan == \A p \in Pid : Creado(p) ~> En(p, "TERMINADO")

=============================================================================

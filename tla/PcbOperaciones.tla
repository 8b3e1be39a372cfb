--------------------------- MODULE PcbOperaciones ---------------------------
(***************************************************************************)
(* The kernel's process table: the PCB queues of pcbOperaciones.c, the     *)
(* multiprogramming counter, the semaphore a process waits for and the     *)
(* list that relates a process to the socket of its console.               *)
(*                                                                         *)
(* The kernel is one thread in a select() loop, so a handler is one step.  *)
(* The functions a handler calls are operators from a record to a record;  *)
(* a handler composes them in the order of the C code.  The record holds   *)
(* the kernel's globals and what is at the far end of each socket.         *)
(*                                                                         *)
(* Operators named Defecto... are slips the code does not have: the runs   *)
(* replace a definition by one of them to see that a property notices.     *)
(*                                                                         *)
(* A PCB is its PID.  pcb->estado is the queue that holds it: every        *)
(* pasarPcb* function writes both together.                                *)
(***************************************************************************)
EXTENDS Integers, SequencesExt

CONSTANTS
    Cpus,           \* the CPU processes that may connect (a socket each)
    NoCpu,          \* a value outside Cpus
    MaxPid,         \* bound: how many programs the consoles start
    Sems,           \* the semaphores named in the kernel's configuration
    NoSem,          \* sem_bloqueado_por = ""
    InicioSem       \* SEM_INIT: the initial value of each semaphore

Pid == 1..MaxPid
Estado == {"NUEVO", "LISTO", "EJECUTANDO", "BLOQUEADO", "TERMINADO"}

ASSUME MaxPidAssumption == MaxPid \in Nat \ {0}
ASSUME CpusAssumption == NoCpu \notin Cpus
ASSUME SemsAssumption == NoSem \notin Sems /\ InicioSem \in [Sems -> Nat]

\* The exit codes the handlers below tell apart.  ERROR_DE_EJECUCION stands
\* for every code the CPU itself writes in a PCB it aborts.
ExitCode == {"FINALIZADO_POR_COMANDO", "FINALIZADO_CORRECTAMENTE",
             "NO_SE_PUDO_ASIGNAR_RECURSO", "DESCONEXION_CONSOLA",
             "DESCONEXION_CPU", "MALLOC_MAYOR_A_PAGESIZE",
             "ERROR_DE_EJECUCION"}

\* vivo: "caido" when the kernel dereferenced NULL, "colgado" when it waits
\* for bytes nobody sends, "desincronizado" when a CPU got a message it was
\* not waiting for and reads PCB bytes as protocol codes from then on.
Vida == {"vivo", "caido", "colgado", "desincronizado"}

\* What a CPU process is doing, as far as the kernel's socket shows it:
\*   saludando   connected, its handshake not read by the kernel yet
\*   rechazada   it exited with its handshake still unread
\*   activa      waits for a PCB, or runs the one it has
\*   sentencia   ran a SIGNAL, TERMINE_SENTENCIA is what it sends next
\*   abortando   was refused memory, ABORTAR_PROGRAMA is what it sends next
\*   esperando   waits for an answer to TERMINE_SENTENCIA
\*   muerta      closed its socket, the kernel did not notice yet
\*   fuera       the kernel removed it
ModoCpu == {"ausente", "saludando", "rechazada", "activa", "sentencia",
            "abortando", "esperando", "muerta", "fuera"}

\* The console thread of a program; finalizando and cerrando have a message
\* (or an end of file) on the way to the kernel.
ModoConsola == {"ausente", "conectada", "finalizando", "cerrando", "atendida"}

Sistema ==
    [cola: [Estado -> Seq(Pid)],   \* colaNuevos, colaListos, ...
     cantidad: Int,                \* cantidadDeProcesosEnSistema
     maxPID: 0..MaxPid,
     grado: Int,                   \* kernel_config->gradoMultiprog
     activa: BOOLEAN,              \* planificacionActivada
     ec: [Pid -> ExitCode],        \* EC of the kernel's copy of the PCB
     libres: Seq(Cpus),            \* cpusLibres
     ocupadas: Seq(Cpus),          \* cpusOcupadas
     pidEn: [Cpus -> 0..MaxPid],   \* CPU.PID_en_ejecucion
     quantum: [Cpus -> Nat],       \* CPU.quantumAcumulado
     destruir: SUBSET Pid,         \* procesosADestruir
     colgados: Nat,                \* its entries that point to a dead frame
     valor: [Sems -> Int],         \* t_semaforo.valor
     espera: [Pid -> Sems \cup {NoSem}],  \* sem_bloqueado_por
     consolas: SUBSET Pid,         \* listaProgramaSocketPid
     iteraciones: Nat,             \* rounds left of the admission loop
     vivo: Vida,
     paginas: SUBSET Pid,          \* the processes memory holds pages of
     enCpu: [Cpus -> 0..MaxPid],   \* the PCB a CPU holds, 0 if none
     ecCopia: [Pid -> ExitCode],   \* EC of the copy a CPU holds
     modo: [Cpus -> ModoCpu],
     consola: [Pid -> ModoConsola],
     avisos: [Pid -> Seq(ExitCode)]]  \* final exit codes told to a console

Inicial(grado) ==
    [cola |-> [e \in Estado |-> <<>>],
     cantidad |-> 0,
     maxPID |-> 0,
     grado |-> grado,
     activa |-> TRUE,
     ec |-> [p \in Pid |-> "FINALIZADO_POR_COMANDO"],
     libres |-> <<>>,
     ocupadas |-> <<>>,
     pidEn |-> [c \in Cpus |-> 0],
     quantum |-> [c \in Cpus |-> 0],
     destruir |-> {},
     colgados |-> 0,
     valor |-> InicioSem,
     espera |-> [p \in Pid |-> NoSem],
     consolas |-> {},
     iteraciones |-> 0,
     vivo |-> "vivo",
     paginas |-> {},
     enCpu |-> [c \in Cpus |-> 0],
     ecCopia |-> [p \in Pid |-> "FINALIZADO_POR_COMANDO"],
     modo |-> [c \in Cpus |-> "ausente"],
     consola |-> [p \in Pid |-> "ausente"],
     avisos |-> [p \in Pid |-> <<>>]]

-----------------------------------------------------------------------------
(* Queue moves.  Each one does nothing while planning is stopped, and      *)
(* nothing when the queue it searches does not hold the PCB.               *)

EnCola(k, p, e) == Contains(k.cola[e], p)

\* buscarPcbPorPID: does not look at the finished processes.
BuscarPcb(k, p) ==
    \E e \in {"NUEVO", "LISTO", "EJECUTANDO", "BLOQUEADO"} : EnCola(k, p, e)

Mueve(k, p, desde) == k.activa /\ EnCola(k, p, desde)

\* The processes the multiprogramming level counts.
EnSistema == {"LISTO", "EJECUTANDO", "BLOQUEADO"}

\* A process that finishes gives back the slot it had.
Mover(k, p, desde, hacia) ==
    [k EXCEPT
        !.cola[desde] = RemoveFirst(@, p),
        !.cola[hacia] = Append(@, p),
        !.cantidad = IF hacia = "TERMINADO" /\ desde \in EnSistema
                     THEN @ - 1 ELSE @]

Trasladar(k, p, desde, hacia) ==
    IF Mueve(k, p, desde) THEN Mover(k, p, desde, hacia) ELSE k

\* The unit is not given back.
DefectoLimpiarSemaforos(k, p) == [k EXCEPT !.espera[p] = NoSem]

\* A process that finishes while it waits for a semaphore returns its unit.
LimpiarSemaforos(k, p) ==
    IF k.espera[p] = NoSem
    THEN k
    ELSE [k EXCEPT !.valor[k.espera[p]] = @ + 1, !.espera[p] = NoSem]

CrearPcb(k) ==
    [k EXCEPT !.maxPID = @ + 1,
              !.ec[k.maxPID + 1] = "FINALIZADO_POR_COMANDO"]

\* The caller took the PCB out of colaNuevos, or has just created it.
NuevoAListos(k, p) ==
    IF k.activa
    THEN [k EXCEPT !.cola["LISTO"] = Append(@, p), !.cantidad = @ + 1]
    ELSE k

NuevoAFinalizados(k, p, code) ==
    IF Mueve(k, p, "NUEVO")
    THEN [Mover(k, p, "NUEVO", "TERMINADO") EXCEPT !.ec[p] = code]
    ELSE k

\* list_remove forgotten.
DefectoListosAEjecutando(k, p) ==
    IF Mueve(k, p, "LISTO")
    THEN [k EXCEPT !.cola["EJECUTANDO"] = Append(@, p)] ELSE k

ListosAEjecutando(k, p) == Trasladar(k, p, "LISTO", "EJECUTANDO")

\* list_add forgotten.
DefectoQuantumPierdePcb(k, p) ==
    IF Mueve(k, p, "EJECUTANDO")
    THEN [k EXCEPT !.cola["EJECUTANDO"] = RemoveFirst(@, p)] ELSE k

EjecutandoAListos(k, p) == Trasladar(k, p, "EJECUTANDO", "LISTO")

\* list_remove forgotten.
DefectoBloqueadoAListo(k, p) ==
    IF Mueve(k, p, "BLOQUEADO")
    THEN [k EXCEPT !.cola["LISTO"] = Append(@, p)] ELSE k

BloqueadoAListo(k, p) == Trasladar(k, p, "BLOQUEADO", "LISTO")

EjecutandoABloqueados(k, p) == Trasladar(k, p, "EJECUTANDO", "BLOQUEADO")

\* list_remove(colaEjecutando, 0) in place of the index that was found.
DefectoEjecutandoAFinalizados(k, p) ==
    IF Mueve(k, p, "EJECUTANDO")
    THEN Mover(LimpiarSemaforos(k, p), Head(k.cola["EJECUTANDO"]),
               "EJECUTANDO", "TERMINADO")
    ELSE k

EjecutandoAFinalizados(k, p) ==
    IF Mueve(k, p, "EJECUTANDO")
    THEN Mover(LimpiarSemaforos(k, p), p, "EJECUTANDO", "TERMINADO")
    ELSE k

\* cantidadDeProcesosEnSistema-- forgotten.
DefectoListoAFinalizados(k, p) ==
    [Trasladar(k, p, "LISTO", "TERMINADO") EXCEPT !.cantidad = k.cantidad]

\* The only way to finish that does not look at the semaphores.
ListoAFinalizados(k, p) == Trasladar(k, p, "LISTO", "TERMINADO")

BloqueadoAFinalizados(k, p, code) ==
    IF Mueve(k, p, "BLOQUEADO")
    THEN [Mover(LimpiarSemaforos(k, p), p, "BLOQUEADO", "TERMINADO")
            EXCEPT !.ec[p] = code]
    ELSE k

\* pasarPcbAFinalizados: the queue is the one pcb->estado names.  A NEW
\* process waits for no semaphore and is not counted.
AFinalizados(k, p, estado) ==
    CASE ~Mueve(k, p, estado) -> k
      [] Mueve(k, p, estado) /\ estado = "NUEVO" ->
            Mover(k, p, "NUEVO", "TERMINADO")
      [] Mueve(k, p, estado) /\ estado # "NUEVO" ->
            Mover(LimpiarSemaforos(k, p), p, estado, "TERMINADO")

\* The PCB that came back is dropped.
DefectoReemplazar(k, p) == k

\* The copy of the PCB that comes back from a CPU takes the place of the
\* kernel's, exit code included.
ReemplazarPcbEnEjecutando(k, p) ==
    [k EXCEPT !.ec[p] = IF EnCola(k, p, "EJECUTANDO")
                        THEN k.ecCopia[p] ELSE @]

\* The first CPU list entry that says it runs p decides.
EstaElProcesoEnEjecucion(k, p) ==
    \E i \in DOMAIN k.ocupadas : k.pidEn[k.ocupadas[i]] = p

-----------------------------------------------------------------------------
(* The console's side and the memory process.                              *)

EliminarPidProgramaSocket(k, p) == [k EXCEPT !.consolas = @ \ {p}]

\* borrarPrograma forgotten.
DefectoInformarAConsola(k, p, code) ==
    IF p \in k.consolas
    THEN [k EXCEPT !.avisos[p] = Append(@, code)] ELSE k

InformarAConsola(k, p, code) ==
    IF p \in k.consolas
    THEN [EliminarPidProgramaSocket(k, p) EXCEPT
            !.avisos[p] = Append(@, code)]
    ELSE k

PedirAMemoriaFinalizarProceso(k, p) == [k EXCEPT !.paginas = @ \ {p}]

=============================================================================

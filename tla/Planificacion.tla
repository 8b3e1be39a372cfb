--------------------------- MODULE Planificacion ----------------------------
(***************************************************************************)
(* What the kernel does with CPUs, consoles and memory in one handler:     *)
(* planificacion.c, conexionesKernelCpu.c, conexionesKernelConsola.c and   *)
(* the commands of consolaKernel.c, as operators on the record of          *)
(* PcbOperaciones.                                                         *)
(*                                                                         *)
(* x holds what the outside decides during the handler:                    *)
(*   x.memoria   memory grants the initial pages it is asked for           *)
(*   x.colgado   the dead frame a dangling kill flag points to holds the   *)
(*               PID that is compared with it                              *)
(*   x.basura    reading code from a console that is gone crashes the      *)
(*               kernel (its size is then an uninitialised int)            *)
(*   x.cpu       what the uninitialised CPU pointer of planificar holds    *)
(***************************************************************************)
EXTENDS PcbOperaciones

CONSTANTS Algoritmo, Quantum

ASSUME AlgoritmoAssumption == Algoritmo \in {"FIFO", "RR"}
ASSUME QuantumAssumption == Quantum \in Nat

Exterior == [memoria: BOOLEAN, colgado: BOOLEAN, basura: BOOLEAN,
             cpu: Cpus \cup {NoCpu}]

\* <= for <.
DefectoCheckNivel(k) == k.cantidad <= k.grado

CheckNivelMultiprogramacion(k) == k.cantidad < k.grado

HayListos(k) == k.cola["LISTO"] # <<>>

-----------------------------------------------------------------------------
(* Handing a process to a CPU.                                             *)

\* A CPU that waits for a PCB.
EsperaPcb(k, c) == k.modo[c] = "activa" /\ k.enCpu[c] = 0

\* A CPU whose program is in the middle of something reads EJECUTAR_PROGRAMA
\* as the answer to its last message.
EsperaOtraCosa(k, c) == k.enCpu[c] # 0

\* A CPU that has not been greeted takes EJECUTAR_PROGRAMA for the answer to
\* its handshake and exits; one whose socket is closed never gets the PCB.
EjecutarSiguientePcbEnCpu(k, c) ==
    IF ~HayListos(k) THEN k
    ELSE LET p == Head(k.cola["LISTO"])
         IN  [ListosAEjecutando(k, p) EXCEPT
                !.pidEn[c] = p,
                !.ecCopia[p] = k.ec[p],
                !.enCpu[c] = IF EsperaPcb(k, c) THEN p ELSE @,
                !.modo[c] = IF @ = "saludando" THEN "rechazada" ELSE @,
                !.vivo = IF EsperaOtraCosa(k, c)
                         THEN "desincronizado" ELSE @]

\* The CPU stays in cpusLibres.
DefectoPlanificarLibre(k) ==
    IF ~k.activa \/ k.libres = <<>> THEN k
    ELSE LET c == Head(k.libres)
         IN  EjecutarSiguientePcbEnCpu([k EXCEPT !.ocupadas = Append(@, c)], c)

\* planificar(NULL): the first free CPU takes the first ready process.
PlanificarLibre(k) ==
    IF ~k.activa \/ k.libres = <<>> THEN k
    ELSE LET c == Head(k.libres)
             movida == [k EXCEPT
                !.libres = Tail(@),
                !.ocupadas = Append(@, c),
                !.quantum[c] = IF Algoritmo = "RR" THEN @ + 1 ELSE @]
         IN  EjecutarSiguientePcbEnCpu(movida, c)

\* planificar(NULL) forgotten after a handler that may leave ready processes.
DefectoPlanificarSiHayListos(k) == k

PlanificarSiHayListos(k) == IF HayListos(k) THEN PlanificarLibre(k) ELSE k

\* eliminarCpuDeOcupadas, then list_add(cpusLibres).
LiberarCpu(k, c) ==
    [k EXCEPT !.ocupadas = RemoveFirst(@, c), !.libres = Append(@, c)]

-----------------------------------------------------------------------------
(* Admission: the oldest NEW process becomes ready.  The level is not      *)
(* looked at here.  The code of the program is asked of its console, then  *)
(* memory is asked for pages; a process memory rejects gets its exit code, *)
(* but it was already taken out of colaNuevos and no queue gets it.        *)

\* pedirAMemoriaInicializacionDeProceso, refused.
SinMemoria(k, p) == [k EXCEPT !.ec[p] = "NO_SE_PUDO_ASIGNAR_RECURSO"]

AdmitirNuevo(k, p, x) ==
    IF x.memoria
    THEN LET admitido == NuevoAListos([k EXCEPT !.paginas = @ \cup {p}], p)
         IN  IF k.libres # <<>> THEN PlanificarLibre(admitido) ELSE admitido
    ELSE LET rechazado == NuevoAFinalizados(
                             SinMemoria(k, p), p, "NO_SE_PUDO_ASIGNAR_RECURSO")
         IN  InformarAConsola(rechazado, p, rechazado.ec[p])

PasarProximoProcDeNewAReady(k, x) ==
    IF ~k.activa \/ k.cola["NUEVO"] = <<>> THEN k
    ELSE LET p == Head(k.cola["NUEVO"])
             quitado == [k EXCEPT !.cola["NUEVO"] = Tail(@)]
         IN  CASE p \notin k.consolas -> [quitado EXCEPT !.vivo = "caido"]
               [] p \in k.consolas /\ k.consola[p] = "finalizando" ->
                    [quitado EXCEPT !.vivo = "colgado"]
               [] p \in k.consolas /\ k.consola[p] = "cerrando" /\ x.basura ->
                    [quitado EXCEPT !.vivo = "caido"]
               [] OTHER -> AdmitirNuevo(quitado, p, x)

-----------------------------------------------------------------------------
(* planificar(cpuSocket): a CPU finished a sentence.                       *)

TengoQueMatar(k, p, x) == p \in k.destruir \/ (k.colgados > 0 /\ x.colgado)

\* The first entry of the list is taken for the dangling one.
DefectoQuitarFlag(k, p, x) == [k EXCEPT !.colgados = @ - 1]

\* The flag that was found is removed from the list.
QuitarFlag(k, p, x) ==
    IF k.colgados > 0 /\ x.colgado
    THEN [k EXCEPT !.colgados = @ - 1]
    ELSE [k EXCEPT !.destruir = @ \ {p}]

\* CAMBIAR_PROCESO, then the PCB comes back.
RecibirPcb(k, c) ==
    ReemplazarPcbEnEjecutando([k EXCEPT !.enCpu[c] = 0], k.enCpu[c])

\* The next process goes to the CPU after it joined the free list.
MatarEnCpu(k, c, x) ==
    LET p == k.enCpu[c]
        finalizado == EjecutandoAFinalizados(RecibirPcb(k, c), p)
        avisado == InformarAConsola(
            PedirAMemoriaFinalizarProceso(finalizado, p), p, k.ecCopia[p])
    IN  EjecutarSiguientePcbEnCpu(
            LiberarCpu(PasarProximoProcDeNewAReady(avisado, x), c), c)

\* The search of planificar in cpusOcupadas: without a match the loop leaves
\* the last entry in the pointer, or never writes it.
CpuDelQuantum(k, c, x) ==
    CASE Contains(k.ocupadas, c) -> c
      [] ~Contains(k.ocupadas, c) /\ k.ocupadas # <<>> -> Last(k.ocupadas)
      [] OTHER -> x.cpu

RoundRobin(k, c, x) ==
    LET cpu == CpuDelQuantum(k, c, x)
        p == k.enCpu[c]
    IN  CASE cpu = NoCpu -> [k EXCEPT !.vivo = "caido"]
          [] cpu # NoCpu /\ k.quantum[cpu] >= Quantum ->
                EjecutarSiguientePcbEnCpu(
                    [EjecutandoAListos(RecibirPcb(k, c), p) EXCEPT
                        !.quantum[cpu] = 1], cpu)
          [] OTHER -> [k EXCEPT !.quantum[cpu] = @ + 1]

\* While planning is stopped the CPU gets no answer.
PlanificarCpu(k, c, x) ==
    IF ~k.activa THEN [k EXCEPT !.modo[c] = "esperando"]
    ELSE LET sigue == [k EXCEPT !.modo[c] = "activa"] IN
         CASE TengoQueMatar(k, k.pidEn[c], x) ->
                MatarEnCpu(QuitarFlag(sigue, k.pidEn[c], x), c, x)
           [] ~TengoQueMatar(k, k.pidEn[c], x) /\ Algoritmo = "RR" ->
                RoundRobin(sigue, c, x)
           [] OTHER -> sigue

-----------------------------------------------------------------------------
(* The other messages of a CPU.                                            *)

ProgramaTerminado(k, c, x) ==
    LET p == k.enCpu[c]
        recibido == RecibirPcb(
            [k EXCEPT !.ecCopia[p] = "FINALIZADO_CORRECTAMENTE"], c)
        libre == LiberarCpu(
            [EjecutandoAFinalizados(recibido, p) EXCEPT
                !.pidEn[c] = 0, !.quantum[c] = 0], c)
        avisado == InformarAConsola(
            PedirAMemoriaFinalizarProceso(libre, p), p,
            "FINALIZADO_CORRECTAMENTE")
    IN  PlanificarSiHayListos(PasarProximoProcDeNewAReady(avisado, x))

\* pedidoAbortarProgramaDeCpu; code is what the CPU wrote in the PCB.
AbortarDeCpu(k, c, code, x) ==
    LET p == k.enCpu[c]
        recibido == RecibirPcb([k EXCEPT !.ecCopia[p] = code], c)
        libre == LiberarCpu(
            [EjecutandoAFinalizados(recibido, p) EXCEPT
                !.pidEn[c] = 0, !.quantum[c] = 0], c)
    IN  PasarProximoProcDeNewAReady(
            InformarAConsola(
                PedirAMemoriaFinalizarProceso(libre, p), p, code), x)

\* The process had a kill flag: it is not blocked and the unit goes back.
WaitMata(k, c, s, x) ==
    LET p == k.enCpu[c]
        finalizado == AFinalizados(RecibirPcb(k, c), p, "EJECUTANDO")
        avisado == InformarAConsola(
            PedirAMemoriaFinalizarProceso(finalizado, p), p, k.ecCopia[p])
        libre == LiberarCpu(PasarProximoProcDeNewAReady(avisado, x), c)
    IN  [libre EXCEPT !.valor[s] = @ + 1]

WaitBloquea(k, c, s) ==
    LET p == k.enCpu[c]
        libre == LiberarCpu([k EXCEPT !.espera[p] = s], c)
    IN  EjecutandoABloqueados(RecibirPcb(libre, c), p)

\* Blocks a process without looking for its kill flag.
DefectoWait(k, c, s, x) ==
    IF k.valor[s] > 0 THEN [k EXCEPT !.valor[s] = @ - 1]
    ELSE PlanificarSiHayListos(
            WaitBloquea([k EXCEPT !.valor[s] = @ - 1], c, s))

Wait(k, c, s, x) ==
    LET p == k.enCpu[c]
        tomado == [k EXCEPT !.valor[s] = @ - 1]
    IN  CASE k.valor[s] > 0 -> tomado
          [] k.valor[s] <= 0 /\ TengoQueMatar(k, p, x) ->
                PlanificarSiHayListos(
                    WaitMata(QuitarFlag(tomado, p, x), c, s, x))
          [] OTHER -> PlanificarSiHayListos(WaitBloquea(tomado, c, s))

\* The first blocked process that waits for s, if any, stops waiting.
Signal(k, c, s) ==
    LET sumado == [k EXCEPT !.valor[s] = @ + 1, !.modo[c] = "sentencia"]
        i == SelectInSeq(k.cola["BLOQUEADO"], LAMBDA p : k.espera[p] = s)
    IN  IF i = 0 THEN sumado
        ELSE LET p == k.cola["BLOQUEADO"][i]
                 listo == [BloqueadoAListo(sumado, p) EXCEPT
                              !.espera[p] = NoSem]
             IN  IF k.libres # <<>> THEN PlanificarLibre(listo) ELSE listo

\* pedido_bloque_memoria for more than a page: the kernel finishes the
\* process at once, without the PCB the CPU holds, and keeps its console.
PedidoBloqueGrande(k, c) ==
    LET p == k.pidEn[c]
        code == "MALLOC_MAYOR_A_PAGESIZE"
        finalizado == EjecutandoAFinalizados([k EXCEPT !.ec[p] = code], p)
    IN  IF ~BuscarPcb(k, p) THEN [k EXCEPT !.vivo = "caido"]
        ELSE [finalizado EXCEPT
                !.modo[c] = "abortando",
                !.avisos[p] = IF p \in k.consolas THEN Append(@, code) ELSE @]

\* terminarProcesoEjecutandoEnCpu trusts PID_en_ejecucion.
TerminarProcesoEjecutandoEnCpu(k, c, x) ==
    LET p == k.pidEn[c]
        avisado == InformarAConsola(
            PedirAMemoriaFinalizarProceso(
                [k EXCEPT !.ec[p] = "DESCONEXION_CPU"], p),
            p, "DESCONEXION_CPU")
    IN  IF EnCola(k, p, "EJECUTANDO")
        THEN PasarProximoProcDeNewAReady(EjecutandoAFinalizados(avisado, p), x)
        ELSE k

\* Removes and frees one entry; basura is what PID_en_ejecucion reads as
\* when a second entry still points to the freed struct.
RemoverCpuDeLaLista(k, c, basura) ==
    LET quitada == IF Contains(k.libres, c)
                   THEN [k EXCEPT !.libres = RemoveFirst(@, c)]
                   ELSE [k EXCEPT !.ocupadas = RemoveFirst(@, c)]
    IN  [quitada EXCEPT !.modo[c] = "fuera", !.pidEn[c] = basura]

-----------------------------------------------------------------------------
(* The consoles.                                                           *)

\* checkNivelMultiprogramacion() is true: the process is ready before memory
\* is asked for its pages.
IniciarListo(k, p, x) ==
    LET creado == [NuevoAListos(CrearPcb(k), p) EXCEPT
                      !.consolas = @ \cup {p}, !.consola[p] = "conectada"]
        code == "NO_SE_PUDO_ASIGNAR_RECURSO"
    IN  IF x.memoria THEN [creado EXCEPT !.paginas = @ \cup {p}]
        ELSE InformarAConsola(
                ListoAFinalizados([creado EXCEPT !.ec[p] = code], p), p, code)

IniciarNuevo(k, p) ==
    [CrearPcb(k) EXCEPT !.cola["NUEVO"] = Append(@, p),
                        !.consolas = @ \cup {p},
                        !.consola[p] = "conectada"]

IniciarProceso(k, x) ==
    LET p == k.maxPID + 1
        creado == IF CheckNivelMultiprogramacion(k)
                  THEN IniciarListo(k, p, x) ELSE IniciarNuevo(k, p)
    IN  PlanificarSiHayListos(creado)

\* pedirAMemoriaFinalizarProceso forgotten for a process no CPU holds.
DefectoPedidoAbortar(k, p, code) ==
    IF p \notin k.consolas THEN k
    ELSE LET borrado == [EliminarPidProgramaSocket(k, p) EXCEPT !.ec[p] = code]
             estado == CHOOSE e \in Estado : EnCola(k, p, e)
         IN  IF EnCola(k, p, "EJECUTANDO")
             THEN [borrado EXCEPT !.destruir = @ \cup {p}]
             ELSE AFinalizados(borrado, p, estado)

\* code tells whether the console asked (FINALIZADO_POR_COMANDO) or closed.
PedidoAbortarProgramaDeConsola(k, p, code) ==
    LET borrado == [EliminarPidProgramaSocket(k, p) EXCEPT !.ec[p] = code]
        estado == CHOOSE e \in Estado : EnCola(k, p, e)
    IN  CASE p \notin k.consolas -> k
          [] p \in k.consolas /\ ~BuscarPcb(k, p) ->
                EliminarPidProgramaSocket(k, p)
          [] p \in k.consolas /\ EnCola(k, p, "EJECUTANDO") ->
                [borrado EXCEPT !.destruir = @ \cup {p}]
          [] OTHER -> PedirAMemoriaFinalizarProceso(
                        AFinalizados(borrado, p, estado), p)

-----------------------------------------------------------------------------
(* The operator's commands.                                                *)

\* kill: the entry it allocates is dropped, the list gets the address of
\* the function's own parameter.
MatarProceso(k, p) ==
    LET code == "FINALIZADO_POR_COMANDO"
        sinPaginas(m) == InformarAConsola(
            PedirAMemoriaFinalizarProceso(m, p), p, m.ec[p])
    IN  CASE EstaElProcesoEnEjecucion(k, p) -> [k EXCEPT !.colgados = @ + 1]
          [] ~EstaElProcesoEnEjecucion(k, p) /\ EnCola(k, p, "NUEVO") ->
                NuevoAFinalizados(k, p, code)
          [] ~EstaElProcesoEnEjecucion(k, p) /\ EnCola(k, p, "LISTO") ->
                sinPaginas(ListoAFinalizados([k EXCEPT !.ec[p] = code], p))
          [] ~EstaElProcesoEnEjecucion(k, p) /\ EnCola(k, p, "BLOQUEADO") ->
                sinPaginas(BloqueadoAFinalizados(k, p, code))
          [] OTHER -> k

\* The command's loop runs at most size times; one round is one step, so
\* that each round has its own answer from memory.
Multiprogramacion(k, n) ==
    [k EXCEPT !.grado = n,
              !.iteraciones = IF k.cantidad < n
                              THEN Len(k.cola["NUEVO"]) ELSE 0]

\* An if in place of the loop.
DefectoRonda(k, x) ==
    IF CheckNivelMultiprogramacion(k)
    THEN [PasarProximoProcDeNewAReady(k, x) EXCEPT !.iteraciones = 0]
    ELSE [k EXCEPT !.iteraciones = 0]

RondaDeMultiprogramacion(k, x) ==
    IF CheckNivelMultiprogramacion(k)
    THEN [PasarProximoProcDeNewAReady(k, x) EXCEPT
            !.iteraciones = k.iteraciones - 1]
    ELSE [k EXCEPT !.iteraciones = 0]

=============================================================================

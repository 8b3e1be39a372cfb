---------------------- MODULE KernelPlanificador_proofs ----------------------
(***************************************************************************)
(* In every state of KernelPlanificador the kernel's process table is in   *)
(* order and no process is on two CPUs, for any number of CPUs, programs   *)
(* and semaphores, any level, any quantum and any set of disturbances; and *)
(* a process that ends leaves no pages and no console that waits, and no   *)
(* process, unit of a semaphore, slot of the level or CPU is lost on the   *)
(* way, under the disturbances each theorem names.                         *)
(***************************************************************************)
EXTENDS KernelPlanificador, Planificacion_proofs, FiniteSetTheorems

\* The inductive invariant: the process table is Bien, and no program has
\* run more sentences than it may.
IInv ==
    /\ Bien(sistema)
    /\ restan \in [Pid -> 0..MaxSentencias]

\* The empty process table is in order.
LEMMA InicialBien ==
    ASSUME NEW g \in Grados
    PROVE  Bien(Inicial(g))
<1>. DEFINE k == Inicial(g)
<1>1. g \in Int
  BY GradosAssumption
<1>2. k \in Sistema
  <2>1. <<>> \in Seq(Pid) /\ <<>> \in Seq(Cpus) /\ <<>> \in Seq(ExitCode)
    BY EmptySeq
  <2>2. InicioSem \in [Sems -> Int]
    BY SemsAssumption
  <2>3. 0 \in 0..MaxPid
    BY MaxPidAssumption
  <2> QED
    BY <1>1, <2>1, <2>2, <2>3 DEF Inicial, Sistema, ExitCode, Vida, ModoCpu,
       ModoConsola
<1>3. k.cola = [e \in Estado |-> <<>>] /\ k.cantidad = 0
  BY DEF Inicial
<1>. HIDE DEF k
<1>4. \A e \in Estado : Len(k.cola[e]) = 0
  BY <1>3, EmptySeq
<1>5. Cuenta(k)
  BY <1>3, <1>4 DEF Cuenta, Estado
<1>6. SinRepetir(k.cola) /\ Conocidos(k.cola, k.maxPID)
  BY <1>4 DEF SinRepetir, Conocidos
<1> QED
  BY <1>2, <1>5, <1>6 DEF Bien, k

\* The initial states satisfy the invariant.
LEMMA InvInit == Init => IInv
<1>1. SUFFICES ASSUME Init PROVE IInv
  OBVIOUS
<1>2. PICK g \in Grados : sistema = Inicial(g)
  BY <1>1 DEF Init
<1>3. Bien(sistema)
  BY <1>2, InicialBien
<1>4. restan \in [Pid -> 0..MaxSentencias]
  <2>1. MaxSentencias \in 0..MaxSentencias
    BY CotasAssumption
  <2> QED
    BY <1>1, <2>1 DEF Init
<1> QED
  BY <1>3, <1>4 DEF IInv

\* A sentence less to run.
LEMMA GastarBien ==
    ASSUME NEW c \in Cpus, IInv, sistema.enCpu[c] # 0, GastarSentencia(c)
    PROVE  restan' \in [Pid -> 0..MaxSentencias]
<1>. DEFINE p == sistema.enCpu[c]
            n == restan[p] - 1
<1>1. p \in Pid
  BY RecibirPcbBien DEF IInv
<1>. HIDE DEF p
<1>2. restan \in [Pid -> 0..MaxSentencias] /\ restan[p] > 0
  BY DEF IInv, GastarSentencia, p
<1>3. n \in 0..MaxSentencias
  BY <1>1, <1>2, CotasAssumption
<1>4. restan' = [restan EXCEPT ![p] = n]
  BY <1>2 DEF GastarSentencia, p
<1>. HIDE DEF n
<1> QED
  BY <1>1, <1>2, <1>3, <1>4

\* The steps of a CPU keep the invariant.
LEMMA PasoCpuBien ==
    ASSUME NEW c \in Cpus, IInv, PasoCpu(c)
    PROVE  IInv'
<1>1. Bien(sistema) /\ restan \in [Pid -> 0..MaxSentencias]
  BY DEF IInv
<1>2. \A x \in Respuestas : x \in Exterior
  BY DEF Respuestas
<1>3. \A o \in ModoCpu : Bien([sistema EXCEPT !.modo[c] = o])
  BY <1>1, CampoBien
<1>4. \A o : [sistema EXCEPT !.modo[c] = o].enCpu = sistema.enCpu
  BY <1>1 DEF Bien, Sistema
<1>5. CASE MsjHandshake(c)
  <2>. DEFINE m == [sistema EXCEPT !.modo[c] =
                       IF @ = "saludando" THEN "activa" ELSE "muerta"]
              o == IF sistema.modo[c] = "saludando" THEN "activa" ELSE "muerta"
  <2>1. o \in ModoCpu
    BY DEF ModoCpu
  <2>2. m = [sistema EXCEPT !.modo[c] = o]
    BY <1>1 DEF Bien, Sistema
  <2>. HIDE DEF o
  <2>3. Bien(m)
    BY <1>3, <2>1, <2>2
  <2>4. sistema' = PlanificarSiHayListos(m) /\ restan' = restan
    BY <1>5 DEF MsjHandshake
  <2>. HIDE DEF m
  <2> QED
    BY <1>1, <2>3, <2>4, PlanificarSiHayListosBien DEF IInv
<1>6. CASE MsjTermineSentencia(c)
  <2>1. sistema.enCpu[c] # 0 /\ GastarSentencia(c)
    BY <1>6 DEF MsjTermineSentencia
  <2>2. PICK x \in Respuestas : sistema' = PlanificarCpu(sistema, c, x)
    BY <1>6 DEF MsjTermineSentencia
  <2>3. Bien(sistema')
    BY <1>1, <1>2, <2>1, <2>2, PlanificarCpuBien
  <2>4. restan' \in [Pid -> 0..MaxSentencias]
    BY <2>1, GastarBien
  <2> QED
    BY <2>3, <2>4 DEF IInv
<1>7. ASSUME NEW s \in Sems, MsjWait(c, s)
      PROVE  IInv'
  <2>1. sistema.enCpu[c] # 0 /\ GastarSentencia(c)
    BY <1>7 DEF MsjWait, Ejecuta
  <2>2. PICK x \in Respuestas : sistema' = Wait(sistema, c, s, x)
    BY <1>7 DEF MsjWait
  <2>3. Bien(sistema')
    BY <1>1, <2>1, <2>2, WaitBien
  <2>4. restan' \in [Pid -> 0..MaxSentencias]
    BY <2>1, GastarBien
  <2> QED
    BY <2>3, <2>4 DEF IInv
<1>8. ASSUME NEW s \in Sems, MsjSignal(c, s)
      PROVE  IInv'
  BY <1>1, <1>8, SignalBien DEF MsjSignal, IInv
<1>9. CASE MsjProgramaTerminado(c)
  <2>1. sistema.enCpu[c] # 0 /\ restan' = restan
    BY <1>9 DEF MsjProgramaTerminado, Ejecuta
  <2>2. PICK x \in Respuestas : sistema' = ProgramaTerminado(sistema, c, x)
    BY <1>9 DEF MsjProgramaTerminado
  <2>3. Bien(sistema')
    BY <1>1, <2>1, <2>2, ProgramaTerminadoBien
  <2> QED
    BY <1>1, <2>1, <2>3 DEF IInv
<1>10. CASE MsjAbortarPrograma(c)
  <2>. DEFINE m == [sistema EXCEPT !.modo[c] = "activa"]
  <2>1. sistema.enCpu[c] # 0 /\ restan' = restan
    BY <1>10 DEF MsjAbortarPrograma
  <2>2. PICK x \in Respuestas :
           sistema' = AbortarDeCpu(m, c, "ERROR_DE_EJECUCION", x)
    BY <1>10 DEF MsjAbortarPrograma
  <2>3. Bien(m) /\ m.enCpu[c] # 0
    BY <1>3, <1>4, <2>1 DEF ModoCpu
  <2>. HIDE DEF m
  <2>4. "ERROR_DE_EJECUCION" \in ExitCode
    BY DEF ExitCode
  <2>5. Bien(sistema')
    BY <2>2, <2>3, <2>4, AbortarDeCpuBien
  <2> QED
    BY <1>1, <2>1, <2>5 DEF IInv
<1>11. CASE MsjPedidoBloqueMemoria(c)
  BY <1>1, <1>11, PedidoBloqueGrandeBien DEF MsjPedidoBloqueMemoria, IInv
<1>12. CASE DesconexionCpu(c)
  <2>1. restan' = restan
    BY <1>12 DEF DesconexionCpu
  <2>2. PICK x \in Respuestas, basura \in PidSinInicializar :
           sistema' = RemoverCpuDeLaLista(
               TerminarProcesoEjecutandoEnCpu(sistema, c, x), c, basura)
    BY <1>12 DEF DesconexionCpu
  <2>3. basura \in 0..MaxPid
    BY BasuraAssumption
  <2>4. Bien(TerminarProcesoEjecutandoEnCpu(sistema, c, x))
    BY <1>1, TerminarProcesoBien
  <2>5. Bien(sistema')
    BY <2>2, <2>3, <2>4, RemoverCpuBien
  <2> QED
    BY <1>1, <2>1, <2>5 DEF IInv
<1> QED
  BY <1>5, <1>6, <1>7, <1>8, <1>9, <1>10, <1>11, <1>12, Zenon DEF PasoCpu

\* A CPU connects, disconnects in order or dies.
LEMMA ConexionBien ==
    ASSUME NEW c \in Cpus, IInv,
           NuevoCpuConectado(c) \/ MsjMeDesconecto(c) \/ CaidaCpu(c)
    PROVE  IInv'
<1>1. Bien(sistema) /\ restan \in [Pid -> 0..MaxSentencias]
  BY DEF IInv
<1>2. restan' = restan
  BY DEF NuevoCpuConectado, MsjMeDesconecto, CaidaCpu
<1>3. CASE NuevoCpuConectado(c)
  <2>. DEFINE l == Append(sistema.libres, c)
  <2>1. PICK basura \in PidSinInicializar :
           sistema' = [sistema EXCEPT !.modo[c] = "saludando",
                          !.libres = Append(@, c), !.quantum[c] = 0,
                          !.pidEn[c] = basura]
    BY <1>3 DEF NuevoCpuConectado
  <2>2. basura \in 0..MaxPid
    BY BasuraAssumption
  <2>3. l \in Seq(Cpus)
    BY <1>1 DEF Bien, Sistema
  <2>. DEFINE m == [sistema EXCEPT !.modo[c] = "saludando", !.libres = l,
                       !.quantum[c] = 0, !.pidEn[c] = basura]
  <2>4. sistema' = m
    BY <2>1
  <2>. HIDE DEF l
  <2>5. m \in Sistema
    BY <1>1, <2>2, <2>3 DEF Bien, Sistema, ModoCpu
  <2>6. m.cola = sistema.cola /\ m.cantidad = sistema.cantidad
        /\ m.maxPID = sistema.maxPID
    BY <1>1 DEF Bien, Sistema
  <2>. HIDE DEF m
  <2>7. Bien(m)
    BY <1>1, <2>5, <2>6, MismasColas
  <2> QED
    BY <1>1, <1>2, <2>4, <2>7 DEF IInv
<1>4. CASE MsjMeDesconecto(c)
  <2>. DEFINE m == [sistema EXCEPT !.modo[c] = "muerta"]
  <2>1. PICK x \in Respuestas :
           sistema' = AbortarDeCpu(m, c, "DESCONEXION_CPU", x)
    BY <1>4 DEF MsjMeDesconecto
  <2>2. Bien(m)
    BY <1>1, CampoBien DEF ModoCpu
  <2>3. m.enCpu[c] # 0
    BY <1>1, <1>4 DEF MsjMeDesconecto, Bien, Sistema
  <2>. HIDE DEF m
  <2>4. "DESCONEXION_CPU" \in ExitCode
    BY DEF ExitCode
  <2>5. Bien(sistema')
    BY <2>1, <2>2, <2>3, <2>4, AbortarDeCpuBien
  <2> QED
    BY <1>1, <1>2, <2>5 DEF IInv
<1>5. CASE CaidaCpu(c)
  <2>1. sistema' = [sistema EXCEPT !.modo[c] = "muerta", !.enCpu[c] = 0]
    BY <1>5 DEF CaidaCpu
  <2>2. 0 \in 0..MaxPid
    BY MaxPidAssumption
  <2>3. Bien(sistema')
    BY <1>1, <2>1, <2>2, MismasColas, ZenonT(60) DEF Bien, Sistema, ModoCpu
  <2> QED
    BY <1>1, <1>2, <2>3 DEF IInv
<1> QED
  BY <1>3, <1>4, <1>5

\* The consoles and the operator keep the invariant.
LEMMA ConsolaBien ==
    ASSUME NEW p \in Pid, IInv,
           \/ ConsolaPideFinalizar(p) \/ ConsolaCierra(p)
           \/ PasoConsola(p) \/ CmdKill(p)
    PROVE  IInv'
<1>1. Bien(sistema) /\ restan \in [Pid -> 0..MaxSentencias]
  BY DEF IInv
<1>2. restan' = restan
  BY DEF ConsolaPideFinalizar, ConsolaCierra, PasoConsola, CmdKill,
     MsjFinalizarProceso, DesconexionConsola, AtiendeConsola
<1>3. ASSUME NEW o \in ModoConsola
      PROVE  Bien([sistema EXCEPT !.consola[p] = o])
  BY <1>1, MismasColas DEF Bien, Sistema
<1>4. CASE ConsolaPideFinalizar(p)
  BY <1>1, <1>2, <1>3, <1>4 DEF ConsolaPideFinalizar, ModoConsola, IInv
<1>5. CASE ConsolaCierra(p)
  BY <1>1, <1>2, <1>3, <1>5 DEF ConsolaCierra, ModoConsola, IInv
<1>6. CASE PasoConsola(p)
  <2>1. ASSUME NEW modo, NEW code \in ExitCode, AtiendeConsola(p, modo, code)
        PROVE  IInv'
    <3>. DEFINE m == [sistema EXCEPT !.consola[p] = "atendida"]
    <3>1. sistema' = PedidoAbortarProgramaDeConsola(m, p, code)
      BY <2>1 DEF AtiendeConsola
    <3>2. Bien(m)
      BY <1>3 DEF ModoConsola
    <3>. HIDE DEF m
    <3>3. Bien(sistema')
      BY <3>1, <3>2, PedidoAbortarBien
    <3> QED
      BY <1>1, <1>2, <3>3 DEF IInv
  <2> QED
    BY <1>6, <2>1 DEF PasoConsola, MsjFinalizarProceso, DesconexionConsola,
       ExitCode
<1>7. CASE CmdKill(p)
  BY <1>1, <1>2, <1>7, MatarProcesoBien DEF CmdKill, IInv
<1> QED
  BY <1>4, <1>5, <1>6, <1>7

\* Every step keeps the invariant.
LEMMA InvNext == IInv /\ [Next]_vars => IInv'
<1>1. SUFFICES ASSUME IInv, [Next]_vars PROVE IInv'
  OBVIOUS
<1>2. Bien(sistema) /\ restan \in [Pid -> 0..MaxSentencias]
  BY <1>1 DEF IInv
<1>3. ASSUME NEW c \in Cpus,
             \/ NuevoCpuConectado(c) \/ PasoCpu(c)
             \/ MsjMeDesconecto(c) \/ CaidaCpu(c)
      PROVE  IInv'
  BY <1>1, <1>3, PasoCpuBien, ConexionBien
<1>4. CASE MsjIniciarProceso
  <2>1. sistema.maxPID < MaxPid /\ restan' = restan
    BY <1>4 DEF MsjIniciarProceso
  <2>2. PICK x \in Respuestas : sistema' = IniciarProceso(sistema, x)
    BY <1>4 DEF MsjIniciarProceso
  <2>3. Bien(sistema')
    BY <1>2, <2>1, <2>2, IniciarProcesoBien
  <2> QED
    BY <1>2, <2>1, <2>3 DEF IInv
<1>5. ASSUME NEW p \in Pid,
             \/ ConsolaPideFinalizar(p) \/ ConsolaCierra(p)
             \/ PasoConsola(p) \/ CmdKill(p)
      PROVE  IInv'
  BY <1>1, <1>5, ConsolaBien
<1>6. CASE CmdStop \/ CmdRestart
  <2>1. PICK b \in BOOLEAN : sistema' = [sistema EXCEPT !.activa = b]
    BY <1>6 DEF CmdStop, CmdRestart
  <2>2. restan' = restan
    BY <1>6 DEF CmdStop, CmdRestart
  <2>3. Bien(sistema')
    BY <1>2, <2>1, MismasColas DEF Bien, Sistema
  <2> QED
    BY <1>2, <2>2, <2>3 DEF IInv
<1>7. ASSUME NEW n \in Grados, CmdMultiprogramacion(n)
      PROVE  IInv'
  <2>1. n \in Nat
    BY GradosAssumption
  <2> QED
    BY <1>2, <1>7, <2>1, MultiprogramacionBien DEF CmdMultiprogramacion, IInv
<1>8. CASE RondaAdmision
  <2>1. sistema.iteraciones > 0 /\ restan' = restan
    BY <1>8 DEF RondaAdmision
  <2>2. PICK x \in Respuestas : sistema' = RondaDeMultiprogramacion(sistema, x)
    BY <1>8 DEF RondaAdmision
  <2>3. Bien(sistema')
    BY <1>2, <2>1, <2>2, RondaBien
  <2> QED
    BY <1>2, <2>1, <2>3 DEF IInv
<1>9. CASE UNCHANGED vars
  BY <1>2, <1>9 DEF vars, IInv
<1> QED
  BY <1>1, <1>3, <1>4, <1>5, <1>6, <1>7, <1>8, <1>9, Zenon DEF Next

-----------------------------------------------------------------------------
\* The process table is in order in every reachable state.
THEOREM TablaEnOrden == Spec => []IInv
BY InvInit, InvNext, PTL DEF Spec

\* Every variable keeps its type, whatever messages, failures and commands
\* arrive: no counter below zero, no PID in a queue that was never given.
THEOREM TiposCorrectos == Spec => []TypeOK
<1>1. IInv => TypeOK
  BY DEF IInv, Bien, TypeOK
<1> QED
  BY <1>1, TablaEnOrden, PTL

\* cantidadDeProcesosEnSistema is the number of processes of the three queues
\* it counts, after any sequence of handlers.
THEOREM CantidadSiempreCoherente == Spec => []CantidadCoherente
<1>1. IInv => CantidadCoherente
  BY DEF IInv, Bien, Cuenta, CantidadCoherente
<1> QED
  BY <1>1, TablaEnOrden, PTL

\* No sequence of handlers puts a PCB in two queues or twice in one.
THEOREM PcbSiempreEnUnaSolaCola == Spec => []PcbEnUnaSolaCola
<1>1. IInv => PcbEnUnaSolaCola
  <2>1. SUFFICES ASSUME IInv, NEW e \in Estado, NEW f \in Estado,
                        NEW i \in DOMAIN sistema.cola[e],
                        NEW j \in DOMAIN sistema.cola[f],
                        sistema.cola[e][i] = sistema.cola[f][j]
                 PROVE  e = f /\ i = j
    BY DEF PcbEnUnaSolaCola
  <2>2. sistema.cola[e] \in Seq(Pid) /\ sistema.cola[f] \in Seq(Pid)
    BY <2>1 DEF IInv, Bien, Sistema
  <2>3. i \in 1..Len(sistema.cola[e]) /\ j \in 1..Len(sistema.cola[f])
    BY <2>2, LenProperties
  <2>4. SinRepetir(sistema.cola)
    BY <2>1 DEF IInv, Bien
  <2> QED
    BY <2>1, <2>3, <2>4 DEF SinRepetir
<1> QED
  BY <1>1, TablaEnOrden, PTL

-----------------------------------------------------------------------------
(* What the CPUs hold.                                                     *)

\* Something changed at CPU c alone.
LEMMA SoloCpu ==
    ASSUME NEW k, NEW m, NEW c \in Cpus,
           m.cola = k.cola, m.vivo = k.vivo,
           \A d \in Cpus : d # c => /\ m.enCpu[d] = k.enCpu[d]
                                    /\ m.modo[d] = k.modo[d]
                                    /\ m.pidEn[d] = k.pidEn[d],
           Sostenidos(k, Cpus)
    PROVE  /\ Sostenidos(m, Cpus \ {c})
           /\ m.enCpu[c] = 0 => Sostenidos(m, Cpus)
<1>1. \A q : Adentro(m, q) <=> Adentro(k, q)
  BY DEF Adentro, EnCola
<1>2. Sostenidos(m, Cpus \ {c})
  BY <1>1 DEF Sostenidos
<1>3. ASSUME m.enCpu[c] = 0
      PROVE  Sostenidos(m, Cpus)
  BY <1>2, <1>3 DEF Sostenidos
<1> QED
  BY <1>2, <1>3

\* A handler that ran after something changed at a CPU.
LEMMA SigueTras ==
    ASSUME NEW k, NEW l, NEW m, l.cola = k.cola, l.destruir = k.destruir,
           Sigue(l, m)
    PROVE  Sigue(k, m)
BY DEF Sigue, Adentro, EnCola

\* The steps of a CPU.
LEMMA PasoCpuSigue ==
    ASSUME NEW c \in Cpus, IInv, Sostenidos(sistema, Cpus), PasoCpu(c)
    PROVE  Sigue(sistema, sistema')
<1>1. Bien(sistema)
  BY DEF IInv
<1>2. \A x \in Respuestas : x \in Exterior
  BY DEF Respuestas
<1>3. /\ sistema.enCpu \in [Cpus -> 0..MaxPid]
      /\ sistema.modo \in [Cpus -> ModoCpu]
  BY <1>1 DEF Bien, Sistema
<1>4. sistema.modo[c] \notin ConPcb => sistema.enCpu[c] = 0
  BY DEF Sostenidos
<1>5. CASE MsjHandshake(c)
  <2>. DEFINE o == IF sistema.modo[c] = "saludando" THEN "activa" ELSE "muerta"
              m == [sistema EXCEPT !.modo[c] = o]
  <2>1. o \in ModoCpu
    BY DEF ModoCpu
  <2>2. sistema' = PlanificarSiHayListos(m)
    <3>1. m = [sistema EXCEPT !.modo[c] =
                  IF @ = "saludando" THEN "activa" ELSE "muerta"]
      BY <1>1 DEF Bien, Sistema
    <3> QED
      BY <1>5, <3>1 DEF MsjHandshake
  <2>3. sistema.enCpu[c] = 0
    BY <1>4, <1>5 DEF MsjHandshake, ConPcb
  <2>. HIDE DEF o
  <2>4. Bien(m)
    BY <1>1, <2>1, CampoBien
  <2>5. /\ m.cola = sistema.cola /\ m.vivo = sistema.vivo
        /\ m.enCpu = sistema.enCpu /\ m.pidEn = sistema.pidEn
        /\ m.destruir = sistema.destruir
        /\ m.modo = [sistema.modo EXCEPT ![c] = o]
    BY <1>1 DEF Bien, Sistema
  <2>. HIDE DEF m
  <2>6. Sostenidos(m, Cpus)
    BY <1>3, <2>3, <2>5, SoloCpu
  <2>7. Sigue(m, PlanificarSiHayListos(m))
    BY <2>4, <2>6, PlanificarSiHayListosCuida, SigueDeCuida
  <2> QED
    BY <2>2, <2>5, <2>7, SigueTras
<1>6. CASE MsjTermineSentencia(c)
  <2>1. sistema.enCpu[c] # 0 /\ sistema.vivo = "vivo"
    BY <1>6 DEF MsjTermineSentencia, EnSelect, Libre
  <2>2. PICK x \in Respuestas : sistema' = PlanificarCpu(sistema, c, x)
    BY <1>6 DEF MsjTermineSentencia
  <2> QED
    BY <1>1, <1>2, <2>1, <2>2, PlanificarCpuSigue
<1>7. ASSUME NEW s \in Sems, MsjWait(c, s)
      PROVE  Sigue(sistema, sistema')
  <2>1. sistema.enCpu[c] # 0
    BY <1>7 DEF MsjWait, Ejecuta
  <2>2. PICK x \in Respuestas : sistema' = Wait(sistema, c, s, x)
    BY <1>7 DEF MsjWait
  <2> QED
    BY <1>1, <2>1, <2>2, WaitSigue
<1>8. ASSUME NEW s \in Sems, MsjSignal(c, s)
      PROVE  Sigue(sistema, sistema')
  <2>1. sistema.enCpu[c] # 0 /\ sistema' = Signal(sistema, c, s)
    BY <1>8 DEF MsjSignal, Ejecuta
  <2> QED
    BY <1>1, <2>1, SignalCuida, SigueDeCuida
<1>9. CASE MsjProgramaTerminado(c)
  <2>1. sistema.enCpu[c] # 0
    BY <1>9 DEF MsjProgramaTerminado, Ejecuta
  <2>2. PICK x \in Respuestas : sistema' = ProgramaTerminado(sistema, c, x)
    BY <1>9 DEF MsjProgramaTerminado
  <2>3. Suelta(sistema, sistema', c)
    BY <1>1, <2>1, <2>2, ProgramaTerminadoSuelta
  <2> QED
    BY <1>1, <2>3, TodasMenosUna, SigueDeCuida
<1>10. CASE MsjAbortarPrograma(c)
  <2>. DEFINE m == [sistema EXCEPT !.modo[c] = "activa"]
  <2>1. sistema.enCpu[c] # 0
    BY <1>10 DEF MsjAbortarPrograma
  <2>2. PICK x \in Respuestas :
           sistema' = AbortarDeCpu(m, c, "ERROR_DE_EJECUCION", x)
    BY <1>10 DEF MsjAbortarPrograma
  <2>3. m.enCpu = sistema.enCpu
    BY <1>1 DEF Bien, Sistema
  <2>4. Bien(m) /\ Cuida(sistema, m)
    BY <1>1, <2>1, CampoBien, CpuCuida DEF ModoCpu, ConPcb
  <2>. HIDE DEF m
  <2>5. Suelta(m, sistema', c)
    BY <2>1, <2>2, <2>3, <2>4, AbortarDeCpuSuelta DEF ExitCode
  <2>6. Suelta(sistema, sistema', c)
    BY <2>4, <2>5, SueltaTransitiva
  <2> QED
    BY <1>1, <2>6, TodasMenosUna, SigueDeCuida
<1>11. CASE MsjPedidoBloqueMemoria(c)
  <2>1. sistema.enCpu[c] # 0 /\ sistema' = PedidoBloqueGrande(sistema, c)
    BY <1>11 DEF MsjPedidoBloqueMemoria, Ejecuta
  <2> QED
    BY <1>1, <2>1, PedidoBloqueGrandeCuida, SigueDeCuida
<1>12. CASE DesconexionCpu(c)
  <2>1. PICK x \in Respuestas, basura \in PidSinInicializar :
           sistema' = RemoverCpuDeLaLista(
               TerminarProcesoEjecutandoEnCpu(sistema, c, x), c, basura)
    BY <1>12 DEF DesconexionCpu
  <2>. DEFINE l == TerminarProcesoEjecutandoEnCpu(sistema, c, x)
  <2>2. Bien(l) /\ Cuida(sistema, l)
    BY <1>1, TerminarProcesoBien, TerminarProcesoCuida
  <2>3. sistema.modo[c] = "muerta" /\ sistema.enCpu[c] = 0
    BY <1>4, <1>12 DEF DesconexionCpu, ConPcb
  <2>. HIDE DEF l
  <2>4. l.enCpu[c] = 0 /\ Sigue(sistema, l)
    BY <1>1, <2>2, <2>3, SigueDeCuida DEF Cuida, Difuntas
  <2>5. Sostenidos(sistema', Cpus) /\ (sistema').cola = l.cola
    <3>1. sistema' = RemoverCpuDeLaLista(l, c, basura)
      BY <2>1 DEF l
    <3>2. Sostenidos(l, Cpus)
      BY <2>4 DEF Sigue
    <3> QED
      BY <2>2, <2>4, <3>1, <3>2, RemoverCpuSigue
  <2> QED
    BY <2>4, <2>5 DEF Sigue, Adentro, EnCola
<1> QED
  BY <1>5, <1>6, <1>7, <1>8, <1>9, <1>10, <1>11, <1>12, Zenon DEF PasoCpu

\* A CPU connects, disconnects in order or dies.
LEMMA ConexionSigue ==
    ASSUME NEW c \in Cpus, IInv, Sostenidos(sistema, Cpus),
           NuevoCpuConectado(c) \/ MsjMeDesconecto(c) \/ CaidaCpu(c)
    PROVE  Sigue(sistema, sistema')
<1>1. Bien(sistema)
  BY DEF IInv
<1>2. /\ sistema.enCpu \in [Cpus -> 0..MaxPid]
      /\ sistema.modo \in [Cpus -> ModoCpu]
      /\ sistema.pidEn \in [Cpus -> 0..MaxPid]
  BY <1>1 DEF Bien, Sistema
<1>3. sistema.modo[c] \notin ConPcb => sistema.enCpu[c] = 0
  BY DEF Sostenidos
<1>4. ASSUME NEW m, m.cola = sistema.cola, Sostenidos(m, Cpus)
      PROVE  Sigue(sistema, m)
  BY <1>4 DEF Sigue, Adentro, EnCola
<1>5. CASE NuevoCpuConectado(c)
  <2>1. PICK basura \in PidSinInicializar :
           sistema' = [sistema EXCEPT !.modo[c] = "saludando",
                          !.libres = Append(@, c), !.quantum[c] = 0,
                          !.pidEn[c] = basura]
    BY <1>5 DEF NuevoCpuConectado
  <2>. DEFINE m == [sistema EXCEPT !.modo[c] = "saludando",
                          !.libres = Append(@, c), !.quantum[c] = 0,
                          !.pidEn[c] = basura]
  <2>2. sistema.enCpu[c] = 0
    BY <1>3, <1>5 DEF NuevoCpuConectado, ConPcb
  <2>3. /\ m.cola = sistema.cola /\ m.vivo = sistema.vivo
        /\ m.enCpu = sistema.enCpu
        /\ m.pidEn = [sistema.pidEn EXCEPT ![c] = basura]
        /\ m.modo = [sistema.modo EXCEPT ![c] = "saludando"]
    BY <1>1 DEF Bien, Sistema
  <2>. HIDE DEF m
  <2>4. Sostenidos(m, Cpus)
    BY <1>2, <2>2, <2>3, SoloCpu
  <2>5. Sigue(sistema, m)
    BY <1>4, <2>3, <2>4
  <2> QED
    BY <2>1, <2>5 DEF m
<1>6. CASE MsjMeDesconecto(c)
  <2>. DEFINE m == [sistema EXCEPT !.modo[c] = "muerta"]
  <2>1. PICK x \in Respuestas :
           sistema' = AbortarDeCpu(m, c, "DESCONEXION_CPU", x)
    BY <1>6 DEF MsjMeDesconecto
  <2>2. Bien(m)
    BY <1>1, CampoBien DEF ModoCpu
  <2>3. /\ m.cola = sistema.cola /\ m.vivo = sistema.vivo
        /\ m.enCpu = sistema.enCpu /\ m.pidEn = sistema.pidEn
        /\ m.destruir = sistema.destruir
        /\ m.modo = [sistema.modo EXCEPT ![c] = "muerta"]
    BY <1>1 DEF Bien, Sistema
  <2>4. sistema.enCpu[c] # 0
    BY <1>6 DEF MsjMeDesconecto
  <2>. HIDE DEF m
  <2>5. Sostenidos(m, Cpus \ {c})
    BY <1>2, <2>3, SoloCpu
  <2>6. Suelta(m, sistema', c)
    BY <2>1, <2>2, <2>3, <2>4, AbortarDeCpuSuelta DEF ExitCode
  <2>7. Sigue(m, sistema')
    BY <2>2, <2>5, <2>6, SigueDeCuida
  <2> QED
    BY <2>3, <2>7, SigueTras
<1>7. CASE CaidaCpu(c)
  <2>. DEFINE m == [sistema EXCEPT !.modo[c] = "muerta", !.enCpu[c] = 0]
  <2>1. sistema' = m
    BY <1>7 DEF CaidaCpu
  <2>2. /\ m.cola = sistema.cola /\ m.vivo = sistema.vivo
        /\ m.enCpu = [sistema.enCpu EXCEPT ![c] = 0]
        /\ m.pidEn = sistema.pidEn
        /\ m.modo = [sistema.modo EXCEPT ![c] = "muerta"]
    BY <1>1 DEF Bien, Sistema
  <2>. HIDE DEF m
  <2>3. Sostenidos(m, Cpus)
    BY <1>2, <2>2, SoloCpu
  <2>4. Sigue(sistema, m)
    BY <1>4, <2>2, <2>3
  <2> QED
    BY <2>1, <2>4
<1> QED
  BY <1>5, <1>6, <1>7

\* The consoles and the operator.
LEMMA ConsolaSigue ==
    ASSUME NEW p \in Pid, IInv, Sostenidos(sistema, Cpus),
           \/ ConsolaPideFinalizar(p) \/ ConsolaCierra(p)
           \/ PasoConsola(p) \/ CmdKill(p)
    PROVE  Sigue(sistema, sistema')
<1>1. Bien(sistema)
  BY DEF IInv
<1>2. ASSUME NEW o \in ModoConsola
      PROVE  LET m == [sistema EXCEPT !.consola[p] = o]
             IN  Bien(m) /\ Cuida(sistema, m)
  <2>. DEFINE m == [sistema EXCEPT !.consola[p] = o]
  <2>1. Bien(m)
    BY <1>1, MismasColas DEF Bien, Sistema
  <2>2. Quieto(sistema, m) /\ m.cola = sistema.cola
    BY <1>1 DEF Quieto, Bien, Sistema
  <2> QED
    BY <1>1, <2>1, <2>2, ColasIgualesCuida
<1>3. CASE ConsolaPideFinalizar(p) \/ ConsolaCierra(p)
  <2>1. PICK o \in ModoConsola :
           sistema' = [sistema EXCEPT !.consola[p] = o]
    BY <1>3 DEF ConsolaPideFinalizar, ConsolaCierra, ModoConsola
  <2> QED
    BY <1>1, <1>2, <2>1, SigueDeCuida
<1>4. CASE PasoConsola(p)
  <2>1. ASSUME NEW modo, NEW code \in ExitCode, AtiendeConsola(p, modo, code)
        PROVE  Sigue(sistema, sistema')
    <3>. DEFINE m == [sistema EXCEPT !.consola[p] = "atendida"]
    <3>1. sistema' = PedidoAbortarProgramaDeConsola(m, p, code)
      BY <2>1 DEF AtiendeConsola
    <3>2. Bien(m) /\ Cuida(sistema, m)
      BY <1>2 DEF ModoConsola
    <3>. HIDE DEF m
    <3>3. Cuida(m, sistema')
      BY <3>1, <3>2, PedidoAbortarCuida
    <3> QED
      BY <1>1, <3>2, <3>3, CuidaTransitiva, SigueDeCuida
  <2> QED
    BY <1>4, <2>1 DEF PasoConsola, MsjFinalizarProceso, DesconexionConsola,
       ExitCode
<1>5. CASE CmdKill(p)
  BY <1>1, <1>5, MatarProcesoCuida, SigueDeCuida DEF CmdKill
<1> QED
  BY <1>3, <1>4, <1>5

\* Every step.
LEMMA NextSigue == IInv /\ Sostenidos(sistema, Cpus) /\ [Next]_vars
                      => Sigue(sistema, sistema')
<1>1. SUFFICES ASSUME IInv, Sostenidos(sistema, Cpus), [Next]_vars
               PROVE  Sigue(sistema, sistema')
  OBVIOUS
<1>2. Bien(sistema)
  BY <1>1 DEF IInv
<1>3. ASSUME NEW c \in Cpus,
             \/ NuevoCpuConectado(c) \/ PasoCpu(c)
             \/ MsjMeDesconecto(c) \/ CaidaCpu(c)
      PROVE  Sigue(sistema, sistema')
  BY <1>1, <1>3, PasoCpuSigue, ConexionSigue
<1>4. CASE MsjIniciarProceso
  <2>1. sistema.maxPID < MaxPid
    BY <1>4 DEF MsjIniciarProceso
  <2>2. PICK x \in Respuestas : sistema' = IniciarProceso(sistema, x)
    BY <1>4 DEF MsjIniciarProceso
  <2> QED
    BY <1>1, <1>2, <2>1, <2>2, IniciarProcesoCuida, SigueDeCuida
<1>5. ASSUME NEW p \in Pid,
             \/ ConsolaPideFinalizar(p) \/ ConsolaCierra(p)
             \/ PasoConsola(p) \/ CmdKill(p)
      PROVE  Sigue(sistema, sistema')
  BY <1>1, <1>5, ConsolaSigue
<1>6. CASE CmdStop \/ CmdRestart
  <2>1. PICK b \in BOOLEAN : sistema' = [sistema EXCEPT !.activa = b]
    BY <1>6 DEF CmdStop, CmdRestart
  <2>. DEFINE m == [sistema EXCEPT !.activa = b]
  <2>2. /\ m.cola = sistema.cola /\ m.vivo = sistema.vivo
        /\ m.enCpu = sistema.enCpu /\ m.pidEn = sistema.pidEn
        /\ m.modo = sistema.modo
    BY <1>2 DEF Bien, Sistema
  <2>. HIDE DEF m
  <2>3. Sigue(sistema, m)
    BY <1>1, <2>2 DEF Sigue, Sostenidos, Adentro, EnCola
  <2> QED
    BY <2>1, <2>3 DEF m
<1>7. ASSUME NEW n \in Grados, CmdMultiprogramacion(n)
      PROVE  Sigue(sistema, sistema')
  BY <1>1, <1>2, <1>7, NivelCuida, SigueDeCuida DEF CmdMultiprogramacion
<1>8. CASE RondaAdmision
  <2>1. PICK x \in Respuestas : sistema' = RondaDeMultiprogramacion(sistema, x)
    BY <1>8 DEF RondaAdmision
  <2> QED
    BY <1>1, <1>2, <2>1, NivelCuida, SigueDeCuida
<1>9. CASE UNCHANGED vars
  BY <1>1, <1>9 DEF vars, Sigue
<1> QED
  BY <1>1, <1>3, <1>4, <1>5, <1>6, <1>7, <1>8, <1>9, Zenon DEF Next

\* In every reachable state each CPU holds its own PCB.
LEMMA SiempreSostenidos == Spec => []Sostenidos(sistema, Cpus)
<1>1. Init => Sostenidos(sistema, Cpus)
  <2>1. SUFFICES ASSUME Init PROVE Sostenidos(sistema, Cpus)
    OBVIOUS
  <2>2. \A c \in Cpus : sistema.enCpu[c] = 0
    BY <2>1 DEF Init, Inicial
  <2> QED
    BY <2>2 DEF Sostenidos
<1>2. IInv /\ Sostenidos(sistema, Cpus) /\ [Next]_vars
         => Sostenidos(sistema, Cpus)'
  BY NextSigue DEF Sigue
<1> QED
  BY <1>1, <1>2, TablaEnOrden, PTL DEF Spec

\* No sequence of handlers, failures and commands gives a process to two CPUs.
THEOREM UnaSolaCpuSiempre == Spec => []UnaCpuPorProceso
<1>1. Sostenidos(sistema, Cpus) => UnaCpuPorProceso
  BY DEF Sostenidos, UnaCpuPorProceso
<1> QED
  BY <1>1, SiempreSostenidos, PTL

\* A process with a kill flag never goes from a CPU to a queue it can run
\* from, whatever the handler.
THEOREM MarcadoNuncaVuelve == Spec => MarcadoNoVuelve
<1>. DEFINE A == \A p \in sistema.destruir :
                    En(p, "EJECUTANDO") =>
                        ~En(p, "LISTO")' /\ ~En(p, "BLOQUEADO")'
<1>1. IInv /\ Sostenidos(sistema, Cpus) /\ [Next]_vars /\ IInv' => A
  <2>1. SUFFICES ASSUME IInv, Sostenidos(sistema, Cpus), [Next]_vars, IInv',
                        NEW p \in sistema.destruir, En(p, "EJECUTANDO")
                 PROVE  ~En(p, "LISTO")' /\ ~En(p, "BLOQUEADO")'
    OBVIOUS
  <2>2. Sigue(sistema, sistema')
    BY <2>1, NextSigue
  <2>3. Adentro(sistema', p)
    BY <2>1, <2>2 DEF Sigue, Adentro, En
  <2>4. Bien(sistema')
    BY <2>1 DEF IInv
  <2>5. ~EnCola(sistema', p, "LISTO") /\ ~EnCola(sistema', p, "BLOQUEADO")
    BY <2>3, <2>4, AfueraNoAdentro
  <2> QED
    BY <2>5 DEF En
<1>2. IInv /\ Sostenidos(sistema, Cpus) /\ [Next]_vars /\ IInv' => [A]_vars
  BY <1>1
<1>. HIDE DEF A
<1>3. Spec => [][A]_vars
  BY <1>2, TablaEnOrden, SiempreSostenidos, PTL DEF Spec
<1> QED
  BY <1>3 DEF MarcadoNoVuelve, A

-----------------------------------------------------------------------------
(* What a process that ended leaves behind.                                *)

\* Without requests for more than a page no CPU is told to abort.
Calmo(k) == "malloc" \notin Eventos => SinAbortos(k)

\* What a step keeps, and the disturbances that break it: the death of a CPU
\* that was about to abort its process leaves its pages and its console, a
\* kill of a NEW process leaves its console, and a stop or a process memory
\* rejects once it left colaNuevos lets a console be told too much.
Queda(k, m) ==
    /\ Calmo(k) => Calmo(m)
    /\ Calmo(k) /\ ("malloc" \notin Eventos \/ "caidaCpu" \notin Eventos) =>
          /\ (TodosSinPaginas(k) => TodosSinPaginas(m))
          /\ ("kill" \notin Eventos /\ TodosEnterados(k) => TodosEnterados(m))
    /\ Calmo(k) /\ Eventos \cap {"malloc", "stop", "sinMemoria"} = {} =>
          (k.activa /\ TodosVeraces(k) => m.activa /\ TodosVeraces(m))

\* A handler that leaves nothing behind.
LEMMA QuedaDeCuadra ==
    ASSUME NEW k, NEW m, NEW x, "sinMemoria" \notin Eventos => x.memoria,
           Cuadra(k, m, x)
    PROVE  Queda(k, m)
BY DEF Queda, Cuadra, Calmo

\* A step that is about no process.
LEMMA QuedaDeAjeno ==
    ASSUME NEW k, NEW m, Ajeno(k, m, 0)
    PROVE  Queda(k, m)
<1>. DEFINE x == [memoria |-> TRUE]
<1>1. x.memoria
  OBVIOUS
<1>. HIDE DEF x
<1>2. Cuadra(k, m, x)
  BY AjenoCuadra
<1> QED
  BY <1>1, <1>2, QuedaDeCuadra

\* The steps of a CPU.
LEMMA PasoCpuQueda ==
    ASSUME NEW c \in Cpus, IInv, Sostenidos(sistema, Cpus), PasoCpu(c)
    PROVE  Queda(sistema, sistema')
<1>1. Bien(sistema)
  BY DEF IInv
<1>2. \A x \in Respuestas :
         x \in Exterior /\ ("sinMemoria" \notin Eventos => x.memoria)
  BY DEF Respuestas
<1>3. sistema.enCpu[c] # 0 => Adentro(sistema, sistema.enCpu[c])
  BY DEF Sostenidos
<1>4. sistema.modo[c] \notin ConPcb => sistema.enCpu[c] = 0
  BY DEF Sostenidos
<1>5. CASE MsjHandshake(c)
  <2>. DEFINE o == IF sistema.modo[c] = "saludando" THEN "activa" ELSE "muerta"
              m == [sistema EXCEPT !.modo[c] = o]
  <2>1. sistema' = PlanificarSiHayListos(m)
    <3>1. [sistema EXCEPT !.modo[c] =
              IF @ = "saludando" THEN "activa" ELSE "muerta"] = m
      BY <1>1 DEF Bien, Sistema
    <3>. HIDE DEF m
    <3> QED
      BY <1>5, <3>1 DEF MsjHandshake
  <2>2. o \in ModoCpu \ {"abortando"}
    BY DEF ModoCpu
  <2>3. sistema.modo[c] # "abortando"
    BY <1>5 DEF MsjHandshake
  <2>. HIDE DEF o
  <2>4. Bien(m) /\ Ajeno(sistema, m, 0)
    BY <1>1, <2>2, <2>3, CampoBien, ModoAjeno
  <2>. HIDE DEF m
  <2>5. Ajeno(m, sistema', 0)
    BY <2>1, <2>4, PlanificarLibreAjeno
  <2>6. Ajeno(sistema, sistema', 0)
    BY <2>4, <2>5, AjenoTransitiva
  <2> QED
    BY <2>6, QuedaDeAjeno
<1>6. CASE MsjTermineSentencia(c)
  <2>1. sistema.enCpu[c] # 0 /\ sistema.modo[c] # "abortando"
    BY <1>6 DEF MsjTermineSentencia
  <2>2. PICK x \in Respuestas : sistema' = PlanificarCpu(sistema, c, x)
    BY <1>6 DEF MsjTermineSentencia
  <2>3. Cuadra(sistema, sistema', x)
    BY <1>1, <1>2, <1>3, <2>1, <2>2, PlanificarCpuCuadra
  <2> QED
    BY <1>2, <2>3, QuedaDeCuadra
<1>7. ASSUME NEW s \in Sems, MsjWait(c, s)
      PROVE  Queda(sistema, sistema')
  <2>1. sistema.enCpu[c] # 0 /\ sistema.modo[c] # "abortando"
    BY <1>7 DEF MsjWait, Ejecuta
  <2>2. PICK x \in Respuestas : sistema' = Wait(sistema, c, s, x)
    BY <1>7 DEF MsjWait
  <2>3. Cuadra(sistema, sistema', x)
    BY <1>1, <1>3, <2>1, <2>2, WaitCuadra
  <2> QED
    BY <1>2, <2>3, QuedaDeCuadra
<1>8. ASSUME NEW s \in Sems, MsjSignal(c, s)
      PROVE  Queda(sistema, sistema')
  <2>1. sistema.modo[c] # "abortando" /\ sistema' = Signal(sistema, c, s)
    BY <1>8 DEF MsjSignal, Ejecuta
  <2> QED
    BY <1>1, <2>1, SignalAjeno, QuedaDeAjeno
<1>9. CASE MsjProgramaTerminado(c)
  <2>1. sistema.enCpu[c] # 0
    BY <1>9 DEF MsjProgramaTerminado, Ejecuta
  <2>2. PICK x \in Respuestas : sistema' = ProgramaTerminado(sistema, c, x)
    BY <1>9 DEF MsjProgramaTerminado
  <2>3. Cuadra(sistema, sistema', x)
    BY <1>1, <1>3, <2>1, <2>2, ProgramaTerminadoCuadra
  <2> QED
    BY <1>2, <2>3, QuedaDeCuadra
<1>10. CASE MsjAbortarPrograma(c)
  <2>1. sistema.enCpu[c] # 0
    BY <1>10 DEF MsjAbortarPrograma
  <2>2. PICK x \in Respuestas :
           sistema' = AbortarDeCpu([sistema EXCEPT !.modo[c] = "activa"], c,
                                   "ERROR_DE_EJECUCION", x)
    BY <1>10 DEF MsjAbortarPrograma
  <2>3. /\ "ERROR_DE_EJECUCION" \in ExitCode
        /\ "activa" \in ModoCpu \ {"abortando"}
    BY DEF ExitCode, ModoCpu
  <2>4. Cuadra(sistema, sistema', x)
    BY <1>1, <1>3, <2>1, <2>2, <2>3, AbortarDeCpuCuadra
  <2> QED
    BY <1>2, <2>4, QuedaDeCuadra
<1>11. CASE MsjPedidoBloqueMemoria(c)
  <2>1. /\ "malloc" \in Eventos /\ sistema.enCpu[c] # 0
        /\ sistema' = PedidoBloqueGrande(sistema, c)
    BY <1>11 DEF MsjPedidoBloqueMemoria, Ejecuta
  <2>2. sistema.pidEn[c] = sistema.enCpu[c]
    BY <1>11, <2>1 DEF MsjPedidoBloqueMemoria, EnSelect, Libre, Sostenidos
  <2>3. /\ TodosSinPaginas(sistema) => TodosSinPaginas(sistema')
        /\ TodosEnterados(sistema) => TodosEnterados(sistema')
    BY <1>1, <2>1, <2>2, PedidoBloqueGrandeDeja
  <2> QED
    BY <2>1, <2>3 DEF Queda, Calmo
<1>12. CASE DesconexionCpu(c)
  <2>1. PICK x \in Respuestas, basura \in PidSinInicializar :
           sistema' = RemoverCpuDeLaLista(
               TerminarProcesoEjecutandoEnCpu(sistema, c, x), c, basura)
    BY <1>12 DEF DesconexionCpu
  <2>. DEFINE l == TerminarProcesoEjecutandoEnCpu(sistema, c, x)
  <2>2. Bien(l) /\ Cuida(sistema, l) /\ Cuadra(sistema, l, x)
    BY <1>1, TerminarProcesoBien, TerminarProcesoCuida, TerminarProcesoCuadra
  <2>3. sistema.modo[c] = "muerta" /\ sistema.enCpu[c] = 0
    BY <1>4, <1>12 DEF DesconexionCpu, ConPcb
  <2>4. sistema' = RemoverCpuDeLaLista(l, c, basura)
    BY <2>1
  <2>. HIDE DEF l
  <2>5. l.enCpu[c] = 0
    BY <2>2, <2>3 DEF Cuida, Difuntas
  <2>6. Cuadra(l, sistema', x)
    BY <2>2, <2>4, <2>5, RemoverCpuAjeno, AjenoCuadra
  <2>7. Cuadra(sistema, sistema', x)
    BY <2>2, <2>6, CuadraTransitiva
  <2> QED
    BY <1>2, <2>7, QuedaDeCuadra
<1> QED
  BY <1>5, <1>6, <1>7, <1>8, <1>9, <1>10, <1>11, <1>12, Zenon DEF PasoCpu

\* A CPU connects, disconnects in order or dies.
LEMMA ConexionQueda ==
    ASSUME NEW c \in Cpus, IInv, Sostenidos(sistema, Cpus),
           NuevoCpuConectado(c) \/ MsjMeDesconecto(c) \/ CaidaCpu(c)
    PROVE  Queda(sistema, sistema')
<1>1. Bien(sistema)
  BY DEF IInv
<1>2. sistema.enCpu \in [Cpus -> 0..MaxPid]
  BY <1>1 DEF Bien, Sistema
<1>3. "saludando" \in ModoCpu \ {"abortando"}
      /\ "muerta" \in ModoCpu \ {"abortando"}
  BY DEF ModoCpu
<1>4. CASE NuevoCpuConectado(c)
  <2>1. PICK basura \in PidSinInicializar :
           sistema' = [sistema EXCEPT !.modo[c] = "saludando",
                          !.libres = Append(@, c), !.quantum[c] = 0,
                          !.pidEn[c] = basura]
    BY <1>4 DEF NuevoCpuConectado
  <2>. DEFINE m == [sistema EXCEPT !.modo[c] = "saludando",
                          !.libres = Append(@, c), !.quantum[c] = 0,
                          !.pidEn[c] = basura]
  <2>2. sistema.enCpu[c] = 0
    BY <1>4 DEF NuevoCpuConectado, ConPcb, Sostenidos
  <2>3. /\ m.maxPID = sistema.maxPID /\ m.activa = sistema.activa
        /\ m.cola = sistema.cola /\ m.ec = sistema.ec
        /\ m.consolas = sistema.consolas /\ m.paginas = sistema.paginas
        /\ m.avisos = sistema.avisos /\ m.enCpu = sistema.enCpu
        /\ m.modo = [sistema.modo EXCEPT ![c] = "saludando"]
    BY <1>1 DEF Bien, Sistema
  <2>. HIDE DEF m
  <2>4. sistema.enCpu = [sistema.enCpu EXCEPT ![c] = 0]
    BY <1>2, <2>2
  <2>5. Ajeno(sistema, m, 0)
    BY <1>1, <1>3, <2>2, <2>3, <2>4, SueltaAjeno
  <2>6. Queda(sistema, m)
    BY <2>5, QuedaDeAjeno
  <2> QED
    BY <2>1, <2>6 DEF m
<1>5. CASE MsjMeDesconecto(c)
  <2>1. PICK x \in Respuestas :
           sistema' = AbortarDeCpu([sistema EXCEPT !.modo[c] = "muerta"], c,
                                   "DESCONEXION_CPU", x)
    BY <1>5 DEF MsjMeDesconecto
  <2>2. sistema.enCpu[c] # 0 /\ "DESCONEXION_CPU" \in ExitCode
    BY <1>5 DEF MsjMeDesconecto, ExitCode
  <2>3. Adentro(sistema, sistema.enCpu[c])
    BY <2>2 DEF Sostenidos
  <2>4. Cuadra(sistema, sistema', x)
    BY <1>1, <1>3, <2>1, <2>2, <2>3, AbortarDeCpuCuadra
  <2>5. "sinMemoria" \notin Eventos => x.memoria
    BY DEF Respuestas
  <2> QED
    BY <2>4, <2>5, QuedaDeCuadra
<1>6. CASE CaidaCpu(c)
  <2>. DEFINE m == [sistema EXCEPT !.modo[c] = "muerta", !.enCpu[c] = 0]
  <2>1. sistema' = m /\ "caidaCpu" \in Eventos
    BY <1>6 DEF CaidaCpu
  <2>2. CASE "malloc" \in Eventos
    BY <2>1, <2>2 DEF Queda, Calmo
  <2>3. CASE ~(sistema.modo[c] # "abortando") /\ "malloc" \notin Eventos
    <3>1. ~Calmo(sistema)
      BY <2>3 DEF Calmo, SinAbortos
    <3> QED
      BY <3>1 DEF Queda
  <2>4. CASE sistema.modo[c] # "abortando"
    <3>1. /\ m.maxPID = sistema.maxPID /\ m.activa = sistema.activa
          /\ m.cola = sistema.cola /\ m.ec = sistema.ec
          /\ m.consolas = sistema.consolas /\ m.paginas = sistema.paginas
          /\ m.avisos = sistema.avisos
          /\ m.enCpu = [sistema.enCpu EXCEPT ![c] = 0]
          /\ m.modo = [sistema.modo EXCEPT ![c] = "muerta"]
      BY <1>1 DEF Bien, Sistema
    <3>. HIDE DEF m
    <3>2. Ajeno(sistema, m, 0)
      BY <1>1, <1>3, <2>4, <3>1, SueltaAjeno
    <3> QED
      BY <2>1, <3>2, QuedaDeAjeno
  <2> QED
    BY <2>2, <2>3, <2>4
<1> QED
  BY <1>4, <1>5, <1>6

\* The consoles and the operator.
LEMMA ConsolaQueda ==
    ASSUME NEW p \in Pid, IInv, Sostenidos(sistema, Cpus),
           \/ ConsolaPideFinalizar(p) \/ ConsolaCierra(p)
           \/ PasoConsola(p) \/ CmdKill(p)
    PROVE  Queda(sistema, sistema')
<1>1. Bien(sistema)
  BY DEF IInv
<1>2. ASSUME NEW o \in ModoConsola
      PROVE  LET m == [sistema EXCEPT !.consola[p] = o]
             IN  Bien(m) /\ Ajeno(sistema, m, 0)
  <2>. DEFINE m == [sistema EXCEPT !.consola[p] = o]
  <2>1. Bien(m)
    BY <1>1, MismasColas DEF Bien, Sistema
  <2>2. /\ m.maxPID = sistema.maxPID /\ m.activa = sistema.activa
        /\ m.cola = sistema.cola /\ m.enCpu = sistema.enCpu
        /\ m.modo = sistema.modo /\ m.ec = sistema.ec
        /\ m.consolas = sistema.consolas /\ m.paginas = sistema.paginas
        /\ m.avisos = sistema.avisos
    BY <1>1 DEF Bien, Sistema
  <2>. HIDE DEF m
  <2>3. Bien(m) /\ Ajeno(sistema, m, 0)
    BY <1>1, <2>1, <2>2, MismoAjeno
  <2> QED
    BY <2>3 DEF m
<1>3. CASE ConsolaPideFinalizar(p) \/ ConsolaCierra(p)
  <2>1. PICK o \in ModoConsola :
           sistema' = [sistema EXCEPT !.consola[p] = o]
    BY <1>3 DEF ConsolaPideFinalizar, ConsolaCierra, ModoConsola
  <2> QED
    BY <1>2, <2>1, QuedaDeAjeno
<1>4. CASE PasoConsola(p)
  <2>1. ASSUME NEW modo, NEW code \in ExitCode, AtiendeConsola(p, modo, code)
        PROVE  Queda(sistema, sistema')
    <3>. DEFINE m == [sistema EXCEPT !.consola[p] = "atendida"]
                x == [memoria |-> TRUE]
    <3>1. sistema' = PedidoAbortarProgramaDeConsola(m, p, code)
      BY <2>1 DEF AtiendeConsola
    <3>2. Bien(m) /\ Ajeno(sistema, m, 0)
      BY <1>2 DEF ModoConsola
    <3>3. x.memoria
      OBVIOUS
    <3>. HIDE DEF m, x
    <3>4. Cuadra(sistema, m, x) /\ Cuadra(m, sistema', x)
      BY <3>1, <3>2, AjenoCuadra, PedidoAbortarCuadra
    <3>5. Cuadra(sistema, sistema', x)
      BY <3>4, CuadraTransitiva
    <3> QED
      BY <3>3, <3>5, QuedaDeCuadra
  <2> QED
    BY <1>4, <2>1 DEF PasoConsola, MsjFinalizarProceso, DesconexionConsola,
       ExitCode
<1>5. CASE CmdKill(p)
  <2>1. "kill" \in Eventos /\ sistema' = MatarProceso(sistema, p)
    BY <1>5 DEF CmdKill
  <2>2. /\ sistema'.activa = sistema.activa
        /\ SinAbortos(sistema) => SinAbortos(sistema')
        /\ TodosSinPaginas(sistema) => TodosSinPaginas(sistema')
        /\ sistema.activa /\ TodosVeraces(sistema) => TodosVeraces(sistema')
    BY <1>1, <2>1, MatarProcesoDeja
  <2> QED
    BY <2>1, <2>2 DEF Queda, Calmo
<1> QED
  BY <1>3, <1>4, <1>5

\* Every step.
LEMMA NextQueda ==
    ASSUME IInv, Sostenidos(sistema, Cpus), [Next]_vars
    PROVE  Queda(sistema, sistema')
<1>1. Bien(sistema)
  BY DEF IInv
<1>2. \A x \in Respuestas : "sinMemoria" \notin Eventos => x.memoria
  BY DEF Respuestas
<1>3. ASSUME NEW c \in Cpus,
             \/ NuevoCpuConectado(c) \/ PasoCpu(c)
             \/ MsjMeDesconecto(c) \/ CaidaCpu(c)
      PROVE  Queda(sistema, sistema')
  BY <1>3, PasoCpuQueda, ConexionQueda
<1>4. CASE MsjIniciarProceso
  <2>1. sistema.maxPID < MaxPid
    BY <1>4 DEF MsjIniciarProceso
  <2>2. PICK x \in Respuestas : sistema' = IniciarProceso(sistema, x)
    BY <1>4 DEF MsjIniciarProceso
  <2> QED
    BY <1>1, <1>2, <2>1, <2>2, IniciarProcesoCuadra, QuedaDeCuadra
<1>5. ASSUME NEW p \in Pid,
             \/ ConsolaPideFinalizar(p) \/ ConsolaCierra(p)
             \/ PasoConsola(p) \/ CmdKill(p)
      PROVE  Queda(sistema, sistema')
  BY <1>5, ConsolaQueda
<1>6. CASE CmdStop \/ CmdRestart
  <2>1. PICK b \in BOOLEAN : sistema' = [sistema EXCEPT !.activa = b]
    BY <1>6 DEF CmdStop, CmdRestart
  <2>2. "stop" \in Eventos
    BY <1>6 DEF CmdStop, CmdRestart
  <2>. DEFINE m == [sistema EXCEPT !.activa = b]
  <2>3. /\ m.maxPID = sistema.maxPID
        /\ m.cola = sistema.cola /\ m.enCpu = sistema.enCpu
        /\ m.modo = sistema.modo /\ m.ec = sistema.ec
        /\ m.consolas = sistema.consolas /\ m.paginas = sistema.paginas
        /\ m.avisos = sistema.avisos
    BY <1>1 DEF Bien, Sistema
  <2>. HIDE DEF m
  <2>4. \A q : Intacto(sistema, m, q)
    BY <2>3 DEF Intacto, EnCola, Fin, EnAborto, Tiene
  <2>5. /\ SinAbortos(sistema) => SinAbortos(m)
        /\ TodosSinPaginas(sistema) => TodosSinPaginas(m)
        /\ TodosEnterados(sistema) => TodosEnterados(m)
    BY <2>3, <2>4, IntactoSigue DEF SinAbortos, TodosSinPaginas, TodosEnterados
  <2>6. Queda(sistema, m)
    BY <2>2, <2>5 DEF Queda, Calmo
  <2> QED
    BY <2>1, <2>6 DEF m
<1>7. ASSUME NEW n \in Grados, CmdMultiprogramacion(n)
      PROVE  Queda(sistema, sistema')
  <2>. DEFINE x == [memoria |-> TRUE]
  <2>1. x.memoria /\ sistema' = Multiprogramacion(sistema, n)
    BY <1>7 DEF CmdMultiprogramacion
  <2>. HIDE DEF x
  <2> QED
    BY <1>1, <2>1, NivelCuadra, QuedaDeCuadra
<1>8. CASE RondaAdmision
  <2>1. PICK x \in Respuestas : sistema' = RondaDeMultiprogramacion(sistema, x)
    BY <1>8 DEF RondaAdmision
  <2> QED
    BY <1>1, <1>2, <2>1, NivelCuadra, QuedaDeCuadra
<1>9. CASE UNCHANGED vars
  BY <1>9 DEF vars, Queda, Calmo
<1> QED
  BY <1>3, <1>4, <1>5, <1>6, <1>7, <1>8, <1>9, Zenon DEF Next

\* Before any process starts nothing is left behind.
LEMMA InicialQuieto ==
    ASSUME Init
    PROVE  /\ Calmo(sistema) /\ sistema.activa
           /\ TodosSinPaginas(sistema) /\ TodosEnterados(sistema)
           /\ TodosVeraces(sistema)
<1>1. PICK g \in Grados : sistema = Inicial(g)
  BY DEF Init
<1>2. /\ sistema.activa /\ sistema.paginas = {} /\ sistema.consolas = {}
      /\ \A p \in Pid : sistema.avisos[p] = <<>>
      /\ \A c \in Cpus : sistema.modo[c] = "ausente"
  BY <1>1 DEF Inicial
<1>3. Calmo(sistema)
  BY <1>2 DEF Calmo, SinAbortos
<1>4. TodosSinPaginas(sistema) /\ TodosEnterados(sistema)
  BY <1>2 DEF TodosSinPaginas, TodosEnterados, SinPaginas, Enterado
<1>5. TodosVeraces(sistema)
  BY <1>2 DEF TodosVeraces, Veraz
<1> QED
  BY <1>2, <1>3, <1>4, <1>5

\* A finished process keeps no page in memory, unless a CPU that has yet to
\* say that it aborts still holds it; the death of such a CPU would leave the
\* pages for good.
THEOREM FinalizadoSiempreSinPaginas ==
    ASSUME "malloc" \notin Eventos \/ "caidaCpu" \notin Eventos
    PROVE  Spec => []FinalizadoSinPaginas
<1>. DEFINE J == Calmo(sistema) /\ TodosSinPaginas(sistema)
<1>1. Init => J
  BY InicialQuieto
<1>2. J /\ IInv /\ Sostenidos(sistema, Cpus) /\ [Next]_vars => J'
  BY NextQueda DEF Queda
<1>3. J /\ IInv => FinalizadoSinPaginas
  <2>1. SUFFICES ASSUME J, IInv, NEW p \in sistema.paginas, En(p, "TERMINADO")
                 PROVE  \E c \in Cpus : sistema.enCpu[c] = p
    BY DEF FinalizadoSinPaginas
  <2>2. p \in Pid
    BY <2>1 DEF IInv, Bien, Sistema
  <2>3. EnAborto(sistema, p)
    BY <2>1, <2>2 DEF TodosSinPaginas, SinPaginas, Fin, En
  <2> QED
    BY <2>3 DEF EnAborto
<1>. HIDE DEF J
<1> QED
  BY <1>1, <1>2, <1>3, TablaEnOrden, SiempreSostenidos, PTL DEF Spec

\* A finished process that no CPU holds has its console told: a kill of a
\* process still in colaNuevos is the one way to forget it.
THEOREM ConsolaSiempreEnterada ==
    ASSUME "malloc" \notin Eventos \/ "caidaCpu" \notin Eventos,
           "kill" \notin Eventos
    PROVE  Spec => []ConsolaEnterada
<1>. DEFINE J == Calmo(sistema) /\ TodosEnterados(sistema)
<1>1. Init => J
  BY InicialQuieto
<1>2. J /\ IInv /\ Sostenidos(sistema, Cpus) /\ [Next]_vars => J'
  BY NextQueda DEF Queda
<1>3. J /\ IInv => ConsolaEnterada
  <2>1. SUFFICES ASSUME J, IInv, NEW p \in sistema.consolas, En(p, "TERMINADO")
                 PROVE  \E c \in Cpus : sistema.enCpu[c] = p
    BY DEF ConsolaEnterada
  <2>2. p \in Pid
    BY <2>1 DEF IInv, Bien, Sistema
  <2>3. EnAborto(sistema, p)
    BY <2>1, <2>2 DEF TodosEnterados, Enterado, Fin, En
  <2> QED
    BY <2>3 DEF EnAborto
<1>. HIDE DEF J
<1> QED
  BY <1>1, <1>2, <1>3, TablaEnOrden, SiempreSostenidos, PTL DEF Spec

\* What a console is told is what happened: its process is finished with the
\* code its PCB keeps, and nothing later overwrites that code.
THEOREM AvisoSiempreVeraz ==
    ASSUME Eventos \cap {"malloc", "stop", "sinMemoria"} = {}
    PROVE  Spec => []AvisoVeraz
<1>. DEFINE J == /\ Calmo(sistema) /\ sistema.activa
                 /\ TodosVeraces(sistema)
<1>1. Init => J
  BY InicialQuieto
<1>2. J /\ IInv /\ Sostenidos(sistema, Cpus) /\ [Next]_vars => J'
  BY NextQueda DEF Queda
<1>3. J => AvisoVeraz
  BY DEF TodosVeraces, Veraz, AvisoVeraz, Fin, En
<1>. HIDE DEF J
<1> QED
  BY <1>1, <1>2, <1>3, TablaEnOrden, SiempreSostenidos, PTL DEF Spec

-----------------------------------------------------------------------------
(* What every piece of a handler leaves true of the whole kernel: which    *)
(* processes the consoles, the CPUs, the semaphores and the lists of CPUs  *)
(* answer for.  Which of these hold depends on what may go wrong: b is     *)
(* true where no CPU dies in the middle of a program, f where nothing      *)
(* finishes a process behind the back of its CPU.                          *)

\* The modes of a CPU that is gone and was not noticed yet.
Muertas == {"rechazada", "muerta"}

\* A NEW process has a console that can send its code, and no console has
\* something to say.
Conectados(k) ==
    /\ \A p \in Pid : EnCola(k, p, "NUEVO") =>
          p \in k.consolas /\ k.consola[p] = "conectada"
    /\ \A p \in Pid : k.consola[p] \notin {"finalizando", "cerrando"}

\* No PCB is lost.
Completo(k) ==
    \A p \in Pid : p <= k.maxPID => \E e \in Estado : EnCola(k, p, e)

Suelto(k, p) == \A c \in Cpus : k.enCpu[c] # p

\* The end of file of CPU c will finish p.
Nombra(k, c, p) == k.modo[c] \in Muertas /\ k.pidEn[c] = p

\* What the CPUs of S hold runs, unless they have yet to say they abort it;
\* and what is on a CPU that is gone is on no other.
Orden(k, S) ==
    /\ Sostenidos(k, S)
    /\ \A c \in S : k.enCpu[c] # 0 =>
          EnCola(k, k.enCpu[c], "EJECUTANDO") \/ k.modo[c] = "abortando"
    /\ \A c \in S, p \in Pid : Nombra(k, c, p) => Adentro(k, p) /\ Suelto(k, p)

Esperan(k, s) == {p \in Pid : k.espera[p] = s}

\* Semaphores and colaBloqueados agree once the u[s] units that the handler
\* still owes to each semaphore s are paid.
Debe(k, u) ==
    /\ \A s \in Sems : Cardinality(Esperan(k, s)) =
          IF k.valor[s] + u[s] < 0 THEN -(k.valor[s] + u[s]) ELSE 0
    /\ \A p \in Pid : EnCola(k, p, "BLOQUEADO") <=> k.espera[p] # NoSem

SinDobles(l) == \A i, j \in 1..Len(l) : l[i] = l[j] => i = j

\* cpusLibres and cpusOcupadas are two lists of different CPUs, those that
\* run a process in the second one, and there is no kill flag.
Firme(k) ==
    /\ k.vivo = "vivo" /\ k.destruir = {} /\ k.colgados = 0
    /\ Conectados(k)
    /\ SinDobles(k.libres) /\ SinDobles(k.ocupadas)
    /\ \A c \in Cpus :
          /\ ~(Contains(k.libres, c) /\ Contains(k.ocupadas, c))
          /\ k.modo[c] = "ausente" =>
                ~Contains(k.libres, c) /\ ~Contains(k.ocupadas, c)
          /\ k.enCpu[c] # 0 => Contains(k.ocupadas, c)

\* A CPU that may be given a process takes it, or is known to be gone.
Dispuesta(k, c) ==
    \/ k.modo[c] \in {"saludando", "activa"}
    \/ k.modo[c] \in Muertas /\ k.pidEn[c] = 0

Ociosas(k) == \A c \in Cpus : Contains(k.libres, c) => Dispuesta(k, c)

\* Some CPU answers for every process that runs.
Atendidos(k) ==
    \A p \in Pid : EnCola(k, p, "EJECUTANDO") =>
        \E c \in Cpus : k.enCpu[c] = p \/ Nombra(k, c, p)

Vale(k, b, f) ==
    /\ b => Orden(k, Cpus)
    /\ f => Firme(k)
    /\ b /\ f => Ociosas(k)
    /\ b /\ f /\ k.activa => Atendidos(k)

\* Going from k to m loses no process and leaves everybody in order.
Avanza(k, m, x, b, f) ==
    /\ m.activa = k.activa
    /\ Conectados(k) => Conectados(m)
    /\ x.memoria /\ k.activa /\ Conectados(k) /\ Completo(k) => Completo(m)
    /\ Vale(m, b, f)
    /\ b /\ k.activa => \A u \in [Sems -> Int] : Debe(k, u) => Debe(m, u)

\* All of that but the semaphores, and the semaphores.
Progresa(k, m, x, b, f) ==
    /\ m.activa = k.activa
    /\ Conectados(k) => Conectados(m)
    /\ x.memoria /\ k.activa /\ Conectados(k) /\ Completo(k) => Completo(m)
    /\ Vale(m, b, f)

Salda(k, m, b) ==
    b /\ k.activa => \A u \in [Sems -> Int] : Debe(k, u) => Debe(m, u)

\* The two parts of Avanza.
LEMMA AvanzaPartes ==
    ASSUME NEW k, NEW m, NEW x, NEW b, NEW f
    PROVE  Avanza(k, m, x, b, f) <=> Progresa(k, m, x, b, f) /\ Salda(k, m, b)
BY DEF Avanza, Progresa, Salda

\* One piece after another.
LEMMA ProgresaTransitiva ==
    ASSUME NEW k, NEW l, NEW m, NEW x, NEW b, NEW f,
           Progresa(k, l, x, b, f), Progresa(l, m, x, b, f)
    PROVE  Progresa(k, m, x, b, f)
BY DEF Progresa

\* One piece after another.
LEMMA AvanzaTransitiva ==
    ASSUME NEW k, NEW l, NEW m, NEW x, NEW b, NEW f,
           Avanza(k, l, x, b, f), Avanza(l, m, x, b, f)
    PROVE  Avanza(k, m, x, b, f)
BY DEF Avanza

\* Nothing is done.
LEMMA AvanzaIgual ==
    ASSUME NEW k, NEW x, NEW b, NEW f, Vale(k, b, f)
    PROVE  Avanza(k, k, x, b, f)
BY DEF Avanza

\* What none of this is about.
MismasCpus(k, m) ==
    /\ m.activa = k.activa /\ m.maxPID = k.maxPID /\ m.vivo = k.vivo
    /\ m.libres = k.libres /\ m.ocupadas = k.ocupadas
    /\ m.pidEn = k.pidEn /\ m.enCpu = k.enCpu /\ m.modo = k.modo
    /\ m.destruir = k.destruir /\ m.colgados = k.colgados

Aparte(k, m) ==
    /\ MismasCpus(k, m)
    /\ m.consolas = k.consolas /\ m.consola = k.consola

MismosSemaforos(k, m) == m.valor = k.valor /\ m.espera = k.espera

\* What a handler writes that is not about CPUs nor queues.
LEMMA MismasCpusAvanza ==
    ASSUME NEW k, NEW m, NEW x, NEW b, NEW f, Vale(k, b, f),
           m.cola = k.cola, MismasCpus(k, m), MismosSemaforos(k, m),
           Conectados(k) => Conectados(m)
    PROVE  Avanza(k, m, x, b, f)
<1>1. \A q, e : EnCola(m, q, e) <=> EnCola(k, q, e)
  BY DEF EnCola
<1>2. \A q : (Adentro(m, q) <=> Adentro(k, q)) /\ (Suelto(m, q) <=> Suelto(k, q))
  BY <1>1 DEF Adentro, Suelto, MismasCpus
<1>3. \A c, q : Nombra(m, c, q) <=> Nombra(k, c, q)
  BY DEF Nombra, MismasCpus
<1>4. Orden(k, Cpus) => Orden(m, Cpus)
  <2>1. Sostenidos(k, Cpus) => Sostenidos(m, Cpus)
    BY <1>2 DEF Sostenidos, MismasCpus
  <2> QED
    BY <1>1, <1>2, <1>3, <2>1 DEF Orden, MismasCpus
<1>5. Conectados(k) => Conectados(m)
  OBVIOUS
<1>6. Firme(k) => Firme(m)
  BY <1>5 DEF Firme, MismasCpus
<1>7. Ociosas(k) => Ociosas(m)
  BY DEF Ociosas, Dispuesta, MismasCpus
<1>8. Atendidos(k) => Atendidos(m)
  BY <1>1, <1>3 DEF Atendidos, MismasCpus
<1>9. Vale(m, b, f)
  BY <1>4, <1>6, <1>7, <1>8 DEF Vale, MismasCpus
<1>10. Completo(k) => Completo(m)
  BY <1>1 DEF Completo, MismasCpus
<1>11. \A u : Debe(k, u) => Debe(m, u)
  BY <1>1 DEF Debe, Esperan, MismosSemaforos
<1> QED
  BY <1>5, <1>9, <1>10, <1>11 DEF Avanza, MismasCpus

\* Exit codes, pages, notices, quantums and levels.
LEMMA AparteAvanza ==
    ASSUME NEW k, NEW m, NEW x, NEW b, NEW f, Vale(k, b, f),
           m.cola = k.cola, Aparte(k, m), MismosSemaforos(k, m)
    PROVE  Avanza(k, m, x, b, f)
<1>1. Conectados(k) => Conectados(m)
  BY DEF Conectados, EnCola, Aparte
<1> QED
  BY <1>1, MismasCpusAvanza DEF Aparte

\* A process that no CPU holds changes queue, to any but colaEjecutando.
LEMMA TrasladoAvanza ==
    ASSUME NEW k, Bien(k), NEW m, NEW p \in Pid,
           NEW e \in {"LISTO", "BLOQUEADO", "TERMINADO"},
           NEW x, NEW b, NEW f, Vale(k, b, f),
           Traslado(k, m, p, e), m.colgados = k.colgados,
           b => Suelto(k, p),
           b /\ e # "TERMINADO" => \A c \in Cpus : ~Nombra(k, c, p),
           b /\ k.activa => \A u \in [Sems -> Int] : Debe(k, u) => Debe(m, u)
    PROVE  Avanza(k, m, x, b, f)
<1>1. /\ Aparte(k, m)
      /\ \A q \in Pid, g \in Estado :
            EnCola(m, q, g) <=> IF q = p THEN g = e ELSE EnCola(k, q, g)
  BY DEF Traslado, MismoResto, Aparte, MismasCpus
<1>2. /\ "NUEVO" \in Estado /\ "EJECUTANDO" \in Estado
      /\ "TERMINADO" \in Estado /\ e \in Estado
      /\ e # "NUEVO" /\ e # "EJECUTANDO"
  BY DEF Estado
<1>3. \A c, q : Nombra(m, c, q) <=> Nombra(k, c, q)
  BY <1>1 DEF Nombra, Aparte, MismasCpus
<1>4. \A q : Suelto(m, q) <=> Suelto(k, q)
  BY <1>1 DEF Suelto, Aparte, MismasCpus
<1>5. ASSUME b
      PROVE  Orden(m, Cpus)
  <2>1. Orden(k, Cpus) /\ Suelto(k, p)
    BY <1>5 DEF Vale
  <2>2. \A c \in Cpus : k.enCpu[c] # 0 => k.enCpu[c] \in Pid \ {p}
    BY <2>1, RecibirPcbBien DEF Suelto
  <2>3. \A q \in Pid \ {p} : Adentro(m, q) <=> Adentro(k, q)
    BY <1>1, <1>2 DEF Adentro
  <2>4. Sostenidos(m, Cpus)
    BY <1>1, <2>1, <2>2, <2>3 DEF Orden, Sostenidos, Aparte, MismasCpus
  <2>5. \A c \in Cpus : m.enCpu[c] # 0 =>
           EnCola(m, m.enCpu[c], "EJECUTANDO") \/ m.modo[c] = "abortando"
    BY <1>1, <1>2, <2>1, <2>2 DEF Orden, Aparte, MismasCpus
  <2>6. e = "TERMINADO" => Adentro(m, p)
    BY <1>1, <1>2 DEF Adentro
  <2>7. \A c \in Cpus, q \in Pid : Nombra(m, c, q) => Adentro(m, q) /\ Suelto(m, q)
    BY <1>3, <1>4, <1>5, <2>1, <2>3, <2>6 DEF Orden
  <2> QED
    BY <2>4, <2>5, <2>7 DEF Orden
<1>6. Conectados(k) => Conectados(m)
  BY <1>1, <1>2 DEF Conectados, Aparte, MismasCpus
<1>7. Firme(k) => Firme(m)
  BY <1>1, <1>6 DEF Firme, Aparte, MismasCpus
<1>8. Ociosas(k) => Ociosas(m)
  BY <1>1 DEF Ociosas, Dispuesta, Aparte, MismasCpus
<1>9. Atendidos(k) => Atendidos(m)
  BY <1>1, <1>2, <1>3 DEF Atendidos, Aparte, MismasCpus
<1>10. Vale(m, b, f)
  BY <1>1, <1>5, <1>7, <1>8, <1>9 DEF Vale, Aparte, MismasCpus
<1>11. Completo(k) => Completo(m)
  BY <1>1, <1>2 DEF Completo, Aparte, MismasCpus
<1>12. m.activa = k.activa
  BY <1>1 DEF Aparte, MismasCpus
<1> QED
  BY <1>6, <1>10, <1>11, <1>12 DEF Avanza

\* The queues of the semaphores are as they were.
LEMMA DebeIgual ==
    ASSUME NEW k, NEW m, NEW p, NEW e, Traslado(k, m, p, e), p \in Pid,
           MismosSemaforos(k, m), ~EnCola(k, p, "BLOQUEADO"), e # "BLOQUEADO"
    PROVE  \A u : Debe(k, u) => Debe(m, u)
<1>1. \A q \in Pid : EnCola(m, q, "BLOQUEADO") <=> EnCola(k, q, "BLOQUEADO")
  BY DEF Traslado, Estado
<1>2. \A s : Esperan(m, s) = Esperan(k, s)
  BY DEF Esperan, MismosSemaforos
<1> QED
  BY <1>1, <1>2 DEF Debe, MismosSemaforos

\* The processes that wait for a semaphore are finitely many.
LEMMA EsperanFinito ==
    ASSUME NEW k, NEW s
    PROVE  IsFiniteSet(Esperan(k, s))
<1>1. IsFiniteSet(1..MaxPid)
  <2>1. 1 \in Int /\ MaxPid \in Int
    BY MaxPidAssumption
  <2> QED
    BY <2>1, FS_Interval
<1>2. Esperan(k, s) \subseteq 1..MaxPid
  BY DEF Esperan, Pid
<1> QED
  BY <1>1, <1>2, FS_Subset

\* p no longer waits for s, and its unit goes back.
Cede(k, m, p, s) ==
    /\ k.valor \in [Sems -> Int] /\ k.espera \in [Pid -> Sems \cup {NoSem}]
    /\ k.espera[p] = s
    /\ m.valor = [k.valor EXCEPT ![s] = k.valor[s] + 1]
    /\ m.espera = [k.espera EXCEPT ![p] = NoSem]
    /\ \A q \in Pid : EnCola(m, q, "BLOQUEADO") <=>
           EnCola(k, q, "BLOQUEADO") /\ q # p

\* One less waits for s: nothing more nor less is owed.
LEMMA DejaDeEsperar ==
    ASSUME NEW k, NEW m, NEW p \in Pid, NEW s \in Sems, Cede(k, m, p, s)
    PROVE  \A u \in [Sems -> Int] : Debe(k, u) => Debe(m, u)
<1>0. /\ k.valor \in [Sems -> Int] /\ k.espera \in [Pid -> Sems \cup {NoSem}]
      /\ k.espera[p] = s
      /\ m.valor = [k.valor EXCEPT ![s] = k.valor[s] + 1]
      /\ m.espera = [k.espera EXCEPT ![p] = NoSem]
      /\ \A q \in Pid : EnCola(m, q, "BLOQUEADO") <=>
             EnCola(k, q, "BLOQUEADO") /\ q # p
  BY DEF Cede
<1>. SUFFICES ASSUME NEW u \in [Sems -> Int], Debe(k, u)
              PROVE  Debe(m, u)
  OBVIOUS
<1>1. NoSem \notin Sems
  BY SemsAssumption
<1>2. Esperan(m, s) = Esperan(k, s) \ {p} /\ p \in Esperan(k, s)
  BY <1>0, <1>1 DEF Esperan
<1>3. \A t \in Sems \ {s} : Esperan(m, t) = Esperan(k, t)
  BY <1>0, <1>1 DEF Esperan
<1>. DEFINE n == Cardinality(Esperan(k, s))
            v == k.valor[s] + u[s]
<1>4. IsFiniteSet(Esperan(k, s))
  BY EsperanFinito
<1>5. n \in Nat /\ Cardinality(Esperan(m, s)) = n - 1
  BY <1>2, <1>4, FS_CardinalityType, FS_RemoveElement
<1>6. n # 0
  BY <1>2, <1>4, FS_EmptySet
<1>7. n = IF v < 0 THEN -v ELSE 0
  BY DEF Debe
<1>8. v \in Int /\ m.valor[s] + u[s] = v + 1
  BY <1>0 DEF n
<1>. HIDE DEF n, v
<1>9. Cardinality(Esperan(m, s)) = IF v + 1 < 0 THEN -(v + 1) ELSE 0
  BY <1>5, <1>6, <1>7, <1>8
<1>10. ASSUME NEW t \in Sems
       PROVE  Cardinality(Esperan(m, t)) =
                 IF m.valor[t] + u[t] < 0 THEN -(m.valor[t] + u[t]) ELSE 0
  <2>1. CASE t = s
    BY <1>0, <1>8, <1>9, <2>1
  <2>2. CASE t # s
    <3>1. m.valor[t] = k.valor[t] /\ Esperan(m, t) = Esperan(k, t)
      BY <1>0, <1>3, <2>2
    <3> QED
      BY <3>1 DEF Debe
  <2> QED
    BY <2>1, <2>2
<1>11. ASSUME NEW q \in Pid
       PROVE  EnCola(m, q, "BLOQUEADO") <=> m.espera[q] # NoSem
  BY <1>0 DEF Debe
<1> QED
  BY <1>10, <1>11 DEF Debe

\* A process that finishes gives back the unit it waited for.
LEMMA DebeAlFinalizar ==
    ASSUME NEW k, Bien(k), NEW m, NEW p \in Pid,
           Traslado(k, m, p, "TERMINADO"),
           MismosSemaforos(LimpiarSemaforos(k, p), m)
    PROVE  \A u \in [Sems -> Int] : Debe(k, u) => Debe(m, u)
<1>1. /\ k.valor \in [Sems -> Int] /\ k.espera \in [Pid -> Sems \cup {NoSem}]
      /\ NoSem \notin Sems
  BY SemsAssumption DEF Bien, Sistema
<1>2. \A q \in Pid : EnCola(m, q, "BLOQUEADO") <=>
                        EnCola(k, q, "BLOQUEADO") /\ q # p
  BY DEF Traslado, Estado
<1>3. CASE k.espera[p] = NoSem
  <2>1. MismosSemaforos(k, m)
    BY <1>3 DEF MismosSemaforos, LimpiarSemaforos
  <2>2. \A u : Debe(k, u) => ~EnCola(k, p, "BLOQUEADO")
    BY <1>3 DEF Debe
  <2>3. ~EnCola(k, p, "BLOQUEADO") => \A u : Debe(k, u) => Debe(m, u)
    BY <2>1, DebeIgual
  <2> QED
    BY <2>2, <2>3
<1>4. CASE k.espera[p] # NoSem
  <2>. DEFINE s == k.espera[p]
  <2>1. s \in Sems
    BY <1>1, <1>4
  <2>2. /\ m.valor = [k.valor EXCEPT ![s] = k.valor[s] + 1]
        /\ m.espera = [k.espera EXCEPT ![p] = NoSem]
    BY <1>4 DEF MismosSemaforos, LimpiarSemaforos, Bien, Sistema
  <2>. HIDE DEF s
  <2>3. k.espera[p] = s
    BY DEF s
  <2>4. Cede(k, m, p, s)
    BY <1>1, <1>2, <2>2, <2>3 DEF Cede
  <2> QED
    BY <2>1, <2>4, DejaDeEsperar
<1> QED
  BY <1>3, <1>4

\* What a move leaves alone.
LEMMA MoverConserva ==
    ASSUME NEW k \in Sistema, NEW p, NEW desde, NEW hacia
    PROVE  LET m == Mover(k, p, desde, hacia)
           IN  MismosSemaforos(k, m) /\ m.colgados = k.colgados
BY DEF Mover, MismosSemaforos, Sistema

\* What leaving the semaphores leaves alone.
LEMMA LimpiarConserva ==
    ASSUME NEW k, Bien(k), NEW p \in Pid
    PROVE  LET l == LimpiarSemaforos(k, p)
           IN  l \in Sistema /\ l.colgados = k.colgados
<1>1. LimpiarSemaforos(k, p) \in Sistema
  BY LimpiarSemaforosBien DEF Bien
<1>2. LimpiarSemaforos(k, p).colgados = k.colgados
  BY DEF LimpiarSemaforos, Bien, Sistema
<1> QED
  BY <1>1, <1>2

\* The semaphores after each way of changing queue.
LEMMA PasosSemaforos ==
    ASSUME NEW k, Bien(k), NEW p \in Pid, NEW code
    PROVE  /\ \A desde, hacia : LET m == Trasladar(k, p, desde, hacia) IN
                 MismosSemaforos(k, m) /\ m.colgados = k.colgados
           /\ LET m == NuevoAFinalizados(k, p, code) IN
                 MismosSemaforos(k, m) /\ m.colgados = k.colgados
           /\ LET m == EjecutandoAFinalizados(k, p) IN
                 /\ Mueve(k, p, "EJECUTANDO") =>
                       MismosSemaforos(LimpiarSemaforos(k, p), m)
                 /\ m.colgados = k.colgados
           /\ LET m == BloqueadoAFinalizados(k, p, code) IN
                 /\ Mueve(k, p, "BLOQUEADO") =>
                       MismosSemaforos(LimpiarSemaforos(k, p), m)
                 /\ m.colgados = k.colgados
           /\ \A e : LET m == AFinalizados(k, p, e) IN
                 /\ Mueve(k, p, e) /\ e # "NUEVO" =>
                       MismosSemaforos(LimpiarSemaforos(k, p), m)
                 /\ e = "NUEVO" => MismosSemaforos(k, m)
                 /\ m.colgados = k.colgados
<1>. DEFINE l == LimpiarSemaforos(k, p)
<1>1. k \in Sistema /\ l \in Sistema /\ l.colgados = k.colgados
  BY LimpiarConserva DEF Bien
<1>2. MismosSemaforos(k, k)
  BY DEF MismosSemaforos
<1>3. ASSUME NEW desde, NEW hacia
      PROVE  LET m == Trasladar(k, p, desde, hacia) IN
                MismosSemaforos(k, m) /\ m.colgados = k.colgados
  BY <1>1, <1>2, MoverConserva DEF Trasladar
<1>4. LET m == NuevoAFinalizados(k, p, code) IN
         MismosSemaforos(k, m) /\ m.colgados = k.colgados
  <2>. DEFINE a == Mover(k, p, "NUEVO", "TERMINADO")
              m == [a EXCEPT !.ec[p] = code]
  <2>1. MismosSemaforos(k, a) /\ a.colgados = k.colgados
    BY <1>1, MoverConserva
  <2>2. a \in Sistema
    BY <1>1, MoverTipo DEF Estado
  <2>. HIDE DEF a
  <2>3. MismosSemaforos(k, m) /\ m.colgados = k.colgados
    BY <2>1, <2>2 DEF MismosSemaforos, Sistema
  <2> QED
    BY <1>2, <2>3 DEF NuevoAFinalizados, a
<1>5. \A desde : LET a == Mover(l, p, desde, "TERMINADO") IN
         MismosSemaforos(l, a) /\ a.colgados = k.colgados
  BY <1>1, MoverConserva
<1>6. LET m == EjecutandoAFinalizados(k, p) IN
         /\ Mueve(k, p, "EJECUTANDO") => MismosSemaforos(l, m)
         /\ m.colgados = k.colgados
  BY <1>5 DEF EjecutandoAFinalizados
<1>7. LET m == BloqueadoAFinalizados(k, p, code) IN
         /\ Mueve(k, p, "BLOQUEADO") => MismosSemaforos(l, m)
         /\ m.colgados = k.colgados
  <2>. DEFINE a == Mover(l, p, "BLOQUEADO", "TERMINADO")
              m == [a EXCEPT !.ec[p] = code]
  <2>1. MismosSemaforos(l, a) /\ a.colgados = k.colgados
    BY <1>5
  <2>2. a \in Sistema
    BY <1>1, MoverTipo DEF Estado
  <2>. HIDE DEF a, l
  <2>3. MismosSemaforos(l, m) /\ m.colgados = k.colgados
    BY <2>1, <2>2 DEF MismosSemaforos, Sistema
  <2> QED
    BY <2>3 DEF BloqueadoAFinalizados, a, l
<1>8. ASSUME NEW e
      PROVE  LET m == AFinalizados(k, p, e) IN
                 /\ Mueve(k, p, e) /\ e # "NUEVO" => MismosSemaforos(l, m)
                 /\ e = "NUEVO" => MismosSemaforos(k, m)
                 /\ m.colgados = k.colgados
  <2>1. LET a == Mover(k, p, "NUEVO", "TERMINADO") IN
           MismosSemaforos(k, a) /\ a.colgados = k.colgados
    BY <1>1, MoverConserva
  <2>2. LET a == Mover(l, p, e, "TERMINADO") IN
           MismosSemaforos(l, a) /\ a.colgados = k.colgados
    BY <1>5
  <2>. HIDE DEF l
  <2> QED
    BY <1>2, <2>1, <2>2 DEF AFinalizados, l
<1> QED
  BY <1>3, <1>4, <1>6, <1>7, <1>8

\* What is in a queue that does not run is on no CPU.
LEMMA AfueraSuelto ==
    ASSUME NEW k, Bien(k), Orden(k, Cpus), NEW p \in Pid,
           NEW e \in {"NUEVO", "LISTO", "BLOQUEADO"}, EnCola(k, p, e)
    PROVE  Suelto(k, p) /\ \A c \in Cpus : ~Nombra(k, c, p)
<1>1. ~Adentro(k, p)
  BY AfueraNoAdentro
<1>2. p # 0
  BY MaxPidAssumption DEF Pid
<1> QED
  BY <1>1, <1>2 DEF Orden, Sostenidos, Suelto

\* The ways a process that no CPU holds finishes.
LEMMA PasosAvanzan ==
    ASSUME NEW k, Bien(k), NEW p \in Pid, NEW code \in ExitCode,
           NEW x, NEW b \in BOOLEAN, NEW f \in BOOLEAN, Vale(k, b, f)
    PROVE  /\ Avanza(k, ListoAFinalizados(k, p), x, b, f)
           /\ Avanza(k, NuevoAFinalizados(k, p, code), x, b, f)
           /\ Avanza(k, BloqueadoAFinalizados(k, p, code), x, b, f)
           /\ (b => Suelto(k, p)) =>
                 Avanza(k, EjecutandoAFinalizados(k, p), x, b, f)
           /\ \A e \in Estado \ {"TERMINADO"} :
                 (e = "EJECUTANDO" /\ b => Suelto(k, p)) =>
                    Avanza(k, AFinalizados(k, p, e), x, b, f)
<1>1. ASSUME NEW m, NEW e \in Estado \ {"TERMINADO"},
             (e = "EJECUTANDO" /\ b) => Suelto(k, p),
             m.colgados = k.colgados,
             IF Mueve(k, p, e)
             THEN /\ Traslado(k, m, p, "TERMINADO")
                  /\ \/ MismosSemaforos(LimpiarSemaforos(k, p), m)
                     \/ MismosSemaforos(k, m) /\ e # "BLOQUEADO"
             ELSE m = k
      PROVE  Avanza(k, m, x, b, f)
  <2>1. CASE ~Mueve(k, p, e)
    BY <1>1, <2>1, AvanzaIgual
  <2>2. CASE Mueve(k, p, e)
    <3>1. Traslado(k, m, p, "TERMINADO") /\ EnCola(k, p, e)
      BY <1>1, <2>2 DEF Mueve
    <3>2. b => Suelto(k, p)
      <4>1. e \in {"NUEVO", "LISTO", "BLOQUEADO"} \/ e = "EJECUTANDO"
        BY <1>1 DEF Estado
      <4>2. e \in {"NUEVO", "LISTO", "BLOQUEADO"} /\ b => Suelto(k, p)
        BY <3>1, AfueraSuelto DEF Vale
      <4> QED
        BY <1>1, <4>1, <4>2
    <3>3. \A u \in [Sems -> Int] : Debe(k, u) => Debe(m, u)
      <4>1. CASE MismosSemaforos(LimpiarSemaforos(k, p), m)
        BY <3>1, <4>1, DebeAlFinalizar
      <4>2. CASE MismosSemaforos(k, m) /\ e # "BLOQUEADO"
        <5>1. ~EnCola(k, p, "BLOQUEADO")
          BY <1>1, <3>1, <4>2, UnaCola DEF Estado
        <5> QED
          BY <3>1, <4>2, <5>1, DebeIgual
      <4> QED
        BY <1>1, <2>2, <4>1, <4>2
    <3> QED
      BY <1>1, <3>1, <3>2, <3>3, TrasladoAvanza
  <2> QED
    BY <2>1, <2>2
<1>2. "LISTO" \in EnSistema /\ "LISTO" \in Estado /\ "NUEVO" \in Estado
      /\ "EJECUTANDO" \in Estado /\ "BLOQUEADO" \in Estado
  BY DEF Estado, EnSistema
<1>3. Avanza(k, ListoAFinalizados(k, p), x, b, f)
  <2>. DEFINE m == ListoAFinalizados(k, p)
  <2>1. MismosSemaforos(k, m) /\ m.colgados = k.colgados
    BY PasosSemaforos DEF ListoAFinalizados
  <2>2. IF Mueve(k, p, "LISTO") THEN Traslado(k, m, p, "TERMINADO") ELSE m = k
    BY <1>2, PasosTrasladan DEF ListoAFinalizados
  <2>. HIDE DEF m
  <2>3. Avanza(k, m, x, b, f)
    BY <1>1, <1>2, <2>1, <2>2
  <2> QED
    BY <2>3 DEF m
<1>4. Avanza(k, NuevoAFinalizados(k, p, code), x, b, f)
  <2>. DEFINE m == NuevoAFinalizados(k, p, code)
  <2>1. MismosSemaforos(k, m) /\ m.colgados = k.colgados
    BY PasosSemaforos
  <2>2. IF Mueve(k, p, "NUEVO") THEN Traslado(k, m, p, "TERMINADO") ELSE m = k
    BY FinalizarTraslada
  <2>. HIDE DEF m
  <2>3. Avanza(k, m, x, b, f)
    BY <1>1, <1>2, <2>1, <2>2
  <2> QED
    BY <2>3 DEF m
<1>5. Avanza(k, BloqueadoAFinalizados(k, p, code), x, b, f)
  <2>. DEFINE m == BloqueadoAFinalizados(k, p, code)
  <2>1. /\ Mueve(k, p, "BLOQUEADO") => MismosSemaforos(LimpiarSemaforos(k, p), m)
        /\ m.colgados = k.colgados
    BY PasosSemaforos
  <2>2. IF Mueve(k, p, "BLOQUEADO") THEN Traslado(k, m, p, "TERMINADO") ELSE m = k
    BY FinalizarTraslada
  <2>. HIDE DEF m
  <2>3. Avanza(k, m, x, b, f)
    BY <1>1, <1>2, <2>1, <2>2
  <2> QED
    BY <2>3 DEF m
<1>6. ASSUME b => Suelto(k, p)
      PROVE  Avanza(k, EjecutandoAFinalizados(k, p), x, b, f)
  <2>. DEFINE m == EjecutandoAFinalizados(k, p)
  <2>1. /\ Mueve(k, p, "EJECUTANDO") => MismosSemaforos(LimpiarSemaforos(k, p), m)
        /\ m.colgados = k.colgados
    BY PasosSemaforos
  <2>2. IF Mueve(k, p, "EJECUTANDO") THEN Traslado(k, m, p, "TERMINADO") ELSE m = k
    BY FinalizarTraslada
  <2>. HIDE DEF m
  <2>3. Avanza(k, m, x, b, f)
    BY <1>1, <1>2, <1>6, <2>1, <2>2
  <2> QED
    BY <2>3 DEF m
<1>7. ASSUME NEW e \in Estado \ {"TERMINADO"},
             (e = "EJECUTANDO" /\ b) => Suelto(k, p)
      PROVE  Avanza(k, AFinalizados(k, p, e), x, b, f)
  <2>. DEFINE m == AFinalizados(k, p, e)
  <2>1. /\ Mueve(k, p, e) /\ e # "NUEVO" =>
              MismosSemaforos(LimpiarSemaforos(k, p), m)
        /\ e = "NUEVO" => MismosSemaforos(k, m)
        /\ m.colgados = k.colgados
    BY PasosSemaforos
  <2>2. IF Mueve(k, p, e) THEN Traslado(k, m, p, "TERMINADO") ELSE m = k
    BY FinalizarTraslada
  <2>. HIDE DEF m
  <2>3. Avanza(k, m, x, b, f)
    BY <1>1, <1>7, <2>1, <2>2
  <2> QED
    BY <2>3 DEF m
<1> QED
  BY <1>3, <1>4, <1>5, <1>6, <1>7

\* What a handler writes about a process, its console or its pages.
LEMMA EscribirAvanza ==
    ASSUME NEW k, Bien(k), NEW p \in Pid, NEW code,
           NEW x, NEW b \in BOOLEAN, NEW f \in BOOLEAN, Vale(k, b, f)
    PROVE  /\ Avanza(k, [k EXCEPT !.ec[p] = code], x, b, f)
           /\ Avanza(k, [k EXCEPT !.ecCopia[p] = code], x, b, f)
           /\ Avanza(k, PedirAMemoriaFinalizarProceso(k, p), x, b, f)
           /\ \A n : Avanza(k, [k EXCEPT !.iteraciones = n], x, b, f)
           /\ \A c, n : Avanza(k, [k EXCEPT !.quantum[c] = n], x, b, f)
           /\ \A n, g : Avanza(k, [k EXCEPT !.grado = n, !.iteraciones = g], x, b, f)
           /\ ~EnCola(k, p, "NUEVO") =>
                 /\ Avanza(k, EliminarPidProgramaSocket(k, p), x, b, f)
                 /\ Avanza(k, InformarAConsola(k, p, code), x, b, f)
<1>1. ASSUME NEW m, NEW c, NEW n, NEW g,
             \/ m = [k EXCEPT !.ec[p] = code]
             \/ m = [k EXCEPT !.ecCopia[p] = code]
             \/ m = PedirAMemoriaFinalizarProceso(k, p)
             \/ m = [k EXCEPT !.iteraciones = n]
             \/ m = [k EXCEPT !.quantum[c] = n]
             \/ m = [k EXCEPT !.grado = n, !.iteraciones = g]
      PROVE  Avanza(k, m, x, b, f)
  <2>1. Aparte(k, m) /\ MismosSemaforos(k, m) /\ m.cola = k.cola
    <3>1. CASE \/ m = [k EXCEPT !.ec[p] = code]
               \/ m = [k EXCEPT !.ecCopia[p] = code]
               \/ m = PedirAMemoriaFinalizarProceso(k, p)
      BY <3>1 DEF Aparte, MismasCpus, MismosSemaforos,
         PedirAMemoriaFinalizarProceso, Bien, Sistema
    <3>2. CASE m = [k EXCEPT !.iteraciones = n]
      BY <3>2 DEF Aparte, MismasCpus, MismosSemaforos, Bien, Sistema
    <3>3. CASE m = [k EXCEPT !.quantum[c] = n]
      BY <3>3 DEF Aparte, MismasCpus, MismosSemaforos, Bien, Sistema
    <3>4. CASE m = [k EXCEPT !.grado = n, !.iteraciones = g]
      BY <3>4 DEF Aparte, MismasCpus, MismosSemaforos, Bien, Sistema
    <3> QED
      BY <1>1, <3>1, <3>2, <3>3, <3>4
  <2> QED
    BY <2>1, AparteAvanza
<1>2. ASSUME ~EnCola(k, p, "NUEVO"), NEW m,
             MismasCpus(k, m), MismosSemaforos(k, m), m.cola = k.cola,
             m.consola = k.consola, m.consolas = k.consolas \ {p}
      PROVE  Avanza(k, m, x, b, f)
  <2>1. Conectados(k) => Conectados(m)
    BY <1>2 DEF Conectados, EnCola
  <2> QED
    BY <1>2, <2>1, MismasCpusAvanza
<1>3. ASSUME ~EnCola(k, p, "NUEVO")
      PROVE  Avanza(k, EliminarPidProgramaSocket(k, p), x, b, f)
  <2>. DEFINE m == EliminarPidProgramaSocket(k, p)
  <2>1. /\ MismasCpus(k, m) /\ MismosSemaforos(k, m) /\ m.cola = k.cola
        /\ m.consola = k.consola /\ m.consolas = k.consolas \ {p}
    BY DEF MismasCpus, MismosSemaforos, EliminarPidProgramaSocket, Bien, Sistema
  <2>. HIDE DEF m
  <2>2. Avanza(k, m, x, b, f)
    BY <1>2, <1>3, <2>1
  <2> QED
    BY <2>2 DEF m
<1>4. ASSUME ~EnCola(k, p, "NUEVO")
      PROVE  Avanza(k, InformarAConsola(k, p, code), x, b, f)
  <2>. DEFINE m == InformarAConsola(k, p, code)
  <2>1. /\ MismasCpus(k, m) /\ MismosSemaforos(k, m) /\ m.cola = k.cola
        /\ m.consola = k.consola /\ m.consolas = k.consolas \ {p}
    <3>1. CASE p \in k.consolas
      BY <3>1 DEF MismasCpus, MismosSemaforos, EliminarPidProgramaSocket,
         InformarAConsola, Bien, Sistema
    <3>2. CASE p \notin k.consolas
      BY <3>2 DEF MismasCpus, MismosSemaforos, InformarAConsola, Bien, Sistema
    <3> QED
      BY <3>1, <3>2
  <2>. HIDE DEF m
  <2>2. Avanza(k, m, x, b, f)
    BY <1>2, <1>4, <2>1
  <2> QED
    BY <2>2 DEF m
<1> QED
  BY <1>1, <1>3, <1>4

\* The console of a process that is not NEW is told of its end.
LEMMA InformarAvanza ==
    ASSUME NEW k, Bien(k), NEW p \in Pid, NEW code, ~EnCola(k, p, "NUEVO"),
           NEW x, NEW b \in BOOLEAN, NEW f \in BOOLEAN, Vale(k, b, f)
    PROVE  Avanza(k, InformarAConsola(k, p, code), x, b, f)
<1>1. ~EnCola(k, p, "NUEVO") =>
         /\ Avanza(k, EliminarPidProgramaSocket(k, p), x, b, f)
         /\ Avanza(k, InformarAConsola(k, p, code), x, b, f)
  BY EscribirAvanza, ZenonT(60)
<1> QED
  BY <1>1

\* The process ends, memory frees its pages and its console is told.
LEMMA AvisarAvanza ==
    ASSUME NEW k, Bien(k), NEW p \in Pid, NEW code, ~EnCola(k, p, "NUEVO"),
           NEW x, NEW b \in BOOLEAN, NEW f \in BOOLEAN, Vale(k, b, f)
    PROVE  Avanza(k, InformarAConsola(PedirAMemoriaFinalizarProceso(k, p), p,
                                      code), x, b, f)
<1>. DEFINE a == PedirAMemoriaFinalizarProceso(k, p)
<1>1. Bien(a) /\ Avanza(k, a, x, b, f)
  BY CambioBien, EscribirAvanza DEF ExitCode
<1>2. Vale(a, b, f) /\ ~EnCola(a, p, "NUEVO")
  BY <1>1 DEF Avanza, EnCola, PedirAMemoriaFinalizarProceso, Bien, Sistema
<1>. HIDE DEF a
<1>3. Avanza(a, InformarAConsola(a, p, code), x, b, f)
  BY <1>1, <1>2, InformarAvanza
<1>4. Avanza(k, InformarAConsola(a, p, code), x, b, f)
  BY <1>1, <1>3, AvanzaTransitiva
<1> QED
  BY <1>4 DEF a

-----------------------------------------------------------------------------
(* Handing processes to CPUs, and admission.                               *)

\* The fields that no move of a process between queues and CPUs changes.
MismoMarco(k, m) ==
    /\ m.activa = k.activa /\ m.maxPID = k.maxPID
    /\ m.destruir = k.destruir /\ m.colgados = k.colgados
    /\ m.consolas = k.consolas /\ m.consola = k.consola
    /\ MismosSemaforos(k, m)

\* EXECUTE: the oldest ready process runs, and the CPU is said to run it.
LEMMA EjecutarSiguienteHace ==
    ASSUME NEW k, Bien(k), k.activa, HayListos(k), NEW c \in Cpus
    PROVE  LET p == Head(k.cola["LISTO"])
               m == EjecutarSiguientePcbEnCpu(k, c)
           IN  /\ p \in Pid /\ EnCola(k, p, "LISTO")
               /\ \A q \in Pid, e \in Estado :
                     EnCola(m, q, e) <=>
                        IF q = p THEN e = "EJECUTANDO" ELSE EnCola(k, q, e)
               /\ MismoMarco(k, m)
               /\ m.libres = k.libres /\ m.ocupadas = k.ocupadas
               /\ m.pidEn = [k.pidEn EXCEPT ![c] = p]
               /\ m.enCpu = [k.enCpu EXCEPT ![c] =
                                IF EsperaPcb(k, c) THEN p ELSE @]
               /\ m.modo = [k.modo EXCEPT ![c] =
                               IF @ = "saludando" THEN "rechazada" ELSE @]
               /\ m.vivo = IF EsperaOtraCosa(k, c) THEN "desincronizado"
                           ELSE k.vivo
<1>. DEFINE p == Head(k.cola["LISTO"])
            l == ListosAEjecutando(k, p)
            m == EjecutarSiguientePcbEnCpu(k, c)
<1>1. k.cola["LISTO"] \in Seq(Pid) /\ k.cola["LISTO"] # <<>>
  BY DEF HayListos, Bien, Sistema, Estado
<1>2. p \in Pid
  BY <1>1, HeadTailProperties
<1>3. EnCola(k, p, "LISTO")
  BY <1>1, <1>2, Pertenencia DEF EnCola
<1>4. Bien(l)
  BY <1>2, PasosBien
<1>5. Traslado(k, l, p, "EJECUTANDO")
  BY <1>2, <1>3, PasosTrasladan DEF ListosAEjecutando, Mueve, EnSistema
<1>6. MismosSemaforos(k, l) /\ l.colgados = k.colgados
  BY <1>2, PasosSemaforos DEF ListosAEjecutando
<1>7. m = [l EXCEPT !.pidEn[c] = p, !.ecCopia[p] = k.ec[p],
             !.enCpu[c] = IF EsperaPcb(k, c) THEN p ELSE @,
             !.modo[c] = IF @ = "saludando" THEN "rechazada" ELSE @,
             !.vivo = IF EsperaOtraCosa(k, c)
                      THEN "desincronizado" ELSE @]
  BY DEF EjecutarSiguientePcbEnCpu
<1>. HIDE DEF m, l, p
<1>8. /\ m.cola = l.cola
      /\ m.pidEn = [l.pidEn EXCEPT ![c] = p]
      /\ m.enCpu = [l.enCpu EXCEPT ![c] = IF EsperaPcb(k, c) THEN p ELSE @]
      /\ m.modo = [l.modo EXCEPT ![c] =
                      IF @ = "saludando" THEN "rechazada" ELSE @]
      /\ m.vivo = IF EsperaOtraCosa(k, c) THEN "desincronizado" ELSE l.vivo
  BY <1>4, <1>7 DEF Bien, Sistema
<1>9. /\ MismoMarco(l, m) /\ m.libres = l.libres /\ m.ocupadas = l.ocupadas
  BY <1>4, <1>7 DEF MismoMarco, MismosSemaforos, Bien, Sistema
<1>10. /\ MismoMarco(k, m) /\ m.libres = k.libres /\ m.ocupadas = k.ocupadas
       /\ l.pidEn = k.pidEn /\ l.enCpu = k.enCpu /\ l.modo = k.modo
       /\ l.vivo = k.vivo
  BY <1>5, <1>6, <1>9 DEF Traslado, MismoResto, MismoMarco, MismosSemaforos
<1>11. \A q \in Pid, e \in Estado :
          EnCola(m, q, e) <=>
             IF q = p THEN e = "EJECUTANDO" ELSE EnCola(k, q, e)
  BY <1>5, <1>8 DEF Traslado, EnCola
<1>12. /\ m.pidEn = [k.pidEn EXCEPT ![c] = p]
       /\ m.enCpu = [k.enCpu EXCEPT ![c] = IF EsperaPcb(k, c) THEN p ELSE @]
       /\ m.modo = [k.modo EXCEPT ![c] =
                       IF @ = "saludando" THEN "rechazada" ELSE @]
       /\ m.vivo = IF EsperaOtraCosa(k, c) THEN "desincronizado" ELSE k.vivo
  BY <1>8, <1>10
<1> QED
  BY <1>2, <1>3, <1>10, <1>11, <1>12 DEF m, p

\* EXECUTE to a CPU that can take it.
LEMMA EjecutarSiguienteAvanza ==
    ASSUME NEW k, Bien(k), k.activa, NEW c \in Cpus,
           NEW x, NEW b \in BOOLEAN, NEW f \in BOOLEAN, Vale(k, b, f),
           f => k.enCpu[c] = 0 /\ Contains(k.ocupadas, c),
           b /\ f => Dispuesta(k, c)
    PROVE  Avanza(k, EjecutarSiguientePcbEnCpu(k, c), x, b, f)
<1>1. CASE ~HayListos(k)
  BY <1>1, AvanzaIgual DEF EjecutarSiguientePcbEnCpu
<1>2. CASE HayListos(k)
  <2>. DEFINE p == Head(k.cola["LISTO"])
              m == EjecutarSiguientePcbEnCpu(k, c)
  <2>1. /\ p \in Pid /\ EnCola(k, p, "LISTO")
        /\ \A q \in Pid, e \in Estado :
              EnCola(m, q, e) <=>
                 IF q = p THEN e = "EJECUTANDO" ELSE EnCola(k, q, e)
        /\ MismoMarco(k, m)
        /\ m.libres = k.libres /\ m.ocupadas = k.ocupadas
        /\ m.pidEn = [k.pidEn EXCEPT ![c] = p]
        /\ m.enCpu = [k.enCpu EXCEPT ![c] = IF EsperaPcb(k, c) THEN p ELSE @]
        /\ m.modo = [k.modo EXCEPT ![c] =
                        IF @ = "saludando" THEN "rechazada" ELSE @]
        /\ m.vivo = IF EsperaOtraCosa(k, c) THEN "desincronizado" ELSE k.vivo
    BY <1>2, EjecutarSiguienteHace
  <2>2. Cuida(k, m)
    BY EjecutarSiguienteCuida
  <2>. HIDE DEF m, p
  <2>3. /\ "EJECUTANDO" \in Estado /\ "TERMINADO" \in Estado
        /\ "LISTO" \in Estado /\ "NUEVO" \in Estado /\ "BLOQUEADO" \in Estado
    BY DEF Estado
  <2>4. /\ k.enCpu \in [Cpus -> 0..MaxPid] /\ k.pidEn \in [Cpus -> 0..MaxPid]
        /\ k.modo \in [Cpus -> ModoCpu]
    BY DEF Bien, Sistema
  <2>5. /\ \A d \in Cpus \ {c} : /\ m.enCpu[d] = k.enCpu[d]
                                 /\ m.pidEn[d] = k.pidEn[d]
                                 /\ m.modo[d] = k.modo[d]
        /\ m.pidEn[c] = p
        /\ m.enCpu[c] = IF EsperaPcb(k, c) THEN p ELSE k.enCpu[c]
        /\ m.modo[c] = IF k.modo[c] = "saludando" THEN "rechazada"
                       ELSE k.modo[c]
    BY <2>1, <2>4
  <2>6. ~Adentro(k, p) /\ p # 0
    BY <2>1, AfueraNoAdentro, MaxPidAssumption DEF Pid
  <2>7. Adentro(m, p) /\ \A q \in Pid \ {p} : Adentro(m, q) <=> Adentro(k, q)
    BY <2>1, <2>3 DEF Adentro
  <2>8. Conectados(k) => Conectados(m)
    BY <2>1, <2>3 DEF Conectados, MismoMarco
  <2>9. Completo(k) => Completo(m)
    BY <2>1, <2>3 DEF Completo, MismoMarco
  <2>10. \A u : Debe(k, u) => Debe(m, u)
    <3>1. ~EnCola(k, p, "BLOQUEADO")
      BY <2>1, <2>3, UnaCola
    <3>2. \A q \in Pid : EnCola(m, q, "BLOQUEADO") <=> EnCola(k, q, "BLOQUEADO")
      BY <2>1, <2>3, <3>1
    <3> QED
      BY <2>1, <3>2 DEF Debe, Esperan, MismoMarco, MismosSemaforos
  <2>11. ASSUME b
         PROVE  Orden(m, Cpus)
    <3>1. Orden(k, Cpus)
      BY <2>11 DEF Vale
    <3>2. Sostenidos(m, Cpus)
      <4>1. Cpus \in SUBSET Cpus
        OBVIOUS
      <4> QED
        BY <2>2, <3>1, <4>1 DEF Cuida, Orden
    <3>3. Suelto(k, p)
      BY <2>6, <3>1 DEF Suelto, Orden, Sostenidos
    <3>4. ASSUME NEW d \in Cpus, m.enCpu[d] # 0
          PROVE  EnCola(m, m.enCpu[d], "EJECUTANDO") \/ m.modo[d] = "abortando"
      <4>1. CASE m.enCpu[d] = p
        BY <2>1, <2>3, <4>1
      <4>2. CASE m.enCpu[d] # p
        <5>1. m.enCpu[d] = k.enCpu[d]
          BY <2>5, <4>2
        <5>2. k.enCpu[d] \in Pid
          BY <3>4, <5>1, RecibirPcbBien
        <5>3. k.modo[d] = "abortando" => m.modo[d] = "abortando"
          BY <2>5
        <5> QED
          BY <2>1, <2>3, <3>1, <3>4, <4>2, <5>1, <5>2, <5>3 DEF Orden
      <4> QED
        BY <4>1, <4>2
    <3>5. ASSUME NEW d \in Cpus, NEW q \in Pid, Nombra(m, d, q)
          PROVE  Adentro(m, q) /\ Suelto(m, q)
      <4>1. CASE d = c
        <5>1. q = p
          BY <2>5, <3>5, <4>1 DEF Nombra
        <5>2. ~EsperaPcb(k, c)
          BY <2>5, <3>5, <4>1 DEF Nombra, EsperaPcb, Muertas
        <5>3. Suelto(m, p)
          BY <2>5, <3>3, <5>2 DEF Suelto
        <5> QED
          BY <2>7, <5>1, <5>3
      <4>2. CASE d # c
        <5>1. Nombra(k, d, q)
          BY <2>5, <3>5, <4>2 DEF Nombra
        <5>2. Adentro(k, q) /\ Suelto(k, q) /\ q # p
          BY <2>6, <3>1, <5>1 DEF Orden
        <5>3. Suelto(m, q)
          BY <2>5, <5>2 DEF Suelto
        <5> QED
          BY <2>7, <5>2, <5>3
      <4> QED
        BY <4>1, <4>2
    <3> QED
      BY <3>2, <3>4, <3>5 DEF Orden
  <2>12. ASSUME f
         PROVE  Firme(m)
    <3>1. Firme(k) /\ k.enCpu[c] = 0 /\ Contains(k.ocupadas, c)
      BY <2>12 DEF Vale
    <3>2. m.vivo = "vivo" /\ m.destruir = {} /\ m.colgados = 0
      BY <2>1, <3>1 DEF Firme, EsperaOtraCosa, MismoMarco
    <3>3. Conectados(m) /\ SinDobles(m.libres) /\ SinDobles(m.ocupadas)
      BY <2>1, <2>8, <3>1 DEF Firme
    <3>4. ASSUME NEW d \in Cpus
          PROVE  /\ ~(Contains(m.libres, d) /\ Contains(m.ocupadas, d))
                 /\ m.modo[d] = "ausente" =>
                       ~Contains(m.libres, d) /\ ~Contains(m.ocupadas, d)
                 /\ m.enCpu[d] # 0 => Contains(m.ocupadas, d)
      <4>1. m.modo[d] = "ausente" => k.modo[d] = "ausente"
        BY <2>5
      <4>2. m.enCpu[d] # 0 => d = c \/ k.enCpu[d] # 0
        BY <2>5
      <4> QED
        BY <2>1, <3>1, <4>1, <4>2 DEF Firme
    <3> QED
      BY <3>2, <3>3, <3>4 DEF Firme
  <2>13. ASSUME b, f
         PROVE  Ociosas(m) /\ (Atendidos(k) => Atendidos(m))
    <3>1. /\ Firme(k) /\ k.enCpu[c] = 0 /\ Contains(k.ocupadas, c)
          /\ Dispuesta(k, c) /\ Ociosas(k)
      BY <2>13 DEF Vale
    <3>2. Ociosas(m)
      <4>1. ~Contains(m.libres, c)
        BY <2>1, <3>1 DEF Firme
      <4> QED
        BY <2>1, <2>5, <3>1, <4>1 DEF Ociosas, Dispuesta
    <3>3. ASSUME Atendidos(k), NEW q \in Pid, EnCola(m, q, "EJECUTANDO")
          PROVE  \E d \in Cpus : m.enCpu[d] = q \/ Nombra(m, d, q)
      <4>1. CASE q = p
        <5>1. m.enCpu[c] = q \/ Nombra(m, c, q)
          BY <2>5, <3>1, <4>1 DEF Dispuesta, EsperaPcb, Nombra, Muertas
        <5> QED
          BY <5>1
      <4>2. CASE q # p
        <5>1. EnCola(k, q, "EJECUTANDO")
          BY <2>1, <2>3, <3>3, <4>2
        <5>2. PICK d \in Cpus : k.enCpu[d] = q \/ Nombra(k, d, q)
          BY <3>3, <5>1 DEF Atendidos
        <5>3. q # 0
          BY MaxPidAssumption DEF Pid
        <5>4. d # c
          BY <3>1, <5>2, <5>3 DEF Dispuesta, Nombra, Muertas
        <5>5. m.enCpu[d] = q \/ Nombra(m, d, q)
          BY <2>5, <5>2, <5>4 DEF Nombra
        <5> QED
          BY <5>5
      <4> QED
        BY <4>1, <4>2
    <3> QED
      BY <3>2, <3>3 DEF Atendidos
  <2>14. m.activa = k.activa
    BY <2>1 DEF MismoMarco
  <2>15. Vale(m, b, f)
    BY <2>11, <2>12, <2>13, <2>14 DEF Vale
  <2>16. Avanza(k, m, x, b, f)
    BY <2>8, <2>9, <2>10, <2>14, <2>15 DEF Avanza
  <2> QED
    BY <2>16 DEF m
<1> QED
  BY <1>1, <1>2

\* A list without repetitions that loses its first element, gains a new one
\* or loses one of its own.
LEMMA SinDoblesTras ==
    ASSUME NEW T, NEW s \in Seq(T), SinDobles(s), NEW a \in T
    PROVE  /\ s # <<>> => SinDobles(Tail(s)) /\ ~Contains(Tail(s), Head(s))
           /\ ~Contains(s, a) => SinDobles(Append(s, a))
           /\ SinDobles(RemoveFirst(s, a)) /\ ~Contains(RemoveFirst(s, a), a)
<1>1. Len(s) \in Nat
  BY LenProperties
<1>2. ASSUME s # <<>>
      PROVE  SinDobles(Tail(s)) /\ ~Contains(Tail(s), Head(s))
  <2>. DEFINE t == Tail(s)
  <2>1. /\ Len(t) = Len(s) - 1
        /\ \A i \in 1..Len(t) : t[i] = s[i + 1]
    BY <1>2, HeadTailProperties
  <2>2. Head(s) = s[1] /\ Len(s) >= 1
    BY <1>1, <1>2, EmptySeq
  <2>. HIDE DEF t
  <2>3. \A i \in 1..Len(t) : i + 1 \in 1..Len(s) /\ i + 1 # 1
    BY <1>1, <2>1
  <2>4. ASSUME NEW i \in 1..Len(t), NEW j \in 1..Len(t), t[i] = t[j]
        PROVE  i = j
    <3>1. s[i + 1] = s[j + 1]
      BY <2>1, <2>4
    <3>2. i + 1 = j + 1
      BY <2>3, <3>1 DEF SinDobles
    <3> QED
      BY <1>1, <2>1, <3>2
  <2>5. ~Contains(t, Head(s))
    <3>1. ASSUME NEW i \in 1..Len(t), t[i] = s[1]
          PROVE  FALSE
      <4>1. s[i + 1] = s[1] /\ 1 \in 1..Len(s)
        BY <1>1, <2>1, <2>2, <3>1
      <4> QED
        BY <2>3, <4>1 DEF SinDobles
    <3> QED
      BY <2>2, <3>1 DEF Contains
  <2>6. SinDobles(t)
    BY <2>4 DEF SinDobles
  <2> QED
    BY <2>5, <2>6 DEF t
<1>3. ASSUME ~Contains(s, a)
      PROVE  SinDobles(Append(s, a))
  <2>. DEFINE t == Append(s, a)
  <2>1. /\ Len(t) = Len(s) + 1
        /\ \A i \in 1..Len(s) : t[i] = s[i]
        /\ t[Len(s) + 1] = a
    BY AppendProperties
  <2>. HIDE DEF t
  <2>2. \A i \in 1..Len(t) : i \in 1..Len(s) \/ i = Len(s) + 1
    BY <1>1, <2>1
  <2>3. \A i \in 1..Len(s) : t[i] # a
    BY <1>3, <2>1 DEF Contains
  <2>4. SinDobles(t)
    BY <2>1, <2>2, <2>3 DEF SinDobles
  <2> QED
    BY <2>4 DEF t
<1>4. SinDobles(RemoveFirst(s, a)) /\ ~Contains(RemoveFirst(s, a), a)
  <2>1. CASE ~Contains(s, a)
    BY <2>1 DEF RemoveFirst, Contains
  <2>2. CASE Contains(s, a)
    <3>. DEFINE t == RemoveFirst(s, a)
    <3>1. Len(t) = Len(s) - 1
      BY <2>2, QuitarPrimero
    <3>2. PICK i \in 1..Len(s) :
             /\ s[i] = a
             /\ \A j \in 1..Len(s) - 1 : t[j] = s[IF j < i THEN j ELSE j + 1]
      BY <2>2, QuitarPrimero
    <3>. HIDE DEF t
    <3>. DEFINE g(j) == IF j < i THEN j ELSE j + 1
    <3>3. \A j \in 1..Len(t) : g(j) \in 1..Len(s) /\ g(j) # i
      BY <1>1, <3>1
    <3>4. \A j \in 1..Len(t) : t[j] = s[g(j)]
      BY <3>1, <3>2
    <3>5. \A j \in 1..Len(t), l \in 1..Len(t) : g(j) = g(l) => j = l
      BY <1>1, <3>1
    <3>. HIDE DEF g
    <3>6. SinDobles(t)
      BY <3>3, <3>4, <3>5 DEF SinDobles
    <3>7. ~Contains(t, a)
      BY <3>2, <3>3, <3>4 DEF SinDobles, Contains
    <3> QED
      BY <3>6, <3>7 DEF t
  <2> QED
    BY <2>1, <2>2
<1> QED
  BY <1>2, <1>3, <1>4

\* Only the lists of CPUs, and the quantums, change.
LEMMA ListasAvanzan ==
    ASSUME NEW k, NEW m, NEW x, NEW b, NEW f, Vale(k, b, f),
           m.activa = k.activa, m.cola = k.cola, m.maxPID = k.maxPID,
           m.vivo = k.vivo, m.pidEn = k.pidEn, m.enCpu = k.enCpu,
           m.modo = k.modo, m.consolas = k.consolas, m.consola = k.consola,
           MismosSemaforos(k, m), f => Firme(m), b /\ f => Ociosas(m)
    PROVE  Avanza(k, m, x, b, f)
<1>1. \A q, e : EnCola(m, q, e) <=> EnCola(k, q, e)
  BY DEF EnCola
<1>2. \A q : (Adentro(m, q) <=> Adentro(k, q)) /\ (Suelto(m, q) <=> Suelto(k, q))
  BY <1>1 DEF Adentro, Suelto
<1>3. \A c, q : Nombra(m, c, q) <=> Nombra(k, c, q)
  BY DEF Nombra
<1>4. Orden(k, Cpus) => Orden(m, Cpus)
  <2>1. Sostenidos(k, Cpus) => Sostenidos(m, Cpus)
    BY <1>2 DEF Sostenidos
  <2> QED
    BY <1>1, <1>2, <1>3, <2>1 DEF Orden
<1>5. Conectados(k) => Conectados(m)
  BY <1>1 DEF Conectados
<1>6. Atendidos(k) => Atendidos(m)
  BY <1>1, <1>3 DEF Atendidos
<1>7. Vale(m, b, f)
  BY <1>4, <1>6 DEF Vale
<1>8. Completo(k) => Completo(m)
  BY <1>1 DEF Completo
<1>9. \A u : Debe(k, u) => Debe(m, u)
  BY <1>1 DEF Debe, Esperan, MismosSemaforos
<1> QED
  BY <1>5, <1>7, <1>8, <1>9 DEF Avanza

\* planificar(NULL) gives the first ready process to the first free CPU.
LEMMA PlanificarLibreAvanza ==
    ASSUME NEW k, Bien(k),
           NEW x, NEW b \in BOOLEAN, NEW f \in BOOLEAN, Vale(k, b, f)
    PROVE  Avanza(k, PlanificarLibre(k), x, b, f)
<1>. DEFINE c == Head(k.libres)
            t == Tail(k.libres)
            a == Append(k.ocupadas, c)
            q == IF Algoritmo = "RR" THEN k.quantum[c] + 1 ELSE k.quantum[c]
            m == [k EXCEPT !.libres = t, !.ocupadas = a, !.quantum[c] = q]
<1>1. CASE ~k.activa \/ k.libres = <<>>
  BY <1>1, AvanzaIgual DEF PlanificarLibre
<1>2. CASE k.activa /\ k.libres # <<>>
  <2>1. k.libres \in Seq(Cpus) /\ k.ocupadas \in Seq(Cpus)
    BY DEF Bien, Sistema
  <2>2. c \in Cpus /\ t \in Seq(Cpus)
    BY <1>2, <2>1, HeadTailProperties
  <2>3. /\ \A d : Contains(k.libres, d) <=> Contains(t, d) \/ d = c
        /\ \A d : Contains(a, d) <=> Contains(k.ocupadas, d) \/ d = c
    BY <1>2, <2>1, <2>2, Pertenencia
  <2>4. /\ SinDobles(k.libres) => SinDobles(t) /\ ~Contains(t, c)
        /\ SinDobles(k.ocupadas) /\ ~Contains(k.ocupadas, c) => SinDobles(a)
    BY <1>2, <2>1, <2>2, SinDoblesTras
  <2>. HIDE DEF c, t
  <2>5. a \in Seq(Cpus)
    BY <2>1, <2>2, AppendProperties
  <2>6. q \in Nat
    BY <2>2 DEF Bien, Sistema
  <2>7. PlanificarLibre(k) = EjecutarSiguientePcbEnCpu(m, c)
    <3>1. PlanificarLibre(k) = EjecutarSiguientePcbEnCpu(
            [k EXCEPT !.libres = Tail(@), !.ocupadas = Append(@, c),
                !.quantum[c] = IF Algoritmo = "RR" THEN @ + 1 ELSE @], c)
      BY <1>2 DEF PlanificarLibre, c
    <3>2. [k EXCEPT !.libres = Tail(@), !.ocupadas = Append(@, c),
                !.quantum[c] = IF Algoritmo = "RR" THEN @ + 1 ELSE @] = m
      BY DEF Bien, Sistema, t
    <3> QED
      BY <3>1, <3>2, Zenon
  <2>. HIDE DEF a, q
  <2>8. m \in Sistema
    BY <2>2, <2>5, <2>6 DEF Bien, Sistema
  <2>9. /\ m.cola = k.cola /\ m.cantidad = k.cantidad /\ m.maxPID = k.maxPID
        /\ m.libres = t /\ m.ocupadas = a /\ m.activa = k.activa
        /\ m.vivo = k.vivo /\ m.pidEn = k.pidEn /\ m.enCpu = k.enCpu
        /\ m.modo = k.modo /\ m.consolas = k.consolas
        /\ m.consola = k.consola /\ m.destruir = k.destruir
        /\ m.colgados = k.colgados
    BY DEF Bien, Sistema
  <2>10. MismosSemaforos(k, m)
    BY DEF MismosSemaforos, Bien, Sistema
  <2>. HIDE DEF m
  <2>11. Bien(m)
    BY <2>8, <2>9, MismasColas
  <2>12. Contains(k.libres, c) /\ Contains(m.ocupadas, c)
    BY <2>3, <2>9
  <2>13. ASSUME f
         PROVE  Firme(m) /\ m.enCpu[c] = 0
    <3>1. Firme(k)
      BY <2>13 DEF Vale
    <3>2. ~Contains(k.ocupadas, c) /\ k.modo[c] # "ausente"
      BY <2>2, <2>12, <3>1 DEF Firme
    <3>3. SinDobles(m.libres) /\ SinDobles(m.ocupadas) /\ ~Contains(t, c)
      BY <2>4, <2>9, <3>1, <3>2 DEF Firme
    <3>4. Conectados(m)
      BY <2>9, <3>1 DEF Firme, Conectados, EnCola
    <3>5. ASSUME NEW d \in Cpus
          PROVE  /\ ~(Contains(m.libres, d) /\ Contains(m.ocupadas, d))
                 /\ m.modo[d] = "ausente" =>
                       ~Contains(m.libres, d) /\ ~Contains(m.ocupadas, d)
                 /\ m.enCpu[d] # 0 => Contains(m.ocupadas, d)
      BY <2>3, <2>9, <3>1, <3>2, <3>3 DEF Firme
    <3>6. m.enCpu[c] = 0
      BY <2>2, <2>9, <3>1, <3>2 DEF Firme
    <3> QED
      BY <2>9, <3>1, <3>3, <3>4, <3>5, <3>6 DEF Firme
  <2>14. ASSUME b, f
         PROVE  Ociosas(m) /\ Dispuesta(m, c)
    <3>1. Ociosas(k)
      BY <2>14 DEF Vale
    <3> QED
      BY <2>2, <2>3, <2>9, <3>1 DEF Ociosas, Dispuesta
  <2>15. Avanza(k, m, x, b, f)
    BY <2>9, <2>10, <2>13, <2>14, ListasAvanzan
  <2>16. Vale(m, b, f) /\ m.activa
    BY <1>2, <2>9, <2>15 DEF Avanza
  <2>17. Avanza(m, EjecutarSiguientePcbEnCpu(m, c), x, b, f)
    BY <2>2, <2>11, <2>12, <2>13, <2>14, <2>16, EjecutarSiguienteAvanza
  <2> QED
    BY <2>7, <2>15, <2>17, AvanzaTransitiva
<1> QED
  BY <1>1, <1>2

\* Planning after a handler.
LEMMA PlanificarSiHayListosAvanza ==
    ASSUME NEW k, Bien(k),
           NEW x, NEW b \in BOOLEAN, NEW f \in BOOLEAN, Vale(k, b, f)
    PROVE  Avanza(k, PlanificarSiHayListos(k), x, b, f)
BY PlanificarLibreAvanza, AvanzaIgual DEF PlanificarSiHayListos

Liberada(k, m, c) ==
    /\ m.libres = Append(k.libres, c)
    /\ m.ocupadas = RemoveFirst(k.ocupadas, c)
    /\ m.cola = k.cola /\ m.maxPID = k.maxPID /\ m.activa = k.activa
    /\ m.vivo = k.vivo /\ m.pidEn = k.pidEn /\ m.enCpu = k.enCpu
    /\ m.modo = k.modo /\ m.consolas = k.consolas
    /\ m.consola = k.consola /\ m.destruir = k.destruir
    /\ m.colgados = k.colgados /\ MismosSemaforos(k, m)

\* A CPU without a PCB goes back to cpusLibres.
LEMMA LiberadaAvanza ==
    ASSUME NEW k, k.libres \in Seq(Cpus), k.ocupadas \in Seq(Cpus),
           NEW c \in Cpus, NEW m, Liberada(k, m, c),
           NEW x, NEW b \in BOOLEAN, NEW f \in BOOLEAN, Vale(k, b, f),
           f => k.enCpu[c] = 0 /\ Contains(k.ocupadas, c),
           b /\ f => Dispuesta(k, c)
    PROVE  Avanza(k, m, x, b, f)
<1>. DEFINE a == Append(k.libres, c)
            r == RemoveFirst(k.ocupadas, c)
<1>1. k.libres \in Seq(Cpus) /\ k.ocupadas \in Seq(Cpus)
  OBVIOUS
<1>2. /\ \A d : Contains(a, d) <=> Contains(k.libres, d) \/ d = c
      /\ \A d : d # c => (Contains(r, d) <=> Contains(k.ocupadas, d))
  BY <1>1, Pertenencia
<1>3. /\ SinDobles(k.ocupadas) => SinDobles(r) /\ ~Contains(r, c)
      /\ SinDobles(k.libres) /\ ~Contains(k.libres, c) => SinDobles(a)
  BY <1>1, SinDoblesTras
<1>4. /\ m.libres = a /\ m.ocupadas = r
      /\ m.cola = k.cola /\ m.maxPID = k.maxPID /\ m.activa = k.activa
      /\ m.vivo = k.vivo /\ m.pidEn = k.pidEn /\ m.enCpu = k.enCpu
      /\ m.modo = k.modo /\ m.consolas = k.consolas
      /\ m.consola = k.consola /\ m.destruir = k.destruir
      /\ m.colgados = k.colgados
  BY DEF Liberada
<1>5. MismosSemaforos(k, m)
  BY DEF Liberada
<1>. HIDE DEF a, r
<1>6. ASSUME f
      PROVE  Firme(m)
  <2>1. Firme(k) /\ k.enCpu[c] = 0 /\ Contains(k.ocupadas, c)
    BY <1>6 DEF Vale
  <2>2. ~Contains(k.libres, c) /\ k.modo[c] # "ausente"
    BY <2>1 DEF Firme
  <2>3. SinDobles(m.libres) /\ SinDobles(m.ocupadas) /\ ~Contains(r, c)
    BY <1>3, <1>4, <2>1, <2>2 DEF Firme
  <2>4. Conectados(m)
    BY <1>4, <2>1 DEF Firme, Conectados, EnCola
  <2>5. ASSUME NEW d \in Cpus
        PROVE  /\ ~(Contains(m.libres, d) /\ Contains(m.ocupadas, d))
               /\ m.modo[d] = "ausente" =>
                     ~Contains(m.libres, d) /\ ~Contains(m.ocupadas, d)
               /\ m.enCpu[d] # 0 => Contains(m.ocupadas, d)
    BY <1>2, <1>4, <2>1, <2>2, <2>3 DEF Firme
  <2> QED
    BY <1>4, <2>1, <2>3, <2>4, <2>5 DEF Firme
<1>7. ASSUME b, f
      PROVE  Ociosas(m)
  BY <1>2, <1>4, <1>7 DEF Vale, Ociosas, Dispuesta
<1> QED
  BY <1>4, <1>5, <1>6, <1>7, ListasAvanzan

\* eliminarCpuDeOcupadas and list_add.
LEMMA LiberarCpuAvanza ==
    ASSUME NEW k, Bien(k), NEW c \in Cpus,
           NEW x, NEW b \in BOOLEAN, NEW f \in BOOLEAN, Vale(k, b, f),
           f => k.enCpu[c] = 0 /\ Contains(k.ocupadas, c),
           b /\ f => Dispuesta(k, c)
    PROVE  Avanza(k, LiberarCpu(k, c), x, b, f)
<1>1. k.libres \in Seq(Cpus) /\ k.ocupadas \in Seq(Cpus)
  BY DEF Bien, Sistema
<1>2. Liberada(k, LiberarCpu(k, c), c)
  BY DEF LiberarCpu, Liberada, MismosSemaforos, Bien, Sistema
<1> QED
  BY <1>1, <1>2, LiberadaAvanza

\* The oldest NEW process leaves colaNuevos.
LEMMA QuitadoAvanza ==
    ASSUME NEW k, Bien(k), k.cola["NUEVO"] # <<>>, NEW x,
           NEW b \in BOOLEAN, NEW f \in BOOLEAN, Vale(k, b, f)
    PROVE  LET p == Head(k.cola["NUEVO"])
               m == [k EXCEPT !.cola["NUEVO"] = Tail(@)]
           IN  /\ m.activa = k.activa /\ m.maxPID = k.maxPID
               /\ Conectados(k) => Conectados(m)
               /\ Vale(m, b, f)
               /\ \A u : Debe(k, u) => Debe(m, u)
               /\ ~Adentro(m, p) /\ ~EnCola(m, p, "NUEVO")
               /\ ~EnCola(m, p, "BLOQUEADO")
<1>. DEFINE p == Head(k.cola["NUEVO"])
            m == [k EXCEPT !.cola["NUEVO"] = Tail(@)]
<1>1. /\ MismoResto(k, m) /\ EnCola(k, p, "NUEVO")
      /\ \A q \in Pid, e \in Estado :
            EnCola(m, q, e) <=> EnCola(k, q, e) /\ q # p
  BY QuitadoDonde
<1>2. m.colgados = k.colgados /\ MismosSemaforos(k, m)
  BY DEF MismosSemaforos, Bien, Sistema
<1>3. p \in Pid
  BY QuitadoBien
<1>. HIDE DEF m, p
<1>4. ~Adentro(k, p)
  BY <1>1, AfueraNoAdentro
<1>5. /\ "EJECUTANDO" \in Estado /\ "TERMINADO" \in Estado
      /\ "NUEVO" \in Estado /\ "BLOQUEADO" \in Estado
      /\ "NUEVO" # "BLOQUEADO" /\ "NUEVO" # "EJECUTANDO"
  BY DEF Estado
<1>6. \A q \in Pid : Adentro(m, q) <=> Adentro(k, q)
  BY <1>1, <1>4, <1>5 DEF Adentro
<1>7. ~EnCola(k, p, "BLOQUEADO") /\ ~EnCola(k, p, "EJECUTANDO")
  BY <1>1, <1>5, UnaCola
<1>8. \A q \in Pid : /\ EnCola(m, q, "BLOQUEADO") <=> EnCola(k, q, "BLOQUEADO")
                     /\ EnCola(m, q, "EJECUTANDO") <=> EnCola(k, q, "EJECUTANDO")
  BY <1>1, <1>5, <1>7
<1>9. /\ m.activa = k.activa /\ m.maxPID = k.maxPID /\ m.vivo = k.vivo
      /\ m.libres = k.libres /\ m.ocupadas = k.ocupadas
      /\ m.pidEn = k.pidEn /\ m.enCpu = k.enCpu /\ m.modo = k.modo
      /\ m.destruir = k.destruir /\ m.consolas = k.consolas
      /\ m.consola = k.consola
  BY <1>1 DEF MismoResto
<1>10. \A c, q : Nombra(m, c, q) <=> Nombra(k, c, q)
  BY <1>9 DEF Nombra
<1>11. \A q : Suelto(m, q) <=> Suelto(k, q)
  BY <1>9 DEF Suelto
<1>12. Orden(k, Cpus) => Orden(m, Cpus)
  <2>1. \A c \in Cpus : k.enCpu[c] # 0 => k.enCpu[c] \in Pid
    BY RecibirPcbBien
  <2>2. Sostenidos(k, Cpus) => Sostenidos(m, Cpus)
    BY <1>6, <1>9, <2>1 DEF Sostenidos
  <2>3. (\A c \in Cpus : k.enCpu[c] # 0 =>
            EnCola(k, k.enCpu[c], "EJECUTANDO") \/ k.modo[c] = "abortando")
        => \A c \in Cpus : m.enCpu[c] # 0 =>
              EnCola(m, m.enCpu[c], "EJECUTANDO") \/ m.modo[c] = "abortando"
    BY <1>8, <1>9, <2>1
  <2> QED
    BY <1>6, <1>10, <1>11, <2>2, <2>3 DEF Orden
<1>13. Conectados(k) => Conectados(m)
  BY <1>1, <1>5, <1>9 DEF Conectados
<1>14. Firme(k) => Firme(m)
  BY <1>2, <1>9, <1>13 DEF Firme
<1>15. Ociosas(k) => Ociosas(m)
  BY <1>9 DEF Ociosas, Dispuesta
<1>16. Atendidos(k) => Atendidos(m)
  BY <1>8, <1>9, <1>10 DEF Atendidos
<1>17. Vale(m, b, f)
  BY <1>9, <1>12, <1>14, <1>15, <1>16 DEF Vale
<1>18. \A u : Debe(k, u) => Debe(m, u)
  BY <1>2, <1>8 DEF Debe, Esperan, MismosSemaforos
<1>19. ~Adentro(m, p) /\ ~EnCola(m, p, "NUEVO") /\ ~EnCola(m, p, "BLOQUEADO")
  BY <1>1, <1>3, <1>4, <1>5, <1>6
<1> QED
  BY <1>9, <1>13, <1>17, <1>18, <1>19 DEF m, p

\* What a process that no CPU may hold has to do with CPUs: nothing.
LEMMA AjenoSuelto ==
    ASSUME NEW k, Orden(k, Cpus), NEW p \in Pid, ~Adentro(k, p)
    PROVE  Suelto(k, p) /\ \A c \in Cpus : ~Nombra(k, c, p)
<1>1. p # 0
  BY MaxPidAssumption DEF Pid
<1> QED
  BY <1>1 DEF Orden, Sostenidos, Suelto

\* The process taken from colaNuevos becomes ready, and may start at once;
\* without memory for it, it is in no queue from now on.
LEMMA AdmitidoAvanza ==
    ASSUME NEW k, Bien(k), k.activa, k.cola["NUEVO"] # <<>>, NEW x,
           NEW b \in BOOLEAN, NEW f \in BOOLEAN, Vale(k, b, f)
    PROVE  Avanza(k, AdmitirNuevo([k EXCEPT !.cola["NUEVO"] = Tail(@)],
                                  Head(k.cola["NUEVO"]), x), x, b, f)
<1>. DEFINE p == Head(k.cola["NUEVO"])
            q == [k EXCEPT !.cola["NUEVO"] = Tail(@)]
            m == [q EXCEPT !.paginas = @ \cup {p}]
            l == NuevoAListos(m, p)
            r == SinMemoria(q, p)
            code == "NO_SE_PUDO_ASIGNAR_RECURSO"
<1>1. /\ Bien(q) /\ p \in Pid /\ p <= q.maxPID
      /\ \A e \in Estado : ~Contains(q.cola[e], p)
  BY QuitadoBien
<1>2. /\ q.activa = k.activa /\ q.maxPID = k.maxPID
      /\ Conectados(k) => Conectados(q)
      /\ Vale(q, b, f)
      /\ \A u : Debe(k, u) => Debe(q, u)
      /\ ~Adentro(q, p) /\ ~EnCola(q, p, "NUEVO") /\ ~EnCola(q, p, "BLOQUEADO")
  BY QuitadoAvanza
<1>3. \A g \in Pid, e \in Estado : EnCola(q, g, e) <=> EnCola(k, g, e) /\ g # p
  BY QuitadoDonde
<1>4. /\ x.memoria => AdmitirNuevo(q, p, x) \in {l, PlanificarLibre(l)}
      /\ ~x.memoria => AdmitirNuevo(q, p, x) = InformarAConsola(r, p, code)
  <2>1. x.memoria => AdmitirNuevo(q, p, x) \in {l, PlanificarLibre(l)}
    BY Zenon DEF AdmitirNuevo, l, m
  <2>. HIDE DEF q, p
  <2> QED
    BY <1>1, <2>1, AdmitirRechaza, Zenon DEF r, code
<1>. HIDE DEF q, p
<1>5. CASE x.memoria
  <2>1. Bien(m)
    <3>1. m \in Sistema
      BY <1>1 DEF Bien, Sistema
    <3>2. m.cola = q.cola /\ m.cantidad = q.cantidad /\ m.maxPID = q.maxPID
      BY <1>1 DEF Bien, Sistema
    <3>. HIDE DEF m
    <3> QED
      BY <1>1, <3>1, <3>2, MismasColas
  <2>2. m.cola = q.cola /\ m.activa = q.activa /\ m.maxPID = q.maxPID
    BY <1>1 DEF Bien, Sistema
  <2>3. Avanza(q, m, x, b, f)
    <3>1. Aparte(q, m) /\ MismosSemaforos(q, m) /\ m.cola = q.cola
      BY <1>1 DEF Aparte, MismasCpus, MismosSemaforos, Bien, Sistema
    <3>. HIDE DEF m
    <3> QED
      BY <1>2, <3>1, AparteAvanza
  <2>4. l = [m EXCEPT !.cola["LISTO"] = Append(@, p), !.cantidad = @ + 1]
    BY <1>2, <2>2 DEF NuevoAListos
  <2>. HIDE DEF m
  <2>5. MismosSemaforos(m, l) /\ l.colgados = m.colgados
    BY <2>1, <2>4 DEF MismosSemaforos, Bien, Sistema
  <2>6. Bien(l) /\ Traslado(m, l, p, "LISTO")
    BY <1>1, <1>2, <2>1, <2>2, NuevoAListosBien, NuevoAListosTraslada
  <2>. HIDE DEF l
  <2>7. Vale(m, b, f)
    BY <2>3 DEF Avanza
  <2>8. ~Adentro(m, p) /\ ~EnCola(m, p, "BLOQUEADO")
    BY <1>2, <2>2 DEF Adentro, EnCola
  <2>9. b => Suelto(m, p) /\ \A c \in Cpus : ~Nombra(m, c, p)
    BY <1>1, <2>7, <2>8, AjenoSuelto DEF Vale
  <2>10. \A u : Debe(m, u) => Debe(l, u)
    BY <1>1, <2>5, <2>6, <2>8, DebeIgual
  <2>11. Avanza(m, l, x, b, f)
    BY <1>1, <2>1, <2>5, <2>6, <2>7, <2>9, <2>10, TrasladoAvanza
  <2>12. Avanza(q, l, x, b, f)
    BY <2>3, <2>11, AvanzaTransitiva
  <2>13. Completo(k) => Completo(l)
    <3>1. \A g \in Pid, e \in Estado :
             EnCola(l, g, e) <=> IF g = p THEN e = "LISTO" ELSE EnCola(k, g, e)
      <4>1. \A g \in Pid, e \in Estado : EnCola(m, g, e) <=> EnCola(q, g, e)
        BY <2>2 DEF EnCola
      <4> QED
        BY <1>3, <2>6, <4>1 DEF Traslado
    <3>2. l.maxPID = k.maxPID
      BY <1>2, <2>2, <2>6 DEF Traslado, MismoResto
    <3> QED
      BY <3>1, <3>2 DEF Completo, Estado
  <2>14. Avanza(k, l, x, b, f)
    BY <1>2, <2>12, <2>13 DEF Avanza
  <2>15. Avanza(l, PlanificarLibre(l), x, b, f)
    <3>1. Vale(l, b, f)
      BY <2>14 DEF Avanza
    <3> QED
      BY <2>6, <3>1, PlanificarLibreAvanza
  <2>16. Avanza(k, PlanificarLibre(l), x, b, f)
    BY <2>14, <2>15, AvanzaTransitiva
  <2>17. AdmitirNuevo(q, p, x) = PlanificarLibre(l) \/ AdmitirNuevo(q, p, x) = l
    BY <1>4, <1>5
  <2>18. Avanza(k, AdmitirNuevo(q, p, x), x, b, f)
    BY <2>14, <2>16, <2>17
  <2> QED
    BY <2>18 DEF q, p
<1>6. CASE ~x.memoria
  <2>1. Bien(r) /\ r.cola = q.cola
    BY <1>1, SinMemoriaBien
  <2>2. Avanza(q, r, x, b, f)
    <3>1. Aparte(q, r) /\ MismosSemaforos(q, r)
      BY <1>1 DEF SinMemoria, Aparte, MismasCpus, MismosSemaforos, Bien, Sistema
    <3>. HIDE DEF r
    <3> QED
      BY <1>2, <2>1, <3>1, AparteAvanza
  <2>. HIDE DEF r
  <2>3. Avanza(r, InformarAConsola(r, p, code), x, b, f)
    <3>1. ~EnCola(r, p, "NUEVO") /\ Vale(r, b, f)
      BY <1>2, <2>1, <2>2 DEF EnCola, Avanza
    <3> QED
      BY <1>1, <2>1, <3>1, InformarAvanza
  <2>4. Avanza(k, q, x, b, f)
    BY <1>2, <1>6 DEF Avanza
  <2>5. Avanza(k, InformarAConsola(r, p, code), x, b, f)
    BY <2>2, <2>3, <2>4, AvanzaTransitiva
  <2>6. Avanza(k, AdmitirNuevo(q, p, x), x, b, f)
    BY <1>4, <1>6, <2>5
  <2> QED
    BY <2>6 DEF q, p
<1> QED
  BY <1>5, <1>6

\* pasarProximoProcDeNewAReady: with its console at the other end, the
\* process is admitted; without it the kernel ends.
LEMMA PasarProximoAvanza ==
    ASSUME NEW k, Bien(k), NEW x,
           NEW b \in BOOLEAN, NEW f \in BOOLEAN, Vale(k, b, f)
    PROVE  Avanza(k, PasarProximoProcDeNewAReady(k, x), x, b, f)
<1>. DEFINE p == Head(k.cola["NUEVO"])
            m == [k EXCEPT !.cola["NUEVO"] = Tail(@)]
<1>1. CASE ~k.activa \/ k.cola["NUEVO"] = <<>>
  BY <1>1, AvanzaIgual DEF PasarProximoProcDeNewAReady
<1>2. CASE ~(~k.activa \/ k.cola["NUEVO"] = <<>>)
  <2>1. p \in Pid /\ EnCola(k, p, "NUEVO")
    BY <1>2, QuitadoBien, QuitadoDonde
  <2>2. PasarProximoProcDeNewAReady(k, x) =
          CASE p \notin k.consolas -> [m EXCEPT !.vivo = "caido"]
            [] p \in k.consolas /\ k.consola[p] = "finalizando" ->
                 [m EXCEPT !.vivo = "colgado"]
            [] p \in k.consolas /\ k.consola[p] = "cerrando" /\ x.basura ->
                 [m EXCEPT !.vivo = "caido"]
            [] OTHER -> AdmitirNuevo(m, p, x)
    BY <1>2 DEF PasarProximoProcDeNewAReady
  <2>3. Avanza(k, AdmitirNuevo(m, p, x), x, b, f)
    BY <1>2, AdmitidoAvanza
  <2>4. /\ Bien(m) /\ m.activa = k.activa /\ Vale(m, b, f)
        /\ \A u : Debe(k, u) => Debe(m, u)
    BY <1>2, QuitadoBien, QuitadoAvanza
  <2>. HIDE DEF p, m
  <2>5. CASE PasarProximoProcDeNewAReady(k, x) = AdmitirNuevo(m, p, x)
    BY <2>3, <2>5
  <2>6. CASE \E v \in {"caido", "colgado"} :
                PasarProximoProcDeNewAReady(k, x) = [m EXCEPT !.vivo = v]
             /\ ~(p \in k.consolas /\ k.consola[p] = "conectada")
    <3>1. PICK v \in {"caido", "colgado"} :
             PasarProximoProcDeNewAReady(k, x) = [m EXCEPT !.vivo = v]
      BY <2>6
    <3>2. ~Conectados(k)
      BY <2>1, <2>6 DEF Conectados
    <3>3. ~f
      BY <2>1, <3>2 DEF Vale, Firme
    <3>. DEFINE n == [m EXCEPT !.vivo = v]
    <3>4. /\ n.activa = m.activa /\ n.cola = m.cola /\ n.enCpu = m.enCpu
          /\ n.modo = m.modo /\ n.pidEn = m.pidEn /\ n.vivo = v
          /\ MismosSemaforos(m, n)
      BY <2>4 DEF MismosSemaforos, Bien, Sistema
    <3>. HIDE DEF n
    <3>5. Orden(m, Cpus) => Orden(n, Cpus)
      <4>1. Sostenidos(m, Cpus) => Sostenidos(n, Cpus)
        BY <3>1, <3>4 DEF Sostenidos, Adentro, EnCola
      <4> QED
        BY <3>4, <4>1 DEF Orden, Nombra, Adentro, Suelto, EnCola
    <3>6. Vale(n, b, f)
      BY <2>4, <3>3, <3>5 DEF Vale
    <3>7. \A u : Debe(m, u) => Debe(n, u)
      BY <3>4 DEF Debe, Esperan, EnCola, MismosSemaforos
    <3>8. Avanza(k, n, x, b, f)
      BY <2>4, <3>2, <3>4, <3>6, <3>7 DEF Avanza
    <3> QED
      BY <3>1, <3>8 DEF n
  <2> QED
    BY <2>2, <2>5, <2>6
<1> QED
  BY <1>1, <1>2

-----------------------------------------------------------------------------
(* The CPU gives its PCB back.                                             *)

\* What a PCB that comes back finds as it left it.
MismaSala(k, m) ==
    /\ m.activa = k.activa /\ m.maxPID = k.maxPID /\ m.vivo = k.vivo
    /\ m.libres = k.libres /\ m.ocupadas = k.ocupadas
    /\ m.destruir = k.destruir /\ m.colgados = k.colgados
    /\ m.consolas = k.consolas /\ m.consola = k.consola

\* p is in colaListos, colaBloqueados or colaFinalizados, or stays where it
\* was when the kernel does not move it.
Salida(k, m, p) ==
    \/ \E e \in {"LISTO", "BLOQUEADO", "TERMINADO"} :
          \A q \in Pid, g \in Estado :
             EnCola(m, q, g) <=> IF q = p THEN g = e ELSE EnCola(k, q, g)
    \/ /\ m.cola = k.cola
       /\ ~k.activa \/ ~EnCola(k, p, "EJECUTANDO")

\* c holds nothing.
Desocupa(k, m, c, o, n, b) ==
    /\ m.enCpu = [k.enCpu EXCEPT ![c] = 0]
    /\ m.modo = [k.modo EXCEPT ![c] = o]
    /\ m.pidEn = [k.pidEn EXCEPT ![c] = n]
    /\ o # "ausente"
    /\ b => (o \in Muertas => n = 0)

\* The process that c held leaves it; o and n are what is known of c from
\* then on.
LEMMA DevuelveProgresa ==
    ASSUME NEW k, Bien(k), NEW c \in Cpus, k.enCpu[c] # 0,
           NEW m, NEW o, NEW n,
           NEW x, NEW b \in BOOLEAN, NEW f \in BOOLEAN, Vale(k, b, f),
           Salida(k, m, k.enCpu[c]),
           MismaSala(k, m),
           Desocupa(k, m, c, o, n, b)
    PROVE  Progresa(k, m, x, b, f)
<1>. DEFINE p == k.enCpu[c]
<1>0. /\ m.activa = k.activa /\ m.maxPID = k.maxPID /\ m.vivo = k.vivo
      /\ m.libres = k.libres /\ m.ocupadas = k.ocupadas
      /\ m.destruir = k.destruir /\ m.colgados = k.colgados
      /\ m.consolas = k.consolas /\ m.consola = k.consola
  BY DEF MismaSala
<1>1. p \in Pid /\ \A d \in Cpus : k.enCpu[d] # 0 => k.enCpu[d] \in Pid
  BY RecibirPcbBien
<1>2. /\ k.enCpu \in [Cpus -> 0..MaxPid] /\ k.pidEn \in [Cpus -> 0..MaxPid]
      /\ k.modo \in [Cpus -> ModoCpu]
  BY DEF Bien, Sistema
<1>3. /\ \A d \in Cpus \ {c} : /\ m.enCpu[d] = k.enCpu[d]
                               /\ m.pidEn[d] = k.pidEn[d]
                               /\ m.modo[d] = k.modo[d]
      /\ m.pidEn[c] = n /\ m.enCpu[c] = 0 /\ m.modo[c] = o
  BY <1>0, <1>2 DEF Desocupa
<1>3a. o # "ausente" /\ (b => (o \in Muertas => n = 0))
  BY DEF Desocupa
<1>4. /\ "NUEVO" \in Estado /\ "EJECUTANDO" \in Estado
      /\ "TERMINADO" \in Estado
  BY DEF Estado
<1>. HIDE DEF p
<1>5. \A q \in Pid : q # p => \A g \in Estado : EnCola(m, q, g) <=> EnCola(k, q, g)
  BY <1>0 DEF EnCola, Salida, p
<1>6. EnCola(m, p, "NUEVO") => EnCola(k, p, "NUEVO")
  BY <1>0, <1>1, <1>4 DEF EnCola, Salida, p
<1>7. k.activa => ~EnCola(m, p, "EJECUTANDO")
  BY <1>0, <1>1, <1>4 DEF EnCola, Salida, p
<1>8. \A q \in Pid : q # p => (Adentro(m, q) <=> Adentro(k, q))
  BY <1>4, <1>5 DEF Adentro
<1>9. \A d \in Cpus \ {c}, q \in Pid : Nombra(m, d, q) <=> Nombra(k, d, q)
  BY <1>3 DEF Nombra
<1>10. 0 \notin Pid
  BY MaxPidAssumption DEF Pid
<1>11. ASSUME b
       PROVE  Orden(m, Cpus)
  <2>1. Orden(k, Cpus)
    BY <1>11 DEF Vale
  <2>2. \A d \in Cpus \ {c} : k.enCpu[d] # p
    BY <1>1, <1>10, <2>1 DEF Orden, Sostenidos, p
  <2>3. Sostenidos(m, Cpus)
    <3>1. ASSUME NEW d \in Cpus, m.enCpu[d] # 0
          PROVE  /\ Adentro(m, m.enCpu[d]) /\ m.modo[d] \in ConPcb
                 /\ m.vivo = "vivo" => m.pidEn[d] = m.enCpu[d]
      <4>1. d # c /\ m.enCpu[d] = k.enCpu[d]
        BY <1>3, <3>1
      <4>2. k.enCpu[d] \in Pid /\ k.enCpu[d] # p
        BY <1>1, <2>2, <3>1, <4>1
      <4> QED
        BY <1>0, <1>3, <1>8, <2>1, <3>1, <4>1, <4>2 DEF Orden, Sostenidos
    <3>2. ASSUME NEW d \in Cpus, NEW e \in Cpus,
                 m.enCpu[d] = m.enCpu[e], d # e
          PROVE  m.enCpu[d] = 0
      BY <1>3, <2>1, <3>2 DEF Orden, Sostenidos
    <3> QED
      BY <3>1, <3>2 DEF Sostenidos
  <2>4. ASSUME NEW d \in Cpus, m.enCpu[d] # 0
        PROVE  EnCola(m, m.enCpu[d], "EJECUTANDO") \/ m.modo[d] = "abortando"
    <3>1. d # c /\ m.enCpu[d] = k.enCpu[d]
      BY <1>3, <2>4
    <3>2. k.enCpu[d] \in Pid /\ k.enCpu[d] # p
      BY <1>1, <2>2, <2>4, <3>1
    <3> QED
      BY <1>3, <1>4, <1>5, <2>1, <2>4, <3>1, <3>2 DEF Orden
  <2>5. ASSUME NEW d \in Cpus, NEW q \in Pid, Nombra(m, d, q)
        PROVE  Adentro(m, q) /\ Suelto(m, q)
    <3>1. d # c
      BY <1>3, <1>3a, <1>10, <1>11, <2>5 DEF Nombra
    <3>2. Nombra(k, d, q)
      BY <1>9, <2>5, <3>1
    <3>3. Adentro(k, q) /\ Suelto(k, q)
      BY <2>1, <3>2 DEF Orden
    <3>4. q # p
      BY <3>3 DEF Suelto, p
    <3>5. Suelto(m, q)
      BY <1>3, <1>10, <3>3 DEF Suelto
    <3> QED
      BY <1>8, <3>3, <3>4, <3>5
  <2> QED
    BY <2>3, <2>4, <2>5 DEF Orden
<1>12. Conectados(k) => Conectados(m)
  <2>1. \A q \in Pid : EnCola(m, q, "NUEVO") => EnCola(k, q, "NUEVO")
    BY <1>4, <1>5, <1>6
  <2> QED
    BY <1>0, <2>1 DEF Conectados
<1>13. Firme(k) => Firme(m)
  <2>. SUFFICES ASSUME Firme(k)
                PROVE  Firme(m)
    OBVIOUS
  <2>1. ASSUME NEW d \in Cpus
        PROVE  /\ ~(Contains(m.libres, d) /\ Contains(m.ocupadas, d))
               /\ m.modo[d] = "ausente" =>
                     ~Contains(m.libres, d) /\ ~Contains(m.ocupadas, d)
               /\ m.enCpu[d] # 0 => Contains(m.ocupadas, d)
    BY <1>0, <1>3, <1>3a DEF Firme
  <2> QED
    BY <1>0, <1>12, <2>1 DEF Firme
<1>14. ASSUME b, f
       PROVE  Ociosas(m) /\ (m.activa => Atendidos(m))
  <2>1. Firme(k) /\ Ociosas(k) /\ Orden(k, Cpus) /\ (k.activa => Atendidos(k))
    BY <1>14 DEF Vale
  <2>2. ~Contains(k.libres, c)
    BY <2>1 DEF Firme
  <2>3. Ociosas(m)
    BY <1>0, <1>3, <2>1, <2>2 DEF Ociosas, Dispuesta
  <2>4. ASSUME m.activa, NEW q \in Pid, EnCola(m, q, "EJECUTANDO")
        PROVE  \E d \in Cpus : m.enCpu[d] = q \/ Nombra(m, d, q)
    <3>1. q # p /\ EnCola(k, q, "EJECUTANDO")
      BY <1>0, <1>4, <1>5, <1>7, <2>4
    <3>2. PICK d \in Cpus : k.enCpu[d] = q \/ Nombra(k, d, q)
      BY <1>0, <2>1, <2>4, <3>1 DEF Atendidos
    <3>3. d # c
      <4>1. k.modo[c] \in ConPcb
        BY <2>1 DEF Orden, Sostenidos
      <4> QED
        BY <3>1, <3>2, <4>1 DEF Nombra, Muertas, ConPcb, p
    <3>4. m.enCpu[d] = q \/ Nombra(m, d, q)
      BY <1>3, <1>9, <3>2, <3>3
    <3> QED
      BY <3>4
  <2> QED
    BY <2>3, <2>4 DEF Atendidos
<1>15. Vale(m, b, f)
  BY <1>0, <1>11, <1>13, <1>14 DEF Vale
<1>16. Completo(k) => Completo(m)
  BY <1>0, <1>5 DEF Completo, EnCola, Salida, p, Estado
<1> QED
  BY <1>0, <1>12, <1>15, <1>16 DEF Progresa

\* CAMBIAR_PROCESO takes the PCB from the CPU and moves no process.
LEMMA RecibirCampos ==
    ASSUME NEW k, Bien(k), NEW c \in Cpus, k.enCpu[c] # 0
    PROVE  LET r == RecibirPcb(k, c) IN
           /\ r.cola = k.cola /\ r.cantidad = k.cantidad
           /\ r.activa = k.activa /\ r.maxPID = k.maxPID /\ r.vivo = k.vivo
           /\ r.libres = k.libres /\ r.ocupadas = k.ocupadas
           /\ r.destruir = k.destruir /\ r.colgados = k.colgados
           /\ r.consolas = k.consolas /\ r.consola = k.consola
           /\ r.modo = k.modo /\ r.pidEn = k.pidEn /\ r.quantum = k.quantum
           /\ r.enCpu = [k.enCpu EXCEPT ![c] = 0]
           /\ MismosSemaforos(k, r)
<1>. DEFINE p == k.enCpu[c]
            l == [k EXCEPT !.enCpu[c] = 0]
            r == RecibirPcb(k, c)
<1>1. p \in Pid /\ l \in Sistema
  <2>1. 0 \in 0..MaxPid
    BY MaxPidAssumption
  <2>2. Bien(l)
    BY <2>1, CampoBien
  <2> QED
    BY <2>2, RecibirPcbBien DEF Bien
<1>2. r = ReemplazarPcbEnEjecutando(l, p)
  BY DEF RecibirPcb
<1>3. /\ l.cola = k.cola /\ l.cantidad = k.cantidad
      /\ l.activa = k.activa /\ l.maxPID = k.maxPID /\ l.vivo = k.vivo
      /\ l.libres = k.libres /\ l.ocupadas = k.ocupadas
      /\ l.destruir = k.destruir /\ l.colgados = k.colgados
      /\ l.consolas = k.consolas /\ l.consola = k.consola
      /\ l.modo = k.modo /\ l.pidEn = k.pidEn /\ l.quantum = k.quantum
      /\ l.enCpu = [k.enCpu EXCEPT ![c] = 0]
      /\ MismosSemaforos(k, l)
  BY DEF MismosSemaforos, Bien, Sistema
<1>. HIDE DEF l, p, r
<1>4. /\ r.cola = l.cola /\ r.cantidad = l.cantidad
      /\ r.activa = l.activa /\ r.maxPID = l.maxPID /\ r.vivo = l.vivo
      /\ r.libres = l.libres /\ r.ocupadas = l.ocupadas
      /\ r.destruir = l.destruir /\ r.colgados = l.colgados
      /\ r.consolas = l.consolas /\ r.consola = l.consola
      /\ r.modo = l.modo /\ r.pidEn = l.pidEn /\ r.quantum = l.quantum
      /\ r.enCpu = l.enCpu /\ MismosSemaforos(l, r)
  BY <1>1, <1>2 DEF ReemplazarPcbEnEjecutando, MismosSemaforos, Sistema
<1>5. /\ r.cola = k.cola /\ r.cantidad = k.cantidad
      /\ r.activa = k.activa /\ r.maxPID = k.maxPID /\ r.vivo = k.vivo
      /\ r.libres = k.libres /\ r.ocupadas = k.ocupadas
      /\ r.destruir = k.destruir /\ r.colgados = k.colgados
      /\ r.consolas = k.consolas /\ r.consola = k.consola
      /\ r.modo = k.modo /\ r.pidEn = k.pidEn /\ r.quantum = k.quantum
      /\ r.enCpu = [k.enCpu EXCEPT ![c] = 0]
      /\ MismosSemaforos(k, r)
  BY <1>3, <1>4 DEF MismosSemaforos
<1> QED
  BY <1>5 DEF r

\* A CPU that holds a PCB goes from one mode to another.
LEMMA ModoAvanza ==
    ASSUME NEW k, Bien(k), NEW c \in Cpus, k.enCpu[c] # 0, NEW o \in ConPcb,
           k.modo[c] = "abortando" => o = "abortando",
           NEW x, NEW b \in BOOLEAN, NEW f \in BOOLEAN, Vale(k, b, f)
    PROVE  Avanza(k, [k EXCEPT !.modo[c] = o], x, b, f)
<1>. DEFINE m == [k EXCEPT !.modo[c] = o]
<1>1. /\ m.cola = k.cola /\ m.activa = k.activa /\ m.maxPID = k.maxPID
      /\ m.vivo = k.vivo /\ m.libres = k.libres /\ m.ocupadas = k.ocupadas
      /\ m.destruir = k.destruir /\ m.colgados = k.colgados
      /\ m.consolas = k.consolas /\ m.consola = k.consola
      /\ m.pidEn = k.pidEn /\ m.enCpu = k.enCpu
      /\ m.modo = [k.modo EXCEPT ![c] = o] /\ MismosSemaforos(k, m)
  BY DEF MismosSemaforos, Bien, Sistema
<1>2. /\ \A d \in Cpus \ {c} : m.modo[d] = k.modo[d]
      /\ m.modo[c] = o
  BY <1>1 DEF Bien, Sistema
<1>. HIDE DEF m
<1>3. \A q, e : EnCola(m, q, e) <=> EnCola(k, q, e)
  BY <1>1 DEF EnCola
<1>4. \A q : (Adentro(m, q) <=> Adentro(k, q)) /\ (Suelto(m, q) <=> Suelto(k, q))
  BY <1>1, <1>3 DEF Adentro, Suelto
<1>5. \A d \in Cpus : \A q : Nombra(m, d, q) => Nombra(k, d, q)
  BY <1>1, <1>2 DEF Nombra, Muertas, ConPcb
<1>6. Sostenidos(k, Cpus) => Sostenidos(m, Cpus)
  BY <1>1, <1>2, <1>4 DEF Sostenidos
<1>7. Orden(k, Cpus) => Orden(m, Cpus)
  BY <1>1, <1>2, <1>3, <1>4, <1>5, <1>6 DEF Orden
<1>8. Conectados(k) => Conectados(m)
  BY <1>1, <1>3 DEF Conectados
<1>9. Firme(k) => Firme(m)
  BY <1>1, <1>2, <1>8 DEF Firme, ConPcb
<1>10. Firme(k) /\ Ociosas(k) => Ociosas(m)
  BY <1>1, <1>2 DEF Firme, Ociosas, Dispuesta
<1>11. Orden(k, Cpus) => \A d \in Cpus : \A q : Nombra(k, d, q) => Nombra(m, d, q)
  BY <1>1, <1>2 DEF Nombra, Muertas, ConPcb, Orden, Sostenidos
<1>12. Orden(k, Cpus) /\ Atendidos(k) => Atendidos(m)
  BY <1>1, <1>3, <1>11 DEF Atendidos
<1>13. Vale(m, b, f)
  BY <1>1, <1>7, <1>9, <1>10, <1>12 DEF Vale
<1>14. Completo(k) => Completo(m)
  BY <1>1, <1>3 DEF Completo
<1>15. \A u : Debe(k, u) => Debe(m, u)
  BY <1>1, <1>3 DEF Debe, Esperan, MismosSemaforos
<1>16. Avanza(k, m, x, b, f)
  BY <1>1, <1>8, <1>13, <1>14, <1>15 DEF Avanza
<1> QED
  BY <1>16 DEF m

\* p ends, or is where it was.
Termina(k, m, p) ==
    \/ \A q \in Pid, g \in Estado :
          EnCola(m, q, g) <=> IF q = p THEN g = "TERMINADO" ELSE EnCola(k, q, g)
    \/ /\ m.cola = k.cola
       /\ ~k.activa \/ ~EnCola(k, p, "EJECUTANDO")

\* CAMBIAR_PROCESO, and the process ends.
LEMMA RecibirYFinalizar ==
    ASSUME NEW k, Bien(k), NEW c \in Cpus, k.enCpu[c] # 0
    PROVE  LET p == k.enCpu[c]
               f == EjecutandoAFinalizados(RecibirPcb(k, c), p)
           IN  /\ Bien(f) /\ MismaSala(k, f)
               /\ f.modo = k.modo /\ f.pidEn = k.pidEn
               /\ f.enCpu = [k.enCpu EXCEPT ![c] = 0]
               /\ Termina(k, f, p)
               /\ \A u \in [Sems -> Int] : Debe(k, u) => Debe(f, u)
<1>. DEFINE p == k.enCpu[c]
            r == RecibirPcb(k, c)
            f == EjecutandoAFinalizados(r, p)
<1>1. p \in Pid /\ Bien(r)
  BY RecibirPcbBien
<1>2. /\ r.cola = k.cola /\ MismosSemaforos(k, r) /\ MismaSala(k, r)
      /\ r.modo = k.modo /\ r.pidEn = k.pidEn
      /\ r.enCpu = [k.enCpu EXCEPT ![c] = 0]
  BY RecibirCampos DEF MismaSala
<1>. HIDE DEF p, r
<1>3. Bien(f)
  BY <1>1, FinalizarBien DEF ExitCode
<1>4. /\ Mueve(r, p, "EJECUTANDO") =>
            MismosSemaforos(LimpiarSemaforos(r, p), f)
      /\ f.colgados = r.colgados
  BY <1>1, PasosSemaforos
<1>5. IF Mueve(r, p, "EJECUTANDO") THEN Traslado(r, f, p, "TERMINADO")
      ELSE f = r
  BY <1>1, FinalizarTraslada DEF ExitCode
<1>. HIDE DEF f
<1>6. \A u : Debe(k, u) => Debe(r, u)
  BY <1>2 DEF Debe, Esperan, EnCola, MismosSemaforos
<1>7. \A q, g : EnCola(r, q, g) <=> EnCola(k, q, g)
  BY <1>2 DEF EnCola
<1>8. CASE Mueve(r, p, "EJECUTANDO")
  <2>1. Traslado(r, f, p, "TERMINADO")
    BY <1>5, <1>8
  <2>2. \A u \in [Sems -> Int] : Debe(r, u) => Debe(f, u)
    BY <1>1, <1>4, <1>8, <2>1, DebeAlFinalizar
  <2>3. /\ MismaSala(k, f) /\ f.modo = k.modo /\ f.pidEn = k.pidEn
        /\ f.enCpu = [k.enCpu EXCEPT ![c] = 0]
    BY <1>2, <1>4, <2>1 DEF Traslado, MismoResto, MismaSala
  <2>4. \A q \in Pid, g \in Estado :
           EnCola(f, q, g) <=>
              IF q = p THEN g = "TERMINADO" ELSE EnCola(k, q, g)
    BY <1>7, <2>1 DEF Traslado
  <2>5. \A u \in [Sems -> Int] : Debe(k, u) => Debe(f, u)
    BY <1>6, <2>2
  <2> QED
    BY <1>3, <2>3, <2>4, <2>5 DEF Termina, f, r, p
<1>9. CASE ~Mueve(r, p, "EJECUTANDO")
  <2>1. f = r
    BY <1>5, <1>9
  <2>2. ~k.activa \/ ~EnCola(k, p, "EJECUTANDO")
    BY <1>2, <1>7, <1>9 DEF Mueve, MismaSala
  <2> QED
    BY <1>2, <1>3, <1>6, <2>1, <2>2 DEF Termina, f, r, p
<1> QED
  BY <1>8, <1>9

MismaCasa(k, m) ==
    m.cola = k.cola /\ MismaSala(k, m) /\ MismosSemaforos(k, m)

\* What arrives with the PCB.
Llega(k, m) == m.enCpu = k.enCpu /\ MismaCasa(k, m)

Cambia(k, m, c, o) == m.pidEn = k.pidEn /\ m.modo = [k.modo EXCEPT ![c] = o]

\* The CPU gives back a process that ends; m is the state when the PCB
\* arrives, w the one after what is written about the CPU.
LEMMA VueltaAvanza ==
    ASSUME NEW k, Bien(k), NEW c \in Cpus, k.enCpu[c] # 0,
           Adentro(k, k.enCpu[c]), NEW o, NEW n, NEW m, Bien(m), NEW w,
           NEW x, NEW b \in BOOLEAN, NEW f \in BOOLEAN, Vale(k, b, f),
           Llega(k, m),
           MismaCasa(EjecutandoAFinalizados(RecibirPcb(m, c), m.enCpu[c]), w),
           Desocupa(k, w, c, o, n, b)
    PROVE  /\ Avanza(k, w, x, b, f)
           /\ ~EnCola(w, k.enCpu[c], "NUEVO")
<1>. DEFINE p == k.enCpu[c]
            l == EjecutandoAFinalizados(RecibirPcb(m, c), m.enCpu[c])
<1>1. p \in Pid /\ m.enCpu[c] = p /\ m.enCpu[c] # 0
  BY RecibirPcbBien DEF Llega
<1>2. /\ MismaSala(m, l)
      /\ Termina(m, l, p)
      /\ \A u \in [Sems -> Int] : Debe(m, u) => Debe(l, u)
  BY <1>1, RecibirYFinalizar
<1>3. /\ w.cola = l.cola /\ MismaSala(l, w) /\ MismosSemaforos(l, w)
      /\ m.cola = k.cola /\ MismaSala(k, m) /\ MismosSemaforos(k, m)
  BY DEF MismaCasa, Llega
<1>. HIDE DEF p, l
<1>4. \A q, g : /\ EnCola(w, q, g) <=> EnCola(l, q, g)
                /\ EnCola(m, q, g) <=> EnCola(k, q, g)
  BY <1>3 DEF EnCola
<1>5. MismaSala(k, w)
  BY <1>2, <1>3 DEF MismaSala
<1>6. \A u : /\ Debe(k, u) => Debe(m, u)
             /\ Debe(l, u) => Debe(w, u)
  BY <1>3, <1>4 DEF Debe, Esperan, MismosSemaforos
<1>7. \A u \in [Sems -> Int] : Debe(k, u) => Debe(w, u)
  BY <1>2, <1>6
<1>8. Termina(k, w, p)
  BY <1>2, <1>3, <1>4 DEF Termina, MismaSala
<1>9. Salida(k, w, k.enCpu[c])
  BY <1>8 DEF Salida, Termina, p
<1>10. Avanza(k, w, x, b, f)
  <2>1. Salda(k, w, b)
    BY <1>7 DEF Salda
  <2> QED
    BY <1>5, <1>9, <2>1, DevuelveProgresa, AvanzaPartes, ZenonT(60)
<1>11. ~EnCola(w, p, "NUEVO")
  <2>1. ~EnCola(k, p, "NUEVO") /\ "NUEVO" \in Estado /\ "NUEVO" # "TERMINADO"
    <3>1. Adentro(k, p)
      BY DEF p
    <3> QED
      BY <1>1, <3>1, AfueraNoAdentro DEF Estado
  <2> QED
    BY <1>1, <1>8, <2>1 DEF EnCola, Termina
<1> QED
  BY <1>10, <1>11 DEF p

\* The kill flag that was found is dropped.
LEMMA QuitarFlagAvanza ==
    ASSUME NEW k, Bien(k), NEW p, NEW x, NEW b \in BOOLEAN,
           NEW f \in BOOLEAN, ~f, Vale(k, b, f)
    PROVE  Avanza(k, QuitarFlag(k, p, x), x, b, f)
<1>. DEFINE m == QuitarFlag(k, p, x)
<1>1. /\ m.activa = k.activa /\ m.cola = k.cola /\ m.maxPID = k.maxPID
      /\ m.vivo = k.vivo /\ m.pidEn = k.pidEn /\ m.enCpu = k.enCpu
      /\ m.modo = k.modo /\ m.consolas = k.consolas
      /\ m.consola = k.consola
  BY DEF QuitarFlag, Bien, Sistema
<1>2. MismosSemaforos(k, m)
  BY DEF QuitarFlag, MismosSemaforos, Bien, Sistema
<1>. HIDE DEF m
<1>3. Avanza(k, m, x, b, f)
  BY <1>1, <1>2, ListasAvanzan
<1> QED
  BY <1>3 DEF m

\* A process with a kill flag is given back and ends.
LEMMA MatadoAvanza ==
    ASSUME NEW k, Bien(k), NEW c \in Cpus, k.enCpu[c] # 0,
           Adentro(k, k.enCpu[c]), k.modo[c] \in ConPcb,
           NEW code \in ExitCode, NEW x, NEW b \in BOOLEAN,
           NEW f \in BOOLEAN, ~f, Vale(k, b, f)
    PROVE  LET p == k.enCpu[c]
               t == EjecutandoAFinalizados(RecibirPcb(k, c), p)
               a == InformarAConsola(PedirAMemoriaFinalizarProceso(t, p), p,
                                     code)
           IN  /\ Bien(LiberarCpu(PasarProximoProcDeNewAReady(a, x), c))
               /\ Avanza(k, LiberarCpu(PasarProximoProcDeNewAReady(a, x), c),
                         x, b, f)
<1>. DEFINE p == k.enCpu[c]
            o == k.modo[c]
            z == k.pidEn[c]
            t == EjecutandoAFinalizados(RecibirPcb(k, c), p)
            a == InformarAConsola(PedirAMemoriaFinalizarProceso(t, p), p, code)
            n == PasarProximoProcDeNewAReady(a, x)
            l == LiberarCpu(n, c)
<1>1. p \in Pid
  BY RecibirPcbBien
<1>2. /\ Bien(t) /\ MismaSala(k, t)
      /\ t.modo = k.modo /\ t.pidEn = k.pidEn
      /\ t.enCpu = [k.enCpu EXCEPT ![c] = 0]
  BY RecibirYFinalizar
<1>3. Llega(k, k) /\ MismaCasa(t, t)
  BY DEF Llega, MismaCasa, MismaSala, MismosSemaforos
<1>4. /\ k.modo = [k.modo EXCEPT ![c] = o] /\ k.pidEn = [k.pidEn EXCEPT ![c] = z]
      /\ o # "ausente" /\ o \notin Muertas
  BY DEF Bien, Sistema, ConPcb, Muertas
<1>. HIDE DEF o, z
<1>5. Desocupa(k, t, c, o, z, b)
  BY <1>2, <1>4 DEF Desocupa
<1>6. Avanza(k, t, x, b, f) /\ ~EnCola(t, p, "NUEVO")
  BY <1>3, <1>5, VueltaAvanza, ZenonT(60)
<1>. HIDE DEF p, t
<1>7. Vale(t, b, f)
  BY <1>6 DEF Avanza
<1>8. Bien(a) /\ Avanza(t, a, x, b, f)
  <2>1. Avanza(t, a, x, b, f)
    BY <1>1, <1>2, <1>6, <1>7, AvisarAvanza
  <2> QED
    BY <1>1, <1>2, <2>1, AvisarBien
<1>. HIDE DEF a
<1>9. Bien(n) /\ Avanza(a, n, x, b, f)
  <2>1. Vale(a, b, f)
    BY <1>8 DEF Avanza
  <2> QED
    BY <1>8, <2>1, PasarProximoBien, PasarProximoAvanza
<1>. HIDE DEF n
<1>10. Bien(l) /\ Avanza(n, l, x, b, f)
  <2>1. Vale(n, b, f)
    BY <1>9 DEF Avanza
  <2> QED
    BY <1>9, <2>1, LiberarCpuBien, LiberarCpuAvanza
<1>. HIDE DEF l
<1>11. Avanza(k, a, x, b, f)
  BY <1>6, <1>8, AvanzaTransitiva
<1>12. Avanza(k, n, x, b, f)
  BY <1>9, <1>11, AvanzaTransitiva
<1>13. Avanza(k, l, x, b, f)
  BY <1>10, <1>12, AvanzaTransitiva
<1> QED
  BY <1>10, <1>13, Zenon DEF l, n, a, t, p

\* planificar finds a kill flag: the next process goes to the CPU.
LEMMA MatarEnCpuAvanza ==
    ASSUME NEW k, Bien(k), k.activa, NEW c \in Cpus, k.enCpu[c] # 0,
           Adentro(k, k.enCpu[c]), k.modo[c] \in ConPcb,
           NEW x, NEW b \in BOOLEAN,
           NEW f \in BOOLEAN, ~f, Vale(k, b, f)
    PROVE  Avanza(k, MatarEnCpu(k, c, x), x, b, f)
<1>. DEFINE p == k.enCpu[c]
            t == EjecutandoAFinalizados(RecibirPcb(k, c), p)
            e == k.ecCopia[p]
            a == InformarAConsola(PedirAMemoriaFinalizarProceso(t, p), p, e)
            l == LiberarCpu(PasarProximoProcDeNewAReady(a, x), c)
<1>1. e \in ExitCode
  BY RecibirPcbBien DEF Bien, Sistema
<1>2. Bien(l) /\ Avanza(k, l, x, b, f)
  BY <1>1, MatadoAvanza
<1>3. MatarEnCpu(k, c, x) = EjecutarSiguientePcbEnCpu(l, c)
  BY Zenon DEF MatarEnCpu
<1>. HIDE DEF l
<1>4. Vale(l, b, f) /\ l.activa
  BY <1>2 DEF Avanza
<1>5. Avanza(l, EjecutarSiguientePcbEnCpu(l, c), x, b, f)
  BY <1>2, <1>4, EjecutarSiguienteAvanza
<1> QED
  BY <1>2, <1>3, <1>5, AvanzaTransitiva

\* The CPU gives back a process that ended or that it aborted; k is the
\* state before the CPU's mode became o.
LEMMA DevueltoAvanza ==
    ASSUME NEW k, Bien(k), NEW c \in Cpus, k.enCpu[c] # 0,
           Adentro(k, k.enCpu[c]), NEW code \in ExitCode,
           NEW o \in {"activa", "muerta"},
           NEW m, Bien(m), Llega(k, m), Cambia(k, m, c, o),
           NEW x, NEW b \in BOOLEAN, NEW f \in BOOLEAN, Vale(k, b, f)
    PROVE  LET p == m.enCpu[c]
               r == RecibirPcb([m EXCEPT !.ecCopia[p] = code], c)
               l == LiberarCpu([EjecutandoAFinalizados(r, p) EXCEPT
                                   !.pidEn[c] = 0, !.quantum[c] = 0], c)
           IN  Avanza(k, InformarAConsola(
                   PedirAMemoriaFinalizarProceso(l, p), p, code), x, b, f)
<1>. DEFINE p == m.enCpu[c]
            u == [m EXCEPT !.ecCopia[p] = code]
            t == EjecutandoAFinalizados(RecibirPcb(u, c), p)
            g == [t EXCEPT !.pidEn[c] = 0, !.quantum[c] = 0]
            l == LiberarCpu(g, c)
            a == InformarAConsola(PedirAMemoriaFinalizarProceso(l, p), p, code)
<1>1. p \in Pid /\ p = k.enCpu[c]
  BY RecibirPcbBien DEF Llega
<1>2. /\ u.enCpu = k.enCpu /\ u.pidEn = k.pidEn
      /\ u.modo = [k.modo EXCEPT ![c] = o] /\ MismaCasa(m, u)
  BY DEF Llega, Cambia, MismaCasa, MismaSala, MismosSemaforos, Bien, Sistema
<1>. HIDE DEF p
<1>3. Bien(u) /\ MismaCasa(k, u)
  BY <1>1, <1>2, CambioBien DEF Llega, MismaCasa, MismaSala, MismosSemaforos
<1>. HIDE DEF u
<1>4. u.enCpu[c] = p /\ u.enCpu[c] # 0
  BY <1>1, <1>2
<1>5. /\ Bien(t)
      /\ t.modo = u.modo /\ t.pidEn = u.pidEn
      /\ t.enCpu = [u.enCpu EXCEPT ![c] = 0]
      /\ MismaSala(u, t)
  <2>1. t = EjecutandoAFinalizados(RecibirPcb(u, c), u.enCpu[c])
    BY <1>4
  <2> QED
    BY <1>3, <1>4, <2>1, RecibirYFinalizar
<1>5a. t = EjecutandoAFinalizados(RecibirPcb(u, c), u.enCpu[c])
  BY <1>4
<1>. HIDE DEF t
<1>6. /\ g.modo = t.modo /\ g.pidEn = [t.pidEn EXCEPT ![c] = 0]
      /\ g.enCpu = t.enCpu /\ MismaCasa(t, g)
  BY <1>5 DEF MismaCasa, MismaSala, MismosSemaforos, Bien, Sistema
<1>7. Bien(g)
  <2>1. 0 \in 0..MaxPid /\ 0 \in Nat
    BY MaxPidAssumption
  <2> QED
    BY <1>5, <2>1, CampoBien
<1>. HIDE DEF g
<1>8. Desocupa(k, g, c, o, 0, b)
  BY <1>2, <1>5, <1>6 DEF Desocupa
<1>9. Avanza(k, g, x, b, f) /\ ~EnCola(g, p, "NUEVO")
  <2>1. MismaCasa(EjecutandoAFinalizados(RecibirPcb(u, c), u.enCpu[c]), g)
    BY <1>5a, <1>6
  <2>2. /\ Avanza(k, g, x, b, f)
        /\ ~EnCola(g, k.enCpu[c], "NUEVO")
    <3>1. Llega(k, u)
      BY <1>2, <1>3 DEF Llega
    <3> QED
      BY <1>3, <1>8, <2>1, <3>1, VueltaAvanza, ZenonT(60)
  <2> QED
    BY <1>1, <2>2
<1>10. f => g.enCpu[c] = 0 /\ Contains(g.ocupadas, c)
  <2>1. g.enCpu = [k.enCpu EXCEPT ![c] = 0]
    BY <1>8 DEF Desocupa
  <2>2. g.enCpu[c] = 0
    BY <2>1 DEF Bien, Sistema
  <2>3. g.ocupadas = k.ocupadas
    BY <1>3, <1>5, <1>6 DEF MismaCasa, MismaSala
  <2>4. f => Contains(k.ocupadas, c)
    BY DEF Vale, Firme
  <2> QED
    BY <2>2, <2>3, <2>4
<1>11. Dispuesta(g, c)
  <2>1. /\ g.modo = [k.modo EXCEPT ![c] = o]
        /\ g.pidEn = [k.pidEn EXCEPT ![c] = 0]
    BY <1>8 DEF Desocupa
  <2>2. g.modo[c] = o /\ g.pidEn[c] = 0
    BY <2>1 DEF Bien, Sistema
  <2> QED
    BY <2>2 DEF Dispuesta, Muertas
<1>12. Vale(g, b, f)
  BY <1>9 DEF Avanza
<1>13. Avanza(g, l, x, b, f) /\ Bien(l)
  BY <1>7, <1>10, <1>11, <1>12, LiberarCpuAvanza, LiberarCpuBien
<1>14. ~EnCola(l, p, "NUEVO")
  <2>1. l.cola = g.cola
    BY <1>7 DEF LiberarCpu, Bien, Sistema
  <2> QED
    BY <1>9, <2>1 DEF EnCola
<1>. HIDE DEF l
<1>15. Vale(l, b, f)
  BY <1>13 DEF Avanza
<1>16. Avanza(l, a, x, b, f)
  BY <1>1, <1>13, <1>14, <1>15, AvisarAvanza
<1>. HIDE DEF a
<1>17. Avanza(k, l, x, b, f)
  BY <1>9, <1>13, AvanzaTransitiva
<1>18. Avanza(k, a, x, b, f)
  BY <1>16, <1>17, AvanzaTransitiva
<1> QED
  BY <1>18, Zenon DEF a, l, g, t, u, p

\* A program ends.
LEMMA ProgramaTerminadoAvanza ==
    ASSUME NEW k, Bien(k), NEW c \in Cpus, k.enCpu[c] # 0,
           Adentro(k, k.enCpu[c]), k.modo[c] = "activa",
           NEW x, NEW b \in BOOLEAN, NEW f \in BOOLEAN, Vale(k, b, f)
    PROVE  Avanza(k, ProgramaTerminado(k, c, x), x, b, f)
<1>. DEFINE p == k.enCpu[c]
            code == "FINALIZADO_CORRECTAMENTE"
            r == RecibirPcb([k EXCEPT !.ecCopia[p] = code], c)
            l == LiberarCpu([EjecutandoAFinalizados(r, p) EXCEPT
                                !.pidEn[c] = 0, !.quantum[c] = 0], c)
            a == InformarAConsola(PedirAMemoriaFinalizarProceso(l, p), p, code)
            n == PasarProximoProcDeNewAReady(a, x)
<1>1. code \in ExitCode
  BY DEF ExitCode
<1>2. Llega(k, k) /\ Cambia(k, k, c, "activa")
  BY DEF Llega, Cambia, Bien, Sistema, MismaCasa, MismaSala, MismosSemaforos
<1>3. Bien(a)
  BY <1>1, DevueltoBien
<1>4. Avanza(k, a, x, b, f)
  BY <1>1, <1>2, DevueltoAvanza, ZenonT(60)
<1>5. ProgramaTerminado(k, c, x) = PlanificarSiHayListos(n)
  BY Zenon DEF ProgramaTerminado
<1>. HIDE DEF a
<1>6. Vale(a, b, f)
  BY <1>4 DEF Avanza
<1>7. Bien(n) /\ Avanza(a, n, x, b, f)
  BY <1>3, <1>6, PasarProximoBien, PasarProximoAvanza
<1>. HIDE DEF n
<1>8. Vale(n, b, f)
  BY <1>7 DEF Avanza
<1>9. Avanza(n, PlanificarSiHayListos(n), x, b, f)
  BY <1>7, <1>8, PlanificarSiHayListosAvanza
<1>10. Avanza(k, n, x, b, f)
  BY <1>4, <1>7, AvanzaTransitiva
<1> QED
  BY <1>5, <1>9, <1>10, AvanzaTransitiva

\* A CPU aborts its program, and goes on or closes its socket.
LEMMA AbortarDeCpuAvanza ==
    ASSUME NEW k, Bien(k), NEW c \in Cpus, k.enCpu[c] # 0,
           Adentro(k, k.enCpu[c]), NEW code \in ExitCode,
           NEW o \in {"activa", "muerta"},
           NEW x, NEW b \in BOOLEAN, NEW f \in BOOLEAN, Vale(k, b, f)
    PROVE  Avanza(k, AbortarDeCpu([k EXCEPT !.modo[c] = o], c, code, x),
                  x, b, f)
<1>. DEFINE m == [k EXCEPT !.modo[c] = o]
            p == m.enCpu[c]
            r == RecibirPcb([m EXCEPT !.ecCopia[p] = code], c)
            l == LiberarCpu([EjecutandoAFinalizados(r, p) EXCEPT
                                !.pidEn[c] = 0, !.quantum[c] = 0], c)
            a == InformarAConsola(PedirAMemoriaFinalizarProceso(l, p), p, code)
<1>1. Bien(m)
  BY CampoBien DEF ModoCpu
<1>2. Llega(k, m) /\ Cambia(k, m, c, o) /\ m.enCpu[c] # 0
  BY DEF Llega, Cambia, MismaCasa, MismaSala, MismosSemaforos, Bien, Sistema
<1>. HIDE DEF m
<1>3. Bien(a)
  BY <1>1, <1>2, DevueltoBien
<1>4. Avanza(k, a, x, b, f)
  BY <1>1, <1>2, DevueltoAvanza, ZenonT(60)
<1>5. AbortarDeCpu(m, c, code, x) = PasarProximoProcDeNewAReady(a, x)
  BY Zenon DEF AbortarDeCpu
<1>. HIDE DEF a
<1>6. Vale(a, b, f)
  BY <1>4 DEF Avanza
<1>7. Avanza(a, PasarProximoProcDeNewAReady(a, x), x, b, f)
  BY <1>3, <1>6, PasarProximoAvanza
<1>8. Avanza(k, AbortarDeCpu(m, c, code, x), x, b, f)
  BY <1>4, <1>5, <1>7, AvanzaTransitiva
<1> QED
  BY <1>8 DEF m

\* The kernel ends.
LEMMA MuerteAvanza ==
    ASSUME NEW k, Bien(k), NEW v \in Vida \ {"vivo"},
           NEW x, NEW b \in BOOLEAN, NEW f \in BOOLEAN, ~f, Vale(k, b, f)
    PROVE  Avanza(k, [k EXCEPT !.vivo = v], x, b, f)
<1>. DEFINE m == [k EXCEPT !.vivo = v]
<1>1. /\ m.activa = k.activa /\ m.cola = k.cola /\ m.maxPID = k.maxPID
      /\ m.vivo = v /\ m.pidEn = k.pidEn /\ m.enCpu = k.enCpu
      /\ m.modo = k.modo /\ m.consolas = k.consolas
      /\ m.consola = k.consola /\ MismosSemaforos(k, m)
  BY DEF MismosSemaforos, Bien, Sistema
<1>. HIDE DEF m
<1>2. Orden(k, Cpus) => Orden(m, Cpus)
  <2>1. Sostenidos(k, Cpus) => Sostenidos(m, Cpus)
    BY <1>1 DEF Sostenidos, Adentro, EnCola
  <2> QED
    BY <1>1, <2>1 DEF Orden, Nombra, Adentro, Suelto, EnCola
<1>3. Vale(m, b, f)
  BY <1>2 DEF Vale
<1>4. \A u : Debe(k, u) => Debe(m, u)
  BY <1>1 DEF Debe, Esperan, EnCola, MismosSemaforos
<1>5. Conectados(k) => Conectados(m)
  BY <1>1 DEF Conectados, EnCola
<1>6. Completo(k) => Completo(m)
  BY <1>1 DEF Completo, EnCola
<1>7. Avanza(k, m, x, b, f)
  BY <1>1, <1>3, <1>4, <1>5, <1>6 DEF Avanza
<1> QED
  BY <1>7 DEF m

\* CAMBIAR_PROCESO, and the process goes to another queue.
LEMMA RecibirYTrasladar ==
    ASSUME NEW k, Bien(k), NEW c \in Cpus, k.enCpu[c] # 0,
           NEW e \in {"LISTO", "BLOQUEADO"}
    PROVE  LET p == k.enCpu[c]
               r == RecibirPcb(k, c)
               t == Trasladar(r, p, "EJECUTANDO", e)
           IN  /\ Bien(t) /\ MismaSala(k, t) /\ MismosSemaforos(k, t)
               /\ t.modo = k.modo /\ t.pidEn = k.pidEn
               /\ t.enCpu = [k.enCpu EXCEPT ![c] = 0]
               /\ k.activa /\ EnCola(k, p, "EJECUTANDO") =>
                     \A q \in Pid, g \in Estado :
                        EnCola(t, q, g) <=> IF q = p THEN g = e
                                            ELSE EnCola(k, q, g)
               /\ ~k.activa \/ ~EnCola(k, p, "EJECUTANDO") => t.cola = k.cola
<1>. DEFINE p == k.enCpu[c]
            r == RecibirPcb(k, c)
            t == Trasladar(r, p, "EJECUTANDO", e)
<1>1. p \in Pid /\ Bien(r)
  BY RecibirPcbBien
<1>2. /\ r.cola = k.cola /\ MismosSemaforos(k, r) /\ MismaSala(k, r)
      /\ r.modo = k.modo /\ r.pidEn = k.pidEn
      /\ r.enCpu = [k.enCpu EXCEPT ![c] = 0]
  BY RecibirCampos DEF MismaSala
<1>. HIDE DEF p, r
<1>3. Bien(t)
  <2>1. Bien(EjecutandoAListos(r, p)) /\ Bien(EjecutandoABloqueados(r, p))
    BY <1>1, PasosBien
  <2> QED
    BY <2>1 DEF EjecutandoAListos, EjecutandoABloqueados
<1>4. MismosSemaforos(r, t) /\ t.colgados = r.colgados
  BY <1>1, PasosSemaforos
<1>5. IF Mueve(r, p, "EJECUTANDO") THEN Traslado(r, t, p, e) ELSE t = r
  BY <1>1, PasosTrasladan DEF EnSistema
<1>. HIDE DEF t
<1>6. \A q, g : EnCola(r, q, g) <=> EnCola(k, q, g)
  BY <1>2 DEF EnCola
<1>7. Mueve(r, p, "EJECUTANDO") <=> k.activa /\ EnCola(k, p, "EJECUTANDO")
  BY <1>2, <1>6 DEF Mueve, MismaSala
<1>8. MismosSemaforos(k, t)
  BY <1>2, <1>4 DEF MismosSemaforos
<1>9. CASE Mueve(r, p, "EJECUTANDO")
  <2>1. Traslado(r, t, p, e)
    BY <1>5, <1>9
  <2>2. /\ MismaSala(k, t) /\ t.modo = k.modo /\ t.pidEn = k.pidEn
        /\ t.enCpu = [k.enCpu EXCEPT ![c] = 0]
    BY <1>2, <1>4, <2>1 DEF Traslado, MismoResto, MismaSala
  <2>3. \A q \in Pid, g \in Estado :
           EnCola(t, q, g) <=> IF q = p THEN g = e ELSE EnCola(k, q, g)
    BY <1>6, <2>1 DEF Traslado
  <2> QED
    BY <1>3, <1>7, <1>8, <1>9, <2>2, <2>3 DEF t, r, p
<1>10. CASE ~Mueve(r, p, "EJECUTANDO")
  BY <1>2, <1>3, <1>5, <1>7, <1>8, <1>10 DEF t, r, p
<1> QED
  BY <1>9, <1>10

\* The quantum of a CPU is over: its process is ready again.
LEMMA ExpulsadoAvanza ==
    ASSUME NEW k, Bien(k), NEW c \in Cpus, k.enCpu[c] # 0,
           k.modo[c] \in ConPcb, NEW d \in Cpus, NEW n \in Nat,
           NEW x, NEW b \in BOOLEAN, NEW f \in BOOLEAN, Vale(k, b, f)
    PROVE  LET m == [EjecutandoAListos(RecibirPcb(k, c), k.enCpu[c]) EXCEPT
                        !.quantum[d] = n]
           IN  /\ Bien(m) /\ Avanza(k, m, x, b, f)
               /\ m.modo = k.modo /\ m.ocupadas = k.ocupadas
               /\ m.enCpu = [k.enCpu EXCEPT ![c] = 0]
<1>. DEFINE p == k.enCpu[c]
            o == k.modo[c]
            z == k.pidEn[c]
            t == EjecutandoAListos(RecibirPcb(k, c), p)
            m == [t EXCEPT !.quantum[d] = n]
<1>1. p \in Pid
  BY RecibirPcbBien
<1>2. /\ Bien(t) /\ MismaSala(k, t) /\ MismosSemaforos(k, t)
      /\ t.modo = k.modo /\ t.pidEn = k.pidEn
      /\ t.enCpu = [k.enCpu EXCEPT ![c] = 0]
      /\ k.activa /\ EnCola(k, p, "EJECUTANDO") =>
            \A q \in Pid, g \in Estado :
               EnCola(t, q, g) <=> IF q = p THEN g = "LISTO"
                                   ELSE EnCola(k, q, g)
      /\ ~k.activa \/ ~EnCola(k, p, "EJECUTANDO") => t.cola = k.cola
  BY RecibirYTrasladar DEF EjecutandoAListos
<1>3. /\ k.modo = [k.modo EXCEPT ![c] = o] /\ k.pidEn = [k.pidEn EXCEPT ![c] = z]
      /\ o # "ausente" /\ o \notin Muertas
  BY DEF Bien, Sistema, ConPcb, Muertas
<1>. HIDE DEF p, o, z, t
<1>4. /\ Bien(m) /\ MismaCasa(t, m)
      /\ m.modo = t.modo /\ m.pidEn = t.pidEn /\ m.enCpu = t.enCpu
  <2>1. Bien(m)
    BY <1>2, CampoBien
  <2>2. /\ MismaCasa(t, m)
        /\ m.modo = t.modo /\ m.pidEn = t.pidEn /\ m.enCpu = t.enCpu
    BY <1>2 DEF MismaCasa, MismaSala, MismosSemaforos, Bien, Sistema
  <2> QED
    BY <2>1, <2>2
<1>. HIDE DEF m
<1>5. Desocupa(k, m, c, o, z, b)
  BY <1>2, <1>3, <1>4 DEF Desocupa
<1>6. MismaSala(k, m)
  BY <1>2, <1>4 DEF MismaCasa, MismaSala
<1>7. \A q, g : EnCola(m, q, g) <=> EnCola(t, q, g)
  BY <1>4 DEF EnCola, MismaCasa
<1>8. Salida(k, m, p)
  BY <1>2, <1>4, <1>7 DEF Salida, MismaCasa
<1>9. Salda(k, m, b)
  <2>1. \A q \in Pid : EnCola(m, q, "BLOQUEADO") <=> EnCola(k, q, "BLOQUEADO")
    <3>1. EnCola(k, p, "EJECUTANDO") => ~EnCola(k, p, "BLOQUEADO")
      BY UnaCola DEF Estado
    <3>2. "BLOQUEADO" \in Estado
      BY DEF Estado
    <3>3. CASE k.activa /\ EnCola(k, p, "EJECUTANDO")
      BY <1>2, <1>7, <3>1, <3>2, <3>3
    <3>4. CASE ~(k.activa /\ EnCola(k, p, "EJECUTANDO"))
      BY <1>2, <1>7, <3>4 DEF EnCola
    <3> QED
      BY <3>3, <3>4
  <2>2. MismosSemaforos(k, m)
    BY <1>2, <1>4 DEF MismaCasa, MismosSemaforos
  <2> QED
    BY <2>1, <2>2 DEF Salda, Debe, Esperan, MismosSemaforos
<1>10. Avanza(k, m, x, b, f)
  <2>1. Salida(k, m, k.enCpu[c])
    BY <1>8 DEF p
  <2> QED
    BY <1>5, <1>6, <1>9, <2>1, DevuelveProgresa, AvanzaPartes, ZenonT(60)
<1>11. m.ocupadas = k.ocupadas /\ m.modo = k.modo
       /\ m.enCpu = [k.enCpu EXCEPT ![c] = 0]
  BY <1>2, <1>4, <1>6 DEF MismaSala
<1> QED
  BY <1>4, <1>10, <1>11 DEF m, t, p

Toma(k, c, b, f) ==
    /\ f => k.enCpu[c] = 0 /\ Contains(k.ocupadas, c)
    /\ b /\ f => Dispuesta(k, c)

\* A quantum is written.
LEMMA QuantumAvanza ==
    ASSUME NEW k, Bien(k), NEW d, NEW n,
           NEW x, NEW b \in BOOLEAN, NEW f \in BOOLEAN, Vale(k, b, f)
    PROVE  Avanza(k, [k EXCEPT !.quantum[d] = n], x, b, f)
<1>. DEFINE m == [k EXCEPT !.quantum[d] = n]
<1>1. Aparte(k, m) /\ MismosSemaforos(k, m) /\ m.cola = k.cola
  BY DEF Aparte, MismasCpus, MismosSemaforos, Bien, Sistema
<1>. HIDE DEF m
<1>2. Avanza(k, m, x, b, f)
  BY <1>1, AparteAvanza
<1> QED
  BY <1>2 DEF m

\* EXECUTE to a CPU that waits for it in cpusOcupadas.
LEMMA EjecutarEnAvanza ==
    ASSUME NEW k, Bien(k), k.activa, NEW c \in Cpus,
           NEW x, NEW b \in BOOLEAN, NEW f \in BOOLEAN, Vale(k, b, f),
           Toma(k, c, b, f)
    PROVE  Avanza(k, EjecutarSiguientePcbEnCpu(k, c), x, b, f)
BY EjecutarSiguienteAvanza DEF Toma

\* The quantum of a CPU is over, or not yet.
LEMMA RoundRobinAvanza ==
    ASSUME NEW k, Bien(k), k.activa, NEW c \in Cpus, k.enCpu[c] # 0,
           k.modo[c] = "activa", NEW x \in Exterior,
           NEW b \in BOOLEAN, NEW f \in BOOLEAN, Vale(k, b, f)
    PROVE  Avanza(k, RoundRobin(k, c, x), x, b, f)
<1>. DEFINE d == CpuDelQuantum(k, c, x)
            p == k.enCpu[c]
            m == [EjecutandoAListos(RecibirPcb(k, c), p) EXCEPT !.quantum[d] = 1]
            n == [k EXCEPT !.quantum[d] = @ + 1]
<1>1. d \in Cpus \cup {NoCpu}
  BY CpuDelQuantumTipo
<1>2. f => d = c /\ Contains(k.ocupadas, c)
  BY DEF Vale, Firme, CpuDelQuantum
<1>3. RoundRobin(k, c, x) =
         IF d = NoCpu THEN [k EXCEPT !.vivo = "caido"]
         ELSE IF k.quantum[d] >= Quantum
              THEN EjecutarSiguientePcbEnCpu(m, d) ELSE n
  BY DEF RoundRobin
<1>. HIDE DEF d
<1>4. CASE d = NoCpu
  <2>1. ~f
    BY <1>2, <1>4, CpusAssumption
  <2>2. Avanza(k, [k EXCEPT !.vivo = "caido"], x, b, f)
    BY <2>1, MuerteAvanza DEF Vida
  <2> QED
    BY <1>3, <1>4, <2>2
<1>5. CASE d # NoCpu
  <2>1. d \in Cpus
    BY <1>1, <1>5
  <2>2. /\ Bien(m) /\ Avanza(k, m, x, b, f)
        /\ m.modo = k.modo /\ m.ocupadas = k.ocupadas
        /\ m.enCpu = [k.enCpu EXCEPT ![c] = 0]
    BY <2>1, ExpulsadoAvanza DEF ConPcb
  <2>. HIDE DEF m
  <2>9. Bien(m) /\ Avanza(k, m, x, b, f)
    BY <2>2
  <2>3. Vale(m, b, f) /\ m.activa
    BY <2>2 DEF Avanza
  <2>4. f => m.enCpu[d] = 0 /\ Contains(m.ocupadas, d)
    BY <1>2, <2>2 DEF Bien, Sistema
  <2>5. b /\ f => Dispuesta(m, d)
    BY <1>2, <2>2 DEF Dispuesta
  <2>6. Avanza(m, EjecutarSiguientePcbEnCpu(m, d), x, b, f)
    <3>1. Toma(m, d, b, f)
      BY <2>4, <2>5 DEF Toma
    <3> QED
      BY <2>1, <2>3, <2>9, <3>1, EjecutarEnAvanza, ZenonT(60)
  <2>7. Avanza(k, EjecutarSiguientePcbEnCpu(m, d), x, b, f)
    BY <2>2, <2>6, AvanzaTransitiva
  <2>8. Avanza(k, n, x, b, f)
    <3>1. n = [k EXCEPT !.quantum[d] = k.quantum[d] + 1]
      BY DEF Bien, Sistema
    <3>2. Avanza(k, [k EXCEPT !.quantum[d] = k.quantum[d] + 1], x, b, f)
      BY QuantumAvanza
    <3> QED
      BY <3>1, <3>2
  <2>. HIDE DEF n
  <2> QED
    BY <1>3, <1>5, <2>7, <2>8
<1> QED
  BY <1>4, <1>5

\* planificar(cpuSocket), on each of its ways out.
LEMMA PlanificarCpuAvanza ==
    ASSUME NEW k, Bien(k), NEW c \in Cpus, k.enCpu[c] # 0,
           Adentro(k, k.enCpu[c]), k.modo[c] \in {"activa", "sentencia"},
           NEW x \in Exterior,
           NEW b \in BOOLEAN, NEW f \in BOOLEAN, Vale(k, b, f)
    PROVE  Avanza(k, PlanificarCpu(k, c, x), x, b, f)
<1>. DEFINE s == [k EXCEPT !.modo[c] = "activa"]
            q == QuitarFlag(s, k.pidEn[c], x)
<1>1. Avanza(k, [k EXCEPT !.modo[c] = "esperando"], x, b, f)
  BY ModoAvanza DEF ConPcb
<1>2. Bien(s) /\ Avanza(k, s, x, b, f)
  <2>1. Bien(s)
    BY CampoBien DEF ModoCpu
  <2>2. Avanza(k, s, x, b, f)
    <3>1. "activa" \in ConPcb /\ ~(k.modo[c] = "abortando")
      BY DEF ConPcb
    <3> QED
      BY <3>1, ModoAvanza
  <2> QED
    BY <2>1, <2>2
<1>3. /\ s.enCpu = k.enCpu /\ s.cola = k.cola /\ s.activa = k.activa
      /\ s.modo[c] = "activa"
  BY DEF Bien, Sistema
<1>. HIDE DEF s
<1>4. Vale(s, b, f)
  BY <1>2 DEF Avanza
<1>5. ASSUME ~f
      PROVE  Bien(q) /\ Avanza(s, q, x, b, f)
  BY <1>2, <1>4, <1>5, QuitarFlagBien, QuitarFlagAvanza
<1>6. q.enCpu = s.enCpu /\ q.activa = s.activa /\ q.cola = s.cola
      /\ q.modo = s.modo
  BY <1>2 DEF QuitarFlag, Bien, Sistema
<1>. HIDE DEF q
<1>7. CASE ~k.activa
  <2>1. PlanificarCpu(k, c, x) = [k EXCEPT !.modo[c] = "esperando"]
    BY <1>7 DEF PlanificarCpu
  <2> QED
    BY <1>1, <2>1
<1>8. CASE k.activa
  <2>1. PlanificarCpu(k, c, x) =
          CASE TengoQueMatar(k, k.pidEn[c], x) -> MatarEnCpu(q, c, x)
            [] ~TengoQueMatar(k, k.pidEn[c], x) /\ Algoritmo = "RR" ->
                 RoundRobin(s, c, x)
            [] OTHER -> s
    BY <1>8 DEF PlanificarCpu, q, s
  <2>2. TengoQueMatar(k, k.pidEn[c], x) => ~f
    BY DEF TengoQueMatar, Vale, Firme
  <2>3. ASSUME ~f
        PROVE  Avanza(k, MatarEnCpu(q, c, x), x, b, f)
    <3>1. Bien(q) /\ Avanza(s, q, x, b, f)
      BY <1>5, <2>3
    <3>2. Vale(q, b, f)
      BY <3>1 DEF Avanza
    <3>3. Adentro(q, q.enCpu[c]) /\ q.enCpu[c] # 0 /\ q.activa
          /\ q.modo[c] \in ConPcb
      BY <1>3, <1>6, <1>8 DEF Adentro, EnCola, ConPcb
    <3>4. Avanza(q, MatarEnCpu(q, c, x), x, b, f)
      BY <2>3, <3>1, <3>2, <3>3, MatarEnCpuAvanza
    <3>5. Avanza(k, q, x, b, f)
      BY <1>2, <3>1, AvanzaTransitiva
    <3> QED
      BY <3>4, <3>5, AvanzaTransitiva
  <2>4. Avanza(s, RoundRobin(s, c, x), x, b, f)
    BY <1>2, <1>3, <1>4, <1>8, RoundRobinAvanza
  <2>5. Avanza(k, RoundRobin(s, c, x), x, b, f)
    BY <1>2, <2>4, AvanzaTransitiva
  <2> QED
    BY <1>2, <2>1, <2>2, <2>3, <2>5
<1> QED
  BY <1>7, <1>8

-----------------------------------------------------------------------------
(* Semaphores, where a unit is taken before it is known who pays for it.   *)

Cero == [s \in Sems |-> 0]

Uno(s) == [t \in Sems |-> IF t = s THEN 1 ELSE 0]

\* A whole handler: no semaphore is owed a unit at its ends.
Pasa(k, m, x, b, f) ==
    /\ Progresa(k, m, x, b, f)
    /\ b /\ k.activa => (Debe(k, Cero) => Debe(m, Cero))

\* What every handler that owes nothing does.
LEMMA PasaAlAvanzar ==
    ASSUME NEW k, NEW m, NEW x, NEW b, NEW f, Avanza(k, m, x, b, f)
    PROVE  Pasa(k, m, x, b, f)
<1>1. Cero \in [Sems -> Int]
  BY DEF Cero
<1> QED
  BY <1>1, AvanzaPartes DEF Salda, Pasa

\* One piece after another.
LEMMA PasaTransitiva ==
    ASSUME NEW k, NEW l, NEW m, NEW x, NEW b, NEW f,
           Pasa(k, l, x, b, f), Pasa(l, m, x, b, f)
    PROVE  Pasa(k, m, x, b, f)
BY ProgresaTransitiva DEF Pasa, Progresa

\* The value of a semaphore and who waits for it concern nothing else.
LEMMA SemaforoProgresa ==
    ASSUME NEW k, NEW m, NEW x, NEW b, NEW f, Vale(k, b, f),
           m.cola = k.cola, Aparte(k, m)
    PROVE  Progresa(k, m, x, b, f)
<1>1. \A q, e : EnCola(m, q, e) <=> EnCola(k, q, e)
  BY DEF EnCola
<1>2. \A q : (Adentro(m, q) <=> Adentro(k, q)) /\ (Suelto(m, q) <=> Suelto(k, q))
  BY <1>1 DEF Adentro, Suelto, Aparte, MismasCpus
<1>3. \A c, q : Nombra(m, c, q) <=> Nombra(k, c, q)
  BY DEF Nombra, Aparte, MismasCpus
<1>4. Orden(k, Cpus) => Orden(m, Cpus)
  <2>1. Sostenidos(k, Cpus) => Sostenidos(m, Cpus)
    BY <1>2 DEF Sostenidos, Aparte, MismasCpus
  <2> QED
    BY <1>1, <1>2, <1>3, <2>1 DEF Orden, Aparte, MismasCpus
<1>5. Conectados(k) => Conectados(m)
  BY <1>1 DEF Conectados, Aparte
<1>6. Firme(k) => Firme(m)
  BY <1>5 DEF Firme, Aparte, MismasCpus
<1>7. Ociosas(k) => Ociosas(m)
  BY DEF Ociosas, Dispuesta, Aparte, MismasCpus
<1>8. Atendidos(k) => Atendidos(m)
  BY <1>1, <1>3 DEF Atendidos, Aparte, MismasCpus
<1>9. Vale(m, b, f)
  BY <1>4, <1>6, <1>7, <1>8 DEF Vale, Aparte, MismasCpus
<1>10. Completo(k) => Completo(m)
  BY <1>1 DEF Completo, Aparte, MismasCpus
<1> QED
  BY <1>5, <1>9, <1>10 DEF Progresa, Aparte, MismasCpus

\* A unit is taken or given.
LEMMA ValorProgresa ==
    ASSUME NEW k, Bien(k), NEW s \in Sems, NEW n \in Int,
           NEW x, NEW b, NEW f, Vale(k, b, f)
    PROVE  LET m == [k EXCEPT !.valor[s] = n] IN
           /\ Progresa(k, m, x, b, f)
           /\ m.valor = [k.valor EXCEPT ![s] = n] /\ m.espera = k.espera
           /\ m.cola = k.cola /\ m.enCpu = k.enCpu /\ m.activa = k.activa
           /\ m.modo = k.modo /\ m.pidEn = k.pidEn
<1>. DEFINE m == [k EXCEPT !.valor[s] = n]
<1>1. m.cola = k.cola /\ Aparte(k, m) /\ m.espera = k.espera
      /\ m.valor = [k.valor EXCEPT ![s] = n]
  BY DEF Aparte, MismasCpus, Bien, Sistema
<1>. HIDE DEF m
<1>2. Progresa(k, m, x, b, f)
  BY <1>1, SemaforoProgresa
<1> QED
  BY <1>1, <1>2 DEF m, Aparte, MismasCpus

\* The unit is owed, or there was one.
LEMMA DebeTomado ==
    ASSUME NEW k, NEW m, NEW s \in Sems, k.valor \in [Sems -> Int],
           m.valor = [k.valor EXCEPT ![s] = k.valor[s] - 1],
           m.espera = k.espera, m.cola = k.cola, Debe(k, Cero)
    PROVE  /\ Debe(m, Uno(s))
           /\ k.valor[s] > 0 => Debe(m, Cero)
<1>1. \A t : Esperan(m, t) = Esperan(k, t)
  BY DEF Esperan
<1>2. \A p \in Pid : EnCola(m, p, "BLOQUEADO") <=> m.espera[p] # NoSem
  BY DEF Debe, EnCola
<1>3. ASSUME NEW t \in Sems
      PROVE  /\ Cardinality(Esperan(m, t)) =
                   IF k.valor[t] < 0 THEN -k.valor[t] ELSE 0
             /\ k.valor[t] \in Int
             /\ Uno(s)[t] = IF t = s THEN 1 ELSE 0
             /\ m.valor[t] = IF t = s THEN k.valor[t] - 1 ELSE k.valor[t]
             /\ Cero[t] = 0
  <2>1. Cero[t] = 0
    BY DEF Cero
  <2>2. Cardinality(Esperan(k, t)) =
           IF k.valor[t] + Cero[t] < 0 THEN -(k.valor[t] + Cero[t]) ELSE 0
    BY DEF Debe
  <2> QED
    BY <1>1, <2>1, <2>2 DEF Uno
<1>4. ASSUME NEW t \in Sems
      PROVE  /\ k.valor[t] = m.valor[t] + Uno(s)[t]
             /\ k.valor[s] > 0 =>
                   Cardinality(Esperan(m, t)) =
                      IF m.valor[t] + Cero[t] < 0
                      THEN -(m.valor[t] + Cero[t]) ELSE 0
  BY <1>3
<1> QED
  BY <1>2, <1>3, <1>4 DEF Debe

\* The unit that was owed is given back.
LEMMA DebeDevuelto ==
    ASSUME NEW k, NEW m, NEW s \in Sems, k.valor \in [Sems -> Int],
           m.valor = [k.valor EXCEPT ![s] = k.valor[s] + 1],
           m.espera = k.espera, m.cola = k.cola, Debe(k, Uno(s))
    PROVE  Debe(m, Cero)
<1>1. \A t : Esperan(m, t) = Esperan(k, t)
  BY DEF Esperan
<1>2. \A p \in Pid : EnCola(m, p, "BLOQUEADO") <=> m.espera[p] # NoSem
  BY DEF Debe, EnCola
<1>3. ASSUME NEW t \in Sems
      PROVE  m.valor[t] + Cero[t] = k.valor[t] + Uno(s)[t]
  <2>1. Cero[t] = 0 /\ Uno(s)[t] = (IF t = s THEN 1 ELSE 0)
    BY DEF Cero, Uno
  <2>2. m.valor[t] = IF t = s THEN k.valor[t] + 1 ELSE k.valor[t]
    OBVIOUS
  <2>3. k.valor[t] \in Int
    OBVIOUS
  <2> QED
    BY <2>1, <2>2, <2>3
<1> QED
  BY <1>1, <1>2, <1>3 DEF Debe

\* One more waits for s, which had no unit left.
LEMMA EmpiezaAEsperar ==
    ASSUME NEW k, NEW m, NEW p \in Pid, NEW s \in Sems,
           k.valor \in [Sems -> Int], k.espera \in [Pid -> Sems \cup {NoSem}],
           k.valor[s] <= 0, k.espera[p] = NoSem,
           m.valor = [k.valor EXCEPT ![s] = k.valor[s] - 1],
           m.espera = [k.espera EXCEPT ![p] = s],
           \A q \in Pid : EnCola(m, q, "BLOQUEADO") <=>
               EnCola(k, q, "BLOQUEADO") \/ q = p,
           Debe(k, Cero)
    PROVE  Debe(m, Cero)
<1>1. NoSem \notin Sems
  BY SemsAssumption
<1>2. Esperan(m, s) = Esperan(k, s) \cup {p} /\ p \notin Esperan(k, s)
  BY <1>1 DEF Esperan
<1>3. \A t \in Sems \ {s} : Esperan(m, t) = Esperan(k, t)
  BY <1>1 DEF Esperan
<1>. DEFINE n == Cardinality(Esperan(k, s))
            v == k.valor[s]
<1>4. IsFiniteSet(Esperan(k, s))
  BY EsperanFinito
<1>5. n \in Nat /\ Cardinality(Esperan(m, s)) = n + 1
  BY <1>2, <1>4, FS_CardinalityType, FS_AddElement
<1>6. \A t \in Sems : Cero[t] = 0
  BY DEF Cero
<1>7. n = IF v + Cero[s] < 0 THEN -(v + Cero[s]) ELSE 0
  BY DEF Debe
<1>8. v \in Int /\ v <= 0 /\ m.valor[s] = v - 1
  BY DEF v
<1>. HIDE DEF n, v
<1>9. Cardinality(Esperan(m, s)) =
         IF m.valor[s] + Cero[s] < 0 THEN -(m.valor[s] + Cero[s]) ELSE 0
  BY <1>5, <1>6, <1>7, <1>8
<1>10. ASSUME NEW t \in Sems
       PROVE  Cardinality(Esperan(m, t)) =
                 IF m.valor[t] + Cero[t] < 0 THEN -(m.valor[t] + Cero[t]) ELSE 0
  <2>1. CASE t = s
    BY <1>9, <2>1
  <2>2. CASE t # s
    <3>1. m.valor[t] = k.valor[t] /\ Esperan(m, t) = Esperan(k, t)
      BY <1>3, <2>2
    <3> QED
      BY <3>1 DEF Debe
  <2> QED
    BY <2>1, <2>2
<1>11. ASSUME NEW q \in Pid
       PROVE  EnCola(m, q, "BLOQUEADO") <=> m.espera[q] # NoSem
  BY <1>1 DEF Debe
<1> QED
  BY <1>10, <1>11 DEF Debe

\* A process with a kill flag is not blocked: it ends and the unit goes back.
LEMMA WaitMataProgresa ==
    ASSUME NEW k, Bien(k), NEW c \in Cpus, k.enCpu[c] # 0,
           Adentro(k, k.enCpu[c]), k.modo[c] \in ConPcb, NEW s \in Sems,
           NEW x, NEW b \in BOOLEAN, NEW f \in BOOLEAN, ~f, Vale(k, b, f)
    PROVE  /\ Progresa(k, WaitMata(k, c, s, x), x, b, f)
           /\ b /\ k.activa =>
                 (Debe(k, Uno(s)) => Debe(WaitMata(k, c, s, x), Cero))
<1>. DEFINE p == k.enCpu[c]
            t == AFinalizados(RecibirPcb(k, c), p, "EJECUTANDO")
            e == k.ecCopia[p]
            a == InformarAConsola(PedirAMemoriaFinalizarProceso(t, p), p, e)
            l == LiberarCpu(PasarProximoProcDeNewAReady(a, x), c)
            w == [l EXCEPT !.valor[s] = l.valor[s] + 1]
<1>1. e \in ExitCode
  BY RecibirPcbBien DEF Bien, Sistema
<1>2. t = EjecutandoAFinalizados(RecibirPcb(k, c), p)
  BY DEF AFinalizados, EjecutandoAFinalizados
<1>3. Bien(l) /\ Avanza(k, l, x, b, f)
  <2>. HIDE DEF e
  <2>1. Bien(LiberarCpu(PasarProximoProcDeNewAReady(InformarAConsola(
                PedirAMemoriaFinalizarProceso(EjecutandoAFinalizados(
                    RecibirPcb(k, c), k.enCpu[c]), k.enCpu[c]), k.enCpu[c], e), x), c))
        /\ Avanza(k, LiberarCpu(PasarProximoProcDeNewAReady(InformarAConsola(
                PedirAMemoriaFinalizarProceso(EjecutandoAFinalizados(
                    RecibirPcb(k, c), k.enCpu[c]), k.enCpu[c]), k.enCpu[c], e), x), c), x, b, f)
    BY <1>1, MatadoAvanza
  <2> QED
    BY <1>2, <2>1, Zenon
<1>4. WaitMata(k, c, s, x) = [l EXCEPT !.valor[s] = @ + 1]
  BY Zenon DEF WaitMata
<1>. HIDE DEF l
<1>5. Vale(l, b, f) /\ l.valor \in [Sems -> Int]
  BY <1>3 DEF Avanza, Bien, Sistema
<1>6. l.valor[s] + 1 \in Int /\ WaitMata(k, c, s, x) = w
  <2>1. l.valor[s] + 1 \in Int
    BY <1>5
  <2>2. [l EXCEPT !.valor[s] = @ + 1] = w
    <3>1. l \in Sistema
      BY <1>3 DEF Bien
    <3> QED
      BY <3>1 DEF Sistema
  <2> QED
    BY <1>4, <2>1, <2>2
<1>7. /\ Progresa(l, w, x, b, f)
      /\ w.valor = [l.valor EXCEPT ![s] = l.valor[s] + 1]
      /\ w.espera = l.espera /\ w.cola = l.cola
  BY <1>3, <1>5, <1>6, ValorProgresa
<1>. HIDE DEF w
<1>8. Debe(l, Uno(s)) => Debe(w, Cero)
  BY <1>5, <1>7, DebeDevuelto
<1>9. Uno(s) \in [Sems -> Int]
  BY DEF Uno
<1>10. Progresa(k, l, x, b, f) /\ Salda(k, l, b)
  BY <1>3, AvanzaPartes
<1>11. Progresa(k, w, x, b, f)
  BY <1>7, <1>10, ProgresaTransitiva
<1> QED
  BY <1>6, <1>8, <1>9, <1>10, <1>11 DEF Salda

\* The process blocks, and its CPU is free.
LEMMA WaitBloqueaPasa ==
    ASSUME NEW k, Bien(k), NEW c \in Cpus, k.enCpu[c] # 0,
           k.modo[c] = "activa", NEW s \in Sems, k.valor[s] <= 0,
           NEW x, NEW b \in BOOLEAN, NEW f \in BOOLEAN, Vale(k, b, f)
    PROVE  Pasa(k, WaitBloquea([k EXCEPT !.valor[s] = @ - 1], c, s), x, b, f)
<1>. DEFINE p == k.enCpu[c]
            z == k.pidEn[c]
            t == [k EXCEPT !.valor[s] = @ - 1]
            l == LiberarCpu([t EXCEPT !.espera[p] = s], c)
            w == EjecutandoABloqueados(RecibirPcb(l, c), p)
            m == [k EXCEPT !.cola = w.cola, !.enCpu[c] = 0,
                           !.valor = w.valor, !.espera = w.espera]
<1>1. p \in Pid
  BY RecibirPcbBien
<1>2. Bien(t)
  <2>1. t = [k EXCEPT !.valor[s] = k.valor[s] - 1] /\ k.valor[s] - 1 \in Int
    BY DEF Bien, Sistema
  <2>2. Bien([k EXCEPT !.valor[s] = k.valor[s] - 1])
    BY <2>1, CampoBien
  <2> QED
    BY <2>1, <2>2
<1>3. Bien([t EXCEPT !.espera[p] = s])
  <2>. HIDE DEF p, t
  <2> QED
    BY <1>1, <1>2, CampoBien
<1>4. Bien(l)
  BY <1>3, LiberarCpuBien
<1>5. /\ l.cola = k.cola /\ l.activa = k.activa /\ l.maxPID = k.maxPID
      /\ l.vivo = k.vivo /\ l.destruir = k.destruir
      /\ l.colgados = k.colgados /\ l.consolas = k.consolas
      /\ l.consola = k.consola /\ l.modo = k.modo /\ l.pidEn = k.pidEn
      /\ l.enCpu = k.enCpu
      /\ l.libres = Append(k.libres, c)
      /\ l.ocupadas = RemoveFirst(k.ocupadas, c)
      /\ l.valor = [k.valor EXCEPT ![s] = k.valor[s] - 1]
      /\ l.espera = [k.espera EXCEPT ![p] = s]
  BY DEF LiberarCpu, Bien, Sistema
<1>6. WaitBloquea(t, c, s) = w
  <2>1. t.enCpu = k.enCpu
    BY DEF Bien, Sistema
  <2> QED
    BY <2>1, Zenon DEF WaitBloquea
<1>. HIDE DEF l, t
<1>7. /\ Bien(w) /\ MismaSala(l, w) /\ MismosSemaforos(l, w)
      /\ w.modo = l.modo /\ w.pidEn = l.pidEn
      /\ w.enCpu = [l.enCpu EXCEPT ![c] = 0]
      /\ l.activa /\ EnCola(l, p, "EJECUTANDO") =>
            \A q \in Pid, g \in Estado :
               EnCola(w, q, g) <=> IF q = p THEN g = "BLOQUEADO"
                                   ELSE EnCola(l, q, g)
      /\ ~l.activa \/ ~EnCola(l, p, "EJECUTANDO") => w.cola = l.cola
  <2>1. l.enCpu[c] # 0 /\ p = l.enCpu[c]
    BY <1>5
  <2> QED
    BY <1>4, <2>1, RecibirYTrasladar DEF EjecutandoABloqueados
<1>. HIDE DEF w, p
<1>8. /\ m.cola = w.cola /\ m.enCpu = [k.enCpu EXCEPT ![c] = 0]
      /\ m.valor = w.valor /\ m.espera = w.espera
      /\ m.modo = k.modo /\ m.pidEn = k.pidEn /\ MismaSala(k, m)
  BY DEF MismaSala, Bien, Sistema
<1>. HIDE DEF m
<1>9. \A q, g : /\ EnCola(m, q, g) <=> EnCola(w, q, g)
                /\ EnCola(l, q, g) <=> EnCola(k, q, g)
  BY <1>5, <1>8 DEF EnCola
<1>10. Progresa(k, m, x, b, f)
  <2>1. Desocupa(k, m, c, "activa", z, b)
    BY <1>8 DEF Desocupa, Muertas, Bien, Sistema
  <2>2. Salida(k, m, p)
    <3>1. CASE k.activa /\ EnCola(k, p, "EJECUTANDO")
      BY <1>5, <1>7, <1>9, <3>1 DEF Salida
    <3>2. CASE ~(k.activa /\ EnCola(k, p, "EJECUTANDO"))
      BY <1>5, <1>7, <1>8, <1>9, <3>2 DEF Salida
    <3> QED
      BY <3>1, <3>2
  <2>3. MismaSala(k, m) /\ Salida(k, m, k.enCpu[c])
    BY <1>8, <2>2 DEF p
  <2> QED
    BY <2>1, <2>3, DevuelveProgresa, ZenonT(60)
<1>11. Vale(m, b, f)
  BY <1>10 DEF Progresa
<1>12. Liberada(m, w, c)
  BY <1>5, <1>7, <1>8 DEF Liberada, MismaSala, MismosSemaforos
<1>13. Progresa(m, w, x, b, f)
  <2>1. m.libres \in Seq(Cpus) /\ m.ocupadas \in Seq(Cpus)
    BY <1>8 DEF MismaSala, Bien, Sistema
  <2>2. f => m.enCpu[c] = 0 /\ Contains(m.ocupadas, c)
    BY <1>8 DEF MismaSala, Vale, Firme, Bien, Sistema
  <2>3. b /\ f => Dispuesta(m, c)
    BY <1>8 DEF Dispuesta
  <2>4. Avanza(m, w, x, b, f)
    BY <1>11, <1>12, <2>1, <2>2, <2>3, LiberadaAvanza
  <2> QED
    BY <2>4, AvanzaPartes
<1>14. ASSUME b, k.activa, Debe(k, Cero)
       PROVE  Debe(w, Cero)
  <2>1. EnCola(k, p, "EJECUTANDO")
    BY <1>14 DEF Vale, Orden, p
  <2>2. ~EnCola(k, p, "BLOQUEADO") /\ "BLOQUEADO" \in Estado
    BY <2>1, UnaCola DEF Estado
  <2>3. k.espera[p] = NoSem
    BY <1>1, <1>14, <2>2 DEF Debe
  <2>4. \A q \in Pid : EnCola(w, q, "BLOQUEADO") <=>
                          EnCola(k, q, "BLOQUEADO") \/ q = p
    BY <1>5, <1>7, <1>9, <1>14, <2>1, <2>2
  <2>5. /\ w.valor = [k.valor EXCEPT ![s] = k.valor[s] - 1]
        /\ w.espera = [k.espera EXCEPT ![p] = s]
    BY <1>5, <1>7 DEF MismosSemaforos
  <2>6. k.valor \in [Sems -> Int] /\ k.espera \in [Pid -> Sems \cup {NoSem}]
    BY DEF Bien, Sistema
  <2> QED
    BY <1>1, <1>14, <2>3, <2>4, <2>5, <2>6, EmpiezaAEsperar
<1>15. Progresa(k, w, x, b, f)
  BY <1>10, <1>13, ProgresaTransitiva
<1>16. Pasa(k, w, x, b, f)
  BY <1>14, <1>15 DEF Pasa
<1> QED
  BY <1>6, <1>16 DEF t

\* A WAIT, on each of its ways out.
LEMMA WaitPasa ==
    ASSUME NEW k, Bien(k), NEW c \in Cpus, k.enCpu[c] # 0,
           Adentro(k, k.enCpu[c]), k.modo[c] = "activa", NEW s \in Sems,
           NEW x, NEW b \in BOOLEAN, NEW f \in BOOLEAN, Vale(k, b, f)
    PROVE  Pasa(k, Wait(k, c, s, x), x, b, f)
<1>. DEFINE p == k.enCpu[c]
            v == k.valor[s] - 1
            t == [k EXCEPT !.valor[s] = v]
            q == QuitarFlag(t, p, x)
            a == WaitMata(q, c, s, x)
            w == WaitBloquea(t, c, s)
<1>1. v \in Int /\ t = [k EXCEPT !.valor[s] = @ - 1]
      /\ k.valor \in [Sems -> Int]
  BY DEF Bien, Sistema
<1>2. Wait(k, c, s, x) =
        CASE k.valor[s] > 0 -> t
          [] k.valor[s] <= 0 /\ TengoQueMatar(k, p, x) ->
                PlanificarSiHayListos(a)
          [] OTHER -> PlanificarSiHayListos(w)
  <2>1. [k EXCEPT !.valor[s] = @ - 1] = t
    BY <1>1
  <2>. HIDE DEF t
  <2> QED
    BY <2>1 DEF Wait, p, q
<1>3. /\ Progresa(k, t, x, b, f)
      /\ t.valor = [k.valor EXCEPT ![s] = v] /\ t.espera = k.espera
      /\ t.cola = k.cola /\ t.enCpu = k.enCpu /\ t.activa = k.activa
      /\ t.modo = k.modo /\ t.pidEn = k.pidEn
  <2>. HIDE DEF v
  <2> QED
    BY <1>1, ValorProgresa
<1>4. Bien(t) /\ Vale(t, b, f)
  <2>1. Bien(t)
    <3>. HIDE DEF v
    <3> QED
      BY <1>1, CampoBien
  <2> QED
    BY <1>3, <2>1 DEF Progresa
<1>5. Debe(k, Cero) => Debe(t, Uno(s)) /\ (k.valor[s] > 0 => Debe(t, Cero))
  <2>. HIDE DEF t
  <2> QED
    BY <1>1, <1>3, DebeTomado
<1>6. CASE k.valor[s] > 0
  <2>. HIDE DEF t
  <2>1. Pasa(k, t, x, b, f)
    BY <1>3, <1>5, <1>6 DEF Pasa
  <2>2. ~(k.valor[s] <= 0)
    BY <1>1, <1>6
  <2> QED
    BY <1>2, <1>6, <2>1, <2>2
<1>7. CASE k.valor[s] <= 0 /\ TengoQueMatar(k, p, x)
  <2>1. ~f
    BY <1>7 DEF TengoQueMatar, Vale, Firme
  <2>. HIDE DEF t
  <2>2. Bien(q) /\ Avanza(t, q, x, b, f)
    BY <1>4, <2>1, QuitarFlagBien, QuitarFlagAvanza
  <2>3. /\ q.enCpu = t.enCpu /\ q.activa = t.activa /\ q.cola = t.cola
        /\ q.modo = t.modo
    BY <1>4 DEF QuitarFlag, Bien, Sistema
  <2>. HIDE DEF q
  <2>4. Vale(q, b, f)
    BY <2>2 DEF Avanza
  <2>5. q.enCpu[c] # 0 /\ Adentro(q, q.enCpu[c]) /\ q.modo[c] \in ConPcb
        /\ q.activa = k.activa
    BY <1>3, <2>3 DEF Adentro, EnCola, ConPcb
  <2>6. /\ Progresa(q, a, x, b, f)
        /\ b /\ q.activa => (Debe(q, Uno(s)) => Debe(a, Cero))
    BY <2>1, <2>2, <2>4, <2>5, WaitMataProgresa
  <2>7. Bien(a)
    BY <2>2, <2>5, WaitMataBien
  <2>. HIDE DEF a
  <2>8. Progresa(k, a, x, b, f)
    <3>1. Progresa(k, q, x, b, f)
      BY <1>3, <2>2, AvanzaPartes, ProgresaTransitiva
    <3> QED
      BY <2>6, <3>1, ProgresaTransitiva
  <2>9. Pasa(k, a, x, b, f)
    <3>1. Uno(s) \in [Sems -> Int]
      BY DEF Uno
    <3>2. ASSUME b, k.activa, Debe(k, Cero)
          PROVE  Debe(a, Cero)
      <4>1. Debe(t, Uno(s)) /\ t.activa /\ Salda(t, q, b)
        BY <1>3, <1>5, <2>2, <3>2, AvanzaPartes
      <4>2. Debe(q, Uno(s))
        BY <3>1, <3>2, <4>1 DEF Salda
      <4> QED
        BY <2>5, <2>6, <3>2, <4>2
    <3> QED
      BY <2>8, <3>2 DEF Pasa
  <2>10. Vale(a, b, f)
    BY <2>8 DEF Progresa
  <2>11. Pasa(a, PlanificarSiHayListos(a), x, b, f)
    BY <2>7, <2>10, PlanificarSiHayListosAvanza, PasaAlAvanzar
  <2>12. Pasa(k, PlanificarSiHayListos(a), x, b, f)
    BY <2>9, <2>11, PasaTransitiva
  <2>13. ~(k.valor[s] > 0)
    BY <1>1, <1>7
  <2> QED
    BY <1>2, <1>7, <2>12, <2>13
<1>8. CASE ~(k.valor[s] > 0) /\ ~TengoQueMatar(k, p, x)
  <2>1. k.valor[s] <= 0
    BY <1>1, <1>8
  <2>2. Pasa(k, w, x, b, f)
    BY <1>1, <2>1, WaitBloqueaPasa
  <2>3. Bien(w)
    BY <1>3, <1>4, WaitBloqueaBien
  <2>. HIDE DEF w
  <2>4. Vale(w, b, f)
    BY <2>2 DEF Pasa, Progresa
  <2>5. Pasa(w, PlanificarSiHayListos(w), x, b, f)
    BY <2>3, <2>4, PlanificarSiHayListosAvanza, PasaAlAvanzar
  <2>6. Pasa(k, PlanificarSiHayListos(w), x, b, f)
    BY <2>2, <2>5, PasaTransitiva
  <2> QED
    BY <1>2, <1>8, <2>6
<1>9. k.valor[s] > 0 \/ k.valor[s] <= 0
  BY <1>1
<1> QED
  BY <1>6, <1>7, <1>8, <1>9

\* Nobody waits for s.
LEMMA NadieEspera ==
    ASSUME NEW k, NEW m, NEW s \in Sems, k.valor \in [Sems -> Int],
           m.valor = [k.valor EXCEPT ![s] = k.valor[s] + 1],
           m.espera = k.espera, m.cola = k.cola, Debe(k, Cero),
           \A p \in Pid : EnCola(k, p, "BLOQUEADO") => k.espera[p] # s
    PROVE  Debe(m, Cero)
<1>1. \A t : Esperan(m, t) = Esperan(k, t)
  BY DEF Esperan
<1>2. \A p \in Pid : EnCola(m, p, "BLOQUEADO") <=> m.espera[p] # NoSem
  BY DEF Debe, EnCola
<1>3. Esperan(k, s) = {}
  BY SemsAssumption DEF Debe, Esperan
<1>4. Cardinality(Esperan(k, s)) = 0
  BY <1>3, FS_EmptySet
<1>5. ASSUME NEW t \in Sems
      PROVE  Cardinality(Esperan(m, t)) =
                IF m.valor[t] + Cero[t] < 0
                THEN -(m.valor[t] + Cero[t]) ELSE 0
  <2>1. Cero[t] = 0
    BY DEF Cero
  <2>2. Cardinality(Esperan(k, t)) =
           IF k.valor[t] + Cero[t] < 0 THEN -(k.valor[t] + Cero[t]) ELSE 0
    BY DEF Debe
  <2>3. m.valor[t] = IF t = s THEN k.valor[t] + 1 ELSE k.valor[t]
    OBVIOUS
  <2>4. k.valor[t] \in Int
    OBVIOUS
  <2> QED
    BY <1>1, <1>4, <2>1, <2>2, <2>3, <2>4
<1> QED
  BY <1>2, <1>5 DEF Debe

\* A SIGNAL.
LEMMA SignalPasa ==
    ASSUME NEW k, Bien(k), NEW c \in Cpus, k.enCpu[c] # 0,
           k.modo[c] = "activa", NEW s \in Sems,
           NEW x, NEW b \in BOOLEAN, NEW f \in BOOLEAN, Vale(k, b, f)
    PROVE  Pasa(k, Signal(k, c, s), x, b, f)
<1>. DEFINE v == k.valor[s] + 1
            o == [k EXCEPT !.modo[c] = "sentencia"]
            m == [o EXCEPT !.valor[s] = v]
            q == k.cola["BLOQUEADO"]
            I == {j \in 1..Len(q) : k.espera[q[j]] = s}
            i == IF I # {} THEN Min(I) ELSE 0
            p == q[i]
            d == BloqueadoAListo(m, p)
            l == [d EXCEPT !.espera[p] = NoSem]
<1>1. /\ v \in Int /\ k.valor \in [Sems -> Int]
      /\ k.espera \in [Pid -> Sems \cup {NoSem}] /\ q \in Seq(Pid)
  BY DEF Bien, Sistema, Estado
<1>2. Signal(k, c, s) =
        IF i = 0 THEN m
        ELSE IF k.libres # <<>> THEN PlanificarLibre(l) ELSE l
  <2>1. m = [k EXCEPT !.valor[s] = @ + 1, !.modo[c] = "sentencia"]
    BY <1>1 DEF Bien, Sistema
  <2>. DEFINE w == [k EXCEPT !.valor[s] = @ + 1, !.modo[c] = "sentencia"]
  <2>2. Signal(k, c, s) =
           IF i = 0 THEN w
           ELSE LET h == [BloqueadoAListo(w, p) EXCEPT !.espera[p] = NoSem]
                IN  IF k.libres # <<>> THEN PlanificarLibre(h) ELSE h
    BY Zenon DEF Signal, SelectInSeq
  <2>3. w = m
    BY <2>1
  <2>. HIDE DEF w, m
  <2> QED
    BY <2>2, <2>3, Zenon
<1>3. Bien(o) /\ Avanza(k, o, x, b, f)
  <2>1. Avanza(k, o, x, b, f)
    <3>1. "sentencia" \in ConPcb /\ k.modo[c] # "abortando"
      BY DEF ConPcb
    <3> QED
      BY <3>1, ModoAvanza
  <2> QED
    BY <2>1, CampoBien DEF ModoCpu
<1>4. /\ o.cola = k.cola /\ o.valor = k.valor /\ o.espera = k.espera
      /\ o.activa = k.activa
  BY DEF Bien, Sistema
<1>. HIDE DEF v, o
<1>5. Vale(o, b, f) /\ Pasa(k, o, x, b, f)
  BY <1>3, PasaAlAvanzar DEF Avanza
<1>6. Bien(m)
  BY <1>1, <1>3, CampoBien
<1>7. /\ Progresa(o, m, x, b, f)
      /\ m.valor = [o.valor EXCEPT ![s] = v] /\ m.espera = o.espera
      /\ m.cola = o.cola
  <2>1. v \in Int
    BY <1>1
  <2>2. Bien(o) /\ Vale(o, b, f)
    BY <1>3, <1>5
  <2> QED
    BY <2>1, <2>2, ValorProgresa
<1>8. Aparte(o, m)
  BY <1>3 DEF Aparte, MismasCpus, Bien, Sistema
<1>11. /\ m.valor = [o.valor EXCEPT ![s] = o.valor[s] + 1]
       /\ o.valor \in [Sems -> Int]
       /\ o.espera \in [Pid -> Sems \cup {NoSem}]
  BY <1>1, <1>4, <1>7 DEF v
<1>. HIDE DEF m, q
<1>9. CASE I = {}
  <2>1. \A r \in Pid : EnCola(o, r, "BLOQUEADO") => o.espera[r] # s
    BY <1>4, <1>9 DEF EnCola, Contains, q
  <2>2. Debe(o, Cero) => Debe(m, Cero)
    BY <1>7, <1>11, <2>1, NadieEspera
  <2>3. Pasa(o, m, x, b, f)
    BY <1>7, <2>2 DEF Pasa
  <2>4. Pasa(k, m, x, b, f)
    BY <1>5, <2>3, PasaTransitiva
  <2> QED
    BY <1>2, <1>9, <2>4
<1>10. CASE I # {}
  <2>1. I \subseteq Nat
    OBVIOUS
  <2>2. Min(I) \in I
    BY <1>10, <2>1, MinimoExiste
  <2>3. i \in 1..Len(q) /\ i \in I
    BY <1>10, <2>2
  <2>. HIDE DEF i
  <2>4. p \in Pid /\ k.espera[p] = s
    BY <1>1, <2>3, ElementOfSeq
  <2>5. EnCola(m, p, "BLOQUEADO")
    BY <1>1, <1>4, <1>7, <2>3 DEF EnCola, Contains, q
  <2>. HIDE DEF p
  <2>6. Bien(d)
    BY <1>6, <2>4, PasosBien
  <2>7. /\ IF Mueve(m, p, "BLOQUEADO") THEN Traslado(m, d, p, "LISTO")
            ELSE d = m
        /\ MismosSemaforos(m, d) /\ d.colgados = m.colgados
    BY <1>6, <2>4, PasosTrasladan, PasosSemaforos DEF BloqueadoAListo, EnSistema
  <2>. HIDE DEF d
  <2>8. /\ MismoResto(d, l) /\ l.cola = d.cola /\ l.colgados = d.colgados
        /\ l.valor = d.valor /\ l.espera = [d.espera EXCEPT ![p] = NoSem]
    BY <2>6 DEF MismoResto, Bien, Sistema
  <2>9. Bien(l)
    BY <2>4, <2>6, CampoBien
  <2>. HIDE DEF l
  <2>10. /\ l.valor = [o.valor EXCEPT ![s] = o.valor[s] + 1]
         /\ l.espera = [o.espera EXCEPT ![p] = NoSem]
    BY <1>7, <1>11, <2>7, <2>8 DEF MismosSemaforos
  <2>11. Progresa(o, l, x, b, f) /\ Salda(o, l, b)
    <3>1. CASE Mueve(m, p, "BLOQUEADO")
      <4>1. Traslado(m, d, p, "LISTO")
        BY <2>7, <3>1
      <4>2. \A r, g : /\ EnCola(l, r, g) <=> EnCola(d, r, g)
                      /\ EnCola(o, r, g) <=> EnCola(m, r, g)
        BY <1>7, <2>8 DEF EnCola
      <4>3. Traslado(o, l, p, "LISTO")
        <5>1. MismoResto(o, m)
          BY <1>3 DEF MismoResto, Bien, Sistema, m
        <5>2. MismoResto(o, l)
          BY <2>8, <4>1, <5>1 DEF Traslado, MismoResto
        <5>3. \A r \in Pid, g \in Estado :
                 EnCola(l, r, g) <=> IF r = p THEN g = "LISTO" ELSE EnCola(o, r, g)
          BY <4>1, <4>2 DEF Traslado
        <5> QED
          BY <5>2, <5>3 DEF Traslado
      <4>4. l.colgados = o.colgados
        BY <1>8, <2>7, <2>8 DEF Aparte, MismasCpus
      <4>5. \A r \in Pid : EnCola(l, r, "BLOQUEADO") <=>
                              EnCola(o, r, "BLOQUEADO") /\ r # p
        BY <4>3 DEF Traslado, Estado
      <4>6. \A u \in [Sems -> Int] : Debe(o, u) => Debe(l, u)
        <5>1. Cede(o, l, p, s)
          BY <1>4, <1>11, <2>4, <2>10, <4>5 DEF Cede
        <5> QED
          BY <2>4, <5>1, DejaDeEsperar
      <4>7. EnCola(o, p, "BLOQUEADO")
        BY <2>5, <4>2
      <4>8. b => Suelto(o, p) /\ \A r \in Cpus : ~Nombra(o, r, p)
        BY <1>3, <1>5, <2>4, <4>7, AfueraSuelto DEF Vale
      <4>9. Avanza(o, l, x, b, f)
        BY <1>3, <1>5, <2>4, <4>3, <4>4, <4>6, <4>8, TrasladoAvanza
      <4> QED
        BY <4>9, AvanzaPartes
    <3>2. CASE ~Mueve(m, p, "BLOQUEADO")
      <4>1. d = m /\ ~k.activa
        BY <1>4, <1>8, <2>5, <2>7, <3>2 DEF Mueve, Aparte, MismasCpus
      <4>2. Aparte(o, l)
        BY <1>8, <2>8, <4>1 DEF Aparte, MismasCpus, MismoResto
      <4>3. l.cola = o.cola
        BY <1>7, <2>8, <4>1
      <4>4. Progresa(o, l, x, b, f)
        BY <1>5, <4>2, <4>3, SemaforoProgresa
      <4> QED
        BY <1>4, <4>1, <4>4 DEF Salda
    <3> QED
      BY <3>1, <3>2
  <2>12. Pasa(k, l, x, b, f)
    <3>1. Avanza(o, l, x, b, f)
      BY <2>11, AvanzaPartes
    <3> QED
      BY <1>5, <3>1, PasaAlAvanzar, PasaTransitiva
  <2>13. Vale(l, b, f)
    BY <2>12 DEF Pasa, Progresa
  <2>14. Pasa(l, PlanificarLibre(l), x, b, f)
    BY <2>9, <2>13, PlanificarLibreAvanza, PasaAlAvanzar
  <2>15. Pasa(k, PlanificarLibre(l), x, b, f)
    BY <2>12, <2>14, PasaTransitiva
  <2>16. i # 0
    BY <2>3
  <2> QED
    BY <1>2, <2>12, <2>15, <2>16
<1> QED
  BY <1>9, <1>10

\* An exit code is written.
LEMMA CodigoAvanza ==
    ASSUME NEW k, Bien(k), NEW p \in Pid, NEW code \in ExitCode,
           NEW x, NEW b \in BOOLEAN, NEW f \in BOOLEAN, Vale(k, b, f)
    PROVE  /\ Bien([k EXCEPT !.ec[p] = code])
           /\ Avanza(k, [k EXCEPT !.ec[p] = code], x, b, f)
<1>1. Bien([k EXCEPT !.ec[p] = code])
  BY CambioBien
<1>. DEFINE m == [k EXCEPT !.ec[p] = code]
<1>2. Avanza(k, m, x, b, f)
  <2>1. Aparte(k, m) /\ MismosSemaforos(k, m) /\ m.cola = k.cola
    BY DEF Aparte, MismasCpus, MismosSemaforos, Bien, Sistema
  <2>. HIDE DEF m
  <2> QED
    BY <2>1, AparteAvanza
<1> QED
  BY <1>1, <1>2

\* A request for more memory than a page: its CPU will say that it aborts
\* the process that was finished.
LEMMA PedidoBloqueGrandeAvanza ==
    ASSUME NEW k, Bien(k), NEW c \in Cpus, k.enCpu[c] # 0,
           k.pidEn[c] = k.enCpu[c],
           NEW x, NEW b \in BOOLEAN, NEW f \in BOOLEAN, ~f, Vale(k, b, f)
    PROVE  Avanza(k, PedidoBloqueGrande(k, c), x, b, f)
<1>. DEFINE p == k.pidEn[c]
            code == "MALLOC_MAYOR_A_PAGESIZE"
            e == [k EXCEPT !.ec[p] = code]
            d == EjecutandoAFinalizados(e, p)
            a == IF p \in k.consolas THEN Append(d.avisos[p], code)
                 ELSE d.avisos[p]
            m == [d EXCEPT !.avisos[p] = a, !.modo[c] = "abortando"]
<1>1. CASE ~BuscarPcb(k, p)
  <2>1. "caido" \in Vida \ {"vivo"}
    BY DEF Vida
  <2>2. Avanza(k, [k EXCEPT !.vivo = "caido"], x, b, f)
    BY <2>1, MuerteAvanza
  <2> QED
    BY <1>1, <2>2 DEF PedidoBloqueGrande
<1>2. CASE BuscarPcb(k, p)
  <2>1. p \in Pid /\ k.enCpu[c] = p /\ code \in ExitCode
    BY RecibirPcbBien DEF ExitCode
  <2>2. PedidoBloqueGrande(k, c) = m
    <3>1. PedidoBloqueGrande(k, c) =
            [d EXCEPT !.modo[c] = "abortando",
                !.avisos[p] = IF p \in k.consolas THEN Append(@, code) ELSE @]
      BY <1>2 DEF PedidoBloqueGrande
    <3>. HIDE DEF p, code, d
    <3> QED
      BY <3>1
  <2>3. Bien(e) /\ Avanza(k, e, x, b, f)
    BY <2>1, CodigoAvanza
  <2>. HIDE DEF p, code
  <2>4. e.enCpu = k.enCpu /\ e.modo = k.modo
    BY DEF Bien, Sistema
  <2>. HIDE DEF e
  <2>5. Bien(d) /\ Vale(e, b, f)
    BY <2>1, <2>3, FinalizarBien DEF Avanza
  <2>6. /\ d.colgados = e.colgados
        /\ Mueve(e, p, "EJECUTANDO") =>
              MismosSemaforos(LimpiarSemaforos(e, p), d)
        /\ IF Mueve(e, p, "EJECUTANDO") THEN Traslado(e, d, p, "TERMINADO")
           ELSE d = e
    BY <2>1, <2>3, FinalizarTraslada, PasosSemaforos
  <2>7. Salda(e, d, b)
    <3>1. CASE Mueve(e, p, "EJECUTANDO")
      BY <2>1, <2>3, <2>6, <3>1, DebeAlFinalizar DEF Salda
    <3>2. CASE ~Mueve(e, p, "EJECUTANDO")
      BY <2>6, <3>2 DEF Salda
    <3> QED
      BY <3>1, <3>2
  <2>8. MismoResto(e, d)
    <3>1. MismoResto(e, e)
      BY DEF MismoResto
    <3> QED
      BY <2>6, <3>1 DEF Traslado
  <2>. HIDE DEF d, a
  <2>9. /\ m.activa = d.activa /\ m.maxPID = d.maxPID /\ m.cola = d.cola
        /\ m.enCpu = d.enCpu /\ m.pidEn = d.pidEn /\ m.vivo = d.vivo
        /\ m.consolas = d.consolas /\ m.consola = d.consola
        /\ MismosSemaforos(d, m)
        /\ m.modo = [d.modo EXCEPT ![c] = "abortando"]
    BY <2>5 DEF MismosSemaforos, Bien, Sistema
  <2>10. /\ d.modo \in [Cpus -> ModoCpu]
         /\ d.enCpu \in [Cpus -> 0..MaxPid] /\ d.enCpu[c] = p
    BY <2>1, <2>4, <2>5, <2>8 DEF MismoResto, Bien, Sistema
  <2>. HIDE DEF m
  <2>11. \A h \in Cpus : m.modo[h] = IF h = c THEN "abortando" ELSE d.modo[h]
    BY <2>9, <2>10
  <2>12. \A q, g : EnCola(m, q, g) <=> EnCola(d, q, g)
    BY <2>9 DEF EnCola
  <2>13. \A q \in Pid \ {p}, g \in Estado : EnCola(m, q, g) <=> EnCola(e, q, g)
    BY <2>6, <2>12 DEF Traslado
  <2>14. Adentro(e, p) => Adentro(m, p)
    BY <2>1, <2>6, <2>12 DEF Traslado, Adentro, Estado
  <2>15. "EJECUTANDO" \in Estado /\ "TERMINADO" \in Estado /\ "NUEVO" \in Estado
    BY DEF Estado
  <2>16. \A q \in Pid : Adentro(e, q) => Adentro(m, q)
    BY <2>13, <2>14, <2>15 DEF Adentro
  <2>17. /\ m.enCpu = e.enCpu /\ m.pidEn = e.pidEn /\ m.vivo = e.vivo
         /\ m.activa = e.activa /\ m.maxPID = e.maxPID
         /\ m.consolas = e.consolas /\ m.consola = e.consola
         /\ \A h \in Cpus : m.modo[h] = IF h = c THEN "abortando" ELSE e.modo[h]
    BY <2>8, <2>9, <2>11 DEF MismoResto
  <2>18. \A h \in Cpus : e.enCpu[h] # 0 => e.enCpu[h] \in Pid
    BY <2>3, RecibirPcbBien
  <2>19. Sostenidos(e, Cpus) => Sostenidos(m, Cpus)
    BY <2>16, <2>17, <2>18 DEF Sostenidos, ConPcb
  <2>20. Orden(e, Cpus) => Orden(m, Cpus)
    <3>. SUFFICES ASSUME Orden(e, Cpus) PROVE Orden(m, Cpus)
      OBVIOUS
    <3>1. \A h \in Cpus \ {c} : e.enCpu[h] # 0 => e.enCpu[h] # p
      BY <2>1, <2>4 DEF Orden, Sostenidos
    <3>2. \A h \in Cpus : m.enCpu[h] # 0 =>
             EnCola(m, m.enCpu[h], "EJECUTANDO") \/ m.modo[h] = "abortando"
      BY <2>13, <2>15, <2>17, <2>18, <3>1 DEF Orden
    <3>3. \A h \in Cpus : \A q : Nombra(m, h, q) => Nombra(e, h, q)
      BY <2>17 DEF Nombra, Muertas
    <3>4. \A q : Suelto(e, q) => Suelto(m, q)
      BY <2>17 DEF Suelto
    <3>5. \A h \in Cpus, q \in Pid : Nombra(m, h, q) => Adentro(m, q) /\ Suelto(m, q)
      BY <2>16, <3>3, <3>4 DEF Orden
    <3> QED
      BY <2>19, <3>2, <3>5 DEF Orden
  <2>21. Conectados(e) => Conectados(m)
    <3>1. \A q \in Pid : EnCola(m, q, "NUEVO") => EnCola(e, q, "NUEVO")
      BY <2>6, <2>12, <2>15 DEF Traslado
    <3> QED
      BY <2>17, <3>1 DEF Conectados
  <2>22. Completo(e) => Completo(m)
    <3>1. \A q \in Pid, g \in Estado : EnCola(e, q, g) =>
             \E h \in Estado : EnCola(m, q, h)
      BY <2>6, <2>12, <2>15 DEF Traslado
    <3> QED
      BY <2>17, <3>1 DEF Completo
  <2>23. Salda(e, m, b)
    <3>1. \A u : Debe(d, u) => Debe(m, u)
      BY <2>9, <2>12 DEF Debe, Esperan, MismosSemaforos
    <3> QED
      BY <2>7, <3>1 DEF Salda
  <2>24. Vale(m, b, f)
    BY <2>5, <2>20 DEF Vale
  <2>25. Avanza(e, m, x, b, f)
    BY <2>17, <2>21, <2>22, <2>23, <2>24 DEF Avanza, Salda
  <2>26. Avanza(k, m, x, b, f)
    BY <2>3, <2>25, AvanzaTransitiva
  <2> QED
    BY <2>2, <2>26
<1> QED
  BY <1>1, <1>2

\* A CPU is gone: the process the kernel believes on it is finished.
LEMMA TerminarProcesoAvanza ==
    ASSUME NEW k, Bien(k), NEW c \in Cpus, k.modo[c] = "muerta",
           NEW x, NEW b \in BOOLEAN, NEW f \in BOOLEAN, Vale(k, b, f)
    PROVE  Avanza(k, TerminarProcesoEjecutandoEnCpu(k, c, x), x, b, f)
<1>. DEFINE p == k.pidEn[c]
            code == "DESCONEXION_CPU"
            e == [k EXCEPT !.ec[p] = code]
            a == InformarAConsola(PedirAMemoriaFinalizarProceso(e, p), p, code)
            d == EjecutandoAFinalizados(a, p)
<1>1. CASE ~EnCola(k, p, "EJECUTANDO")
  BY <1>1, AvanzaIgual DEF TerminarProcesoEjecutandoEnCpu
<1>2. CASE EnCola(k, p, "EJECUTANDO")
  <2>1. p \in Pid
    <3>1. k.cola["EJECUTANDO"] \in Seq(Pid)
      BY DEF Bien, Sistema, Estado
    <3> QED
      BY <1>2, <3>1, ElementOfSeq DEF EnCola, Contains
  <2>2. TerminarProcesoEjecutandoEnCpu(k, c, x) =
          PasarProximoProcDeNewAReady(d, x)
    BY <1>2, Zenon DEF TerminarProcesoEjecutandoEnCpu
  <2>3. code \in ExitCode
    BY DEF ExitCode
  <2>4. ~EnCola(k, p, "NUEVO")
    BY <1>2, UnaCola DEF Estado
  <2>5. b => Suelto(k, p)
    BY <2>1 DEF Vale, Orden, Nombra, Muertas
  <2>. HIDE DEF p, code
  <2>6. Bien(e) /\ Avanza(k, e, x, b, f)
    BY <2>1, <2>3, CodigoAvanza
  <2>7. e.cola = k.cola /\ e.enCpu = k.enCpu
    BY DEF Bien, Sistema
  <2>. HIDE DEF e
  <2>8. Vale(e, b, f) /\ ~EnCola(e, p, "NUEVO")
    BY <2>4, <2>6, <2>7 DEF Avanza, EnCola
  <2>9. Bien(a) /\ Avanza(e, a, x, b, f)
    BY <2>1, <2>3, <2>6, <2>8, AvisarBien, AvisarAvanza
  <2>10. a.enCpu = e.enCpu
    BY <2>6 DEF InformarAConsola, EliminarPidProgramaSocket,
                PedirAMemoriaFinalizarProceso, Bien, Sistema
  <2>. HIDE DEF a
  <2>11. Vale(a, b, f) /\ (b => Suelto(a, p))
    BY <2>5, <2>7, <2>9, <2>10 DEF Avanza, Suelto
  <2>12. Bien(d) /\ Avanza(a, d, x, b, f)
    BY <2>1, <2>3, <2>9, <2>11, FinalizarBien, PasosAvanzan
  <2>. HIDE DEF d
  <2>13. Vale(d, b, f)
    BY <2>12 DEF Avanza
  <2>14. Avanza(d, PasarProximoProcDeNewAReady(d, x), x, b, f)
    BY <2>12, <2>13, PasarProximoAvanza
  <2>15. Avanza(k, d, x, b, f)
    <3>1. Avanza(k, a, x, b, f)
      BY <2>6, <2>9, AvanzaTransitiva
    <3> QED
      BY <2>12, <3>1, AvanzaTransitiva
  <2> QED
    BY <2>2, <2>14, <2>15, AvanzaTransitiva
<1> QED
  BY <1>1, <1>2

\* What is done while a CPU that is gone is noticed: c is not handed a
\* process unless it is in cpusLibres, and q does not come back.
Guarda(k, m, c, q) ==
    /\ Fin(k, q) => Fin(m, q)
    /\ ~Contains(k.libres, c) =>
          ~Contains(m.libres, c) /\ m.pidEn[c] = k.pidEn[c]

\* One piece after another.
LEMMA GuardaTransitiva ==
    ASSUME NEW k, NEW l, NEW m, NEW c, NEW q,
           Guarda(k, l, c, q), Guarda(l, m, c, q)
    PROVE  Guarda(k, m, c, q)
BY DEF Guarda

\* Neither the CPUs nor the queues.
LEMMA GuardaIgual ==
    ASSUME NEW k, NEW m, NEW c, NEW q, m.cola = k.cola,
           m.libres = k.libres, m.pidEn = k.pidEn
    PROVE  Guarda(k, m, c, q)
BY DEF Guarda, Fin, EnCola

\* EXECUTE to another CPU.
LEMMA EjecutarSiguienteGuarda ==
    ASSUME NEW k, Bien(k), k.activa, NEW d \in Cpus, NEW c \in Cpus, c # d,
           NEW q \in Pid
    PROVE  Guarda(k, EjecutarSiguientePcbEnCpu(k, d), c, q)
<1>1. CASE ~HayListos(k)
  BY <1>1, GuardaIgual DEF EjecutarSiguientePcbEnCpu
<1>2. CASE HayListos(k)
  <2>. DEFINE p == Head(k.cola["LISTO"])
              m == EjecutarSiguientePcbEnCpu(k, d)
  <2>1. /\ p \in Pid /\ EnCola(k, p, "LISTO")
        /\ \A r \in Pid, e \in Estado :
              EnCola(m, r, e) <=>
                 IF r = p THEN e = "EJECUTANDO" ELSE EnCola(k, r, e)
        /\ m.libres = k.libres
        /\ m.pidEn = [k.pidEn EXCEPT ![d] = p]
    BY <1>2, EjecutarSiguienteHace
  <2>. HIDE DEF m, p
  <2>2. "LISTO" \in Estado /\ "TERMINADO" \in Estado
    BY DEF Estado
  <2>3. Fin(k, q) => q # p
    BY <2>1, <2>2, UnaCola DEF Fin
  <2>4. Fin(k, q) => Fin(m, q)
    BY <2>1, <2>2, <2>3 DEF Fin
  <2>5. m.pidEn[c] = k.pidEn[c]
    BY <2>1 DEF Bien, Sistema
  <2>6. Guarda(k, m, c, q)
    BY <2>1, <2>4, <2>5 DEF Guarda
  <2> QED
    BY <2>6 DEF m
<1> QED
  BY <1>1, <1>2

\* planificar(NULL).
LEMMA PlanificarLibreGuarda ==
    ASSUME NEW k, Bien(k), NEW c \in Cpus, ~Contains(k.libres, c), NEW q \in Pid
    PROVE  Guarda(k, PlanificarLibre(k), c, q)
<1>. DEFINE d == Head(k.libres)
            t == Tail(k.libres)
            a == Append(k.ocupadas, d)
            n == IF Algoritmo = "RR" THEN k.quantum[d] + 1 ELSE k.quantum[d]
            m == [k EXCEPT !.libres = t, !.ocupadas = a, !.quantum[d] = n]
<1>1. CASE ~k.activa \/ k.libres = <<>>
  BY <1>1, GuardaIgual DEF PlanificarLibre
<1>2. CASE k.activa /\ k.libres # <<>>
  <2>1. k.libres \in Seq(Cpus) /\ k.ocupadas \in Seq(Cpus)
    BY DEF Bien, Sistema
  <2>2. d \in Cpus /\ t \in Seq(Cpus)
    BY <1>2, <2>1, HeadTailProperties
  <2>3. /\ d # c /\ ~Contains(t, c)
    <3>1. \A e : Contains(k.libres, e) <=> e = d \/ Contains(t, e)
      BY <1>2, <2>1, Pertenencia
    <3> QED
      BY <3>1
  <2>. HIDE DEF d, t
  <2>4. a \in Seq(Cpus)
    BY <2>1, <2>2, AppendProperties
  <2>5. n \in Nat
    BY <2>2 DEF Bien, Sistema
  <2>6. PlanificarLibre(k) = EjecutarSiguientePcbEnCpu(m, d)
    <3>1. PlanificarLibre(k) = EjecutarSiguientePcbEnCpu(
            [k EXCEPT !.libres = Tail(@), !.ocupadas = Append(@, d),
                !.quantum[d] = IF Algoritmo = "RR" THEN @ + 1 ELSE @], d)
      BY <1>2 DEF PlanificarLibre, d
    <3>2. [k EXCEPT !.libres = Tail(@), !.ocupadas = Append(@, d),
                !.quantum[d] = IF Algoritmo = "RR" THEN @ + 1 ELSE @] = m
      BY DEF Bien, Sistema, t
    <3> QED
      BY <3>1, <3>2, Zenon
  <2>. HIDE DEF a, n
  <2>7. m \in Sistema
    BY <2>2, <2>4, <2>5 DEF Bien, Sistema
  <2>8. /\ m.cola = k.cola /\ m.cantidad = k.cantidad /\ m.maxPID = k.maxPID
        /\ m.activa = k.activa /\ m.libres = t /\ m.pidEn = k.pidEn
    BY DEF Bien, Sistema
  <2>. HIDE DEF m
  <2>9. Bien(m)
    BY <2>7, <2>8, MismasColas
  <2>10. Guarda(k, m, c, q)
    BY <2>3, <2>8 DEF Guarda, Fin, EnCola
  <2>11. Guarda(m, EjecutarSiguientePcbEnCpu(m, d), c, q)
    BY <1>2, <2>2, <2>3, <2>8, <2>9, EjecutarSiguienteGuarda
  <2> QED
    BY <2>6, <2>10, <2>11, GuardaTransitiva
<1> QED
  BY <1>1, <1>2

\* AdmitirNuevo.
LEMMA AdmitirNuevoGuarda ==
    ASSUME NEW k, Bien(k), NEW p \in Pid, p <= k.maxPID, NEW x,
           \A e \in Estado : ~Contains(k.cola[e], p),
           NEW c \in Cpus, ~Contains(k.libres, c), NEW q \in Pid
    PROVE  Guarda(k, AdmitirNuevo(k, p, x), c, q)
<1>. DEFINE m == [k EXCEPT !.paginas = @ \cup {p}]
            l == NuevoAListos(m, p)
            code == "NO_SE_PUDO_ASIGNAR_RECURSO"
            r == SinMemoria(k, p)
            i == InformarAConsola(r, p, code)
<1>1. "NUEVO" \in Estado /\ "TERMINADO" \in Estado
  BY DEF Estado
<1>2. ~EnCola(k, p, "NUEVO") /\ ~Fin(k, p)
  BY <1>1 DEF EnCola, Fin
<1>3. CASE x.memoria
  <2>0. m \in Sistema
    BY DEF Bien, Sistema
  <2>1. /\ m.cola = k.cola /\ m.maxPID = k.maxPID /\ m.activa = k.activa
        /\ m.cantidad = k.cantidad
        /\ m.libres = k.libres /\ m.pidEn = k.pidEn
    BY DEF Bien, Sistema
  <2>. HIDE DEF m
  <2>2. Bien(m)
    BY <2>0, <2>1, MismasColas
  <2>3. Guarda(k, m, c, q)
    BY <2>1, GuardaIgual
  <2>4. Bien(l)
    BY <2>1, <2>2, NuevoAListosBien
  <2>5. IF m.activa THEN Traslado(m, l, p, "LISTO") ELSE l = m
    BY <2>1, <2>2, NuevoAListosTraslada
  <2>. HIDE DEF l
  <2>6. Guarda(m, l, c, q) /\ l.libres = m.libres
    <3>1. CASE m.activa
      <4>1. Traslado(m, l, p, "LISTO")
        BY <2>5, <3>1
      <4>2. Fin(m, q) => q # p
        BY <1>2, <2>1 DEF Fin, EnCola
      <4> QED
        BY <1>1, <4>1, <4>2 DEF Traslado, MismoResto, Guarda, Fin
    <3>2. CASE ~m.activa
      BY <2>5, <3>2, GuardaIgual
    <3> QED
      BY <3>1, <3>2
  <2>7. Guarda(k, l, c, q)
    BY <2>3, <2>6, GuardaTransitiva
  <2>8. Guarda(l, PlanificarLibre(l), c, q)
    BY <2>1, <2>4, <2>6, PlanificarLibreGuarda
  <2>9. Guarda(k, PlanificarLibre(l), c, q)
    BY <2>7, <2>8, GuardaTransitiva
  <2> QED
    BY <1>3, <2>7, <2>9, Zenon DEF AdmitirNuevo, l, m
<1>4. CASE ~x.memoria
  <2>1. r \in Sistema
        /\ r.cola = k.cola /\ r.libres = k.libres /\ r.pidEn = k.pidEn
    BY SinMemoriaBien DEF SinMemoria, Bien, Sistema
  <2>2. AdmitirNuevo(k, p, x) = i
    BY <1>4, AdmitirRechaza, Zenon DEF i, r, code
  <2>. HIDE DEF r
  <2>3. i.cola = k.cola /\ i.libres = k.libres /\ i.pidEn = k.pidEn
    BY <2>1 DEF InformarAConsola, EliminarPidProgramaSocket, Sistema
  <2>. HIDE DEF i
  <2> QED
    BY <2>2, <2>3, GuardaIgual
<1> QED
  BY <1>3, <1>4

\* PasarProximoProcDeNewAReady, on each of its ways out.
LEMMA PasarProximoGuarda ==
    ASSUME NEW k, Bien(k), NEW x, NEW c \in Cpus, ~Contains(k.libres, c),
           NEW q \in Pid
    PROVE  Guarda(k, PasarProximoProcDeNewAReady(k, x), c, q)
<1>. DEFINE p == Head(k.cola["NUEVO"])
            m == [k EXCEPT !.cola["NUEVO"] = Tail(@)]
<1>1. CASE ~k.activa \/ k.cola["NUEVO"] = <<>>
  BY <1>1, GuardaIgual DEF PasarProximoProcDeNewAReady
<1>2. CASE ~(~k.activa \/ k.cola["NUEVO"] = <<>>)
  <2>1. /\ Bien(m) /\ p \in Pid /\ p <= m.maxPID
        /\ \A e \in Estado : ~Contains(m.cola[e], p)
    BY <1>2, QuitadoBien
  <2>2. /\ MismoResto(k, m) /\ EnCola(k, p, "NUEVO")
        /\ \A r \in Pid, g \in Estado :
              EnCola(m, r, g) <=> EnCola(k, r, g) /\ r # p
    BY <1>2, QuitadoDonde
  <2>3. PasarProximoProcDeNewAReady(k, x) =
          CASE p \notin k.consolas -> [m EXCEPT !.vivo = "caido"]
            [] p \in k.consolas /\ k.consola[p] = "finalizando" ->
                 [m EXCEPT !.vivo = "colgado"]
            [] p \in k.consolas /\ k.consola[p] = "cerrando" /\ x.basura ->
                 [m EXCEPT !.vivo = "caido"]
            [] OTHER -> AdmitirNuevo(m, p, x)
    BY <1>2 DEF PasarProximoProcDeNewAReady
  <2>. HIDE DEF p, m
  <2>4. "NUEVO" \in Estado /\ "TERMINADO" \in Estado
    BY DEF Estado
  <2>5. ~Fin(k, p)
    BY <2>1, <2>2, <2>4, UnaCola DEF Fin
  <2>6. Guarda(k, m, c, q) /\ m.libres = k.libres
    BY <2>2, <2>4, <2>5 DEF Guarda, Fin, MismoResto
  <2>7. ASSUME NEW v PROVE Guarda(m, [m EXCEPT !.vivo = v], c, q)
    <3>. DEFINE n == [m EXCEPT !.vivo = v]
    <3>1. n.cola = m.cola /\ n.libres = m.libres /\ n.pidEn = m.pidEn
      BY <2>1 DEF Bien, Sistema
    <3>. HIDE DEF n
    <3>2. Guarda(m, n, c, q)
      BY <3>1, GuardaIgual
    <3> QED
      BY <3>2 DEF n
  <2>8. Guarda(m, AdmitirNuevo(m, p, x), c, q)
    BY <2>1, <2>6, AdmitirNuevoGuarda
  <2>9. Guarda(m, PasarProximoProcDeNewAReady(k, x), c, q)
    BY <2>3, <2>7, <2>8
  <2> QED
    BY <2>6, <2>9, GuardaTransitiva
<1> QED
  BY <1>1, <1>2

\* The process of a CPU that is gone runs nowhere any more.
LEMMA TerminarProcesoLibera ==
    ASSUME NEW k, Bien(k), k.activa, NEW c \in Cpus, k.modo[c] = "muerta",
           Ociosas(k), NEW x
    PROVE  LET m == TerminarProcesoEjecutandoEnCpu(k, c, x)
           IN  ~EnCola(m, m.pidEn[c], "EJECUTANDO")
<1>. DEFINE p == k.pidEn[c]
            code == "DESCONEXION_CPU"
            e == [k EXCEPT !.ec[p] = code]
            a == InformarAConsola(PedirAMemoriaFinalizarProceso(e, p), p, code)
            d == EjecutandoAFinalizados(a, p)
            m == TerminarProcesoEjecutandoEnCpu(k, c, x)
<1>0. "EJECUTANDO" \in Estado /\ "TERMINADO" \in Estado
  BY DEF Estado
<1>1. CASE ~EnCola(k, p, "EJECUTANDO")
  BY <1>1 DEF TerminarProcesoEjecutandoEnCpu
<1>2. CASE EnCola(k, p, "EJECUTANDO")
  <2>1. p \in Pid
    <3>1. k.cola["EJECUTANDO"] \in Seq(Pid)
      BY DEF Bien, Sistema, Estado
    <3> QED
      BY <1>2, <3>1, ElementOfSeq DEF EnCola, Contains
  <2>2. ~Contains(k.libres, c)
    BY <2>1 DEF Ociosas, Dispuesta, Pid
  <2>3. m = PasarProximoProcDeNewAReady(d, x)
    BY <1>2, Zenon DEF TerminarProcesoEjecutandoEnCpu
  <2>4. code \in ExitCode
    BY DEF ExitCode
  <2>. HIDE DEF code, m
  <2>5. Bien(e)
    BY <2>1, <2>4, CambioBien
  <2>6. e.cola = k.cola /\ e.libres = k.libres /\ e.pidEn = k.pidEn
        /\ e.activa = k.activa
    BY DEF Bien, Sistema
  <2>. HIDE DEF e
  <2>7. Bien(a)
    BY <2>1, <2>4, <2>5, AvisarBien
  <2>8. a.cola = e.cola /\ a.libres = e.libres /\ a.pidEn = e.pidEn
        /\ a.activa = e.activa
    BY <2>5 DEF InformarAConsola, EliminarPidProgramaSocket,
                PedirAMemoriaFinalizarProceso, Bien, Sistema
  <2>. HIDE DEF a
  <2>9. Mueve(a, p, "EJECUTANDO")
    BY <1>2, <2>6, <2>8 DEF Mueve, EnCola
  <2>10. Bien(d) /\ Traslado(a, d, p, "TERMINADO")
    BY <2>1, <2>4, <2>7, <2>9, FinalizarBien, FinalizarTraslada
  <2>. HIDE DEF d
  <2>11. Fin(d, p) /\ ~Contains(d.libres, c) /\ d.pidEn[c] = p
    BY <1>0, <2>1, <2>2, <2>6, <2>8, <2>10 DEF Traslado, MismoResto, Fin
  <2>. HIDE DEF p
  <2>12. Bien(m) /\ Guarda(d, m, c, p)
    BY <2>1, <2>3, <2>10, <2>11, PasarProximoBien, PasarProximoGuarda
  <2>13. Fin(m, p) /\ m.pidEn[c] = p
    BY <2>11, <2>12 DEF Guarda
  <2>14. ~EnCola(m, p, "EJECUTANDO")
    BY <1>0, <2>12, <2>13, UnaCola DEF Fin
  <2> QED
    BY <2>13, <2>14 DEF m
<1> QED
  BY <1>1, <1>2

\* Its entry leaves the kernel's lists.
LEMMA RemoverCpuAvanza ==
    ASSUME NEW k, Bien(k), NEW c \in Cpus, k.enCpu[c] = 0,
           NEW basura,
           NEW x, NEW b \in BOOLEAN, NEW f \in BOOLEAN, Vale(k, b, f),
           b /\ f /\ k.activa => ~EnCola(k, k.pidEn[c], "EJECUTANDO")
    PROVE  Avanza(k, RemoverCpuDeLaLista(k, c, basura), x, b, f)
<1>. DEFINE m == RemoverCpuDeLaLista(k, c, basura)
            l == RemoveFirst(k.libres, c)
            o == RemoveFirst(k.ocupadas, c)
<1>1. /\ m.maxPID = k.maxPID /\ m.activa = k.activa /\ m.cola = k.cola
      /\ m.vivo = k.vivo /\ m.destruir = k.destruir
      /\ m.colgados = k.colgados
      /\ m.consolas = k.consolas /\ m.consola = k.consola
      /\ m.enCpu = k.enCpu /\ MismosSemaforos(k, m)
      /\ m.modo = [k.modo EXCEPT ![c] = "fuera"]
      /\ m.pidEn = [k.pidEn EXCEPT ![c] = basura]
  BY DEF RemoverCpuDeLaLista, MismosSemaforos, Bien, Sistema
<1>2. /\ m.libres = IF Contains(k.libres, c) THEN l ELSE k.libres
      /\ m.ocupadas = IF Contains(k.libres, c) THEN k.ocupadas ELSE o
  BY DEF RemoverCpuDeLaLista, Bien, Sistema
<1>3. /\ k.modo \in [Cpus -> ModoCpu] /\ k.pidEn \in [Cpus -> 0..MaxPid]
      /\ k.libres \in Seq(Cpus) /\ k.ocupadas \in Seq(Cpus)
  BY DEF Bien, Sistema
<1>4. /\ \A d : d # c => (Contains(l, d) <=> Contains(k.libres, d))
      /\ \A d : d # c => (Contains(o, d) <=> Contains(k.ocupadas, d))
  BY <1>3, Pertenencia
<1>5. /\ SinDobles(k.libres) => SinDobles(l) /\ ~Contains(l, c)
      /\ SinDobles(k.ocupadas) => SinDobles(o) /\ ~Contains(o, c)
  BY <1>3, SinDoblesTras
<1>. HIDE DEF m, l, o
<1>6. \A d \in Cpus : /\ m.modo[d] = IF d = c THEN "fuera" ELSE k.modo[d]
                      /\ d # c => m.pidEn[d] = k.pidEn[d]
  BY <1>1, <1>3
<1>7. \A d \in Cpus : d # c =>
         /\ Contains(m.libres, d) <=> Contains(k.libres, d)
         /\ Contains(m.ocupadas, d) <=> Contains(k.ocupadas, d)
  BY <1>2, <1>4
<1>8. \A q, e : EnCola(m, q, e) <=> EnCola(k, q, e)
  BY <1>1 DEF EnCola
<1>9. \A q : (Adentro(m, q) <=> Adentro(k, q)) /\ (Suelto(m, q) <=> Suelto(k, q))
  BY <1>1, <1>8 DEF Adentro, Suelto
<1>10. \A d \in Cpus : \A q : Nombra(m, d, q) <=> d # c /\ Nombra(k, d, q)
  BY <1>6 DEF Nombra, Muertas
<1>11. Orden(k, Cpus) => Orden(m, Cpus)
  <2>1. Sostenidos(k, Cpus) => Sostenidos(m, Cpus)
    BY <1>1, <1>6, <1>9 DEF Sostenidos
  <2> QED
    BY <1>1, <1>6, <1>8, <1>9, <1>10, <2>1 DEF Orden
<1>12. Conectados(k) => Conectados(m)
  BY <1>1, <1>8 DEF Conectados
<1>13. Firme(k) => Firme(m) /\ ~Contains(m.libres, c)
  <2>. SUFFICES ASSUME Firme(k) PROVE Firme(m) /\ ~Contains(m.libres, c)
    OBVIOUS
  <2>1. SinDobles(k.libres) /\ SinDobles(k.ocupadas)
        /\ ~(Contains(k.libres, c) /\ Contains(k.ocupadas, c))
    BY DEF Firme
  <2>2. SinDobles(m.libres) /\ SinDobles(m.ocupadas)
    BY <1>2, <1>5, <2>1
  <2>3. ~Contains(m.libres, c) /\ ~Contains(m.ocupadas, c)
    BY <1>2, <1>5, <2>1
  <2>4. ASSUME NEW d \in Cpus
        PROVE  /\ ~(Contains(m.libres, d) /\ Contains(m.ocupadas, d))
               /\ m.modo[d] = "ausente" =>
                     ~Contains(m.libres, d) /\ ~Contains(m.ocupadas, d)
               /\ m.enCpu[d] # 0 => Contains(m.ocupadas, d)
    <3>1. CASE d = c
      BY <1>1, <2>3, <3>1
    <3>2. CASE d # c
      BY <1>1, <1>6, <1>7, <3>2 DEF Firme
    <3> QED
      BY <3>1, <3>2
  <2> QED
    BY <1>1, <1>12, <2>2, <2>3, <2>4 DEF Firme
<1>14. Ociosas(k) /\ ~Contains(m.libres, c) => Ociosas(m)
  BY <1>6, <1>7 DEF Ociosas, Dispuesta
<1>15. Atendidos(k) /\ ~EnCola(k, k.pidEn[c], "EJECUTANDO") => Atendidos(m)
  <2>. SUFFICES ASSUME Atendidos(k), ~EnCola(k, k.pidEn[c], "EJECUTANDO"),
                       NEW q \in Pid, EnCola(m, q, "EJECUTANDO")
                PROVE  \E d \in Cpus : m.enCpu[d] = q \/ Nombra(m, d, q)
    BY DEF Atendidos
  <2>1. PICK d \in Cpus : k.enCpu[d] = q \/ Nombra(k, d, q)
    BY <1>8 DEF Atendidos
  <2>2. Nombra(k, d, q) => d # c
    BY <1>8 DEF Nombra
  <2> QED
    BY <1>1, <1>10, <2>1, <2>2
<1>16. Vale(m, b, f)
  BY <1>1, <1>11, <1>13, <1>14, <1>15 DEF Vale
<1>17. Completo(k) => Completo(m)
  BY <1>1, <1>8 DEF Completo
<1>18. \A u : Debe(k, u) => Debe(m, u)
  BY <1>1, <1>8 DEF Debe, Esperan, MismosSemaforos
<1>19. Avanza(k, m, x, b, f)
  BY <1>1, <1>12, <1>16, <1>17, <1>18 DEF Avanza
<1> QED
  BY <1>19 DEF m

-----------------------------------------------------------------------------
(* Consoles and the operator.                                              *)

\* A console with something to say: its process gets a flag or finishes.
LEMMA PedidoAbortarAvanza ==
    ASSUME NEW o, NEW k, Bien(k), NEW p \in Pid, NEW code \in ExitCode,
           NEW x, NEW b \in BOOLEAN, NEW f \in BOOLEAN, Vale(o, b, f),
           ~Conectados(o),
           k.cola = o.cola, MismasCpus(o, k), MismosSemaforos(o, k)
    PROVE  Avanza(o, PedidoAbortarProgramaDeConsola(k, p, code), x, b, f)
<1>. DEFINE s == EliminarPidProgramaSocket(k, p)
            n == [s EXCEPT !.ec[p] = code]
            e == CHOOSE g \in Estado : EnCola(k, p, g)
            d == [n EXCEPT !.destruir = @ \cup {p}]
            t == AFinalizados(n, p, e)
            a == PedirAMemoriaFinalizarProceso(t, p)
<1>0. ~f
  BY DEF Vale, Firme
<1>1. Avanza(o, k, x, b, f)
  BY MismasCpusAvanza
<1>2. Bien(s)
  BY CambioBien
<1>3. s.cola = o.cola /\ MismasCpus(o, s) /\ MismosSemaforos(o, s)
  BY DEF EliminarPidProgramaSocket, Bien, Sistema, MismasCpus, MismosSemaforos
<1>4. Avanza(o, s, x, b, f)
  BY <1>3, MismasCpusAvanza
<1>5. PedidoAbortarProgramaDeConsola(k, p, code) =
        CASE p \notin k.consolas -> k
          [] p \in k.consolas /\ ~BuscarPcb(k, p) -> s
          [] p \in k.consolas /\ EnCola(k, p, "EJECUTANDO") -> d
          [] OTHER -> a
  BY Zenon DEF PedidoAbortarProgramaDeConsola
<1>6. s.cola = k.cola
  BY DEF EliminarPidProgramaSocket, Bien, Sistema
<1>. HIDE DEF s
<1>7. Vale(s, b, f)
  BY <1>4 DEF Avanza
<1>8. Bien(n) /\ Avanza(s, n, x, b, f) /\ n.cola = k.cola
  <2>1. Bien(n)
    BY <1>2, CambioBien
  <2>2. Avanza(s, n, x, b, f)
    BY <1>2, <1>7, CodigoAvanza
  <2>3. n.cola = k.cola
    BY <1>2, <1>6 DEF Bien, Sistema
  <2> QED
    BY <2>1, <2>2, <2>3
<1>9. Avanza(o, n, x, b, f)
  BY <1>4, <1>8, AvanzaTransitiva
<1>10. Vale(n, b, f)
  BY <1>9 DEF Avanza
<1>. HIDE DEF n
<1>11. Avanza(n, d, x, b, f)
  <2>1. /\ d.activa = n.activa /\ d.cola = n.cola /\ d.maxPID = n.maxPID
        /\ d.vivo = n.vivo /\ d.pidEn = n.pidEn /\ d.enCpu = n.enCpu
        /\ d.modo = n.modo /\ d.consolas = n.consolas /\ d.consola = n.consola
        /\ MismosSemaforos(n, d)
    BY <1>8 DEF MismosSemaforos, Bien, Sistema
  <2>. HIDE DEF d
  <2> QED
    BY <1>0, <1>10, <2>1, ListasAvanzan
<1>12. Avanza(o, d, x, b, f)
  BY <1>9, <1>11, AvanzaTransitiva
<1>. HIDE DEF d
<1>13. BuscarPcb(k, p) /\ ~EnCola(k, p, "EJECUTANDO") => Avanza(o, a, x, b, f)
  <2>1. SUFFICES ASSUME BuscarPcb(k, p), ~EnCola(k, p, "EJECUTANDO")
                 PROVE  Avanza(o, a, x, b, f)
    OBVIOUS
  <2>2. PICK g \in Estado \ {"TERMINADO"} : EnCola(k, p, g)
    BY <2>1 DEF BuscarPcb, Estado
  <2>3. e \in Estado /\ EnCola(k, p, e)
    BY <2>2
  <2>. HIDE DEF e
  <2>4. e = g
    BY <2>2, <2>3, UnaCola
  <2>5. e \in Estado \ {"TERMINADO"} /\ e # "EJECUTANDO"
    BY <2>1, <2>2, <2>3, <2>4
  <2>6. Bien(t)
    BY <1>8, <2>5, FinalizarBien
  <2>7. Avanza(n, t, x, b, f)
    BY <1>8, <1>10, <2>5, PasosAvanzan
  <2>. HIDE DEF t
  <2>8. Avanza(o, t, x, b, f)
    BY <1>9, <2>7, AvanzaTransitiva
  <2>9. Vale(t, b, f)
    BY <2>8 DEF Avanza
  <2>10. Avanza(t, a, x, b, f)
    <3>1. /\ a.cola = t.cola /\ Aparte(t, a) /\ MismosSemaforos(t, a)
      BY <2>6 DEF PedirAMemoriaFinalizarProceso, Aparte, MismasCpus,
         MismosSemaforos, Bien, Sistema
    <3>. HIDE DEF a
    <3> QED
      BY <2>9, <3>1, AparteAvanza
  <2> QED
    BY <2>8, <2>10, AvanzaTransitiva
<1>. HIDE DEF a
<1> QED
  BY <1>1, <1>4, <1>5, <1>12, <1>13, Zenon

\* The operator kills a process: one that runs only gets a flag.
LEMMA MatarProcesoAvanza ==
    ASSUME NEW k, Bien(k), NEW p \in Pid,
           NEW x, NEW b \in BOOLEAN, NEW f \in BOOLEAN, Vale(k, b, f), ~f
    PROVE  Avanza(k, MatarProceso(k, p), x, b, f)
<1>. DEFINE code == "FINALIZADO_POR_COMANDO"
            d == [k EXCEPT !.colgados = @ + 1]
            n == NuevoAFinalizados(k, p, code)
            e == [k EXCEPT !.ec[p] = code]
            l == ListoAFinalizados(e, p)
            g == BloqueadoAFinalizados(k, p, code)
            sinPaginas(m) == InformarAConsola(
                PedirAMemoriaFinalizarProceso(m, p), p, m.ec[p])
<1>1. code \in ExitCode
  BY DEF ExitCode
<1>2. Avanza(k, d, x, b, f)
  <2>1. /\ d.activa = k.activa /\ d.cola = k.cola /\ d.maxPID = k.maxPID
        /\ d.vivo = k.vivo /\ d.pidEn = k.pidEn /\ d.enCpu = k.enCpu
        /\ d.modo = k.modo /\ d.consolas = k.consolas /\ d.consola = k.consola
        /\ MismosSemaforos(k, d)
    BY DEF MismosSemaforos, Bien, Sistema
  <2>. HIDE DEF d
  <2> QED
    BY <2>1, ListasAvanzan
<1>3. MatarProceso(k, p) =
        CASE EstaElProcesoEnEjecucion(k, p) -> d
          [] ~EstaElProcesoEnEjecucion(k, p) /\ EnCola(k, p, "NUEVO") -> n
          [] ~EstaElProcesoEnEjecucion(k, p) /\ EnCola(k, p, "LISTO") ->
                sinPaginas(l)
          [] ~EstaElProcesoEnEjecucion(k, p) /\ EnCola(k, p, "BLOQUEADO") ->
                sinPaginas(g)
          [] OTHER -> k
  BY Zenon DEF MatarProceso
<1>. HIDE DEF code, d
<1>4. Bien(n) /\ Bien(g) /\ Avanza(k, n, x, b, f) /\ Avanza(k, g, x, b, f)
  BY <1>1, FinalizarBien, PasosAvanzan
<1>5. Bien(e) /\ Avanza(k, e, x, b, f) /\ e.cola = k.cola
  <2>1. Bien(e)
    BY <1>1, CambioBien
  <2>2. Avanza(k, e, x, b, f)
    BY <1>1, CodigoAvanza
  <2>3. e.cola = k.cola
    BY DEF Bien, Sistema
  <2> QED
    BY <2>1, <2>2, <2>3
<1>6. Vale(e, b, f)
  BY <1>5 DEF Avanza
<1>. HIDE DEF e
<1>7. Bien(l) /\ Avanza(e, l, x, b, f)
  BY <1>1, <1>5, <1>6, PasosBien, PasosAvanzan
<1>8. Avanza(k, l, x, b, f)
  BY <1>5, <1>7, AvanzaTransitiva
<1>9. EnCola(k, p, "LISTO") => ~EnCola(l, p, "NUEVO")
  <2>1. SUFFICES ASSUME EnCola(k, p, "LISTO") PROVE ~EnCola(l, p, "NUEVO")
    OBVIOUS
  <2>2. IF Mueve(e, p, "LISTO") THEN Traslado(e, l, p, "TERMINADO") ELSE l = e
    BY <1>5, PasosTrasladan DEF ListoAFinalizados, EnSistema
  <2>3. ~EnCola(e, p, "NUEVO")
    <3>1. EnCola(e, p, "LISTO")
      BY <1>5, <2>1 DEF EnCola
    <3> QED
      BY <1>5, <3>1, UnaCola DEF Estado
  <2>. HIDE DEF l
  <2> QED
    BY <2>2, <2>3 DEF Traslado, Estado
<1>10. EnCola(k, p, "BLOQUEADO") => ~EnCola(g, p, "NUEVO")
  <2>1. SUFFICES ASSUME EnCola(k, p, "BLOQUEADO") PROVE ~EnCola(g, p, "NUEVO")
    OBVIOUS
  <2>2. IF Mueve(k, p, "BLOQUEADO") THEN Traslado(k, g, p, "TERMINADO")
        ELSE g = k
    BY <1>1, FinalizarTraslada
  <2>3. ~EnCola(k, p, "NUEVO")
    BY <2>1, UnaCola DEF Estado
  <2>. HIDE DEF g
  <2> QED
    BY <2>2, <2>3 DEF Traslado, Estado
<1>. HIDE DEF n, l, g
<1>11. ASSUME NEW m, Bien(m), Avanza(k, m, x, b, f), ~EnCola(m, p, "NUEVO")
       PROVE  Avanza(k, sinPaginas(m), x, b, f)
  <2>1. Vale(m, b, f)
    BY <1>11 DEF Avanza
  <2>2. Avanza(m, sinPaginas(m), x, b, f)
    BY <1>11, <2>1, AvisarAvanza
  <2> QED
    BY <1>11, <2>2, AvanzaTransitiva
<1>12. /\ EnCola(k, p, "LISTO") => Avanza(k, sinPaginas(l), x, b, f)
       /\ EnCola(k, p, "BLOQUEADO") => Avanza(k, sinPaginas(g), x, b, f)
  BY <1>4, <1>7, <1>8, <1>9, <1>10, <1>11
<1>. HIDE DEF sinPaginas
<1>13. Avanza(k, k, x, b, f)
  BY AvanzaIgual
<1> QED
  BY <1>2, <1>3, <1>4, <1>12, <1>13

\* The operator's level and its admission loop.
LEMMA NivelAvanza ==
    ASSUME NEW k, Bien(k), NEW x, NEW n,
           NEW b \in BOOLEAN, NEW f \in BOOLEAN, Vale(k, b, f)
    PROVE  /\ Avanza(k, Multiprogramacion(k, n), x, b, f)
           /\ Avanza(k, RondaDeMultiprogramacion(k, x), x, b, f)
<1>1. Avanza(k, Multiprogramacion(k, n), x, b, f)
  <2>. DEFINE m == Multiprogramacion(k, n)
  <2>1. m.cola = k.cola /\ Aparte(k, m) /\ MismosSemaforos(k, m)
    BY DEF Multiprogramacion, Aparte, MismasCpus, MismosSemaforos, Bien, Sistema
  <2>. HIDE DEF m
  <2>2. Avanza(k, m, x, b, f)
    BY <2>1, AparteAvanza
  <2> QED
    BY <2>2 DEF m
<1>2. ASSUME NEW m, Bien(m), Vale(m, b, f), NEW i
      PROVE  Avanza(m, [m EXCEPT !.iteraciones = i], x, b, f)
  <2>. DEFINE l == [m EXCEPT !.iteraciones = i]
  <2>1. l.cola = m.cola /\ Aparte(m, l) /\ MismosSemaforos(m, l)
    BY <1>2 DEF Aparte, MismasCpus, MismosSemaforos, Bien, Sistema
  <2>. HIDE DEF l
  <2>2. Avanza(m, l, x, b, f)
    BY <1>2, <2>1, AparteAvanza
  <2> QED
    BY <2>2 DEF l
<1>3. Avanza(k, RondaDeMultiprogramacion(k, x), x, b, f)
  <2>. DEFINE a == PasarProximoProcDeNewAReady(k, x)
              i == k.iteraciones - 1
  <2>1. Bien(a) /\ Avanza(k, a, x, b, f)
    BY PasarProximoBien, PasarProximoAvanza
  <2>. HIDE DEF a, i
  <2>2. Vale(a, b, f)
    BY <2>1 DEF Avanza
  <2>3. Avanza(a, [a EXCEPT !.iteraciones = i], x, b, f)
    BY <1>2, <2>1, <2>2
  <2>4. Avanza(k, [a EXCEPT !.iteraciones = i], x, b, f)
    BY <2>1, <2>3, AvanzaTransitiva
  <2>5. Avanza(k, [k EXCEPT !.iteraciones = 0], x, b, f)
    BY <1>2
  <2> QED
    BY <2>4, <2>5 DEF RondaDeMultiprogramacion, a, i
<1> QED
  BY <1>1, <1>3

\* A process that did not exist is in queue e, unless planning is stopped,
\* and its console is connected.
Recien(k, m, p, e) ==
    /\ m.activa = k.activa /\ m.maxPID = p /\ m.vivo = k.vivo
    /\ m.libres = k.libres /\ m.ocupadas = k.ocupadas
    /\ m.pidEn = k.pidEn /\ m.enCpu = k.enCpu /\ m.modo = k.modo
    /\ m.destruir = k.destruir /\ m.colgados = k.colgados
    /\ m.consolas = k.consolas \cup {p}
    /\ m.consola = [k.consola EXCEPT ![p] = "conectada"]
    /\ MismosSemaforos(k, m)
    /\ \A q \in Pid, g \in Estado : EnCola(m, q, g) <=>
          \/ EnCola(k, q, g)
          \/ q = p /\ g = e /\ (k.activa \/ e = "NUEVO")

\* A process is born.
LEMMA RecienAvanza ==
    ASSUME NEW k, Bien(k), NEW m, NEW p \in Pid, p = k.maxPID + 1,
           NEW e \in {"LISTO", "NUEVO"}, Recien(k, m, p, e),
           \A g \in Estado : ~EnCola(k, p, g),
           NEW x, NEW b \in BOOLEAN, NEW f \in BOOLEAN, Vale(k, b, f)
    PROVE  Avanza(k, m, x, b, f)
<1>1. /\ "NUEVO" \in Estado /\ "EJECUTANDO" \in Estado /\ "LISTO" \in Estado
      /\ "BLOQUEADO" \in Estado /\ "TERMINADO" \in Estado
  BY DEF Estado
<1>2. \A q \in Pid : /\ EnCola(m, q, "EJECUTANDO") <=> EnCola(k, q, "EJECUTANDO")
                     /\ EnCola(m, q, "BLOQUEADO") <=> EnCola(k, q, "BLOQUEADO")
                     /\ EnCola(m, q, "TERMINADO") <=> EnCola(k, q, "TERMINADO")
  BY <1>1 DEF Recien
<1>3. \A q \in Pid : /\ Adentro(m, q) <=> Adentro(k, q)
                     /\ Suelto(m, q) <=> Suelto(k, q)
  BY <1>2 DEF Adentro, Suelto, Recien
<1>4. \A c, q : Nombra(m, c, q) <=> Nombra(k, c, q)
  BY DEF Nombra, Recien
<1>5. \A c \in Cpus : k.enCpu[c] # 0 => k.enCpu[c] \in Pid
  BY RecibirPcbBien
<1>6. Orden(k, Cpus) => Orden(m, Cpus)
  <2>1. m.enCpu = k.enCpu /\ m.pidEn = k.pidEn /\ m.modo = k.modo
        /\ m.vivo = k.vivo
    BY DEF Recien
  <2>2. Sostenidos(k, Cpus) => Sostenidos(m, Cpus)
    BY <1>3, <1>5, <2>1 DEF Sostenidos
  <2> QED
    BY <1>2, <1>3, <1>4, <1>5, <2>1, <2>2 DEF Orden
<1>7. Conectados(k) => Conectados(m)
  <2>1. SUFFICES ASSUME Conectados(k) PROVE Conectados(m)
    OBVIOUS
  <2>2. k.consola \in [Pid -> ModoConsola]
    BY DEF Bien, Sistema
  <2>3. \A q \in Pid : EnCola(m, q, "NUEVO") => q = p \/ EnCola(k, q, "NUEVO")
    BY <1>1 DEF Recien
  <2> QED
    BY <2>1, <2>2, <2>3 DEF Conectados, Recien
<1>8. Firme(k) => Firme(m)
  BY <1>7 DEF Firme, Recien
<1>9. Ociosas(k) => Ociosas(m)
  BY DEF Ociosas, Dispuesta, Recien
<1>10. Atendidos(k) => Atendidos(m)
  BY <1>2, <1>4 DEF Atendidos, Recien
<1>11. Vale(m, b, f)
  BY <1>6, <1>8, <1>9, <1>10 DEF Vale, Recien
<1>12. k.activa /\ Completo(k) => Completo(m)
  <2>1. SUFFICES ASSUME k.activa, Completo(k), NEW q \in Pid, q <= m.maxPID
                 PROVE  \E g \in Estado : EnCola(m, q, g)
    BY DEF Completo
  <2>2. q = p => EnCola(m, q, e) /\ e \in Estado
    BY <1>1, <2>1 DEF Recien
  <2>3. q # p => q <= k.maxPID
    BY <2>1 DEF Recien, Pid, Bien, Sistema
  <2>4. q <= k.maxPID => \E g \in Estado : EnCola(m, q, g)
    BY <2>1 DEF Completo, Recien
  <2> QED
    BY <2>2, <2>3, <2>4
<1>13. \A u : Debe(k, u) => Debe(m, u)
  BY <1>2 DEF Debe, Esperan, MismosSemaforos, Recien
<1>14. m.activa = k.activa
  BY DEF Recien
<1> QED
  BY <1>7, <1>11, <1>12, <1>13, <1>14 DEF Avanza

\* A program that starts while the level has room.
LEMMA IniciarListoAvanza ==
    ASSUME NEW k, Bien(k), k.maxPID < MaxPid,
           NEW x, NEW b \in BOOLEAN, NEW f \in BOOLEAN, Vale(k, b, f)
    PROVE  Avanza(k, IniciarListo(k, k.maxPID + 1, x), x, b, f)
<1>. DEFINE p == k.maxPID + 1
            code == "NO_SE_PUDO_ASIGNAR_RECURSO"
            r == CrearPcb(k)
            n == NuevoAListos(r, p)
            m == [n EXCEPT !.consolas = @ \cup {p}, !.consola[p] = "conectada"]
            e == [m EXCEPT !.ec[p] = code]
            h == ListoAFinalizados(e, p)
            g == [m EXCEPT !.paginas = @ \cup {p}]
<1>1. /\ Bien(r) /\ p \in Pid
      /\ r.maxPID = p /\ r.cola = k.cola
      /\ \A q \in Estado : ~Contains(r.cola[q], p)
  BY CrearBien
<1>2. /\ r.activa = k.activa /\ r.vivo = k.vivo
      /\ r.libres = k.libres /\ r.ocupadas = k.ocupadas
      /\ r.pidEn = k.pidEn /\ r.enCpu = k.enCpu /\ r.modo = k.modo
      /\ r.destruir = k.destruir /\ r.colgados = k.colgados
      /\ r.consolas = k.consolas /\ r.consola = k.consola
      /\ MismosSemaforos(k, r)
  BY DEF CrearPcb, MismosSemaforos, Bien, Sistema
<1>3. code \in ExitCode
  BY DEF ExitCode
<1>4. IniciarListo(k, p, x) =
        IF x.memoria THEN g ELSE InformarAConsola(h, p, code)
  BY Zenon DEF IniciarListo
<1>p. p = k.maxPID + 1
  OBVIOUS
<1>. HIDE DEF p, r, code
<1>5. Bien(n)
  BY <1>1, NuevoAListosBien, MaxPidAssumption DEF Pid
<1>6. /\ n.activa = r.activa /\ n.maxPID = r.maxPID /\ n.vivo = r.vivo
      /\ n.libres = r.libres /\ n.ocupadas = r.ocupadas
      /\ n.pidEn = r.pidEn /\ n.enCpu = r.enCpu /\ n.modo = r.modo
      /\ n.destruir = r.destruir /\ n.colgados = r.colgados
      /\ n.consolas = r.consolas /\ n.consola = r.consola
      /\ MismosSemaforos(r, n)
  BY <1>1 DEF NuevoAListos, MismosSemaforos, Bien, Sistema
<1>7. IF r.activa THEN Traslado(r, n, p, "LISTO") ELSE n = r
  BY <1>1, NuevoAListosTraslada
<1>. HIDE DEF n
<1>8. /\ m.activa = n.activa /\ m.maxPID = n.maxPID /\ m.vivo = n.vivo
      /\ m.libres = n.libres /\ m.ocupadas = n.ocupadas
      /\ m.pidEn = n.pidEn /\ m.enCpu = n.enCpu /\ m.modo = n.modo
      /\ m.destruir = n.destruir /\ m.colgados = n.colgados
      /\ m.consolas = n.consolas \cup {p}
      /\ m.consola = [n.consola EXCEPT ![p] = "conectada"]
      /\ MismosSemaforos(n, m) /\ m.cola = n.cola
  BY <1>5 DEF MismosSemaforos, Bien, Sistema
<1>9. Bien(m)
  BY <1>1, <1>5, ConectarBien
<1>. HIDE DEF m
<1>10. \A q \in Estado : ~EnCola(k, p, q) /\ ~EnCola(r, p, q)
  BY <1>1 DEF EnCola
<1>11. \A q \in Pid, w \in Estado : EnCola(m, q, w) <=>
          EnCola(k, q, w) \/ (q = p /\ w = "LISTO" /\ k.activa)
  <2>1. \A q, w : EnCola(m, q, w) <=> EnCola(n, q, w)
    BY <1>8 DEF EnCola
  <2>2. \A q, w : EnCola(r, q, w) <=> EnCola(k, q, w)
    BY <1>1 DEF EnCola
  <2>. TAKE q \in Pid, w \in Estado
  <2>3. EnCola(m, q, w) <=> EnCola(n, q, w)
    BY <2>1
  <2>4. EnCola(r, q, w) <=> EnCola(k, q, w)
    BY <2>2
  <2>5. ~EnCola(k, p, w)
    BY <1>10
  <2>6. CASE r.activa
    <3>1. EnCola(n, q, w) <=> IF q = p THEN w = "LISTO" ELSE EnCola(r, q, w)
      BY <1>7, <2>6 DEF Traslado
    <3>2. k.activa
      BY <1>2, <2>6
    <3> QED
      BY <2>3, <2>4, <2>5, <3>1, <3>2
  <2>7. CASE ~r.activa
    <3>1. n = r /\ ~k.activa
      BY <1>2, <1>7, <2>7
    <3> QED
      BY <2>3, <2>4, <3>1
  <2> QED
    BY <2>6, <2>7
<1>12. Recien(k, m, p, "LISTO")
  <2>1. /\ m.activa = k.activa /\ m.maxPID = p /\ m.vivo = k.vivo
        /\ m.libres = k.libres /\ m.ocupadas = k.ocupadas
        /\ m.pidEn = k.pidEn /\ m.enCpu = k.enCpu /\ m.modo = k.modo
        /\ m.destruir = k.destruir /\ m.colgados = k.colgados
        /\ m.consolas = k.consolas \cup {p}
        /\ m.consola = [k.consola EXCEPT ![p] = "conectada"]
        /\ MismosSemaforos(k, m)
    BY <1>1, <1>2, <1>6, <1>8 DEF MismosSemaforos
  <2>2. \A q \in Pid, w \in Estado : EnCola(m, q, w) <=>
           \/ EnCola(k, q, w)
           \/ q = p /\ w = "LISTO" /\ (k.activa \/ "LISTO" = "NUEVO")
    BY <1>11
  <2> QED
    BY <2>1, <2>2 DEF Recien
<1>13. Avanza(k, m, x, b, f)
  BY <1>1, <1>p, <1>10, <1>12, RecienAvanza
<1>14. Vale(m, b, f)
  BY <1>13 DEF Avanza
<1>15. Avanza(m, g, x, b, f)
  <2>1. Aparte(m, g) /\ MismosSemaforos(m, g) /\ g.cola = m.cola
    BY <1>9 DEF Aparte, MismasCpus, MismosSemaforos, Bien, Sistema
  <2>. HIDE DEF g
  <2> QED
    BY <1>14, <2>1, AparteAvanza
<1>16. Avanza(k, g, x, b, f)
  BY <1>13, <1>15, AvanzaTransitiva
<1>17. Bien(e)
  BY <1>1, <1>3, <1>9, CambioBien
<1>18. Avanza(m, e, x, b, f)
  BY <1>1, <1>3, <1>9, <1>14, CodigoAvanza
<1>19. ~EnCola(e, p, "NUEVO")
  <2>1. e.cola = m.cola
    BY <1>9 DEF Bien, Sistema
  <2>2. ~EnCola(m, p, "NUEVO")
    BY <1>1, <1>10, <1>11 DEF Estado
  <2> QED
    BY <2>1, <2>2 DEF EnCola
<1>. HIDE DEF e
<1>20. Vale(e, b, f)
  BY <1>18 DEF Avanza
<1>21. Bien(h)
  BY <1>1, <1>17, PasosBien
<1>22. Avanza(e, h, x, b, f)
  BY <1>1, <1>3, <1>17, <1>20, PasosAvanzan
<1>23. ~EnCola(h, p, "NUEVO")
  <2>1. IF Mueve(e, p, "LISTO") THEN Traslado(e, h, p, "TERMINADO") ELSE h = e
    BY <1>1, <1>17, PasosTrasladan DEF ListoAFinalizados, EnSistema
  <2>. HIDE DEF h
  <2> QED
    BY <1>1, <1>19, <2>1 DEF Traslado, Estado
<1>. HIDE DEF h, g
<1>24. Vale(h, b, f)
  BY <1>22 DEF Avanza
<1>25. Avanza(h, InformarAConsola(h, p, code), x, b, f)
  BY <1>1, <1>21, <1>23, <1>24, InformarAvanza
<1>26. Avanza(k, InformarAConsola(h, p, code), x, b, f)
  <2>1. Avanza(k, e, x, b, f)
    BY <1>13, <1>18, AvanzaTransitiva
  <2>2. Avanza(k, h, x, b, f)
    BY <1>22, <2>1, AvanzaTransitiva
  <2> QED
    BY <1>25, <2>2, AvanzaTransitiva
<1>27. Avanza(k, IniciarListo(k, p, x), x, b, f)
  BY <1>4, <1>16, <1>26
<1> QED
  BY <1>27 DEF p

\* A program that starts when the level is full.
LEMMA IniciarNuevoAvanza ==
    ASSUME NEW k, Bien(k), k.maxPID < MaxPid,
           NEW x, NEW b \in BOOLEAN, NEW f \in BOOLEAN, Vale(k, b, f)
    PROVE  Avanza(k, IniciarNuevo(k, k.maxPID + 1), x, b, f)
<1>. DEFINE p == k.maxPID + 1
            r == CrearPcb(k)
            a == Append(r.cola["NUEVO"], p)
            m == IniciarNuevo(k, p)
<1>1. /\ Bien(r) /\ p \in Pid
      /\ r.maxPID = p /\ r.cola = k.cola
      /\ \A q \in Estado : ~Contains(r.cola[q], p)
  BY CrearBien
<1>2. /\ r.activa = k.activa /\ r.vivo = k.vivo
      /\ r.libres = k.libres /\ r.ocupadas = k.ocupadas
      /\ r.pidEn = k.pidEn /\ r.enCpu = k.enCpu /\ r.modo = k.modo
      /\ r.destruir = k.destruir /\ r.colgados = k.colgados
      /\ r.consolas = k.consolas /\ r.consola = k.consola
      /\ MismosSemaforos(k, r)
  BY DEF CrearPcb, MismosSemaforos, Bien, Sistema
<1>p. p = k.maxPID + 1
  OBVIOUS
<1>. HIDE DEF p, r
<1>3. /\ m.activa = r.activa /\ m.maxPID = r.maxPID /\ m.vivo = r.vivo
      /\ m.libres = r.libres /\ m.ocupadas = r.ocupadas
      /\ m.pidEn = r.pidEn /\ m.enCpu = r.enCpu /\ m.modo = r.modo
      /\ m.destruir = r.destruir /\ m.colgados = r.colgados
      /\ m.consolas = r.consolas \cup {p}
      /\ m.consola = [r.consola EXCEPT ![p] = "conectada"]
      /\ MismosSemaforos(r, m)
      /\ m.cola = [r.cola EXCEPT !["NUEVO"] = a]
  BY <1>1 DEF IniciarNuevo, MismosSemaforos, Bien, Sistema, r
<1>4. \A q \in Estado : ~EnCola(k, p, q)
  BY <1>1 DEF EnCola
<1>5. \A q \in Pid, w \in Estado : EnCola(m, q, w) <=>
          EnCola(k, q, w) \/ (q = p /\ w = "NUEVO")
  <2>1. r.cola \in [Estado -> Seq(Pid)]
    BY <1>1 DEF Bien, Sistema
  <2>2. \A q : Contains(a, q) <=> Contains(r.cola["NUEVO"], q) \/ q = p
    <3>1. r.cola["NUEVO"] \in Seq(Pid)
      BY <2>1 DEF Estado
    <3> QED
      BY <1>1, <3>1 DEF Contains
  <2>. HIDE DEF a
  <2>3. \A w \in Estado : m.cola[w] = IF w = "NUEVO" THEN a ELSE k.cola[w]
    BY <1>1, <1>3, <2>1
  <2>. TAKE q \in Pid, w \in Estado
  <2>4. CASE w = "NUEVO"
    BY <1>1, <2>2, <2>3, <2>4 DEF EnCola
  <2>5. CASE w # "NUEVO"
    BY <2>3, <2>5 DEF EnCola
  <2> QED
    BY <2>4, <2>5
<1>. HIDE DEF m, a
<1>6. Recien(k, m, p, "NUEVO")
  <2>1. /\ m.activa = k.activa /\ m.maxPID = p /\ m.vivo = k.vivo
        /\ m.libres = k.libres /\ m.ocupadas = k.ocupadas
        /\ m.pidEn = k.pidEn /\ m.enCpu = k.enCpu /\ m.modo = k.modo
        /\ m.destruir = k.destruir /\ m.colgados = k.colgados
        /\ m.consolas = k.consolas \cup {p}
        /\ m.consola = [k.consola EXCEPT ![p] = "conectada"]
        /\ MismosSemaforos(k, m)
    BY <1>1, <1>2, <1>3 DEF MismosSemaforos
  <2>2. \A q \in Pid, w \in Estado : EnCola(m, q, w) <=>
           \/ EnCola(k, q, w)
           \/ q = p /\ w = "NUEVO" /\ (k.activa \/ "NUEVO" = "NUEVO")
    BY <1>5
  <2> QED
    BY <2>1, <2>2 DEF Recien
<1>7. Avanza(k, m, x, b, f)
  BY <1>1, <1>p, <1>4, <1>6, RecienAvanza
<1> QED
  BY <1>7 DEF m, p

\* A console starts a program.
LEMMA IniciarProcesoAvanza ==
    ASSUME NEW k, Bien(k), k.maxPID < MaxPid,
           NEW x, NEW b \in BOOLEAN, NEW f \in BOOLEAN, Vale(k, b, f)
    PROVE  Avanza(k, IniciarProceso(k, x), x, b, f)
<1>. DEFINE m == IF CheckNivelMultiprogramacion(k)
                 THEN IniciarListo(k, k.maxPID + 1, x)
                 ELSE IniciarNuevo(k, k.maxPID + 1)
<1>1. Bien(m)
  BY IniciarListoBien, IniciarNuevoBien
<1>2. Avanza(k, m, x, b, f)
  BY IniciarListoAvanza, IniciarNuevoAvanza
<1>3. IniciarProceso(k, x) = PlanificarSiHayListos(m)
  BY DEF IniciarProceso
<1>. HIDE DEF m
<1>4. Vale(m, b, f)
  BY <1>2 DEF Avanza
<1>5. Avanza(m, PlanificarSiHayListos(m), x, b, f)
  BY <1>1, <1>4, PlanificarSiHayListosAvanza
<1> QED
  BY <1>2, <1>3, <1>5, AvanzaTransitiva

-----------------------------------------------------------------------------
(* What the consoles, the CPUs and the semaphores answer for.              *)

\* b and f may be taken as true where these disturbances cannot happen.
Admite(b, f) ==
    /\ b => "caidaCpu" \notin Eventos
    /\ f => {"finalizar", "cierre", "kill", "malloc"} \cap Eventos = {}
    /\ b /\ f => "stop" \notin Eventos

\* What a step keeps.
Marcha(k, m, b, f) ==
    /\ "stop" \notin Eventos => m.activa = k.activa
    /\ Vale(m, b, f)
    /\ {"finalizar", "cierre"} \cap Eventos = {} =>
          (Conectados(k) => Conectados(m))
    /\ {"finalizar", "cierre", "stop", "sinMemoria"} \cap Eventos = {} =>
          (k.activa /\ Conectados(k) /\ Completo(k) => Completo(m))
    /\ "stop" \notin Eventos /\ b /\ k.activa =>
          (Debe(k, Cero) => Debe(m, Cero))

\* A whole handler.
LEMMA MarchaDePasa ==
    ASSUME NEW k, NEW m, NEW x, NEW b \in BOOLEAN, NEW f \in BOOLEAN,
           "sinMemoria" \notin Eventos => x.memoria, Pasa(k, m, x, b, f)
    PROVE  Marcha(k, m, b, f)
BY DEF Marcha, Pasa, Progresa

\* A handler that owes nothing at any time.
LEMMA MarchaDeAvanza ==
    ASSUME NEW k, NEW m, NEW x, NEW b \in BOOLEAN, NEW f \in BOOLEAN,
           "sinMemoria" \notin Eventos => x.memoria, Avanza(k, m, x, b, f)
    PROVE  Marcha(k, m, b, f)
<1>1. Pasa(k, m, x, b, f)
  BY PasaAlAvanzar
<1> QED
  BY <1>1, MarchaDePasa

\* The handshake of a CPU: it waits for a PCB, or leaves if it was sent one.
LEMMA SaludoAvanza ==
    ASSUME NEW k, Bien(k), NEW c \in Cpus,
           k.modo[c] \in {"saludando", "rechazada"},
           NEW o, o = (IF k.modo[c] = "saludando" THEN "activa" ELSE "muerta"),
           NEW x, NEW b \in BOOLEAN, NEW f \in BOOLEAN, Vale(k, b, f)
    PROVE  Avanza(k, [k EXCEPT !.modo[c] = o], x, b, f)
<1>. DEFINE m == [k EXCEPT !.modo[c] = o]
<1>1. /\ m.activa = k.activa /\ m.cola = k.cola /\ m.maxPID = k.maxPID
      /\ m.vivo = k.vivo /\ m.pidEn = k.pidEn /\ m.enCpu = k.enCpu
      /\ m.libres = k.libres /\ m.ocupadas = k.ocupadas
      /\ m.destruir = k.destruir /\ m.colgados = k.colgados
      /\ m.consolas = k.consolas /\ m.consola = k.consola
      /\ MismosSemaforos(k, m)
      /\ \A d \in Cpus : m.modo[d] = IF d = c THEN o ELSE k.modo[d]
  BY DEF MismosSemaforos, Bien, Sistema
<1>. HIDE DEF m
<1>2. \A q, e : EnCola(m, q, e) <=> EnCola(k, q, e)
  BY <1>1 DEF EnCola
<1>3. \A q : (Adentro(m, q) <=> Adentro(k, q)) /\ (Suelto(m, q) <=> Suelto(k, q))
  BY <1>1, <1>2 DEF Adentro, Suelto
<1>4. \A d \in Cpus : \A q : Nombra(m, d, q) <=> Nombra(k, d, q)
  BY <1>1 DEF Nombra, Muertas
<1>5. Orden(k, Cpus) => Orden(m, Cpus)
  <2>1. SUFFICES ASSUME Orden(k, Cpus) PROVE Orden(m, Cpus)
    OBVIOUS
  <2>2. k.enCpu[c] = 0
    BY <2>1 DEF Orden, Sostenidos, ConPcb
  <2>3. Sostenidos(m, Cpus)
    BY <1>1, <1>3, <2>1, <2>2 DEF Orden, Sostenidos
  <2>4. \A d \in Cpus : m.enCpu[d] # 0 =>
           EnCola(m, m.enCpu[d], "EJECUTANDO") \/ m.modo[d] = "abortando"
    BY <1>1, <1>2, <2>1, <2>2 DEF Orden
  <2>5. \A d \in Cpus, q \in Pid : Nombra(m, d, q) => Adentro(m, q) /\ Suelto(m, q)
    BY <1>3, <1>4, <2>1 DEF Orden
  <2> QED
    BY <2>3, <2>4, <2>5 DEF Orden
<1>6. Conectados(k) => Conectados(m)
  BY <1>1, <1>2 DEF Conectados
<1>7. Firme(k) => Firme(m)
  <2>1. \A d \in Cpus : m.modo[d] = "ausente" => k.modo[d] = "ausente"
    BY <1>1
  <2> QED
    BY <1>1, <1>6, <2>1 DEF Firme
<1>8. Ociosas(k) => Ociosas(m)
  BY <1>1 DEF Ociosas, Dispuesta, Muertas
<1>9. Atendidos(k) => Atendidos(m)
  BY <1>1, <1>2, <1>4 DEF Atendidos
<1>10. Vale(m, b, f)
  BY <1>1, <1>5, <1>7, <1>8, <1>9 DEF Vale
<1>11. Completo(k) => Completo(m)
  BY <1>1, <1>2 DEF Completo
<1>12. \A u : Debe(k, u) => Debe(m, u)
  BY <1>1, <1>2 DEF Debe, Esperan, MismosSemaforos
<1>13. Avanza(k, m, x, b, f)
  BY <1>1, <1>6, <1>10, <1>11, <1>12 DEF Avanza
<1> QED
  BY <1>13 DEF m

\* What the arrival of CPU c changes.
Arriba(k, m, c) ==
    /\ m.activa = k.activa /\ m.cola = k.cola /\ m.maxPID = k.maxPID
    /\ m.vivo = k.vivo /\ m.enCpu = k.enCpu
    /\ m.libres = Append(k.libres, c) /\ m.ocupadas = k.ocupadas
    /\ m.destruir = k.destruir /\ m.colgados = k.colgados
    /\ m.consolas = k.consolas /\ m.consola = k.consola
    /\ MismosSemaforos(k, m)
    /\ \A d \in Cpus :
          /\ m.modo[d] = IF d = c THEN "saludando" ELSE k.modo[d]
          /\ d # c => m.pidEn[d] = k.pidEn[d]

\* A CPU connects.
LEMMA NuevaCpuAvanza ==
    ASSUME NEW k, Bien(k), NEW c \in Cpus, k.modo[c] = "ausente",
           k.enCpu[c] = 0, NEW m, Arriba(k, m, c),
           NEW x, NEW b \in BOOLEAN, NEW f \in BOOLEAN, Vale(k, b, f)
    PROVE  Avanza(k, m, x, b, f)
<1>. DEFINE l == Append(k.libres, c)
<1>1. /\ m.activa = k.activa /\ m.cola = k.cola /\ m.maxPID = k.maxPID
      /\ m.vivo = k.vivo /\ m.enCpu = k.enCpu
      /\ m.libres = l /\ m.ocupadas = k.ocupadas
      /\ m.destruir = k.destruir /\ m.colgados = k.colgados
      /\ m.consolas = k.consolas /\ m.consola = k.consola
      /\ MismosSemaforos(k, m)
      /\ \A d \in Cpus :
            /\ m.modo[d] = IF d = c THEN "saludando" ELSE k.modo[d]
            /\ d # c => m.pidEn[d] = k.pidEn[d]
  BY DEF Arriba
<1>l. k.libres \in Seq(Cpus)
  BY DEF Bien, Sistema
<1>2. \A q, e : EnCola(m, q, e) <=> EnCola(k, q, e)
  BY <1>1 DEF EnCola
<1>3. \A q : (Adentro(m, q) <=> Adentro(k, q)) /\ (Suelto(m, q) <=> Suelto(k, q))
  BY <1>1, <1>2 DEF Adentro, Suelto
<1>4. \A d \in Cpus : \A q : Nombra(m, d, q) <=> Nombra(k, d, q)
  BY <1>1 DEF Nombra, Muertas
<1>5. Orden(k, Cpus) => Orden(m, Cpus)
  <2>1. SUFFICES ASSUME Orden(k, Cpus) PROVE Orden(m, Cpus)
    OBVIOUS
  <2>2. Sostenidos(m, Cpus)
    BY <1>1, <1>3, <2>1 DEF Orden, Sostenidos
  <2>3. \A d \in Cpus : m.enCpu[d] # 0 =>
           EnCola(m, m.enCpu[d], "EJECUTANDO") \/ m.modo[d] = "abortando"
    BY <1>1, <1>2, <2>1 DEF Orden
  <2>4. \A d \in Cpus, q \in Pid : Nombra(m, d, q) => Adentro(m, q) /\ Suelto(m, q)
    BY <1>3, <1>4, <2>1 DEF Orden
  <2> QED
    BY <2>2, <2>3, <2>4 DEF Orden
<1>6. Conectados(k) => Conectados(m)
  BY <1>1, <1>2 DEF Conectados
<1>7. \A d : Contains(l, d) <=> Contains(k.libres, d) \/ d = c
  BY <1>l DEF Contains
<1>8. Firme(k) => Firme(m)
  <2>1. SUFFICES ASSUME Firme(k) PROVE Firme(m)
    OBVIOUS
  <2>2. ~Contains(k.libres, c) /\ ~Contains(k.ocupadas, c)
    BY <2>1 DEF Firme
  <2>3. SinDobles(l)
    <3>1. SinDobles(k.libres)
      BY <2>1 DEF Firme
    <3> QED
      BY <1>l, <2>2, <3>1, SinDoblesTras
  <2>. HIDE DEF l
  <2>4. \A d \in Cpus :
           /\ ~(Contains(m.libres, d) /\ Contains(m.ocupadas, d))
           /\ m.modo[d] = "ausente" =>
                 ~Contains(m.libres, d) /\ ~Contains(m.ocupadas, d)
           /\ m.enCpu[d] # 0 => Contains(m.ocupadas, d)
    BY <1>1, <1>7, <2>1, <2>2 DEF Firme
  <2>5. m.vivo = "vivo" /\ m.destruir = {} /\ m.colgados = 0 /\ Conectados(m)
        /\ SinDobles(m.libres) /\ SinDobles(m.ocupadas)
    BY <1>1, <1>6, <2>1, <2>3 DEF Firme
  <2> QED
    BY <2>4, <2>5 DEF Firme
<1>. HIDE DEF l
<1>9. Ociosas(k) => Ociosas(m)
  BY <1>1, <1>7 DEF Ociosas, Dispuesta, Muertas
<1>10. Atendidos(k) => Atendidos(m)
  BY <1>1, <1>2, <1>4 DEF Atendidos
<1>11. Vale(m, b, f)
  BY <1>1, <1>5, <1>8, <1>9, <1>10 DEF Vale
<1>12. Completo(k) => Completo(m)
  BY <1>1, <1>2 DEF Completo
<1>13. \A u : Debe(k, u) => Debe(m, u)
  BY <1>1, <1>2 DEF Debe, Esperan, MismosSemaforos
<1> QED
  BY <1>1, <1>6, <1>11, <1>12, <1>13 DEF Avanza

\* A CPU dies in the middle of a program.
LEMMA CaidaAvanza ==
    ASSUME NEW k, Bien(k), NEW c \in Cpus, k.modo[c] # "ausente",
           NEW x, NEW b \in BOOLEAN, NEW f \in BOOLEAN, Vale(k, b, f), ~b
    PROVE  Avanza(k, [k EXCEPT !.modo[c] = "muerta", !.enCpu[c] = 0],
                  x, b, f)
<1>. DEFINE m == [k EXCEPT !.modo[c] = "muerta", !.enCpu[c] = 0]
<1>1. /\ m.activa = k.activa /\ m.cola = k.cola /\ m.maxPID = k.maxPID
      /\ m.vivo = k.vivo
      /\ m.libres = k.libres /\ m.ocupadas = k.ocupadas
      /\ m.destruir = k.destruir /\ m.colgados = k.colgados
      /\ m.consolas = k.consolas /\ m.consola = k.consola
      /\ \A d \in Cpus :
            /\ m.modo[d] = IF d = c THEN "muerta" ELSE k.modo[d]
            /\ m.enCpu[d] = IF d = c THEN 0 ELSE k.enCpu[d]
  BY DEF Bien, Sistema
<1>. HIDE DEF m
<1>2. \A q, e : EnCola(m, q, e) <=> EnCola(k, q, e)
  BY <1>1 DEF EnCola
<1>3. Conectados(k) => Conectados(m)
  BY <1>1, <1>2 DEF Conectados
<1>4. Firme(k) => Firme(m)
  <2>1. \A d \in Cpus : m.modo[d] = "ausente" => k.modo[d] = "ausente"
    BY <1>1
  <2>2. \A d \in Cpus : m.enCpu[d] # 0 => k.enCpu[d] # 0
    BY <1>1
  <2> QED
    BY <1>1, <1>3, <2>1, <2>2 DEF Firme
<1>5. Vale(m, b, f)
  BY <1>4 DEF Vale
<1>6. Completo(k) => Completo(m)
  BY <1>1, <1>2 DEF Completo
<1>7. Avanza(k, m, x, b, f)
  BY <1>1, <1>3, <1>5, <1>6 DEF Avanza
<1> QED
  BY <1>7 DEF m

\* The steps of a CPU.
LEMMA PasoCpuMarcha ==
    ASSUME NEW c \in Cpus, IInv, Sostenidos(sistema, Cpus), PasoCpu(c),
           NEW b \in BOOLEAN, NEW f \in BOOLEAN, Admite(b, f),
           Vale(sistema, b, f)
    PROVE  Marcha(sistema, sistema', b, f)
<1>1. Bien(sistema)
  BY DEF IInv
<1>2. \A x \in Respuestas :
         x \in Exterior /\ ("sinMemoria" \notin Eventos => x.memoria)
  BY DEF Respuestas
<1>3. sistema.enCpu[c] # 0 => Adentro(sistema, sistema.enCpu[c])
  BY DEF Sostenidos
<1>4. sistema.modo[c] \notin ConPcb => sistema.enCpu[c] = 0
  BY DEF Sostenidos
<1>5. CASE MsjHandshake(c)
  <2>. DEFINE o == IF sistema.modo[c] = "saludando" THEN "activa" ELSE "muerta"
              m == [sistema EXCEPT !.modo[c] = o]
              x == [memoria |-> TRUE]
  <2>1. sistema' = PlanificarSiHayListos(m)
    <3>1. [sistema EXCEPT !.modo[c] =
              IF @ = "saludando" THEN "activa" ELSE "muerta"] = m
      BY <1>1 DEF Bien, Sistema
    <3>. HIDE DEF m
    <3> QED
      BY <1>5, <3>1 DEF MsjHandshake
  <2>2. o \in ModoCpu
    BY DEF ModoCpu
  <2>3. sistema.modo[c] \in {"saludando", "rechazada"}
    BY <1>5 DEF MsjHandshake
  <2>4. x.memoria
    OBVIOUS
  <2>5. o = (IF sistema.modo[c] = "saludando" THEN "activa" ELSE "muerta")
    OBVIOUS
  <2>. HIDE DEF o, x
  <2>6. Bien(m)
    BY <1>1, <2>2, CampoBien
  <2>7. Avanza(sistema, m, x, b, f)
    BY <1>1, <2>3, <2>5, SaludoAvanza
  <2>. HIDE DEF m
  <2>8. Vale(m, b, f)
    BY <2>7 DEF Avanza
  <2>9. Avanza(m, sistema', x, b, f)
    BY <2>1, <2>6, <2>8, PlanificarSiHayListosAvanza
  <2>10. Avanza(sistema, sistema', x, b, f)
    BY <2>7, <2>9, AvanzaTransitiva
  <2> QED
    BY <2>4, <2>10, MarchaDeAvanza
<1>6. CASE MsjTermineSentencia(c)
  <2>1. sistema.enCpu[c] # 0 /\ sistema.modo[c] \in {"activa", "sentencia"}
    BY <1>6 DEF MsjTermineSentencia
  <2>2. PICK x \in Respuestas : sistema' = PlanificarCpu(sistema, c, x)
    BY <1>6 DEF MsjTermineSentencia
  <2>3. Avanza(sistema, sistema', x, b, f)
    BY <1>1, <1>2, <1>3, <2>1, <2>2, PlanificarCpuAvanza
  <2> QED
    BY <1>2, <2>3, MarchaDeAvanza
<1>7. ASSUME NEW s \in Sems, MsjWait(c, s)
      PROVE  Marcha(sistema, sistema', b, f)
  <2>1. sistema.enCpu[c] # 0 /\ sistema.modo[c] = "activa"
    BY <1>7 DEF MsjWait, Ejecuta
  <2>2. PICK x \in Respuestas : sistema' = Wait(sistema, c, s, x)
    BY <1>7 DEF MsjWait
  <2>3. Pasa(sistema, sistema', x, b, f)
    BY <1>1, <1>3, <2>1, <2>2, WaitPasa
  <2> QED
    BY <1>2, <2>3, MarchaDePasa
<1>8. ASSUME NEW s \in Sems, MsjSignal(c, s)
      PROVE  Marcha(sistema, sistema', b, f)
  <2>. DEFINE x == [memoria |-> TRUE]
  <2>1. /\ sistema.enCpu[c] # 0 /\ sistema.modo[c] = "activa"
        /\ sistema' = Signal(sistema, c, s)
    BY <1>8 DEF MsjSignal, Ejecuta
  <2>2. x.memoria
    OBVIOUS
  <2>. HIDE DEF x
  <2>3. Pasa(sistema, sistema', x, b, f)
    BY <1>1, <2>1, SignalPasa
  <2> QED
    BY <2>2, <2>3, MarchaDePasa
<1>9. CASE MsjProgramaTerminado(c)
  <2>1. sistema.enCpu[c] # 0 /\ sistema.modo[c] = "activa"
    BY <1>9 DEF MsjProgramaTerminado, Ejecuta
  <2>2. PICK x \in Respuestas : sistema' = ProgramaTerminado(sistema, c, x)
    BY <1>9 DEF MsjProgramaTerminado
  <2>3. Avanza(sistema, sistema', x, b, f)
    BY <1>1, <1>3, <2>1, <2>2, ProgramaTerminadoAvanza
  <2> QED
    BY <1>2, <2>3, MarchaDeAvanza
<1>10. CASE MsjAbortarPrograma(c)
  <2>1. sistema.enCpu[c] # 0
    BY <1>10 DEF MsjAbortarPrograma
  <2>2. PICK x \in Respuestas :
           sistema' = AbortarDeCpu([sistema EXCEPT !.modo[c] = "activa"], c,
                                   "ERROR_DE_EJECUCION", x)
    BY <1>10 DEF MsjAbortarPrograma
  <2>3. "ERROR_DE_EJECUCION" \in ExitCode
    BY DEF ExitCode
  <2>4. Avanza(sistema, sistema', x, b, f)
    BY <1>1, <1>3, <2>1, <2>2, <2>3, AbortarDeCpuAvanza
  <2> QED
    BY <1>2, <2>4, MarchaDeAvanza
<1>11. CASE MsjPedidoBloqueMemoria(c)
  <2>. DEFINE x == [memoria |-> TRUE]
  <2>1. /\ "malloc" \in Eventos /\ sistema.enCpu[c] # 0
        /\ sistema' = PedidoBloqueGrande(sistema, c)
    BY <1>11 DEF MsjPedidoBloqueMemoria, Ejecuta
  <2>2. sistema.pidEn[c] = sistema.enCpu[c]
    BY <1>11, <2>1 DEF MsjPedidoBloqueMemoria, EnSelect, Libre, Sostenidos
  <2>3. ~f
    BY <2>1 DEF Admite
  <2>4. x.memoria
    OBVIOUS
  <2>. HIDE DEF x
  <2>5. Avanza(sistema, sistema', x, b, f)
    BY <1>1, <2>1, <2>2, <2>3, PedidoBloqueGrandeAvanza
  <2> QED
    BY <2>4, <2>5, MarchaDeAvanza
<1>12. CASE DesconexionCpu(c)
  <2>1. PICK x \in Respuestas, basura \in PidSinInicializar :
           sistema' = RemoverCpuDeLaLista(
               TerminarProcesoEjecutandoEnCpu(sistema, c, x), c, basura)
    BY <1>12 DEF DesconexionCpu
  <2>. DEFINE l == TerminarProcesoEjecutandoEnCpu(sistema, c, x)
  <2>2. sistema.modo[c] = "muerta" /\ sistema.enCpu[c] = 0
    BY <1>4, <1>12 DEF DesconexionCpu, ConPcb
  <2>3. Bien(l) /\ Cuida(sistema, l)
    BY <1>1, TerminarProcesoBien, TerminarProcesoCuida
  <2>4. Avanza(sistema, l, x, b, f)
    BY <1>1, <2>2, TerminarProcesoAvanza
  <2>5. b /\ f /\ sistema.activa => ~EnCola(l, l.pidEn[c], "EJECUTANDO")
    <3>1. b /\ f => Ociosas(sistema)
      BY DEF Vale
    <3> QED
      BY <1>1, <2>2, <3>1, TerminarProcesoLibera
  <2>6. sistema' = RemoverCpuDeLaLista(l, c, basura)
    BY <2>1
  <2>. HIDE DEF l
  <2>7. l.enCpu[c] = 0
    BY <2>2, <2>3 DEF Cuida, Difuntas
  <2>8. Vale(l, b, f) /\ l.activa = sistema.activa
    BY <2>4 DEF Avanza
  <2>9. Avanza(l, sistema', x, b, f)
    BY <2>3, <2>5, <2>6, <2>7, <2>8, RemoverCpuAvanza
  <2>10. Avanza(sistema, sistema', x, b, f)
    BY <2>4, <2>9, AvanzaTransitiva
  <2> QED
    BY <1>2, <2>10, MarchaDeAvanza
<1> QED
  BY <1>5, <1>6, <1>7, <1>8, <1>9, <1>10, <1>11, <1>12, Zenon DEF PasoCpu

\* A CPU connects, disconnects in order or dies.
LEMMA ConexionMarcha ==
    ASSUME NEW c \in Cpus, IInv, Sostenidos(sistema, Cpus),
           NuevoCpuConectado(c) \/ MsjMeDesconecto(c) \/ CaidaCpu(c),
           NEW b \in BOOLEAN, NEW f \in BOOLEAN, Admite(b, f),
           Vale(sistema, b, f)
    PROVE  Marcha(sistema, sistema', b, f)
<1>1. Bien(sistema)
  BY DEF IInv
<1>. DEFINE y == [memoria |-> TRUE]
<1>2. y.memoria
  OBVIOUS
<1>. HIDE DEF y
<1>3. CASE NuevoCpuConectado(c)
  <2>1. Arriba(sistema, sistema', c)
    <3>. DEFINE l == Append(sistema.libres, c)
    <3>1. PICK basura \in PidSinInicializar :
             sistema' = [sistema EXCEPT !.modo[c] = "saludando", !.libres = l,
                            !.quantum[c] = 0, !.pidEn[c] = basura]
      BY <1>3 DEF NuevoCpuConectado
    <3>2. l = Append(sistema.libres, c)
      OBVIOUS
    <3>. DEFINE m == [sistema EXCEPT !.modo[c] = "saludando", !.libres = l,
                         !.quantum[c] = 0, !.pidEn[c] = basura]
    <3>. HIDE DEF l
    <3>3. Arriba(sistema, m, c)
      BY <1>1, <3>2 DEF Arriba, MismosSemaforos, Bien, Sistema
    <3>. HIDE DEF m
    <3> QED
      BY <3>1, <3>3 DEF m
  <2>2. sistema.modo[c] = "ausente"
    BY <1>3 DEF NuevoCpuConectado
  <2>3. sistema.enCpu[c] = 0
    BY <2>2 DEF ConPcb, Sostenidos
  <2>4. Avanza(sistema, sistema', y, b, f)
    BY <1>1, <2>1, <2>2, <2>3, NuevaCpuAvanza
  <2> QED
    BY <1>2, <2>4, MarchaDeAvanza
<1>4. CASE MsjMeDesconecto(c)
  <2>1. PICK x \in Respuestas :
           sistema' = AbortarDeCpu([sistema EXCEPT !.modo[c] = "muerta"], c,
                                   "DESCONEXION_CPU", x)
    BY <1>4 DEF MsjMeDesconecto
  <2>2. sistema.enCpu[c] # 0 /\ "DESCONEXION_CPU" \in ExitCode
    BY <1>4 DEF MsjMeDesconecto, ExitCode
  <2>3. Adentro(sistema, sistema.enCpu[c])
    BY <2>2 DEF Sostenidos
  <2>4. Avanza(sistema, sistema', x, b, f)
    BY <1>1, <2>1, <2>2, <2>3, AbortarDeCpuAvanza
  <2>5. "sinMemoria" \notin Eventos => x.memoria
    BY DEF Respuestas
  <2> QED
    BY <2>4, <2>5, MarchaDeAvanza
<1>5. CASE CaidaCpu(c)
  <2>1. /\ sistema' = [sistema EXCEPT !.modo[c] = "muerta", !.enCpu[c] = 0]
        /\ "caidaCpu" \in Eventos /\ sistema.modo[c] # "ausente"
    BY <1>5 DEF CaidaCpu
  <2>2. ~b
    BY <2>1 DEF Admite
  <2>3. Avanza(sistema, sistema', y, b, f)
    BY <1>1, <2>1, <2>2, CaidaAvanza
  <2> QED
    BY <1>2, <2>3, MarchaDeAvanza
<1> QED
  BY <1>3, <1>4, <1>5

\* A console finds something to say: nothing is done before it is read.
LEMMA PideAvanza ==
    ASSUME NEW k, Bien(k), NEW p \in Pid, NEW o,
           NEW x, NEW b \in BOOLEAN, NEW f \in BOOLEAN, Vale(k, b, f), ~f
    PROVE  LET m == [k EXCEPT !.consola[p] = o] IN
           /\ m.cola = k.cola /\ MismasCpus(k, m) /\ MismosSemaforos(k, m)
           /\ m.activa = k.activa /\ Vale(m, b, f)
           /\ \A u \in [Sems -> Int] : Debe(k, u) => Debe(m, u)
<1>. DEFINE m == [k EXCEPT !.consola[p] = o]
<1>1. m.cola = k.cola /\ MismasCpus(k, m) /\ MismosSemaforos(k, m)
  BY DEF MismasCpus, MismosSemaforos, Bien, Sistema
<1>. HIDE DEF m
<1>2. \A q, e : EnCola(m, q, e) <=> EnCola(k, q, e)
  BY <1>1 DEF EnCola
<1>3. \A q : (Adentro(m, q) <=> Adentro(k, q)) /\ (Suelto(m, q) <=> Suelto(k, q))
  BY <1>1, <1>2 DEF Adentro, Suelto, MismasCpus
<1>4. \A c, q : Nombra(m, c, q) <=> Nombra(k, c, q)
  BY <1>1 DEF Nombra, MismasCpus
<1>5. Orden(k, Cpus) => Orden(m, Cpus)
  <2>1. Sostenidos(k, Cpus) => Sostenidos(m, Cpus)
    BY <1>1, <1>3 DEF Sostenidos, MismasCpus
  <2> QED
    BY <1>1, <1>2, <1>3, <1>4, <2>1 DEF Orden, MismasCpus
<1>6. Vale(m, b, f)
  BY <1>5 DEF Vale
<1>7. \A u : Debe(k, u) => Debe(m, u)
  BY <1>1, <1>2 DEF Debe, Esperan, MismosSemaforos
<1>8. m.activa = k.activa
  BY <1>1 DEF MismasCpus
<1> QED
  BY <1>1, <1>6, <1>7, <1>8 DEF m

\* The consoles and the operator.
LEMMA ConsolaMarcha ==
    ASSUME NEW p \in Pid, IInv, Sostenidos(sistema, Cpus),
           \/ ConsolaPideFinalizar(p) \/ ConsolaCierra(p)
           \/ PasoConsola(p) \/ CmdKill(p),
           NEW b \in BOOLEAN, NEW f \in BOOLEAN, Admite(b, f),
           Vale(sistema, b, f)
    PROVE  Marcha(sistema, sistema', b, f)
<1>1. Bien(sistema)
  BY DEF IInv
<1>. DEFINE y == [memoria |-> TRUE]
<1>2. y.memoria
  OBVIOUS
<1>. HIDE DEF y
<1>3. CASE ConsolaPideFinalizar(p) \/ ConsolaCierra(p)
  <2>1. PICK o \in ModoConsola :
           sistema' = [sistema EXCEPT !.consola[p] = o]
    BY <1>3 DEF ConsolaPideFinalizar, ConsolaCierra, ModoConsola
  <2>2. {"finalizar", "cierre"} \cap Eventos # {}
    BY <1>3 DEF ConsolaPideFinalizar, ConsolaCierra
  <2>3. ~f
    BY <2>2 DEF Admite
  <2>4. Cero \in [Sems -> Int]
    BY DEF Cero
  <2>5. /\ sistema'.activa = sistema.activa /\ Vale(sistema', b, f)
        /\ Debe(sistema, Cero) => Debe(sistema', Cero)
    <3>1. LET m == [sistema EXCEPT !.consola[p] = o] IN
          /\ m.activa = sistema.activa /\ Vale(m, b, f)
          /\ \A u \in [Sems -> Int] : Debe(sistema, u) => Debe(m, u)
      BY <1>1, <2>3, PideAvanza
    <3> QED
      BY <2>1, <2>4, <3>1
  <2> QED
    BY <2>2, <2>5 DEF Marcha
<1>4. CASE PasoConsola(p)
  <2>1. ASSUME NEW modo \in {"finalizando", "cerrando"}, NEW code \in ExitCode,
               AtiendeConsola(p, modo, code)
        PROVE  Marcha(sistema, sistema', b, f)
    <3>. DEFINE m == [sistema EXCEPT !.consola[p] = "atendida"]
    <3>1. sistema' = PedidoAbortarProgramaDeConsola(m, p, code)
      BY <2>1 DEF AtiendeConsola
    <3>2. ~Conectados(sistema)
      BY <2>1 DEF AtiendeConsola, Conectados
    <3>3. ~f
      BY <3>2 DEF Vale, Firme
    <3>4. Bien(m)
      BY <1>1, MismasColas DEF Bien, Sistema, ModoConsola
    <3>5. m.cola = sistema.cola /\ MismasCpus(sistema, m)
          /\ MismosSemaforos(sistema, m)
      BY <1>1, <3>3, PideAvanza
    <3>. HIDE DEF m
    <3>6. Avanza(sistema, sistema', y, b, f)
      BY <3>1, <3>2, <3>4, <3>5, PedidoAbortarAvanza
    <3> QED
      BY <1>2, <3>6, MarchaDeAvanza
  <2> QED
    BY <1>4, <2>1 DEF PasoConsola, MsjFinalizarProceso, DesconexionConsola,
       ExitCode
<1>5. CASE CmdKill(p)
  <2>1. "kill" \in Eventos /\ sistema' = MatarProceso(sistema, p)
    BY <1>5 DEF CmdKill
  <2>2. ~f
    BY <2>1 DEF Admite
  <2>3. Avanza(sistema, sistema', y, b, f)
    BY <1>1, <2>1, <2>2, MatarProcesoAvanza
  <2> QED
    BY <1>2, <2>3, MarchaDeAvanza
<1> QED
  BY <1>3, <1>4, <1>5

\* Planning is stopped and resumed.
LEMMA PausaMarcha ==
    ASSUME NEW k, Bien(k), NEW a \in BOOLEAN, "stop" \in Eventos,
           NEW b \in BOOLEAN, NEW f \in BOOLEAN, Admite(b, f), Vale(k, b, f)
    PROVE  Marcha(k, [k EXCEPT !.activa = a], b, f)
<1>. DEFINE m == [k EXCEPT !.activa = a]
<1>1. /\ m.cola = k.cola /\ m.maxPID = k.maxPID /\ m.vivo = k.vivo
      /\ m.libres = k.libres /\ m.ocupadas = k.ocupadas
      /\ m.pidEn = k.pidEn /\ m.enCpu = k.enCpu /\ m.modo = k.modo
      /\ m.destruir = k.destruir /\ m.colgados = k.colgados
      /\ m.consolas = k.consolas /\ m.consola = k.consola
  BY DEF Bien, Sistema
<1>. HIDE DEF m
<1>2. Conectados(k) => Conectados(m)
  BY <1>1 DEF Conectados, EnCola
<1>3. Firme(k) => Firme(m)
  BY <1>1, <1>2 DEF Firme
<1>4. Orden(k, Cpus) => Orden(m, Cpus)
  <2>1. Sostenidos(k, Cpus) => Sostenidos(m, Cpus)
    BY <1>1 DEF Sostenidos, Adentro, EnCola
  <2> QED
    BY <1>1, <2>1 DEF Orden, Nombra, Adentro, Suelto, EnCola
<1>5. ~(b /\ f)
  BY DEF Admite
<1>6. Vale(m, b, f)
  BY <1>3, <1>4, <1>5 DEF Vale
<1>7. Marcha(k, m, b, f)
  BY <1>2, <1>6 DEF Marcha
<1> QED
  BY <1>7 DEF m

\* Every step.
LEMMA NextMarcha ==
    ASSUME IInv, Sostenidos(sistema, Cpus), [Next]_vars,
           NEW b \in BOOLEAN, NEW f \in BOOLEAN, Admite(b, f),
           Vale(sistema, b, f)
    PROVE  Marcha(sistema, sistema', b, f)
<1>1. Bien(sistema)
  BY DEF IInv
<1>2. \A x \in Respuestas : "sinMemoria" \notin Eventos => x.memoria
  BY DEF Respuestas
<1>3. ASSUME NEW c \in Cpus,
             \/ NuevoCpuConectado(c) \/ PasoCpu(c)
             \/ MsjMeDesconecto(c) \/ CaidaCpu(c)
      PROVE  Marcha(sistema, sistema', b, f)
  BY <1>3, PasoCpuMarcha, ConexionMarcha
<1>4. CASE MsjIniciarProceso
  <2>1. sistema.maxPID < MaxPid
    BY <1>4 DEF MsjIniciarProceso
  <2>2. PICK x \in Respuestas : sistema' = IniciarProceso(sistema, x)
    BY <1>4 DEF MsjIniciarProceso
  <2>3. Avanza(sistema, sistema', x, b, f)
    BY <1>1, <2>1, <2>2, IniciarProcesoAvanza
  <2> QED
    BY <1>2, <2>3, MarchaDeAvanza
<1>5. ASSUME NEW p \in Pid,
             \/ ConsolaPideFinalizar(p) \/ ConsolaCierra(p)
             \/ PasoConsola(p) \/ CmdKill(p)
      PROVE  Marcha(sistema, sistema', b, f)
  BY <1>5, ConsolaMarcha
<1>6. CASE CmdStop \/ CmdRestart
  <2>1. PICK a \in BOOLEAN : sistema' = [sistema EXCEPT !.activa = a]
    BY <1>6 DEF CmdStop, CmdRestart
  <2>2. "stop" \in Eventos
    BY <1>6 DEF CmdStop, CmdRestart
  <2> QED
    BY <1>1, <2>1, <2>2, PausaMarcha
<1>7. ASSUME NEW n \in Grados, CmdMultiprogramacion(n)
      PROVE  Marcha(sistema, sistema', b, f)
  <2>. DEFINE x == [memoria |-> TRUE]
  <2>1. x.memoria /\ sistema' = Multiprogramacion(sistema, n)
    BY <1>7 DEF CmdMultiprogramacion
  <2>. HIDE DEF x
  <2>2. Avanza(sistema, sistema', x, b, f)
    BY <1>1, <2>1, NivelAvanza
  <2> QED
    BY <2>1, <2>2, MarchaDeAvanza
<1>8. CASE RondaAdmision
  <2>1. PICK x \in Respuestas : sistema' = RondaDeMultiprogramacion(sistema, x)
    BY <1>8 DEF RondaAdmision
  <2>2. Avanza(sistema, sistema', x, b, f)
    BY <1>1, <2>1, NivelAvanza
  <2> QED
    BY <1>2, <2>2, MarchaDeAvanza
<1>9. CASE UNCHANGED vars
  BY <1>9 DEF vars, Marcha
<1> QED
  BY <1>3, <1>4, <1>5, <1>6, <1>7, <1>8, <1>9, Zenon DEF Next

\* Before any process starts everybody is in order.
LEMMA InicialMarcha ==
    ASSUME Init, NEW b \in BOOLEAN, NEW f \in BOOLEAN
    PROVE  /\ Vale(sistema, b, f) /\ sistema.activa
           /\ Conectados(sistema) /\ Completo(sistema)
           /\ Debe(sistema, Cero)
<1>1. PICK g \in Grados : sistema = Inicial(g)
  BY DEF Init
<1>2. /\ sistema.activa /\ sistema.vivo = "vivo" /\ sistema.maxPID = 0
      /\ sistema.cola = [e \in Estado |-> <<>>]
      /\ sistema.libres = <<>> /\ sistema.ocupadas = <<>>
      /\ sistema.destruir = {} /\ sistema.colgados = 0
      /\ sistema.valor = InicioSem
      /\ \A p \in Pid : /\ sistema.espera[p] = NoSem
                        /\ sistema.consola[p] \notin {"finalizando", "cerrando"}
      /\ \A c \in Cpus : sistema.modo[c] = "ausente" /\ sistema.enCpu[c] = 0
  BY <1>1 DEF Inicial
<1>3. \A p \in Pid, e \in Estado : ~EnCola(sistema, p, e)
  BY <1>2 DEF EnCola, Contains
<1>4. \A c, l : l = <<>> => ~Contains(l, c) /\ SinDobles(l)
  BY DEF Contains, SinDobles
<1>5. Conectados(sistema) /\ Completo(sistema)
  BY <1>2, <1>3, MaxPidAssumption DEF Conectados, Completo, Estado, Pid
<1>6. Orden(sistema, Cpus)
  BY <1>2 DEF Orden, Sostenidos, Nombra, Muertas
<1>7. Firme(sistema)
  BY <1>2, <1>4, <1>5 DEF Firme
<1>8. Ociosas(sistema) /\ Atendidos(sistema)
  BY <1>2, <1>3, <1>4 DEF Ociosas, Atendidos, Estado
<1>9. Vale(sistema, b, f)
  BY <1>6, <1>7, <1>8 DEF Vale
<1>10. Debe(sistema, Cero)
  <2>1. NoSem \notin Sems /\ \A s \in Sems : InicioSem[s] \in Nat
    BY SemsAssumption
  <2>2. \A s \in Sems : Esperan(sistema, s) = {}
    BY <1>2, <2>1 DEF Esperan
  <2>3. \A s \in Sems : Cardinality(Esperan(sistema, s)) = 0
    BY <2>2, FS_EmptySet
  <2> QED
    BY <1>2, <1>3, <2>1, <2>3 DEF Debe, Cero, Estado
<1> QED
  BY <1>2, <1>5, <1>9, <1>10

\* The kernel never sends a CPU a PCB it is not waiting for, and never looks
\* for a console that is not there: only a console or an operator that ends a
\* process behind the back of its CPU, or a request for more than a page, can
\* do that to it.
THEOREM KernelSiempreSano ==
    ASSUME Eventos \cap {"finalizar", "cierre", "kill", "malloc"} = {}
    PROVE  Spec => []KernelSano
<1>. DEFINE J == Vale(sistema, FALSE, TRUE)
<1>1. Admite(FALSE, TRUE)
  BY DEF Admite
<1>2. Init => J
  BY InicialMarcha
<1>3. J /\ IInv /\ Sostenidos(sistema, Cpus) /\ [Next]_vars => J'
  BY <1>1, NextMarcha DEF Marcha
<1>4. J => KernelSano
  BY DEF Vale, Firme, KernelSano
<1>. HIDE DEF J
<1> QED
  BY <1>2, <1>3, <1>4, TablaEnOrden, SiempreSostenidos, PTL DEF Spec

\* Every process that was given a PID is in some queue: one is lost only if
\* memory rejects it once it left colaNuevos, if planning is stopped, or if
\* its console does not send its code.
THEOREM NingunPcbSePierde ==
    ASSUME Eventos \cap {"finalizar", "cierre", "stop", "sinMemoria"} = {}
    PROVE  Spec => []NingunPcbPerdido
<1>. DEFINE J == /\ Vale(sistema, FALSE, FALSE) /\ sistema.activa
                 /\ Conectados(sistema) /\ Completo(sistema)
<1>1. Admite(FALSE, FALSE)
  BY DEF Admite
<1>2. Init => J
  BY InicialMarcha
<1>3. J /\ IInv /\ Sostenidos(sistema, Cpus) /\ [Next]_vars => J'
  BY <1>1, NextMarcha DEF Marcha
<1>4. J => NingunPcbPerdido
  BY DEF Completo, NingunPcbPerdido, Creado, En
<1>. HIDE DEF J
<1> QED
  BY <1>2, <1>3, <1>4, TablaEnOrden, SiempreSostenidos, PTL DEF Spec

\* No CPU holds a process that is finished: the end of file of a CPU never
\* finishes what another one runs.  A request for more than a page finishes
\* the process in the hands of its CPU, and the sudden death of a CPU leaves
\* its PID where the kernel will look for it.
THEOREM TerminadoSiempreFueraDeCpu ==
    ASSUME Eventos \cap {"malloc", "caidaCpu"} = {}
    PROVE  Spec => []TerminadoFueraDeCpu
<1>. DEFINE J == Vale(sistema, TRUE, FALSE) /\ Calmo(sistema)
<1>1. Admite(TRUE, FALSE)
  BY DEF Admite
<1>2. Init => J
  BY InicialMarcha, InicialQuieto
<1>3. J /\ IInv /\ Sostenidos(sistema, Cpus) /\ [Next]_vars => J'
  <2>1. IInv /\ Sostenidos(sistema, Cpus) /\ [Next]_vars
           /\ Vale(sistema, TRUE, FALSE) => Vale(sistema, TRUE, FALSE)'
    BY <1>1, NextMarcha DEF Marcha
  <2>2. IInv /\ Sostenidos(sistema, Cpus) /\ [Next]_vars /\ Calmo(sistema)
           => Calmo(sistema)'
    BY NextQueda DEF Queda
  <2> QED
    BY <2>1, <2>2
<1>4. J /\ IInv => TerminadoFueraDeCpu
  <2>1. SUFFICES ASSUME J, IInv, NEW c \in Cpus,
                        EnCola(sistema, sistema.enCpu[c], "TERMINADO")
                 PROVE  FALSE
    BY DEF TerminadoFueraDeCpu, En
  <2>2. Bien(sistema)
    BY <2>1 DEF IInv
  <2>3. sistema.enCpu[c] # 0
    <3>1. sistema.cola["TERMINADO"] \in Seq(Pid) /\ 0 \notin Pid
      BY <2>2 DEF Bien, Sistema, Estado, Pid
    <3> QED
      BY <2>1, <3>1 DEF EnCola, Contains
  <2>4. sistema.modo[c] # "abortando"
    BY <2>1 DEF Calmo, SinAbortos
  <2>5. EnCola(sistema, sistema.enCpu[c], "EJECUTANDO")
    BY <2>1, <2>3, <2>4 DEF Vale, Orden
  <2> QED
    BY <2>1, <2>2, <2>5, UnaCola DEF Estado
<1>. HIDE DEF J
<1> QED
  BY <1>2, <1>3, <1>4, TablaEnOrden, SiempreSostenidos, PTL DEF Spec

\* A negative semaphore counts the processes that wait for it, whatever is
\* killed, finished or disconnected in an orderly way, and whatever CPU asks
\* for more than a page in between.
THEOREM SemaforoSiempreCuenta ==
    ASSUME Eventos \cap {"stop", "caidaCpu"} = {}
    PROVE  Spec => []SemaforoCuentaBloqueados
<1>. DEFINE J == /\ Vale(sistema, TRUE, FALSE) /\ sistema.activa
                 /\ Debe(sistema, Cero)
<1>1. Admite(TRUE, FALSE)
  BY DEF Admite
<1>2. Init => J
  BY InicialMarcha
<1>3. J /\ IInv /\ Sostenidos(sistema, Cpus) /\ [Next]_vars => J'
  BY <1>1, NextMarcha DEF Marcha
<1>4. J /\ IInv => SemaforoCuentaBloqueados
  <2>1. SUFFICES ASSUME J, IInv PROVE SemaforoCuentaBloqueados
    OBVIOUS
  <2>2. sistema.valor \in [Sems -> Int]
    BY <2>1 DEF IInv, Bien, Sistema
  <2>3. ASSUME NEW s \in Sems
        PROVE  Cardinality(Esperan(sistema, s)) =
                  IF sistema.valor[s] < 0 THEN -sistema.valor[s] ELSE 0
    <3>1. sistema.valor[s] + Cero[s] = sistema.valor[s]
      BY <2>2 DEF Cero
    <3> QED
      BY <2>1, <3>1 DEF Debe
  <2>4. \A p \in Pid : EnCola(sistema, p, "BLOQUEADO") <=> sistema.espera[p] # NoSem
    BY <2>1 DEF Debe
  <2> QED
    BY <2>3, <2>4 DEF SemaforoCuentaBloqueados, Esperan, En
<1>. HIDE DEF J
<1> QED
  BY <1>2, <1>3, <1>4, TablaEnOrden, SiempreSostenidos, PTL DEF Spec

\* The kernel's lists, its queues and the CPUs agree: what a CPU holds runs
\* there and nowhere else, and what runs is on a CPU or on one whose end of
\* file will finish it.
THEOREM CpuYProcesoSiempreConcuerdan ==
    ASSUME Eventos \cap {"finalizar", "cierre", "kill", "malloc", "caidaCpu",
                         "stop"} = {}
    PROVE  Spec => []CpuYProcesoConcuerdan
<1>. DEFINE J == /\ Vale(sistema, TRUE, TRUE) /\ sistema.activa
                 /\ Calmo(sistema)
<1>1. Admite(TRUE, TRUE) /\ "stop" \notin Eventos
  BY DEF Admite
<1>2. Init => J
  BY InicialMarcha, InicialQuieto
<1>3. J /\ IInv /\ Sostenidos(sistema, Cpus) /\ [Next]_vars => J'
  <2>1. IInv /\ Sostenidos(sistema, Cpus) /\ [Next]_vars
           /\ Vale(sistema, TRUE, TRUE) /\ sistema.activa
           => Vale(sistema, TRUE, TRUE)' /\ sistema'.activa
    BY <1>1, NextMarcha DEF Marcha
  <2>2. IInv /\ Sostenidos(sistema, Cpus) /\ [Next]_vars /\ Calmo(sistema)
           => Calmo(sistema)'
    BY NextQueda DEF Queda
  <2> QED
    BY <2>1, <2>2
<1>4. J /\ Sostenidos(sistema, Cpus) => CpuYProcesoConcuerdan
  <2>1. SUFFICES ASSUME J, Sostenidos(sistema, Cpus)
                 PROVE  CpuYProcesoConcuerdan
    OBVIOUS
  <2>2. Orden(sistema, Cpus) /\ Firme(sistema) /\ Atendidos(sistema)
    BY <2>1 DEF Vale
  <2>3. ASSUME NEW c \in Cpus, sistema.enCpu[c] # 0
        PROVE  /\ EnCola(sistema, sistema.enCpu[c], "EJECUTANDO")
               /\ sistema.pidEn[c] = sistema.enCpu[c]
               /\ Contains(sistema.ocupadas, c)
               /\ ~Contains(sistema.libres, c)
    <3>1. sistema.modo[c] # "abortando"
      BY <2>1 DEF Calmo, SinAbortos
    <3>2. EnCola(sistema, sistema.enCpu[c], "EJECUTANDO")
      BY <2>2, <2>3, <3>1 DEF Orden
    <3>3. Contains(sistema.ocupadas, c) /\ ~Contains(sistema.libres, c)
          /\ sistema.vivo = "vivo"
      BY <2>2, <2>3 DEF Firme
    <3>4. sistema.pidEn[c] = sistema.enCpu[c]
      BY <2>1, <2>3, <3>3 DEF Sostenidos
    <3> QED
      BY <3>2, <3>3, <3>4
  <2>4. ASSUME NEW p \in Pid, EnCola(sistema, p, "EJECUTANDO")
        PROVE  \E c \in Cpus : \/ sistema.enCpu[c] = p
                               \/ /\ sistema.modo[c] \in {"rechazada", "muerta"}
                                  /\ sistema.pidEn[c] = p
    BY <2>2, <2>4 DEF Atendidos, Nombra, Muertas
  <2> QED
    BY <2>3, <2>4 DEF CpuYProcesoConcuerdan, En
<1>. HIDE DEF J
<1> QED
  BY <1>2, <1>3, <1>4, TablaEnOrden, SiempreSostenidos, PTL DEF Spec

-----------------------------------------------------------------------------
(* Admission: how many processes are in the system, how many wait in       *)
(* colaNuevos, and the level.                                              *)

\* Every NEW process has its console at the other end.
Esperables(k) ==
    \A p \in Pid : EnCola(k, p, "NUEVO") =>
        p \in k.consolas /\ k.consola[p] = "conectada"

\* The level and the rounds of the operator's command are the same.
MismoNivel(k, m) ==
    /\ m.grado = k.grado /\ m.iteraciones = k.iteraciones
    /\ m.activa = k.activa

\* n processes finish and none is admitted.
Resta(k, m, n) ==
    /\ MismoNivel(k, m)
    /\ m.cantidad = k.cantidad - n
    /\ m.cola["NUEVO"] = k.cola["NUEVO"]
    /\ Esperables(k) => Esperables(m)

\* A slot that a handler empties is taken by a NEW process if there is one,
\* and where u holds no slot is given that was not emptied.
Cupo(k, m, x, u) ==
    /\ MismoNivel(k, m)
    /\ u => m.cantidad <= k.cantidad
    /\ Len(m.cola["NUEVO"]) <= Len(k.cola["NUEVO"])
    /\ x.memoria /\ Esperables(k) =>
          m.cola["NUEVO"] = <<>> \/ m.cantidad >= k.cantidad

\* The types these lemmas use.
LEMMA CuentaTipo ==
    ASSUME NEW k, k \in Sistema
    PROVE  /\ k.cantidad \in Int /\ k.cola["NUEVO"] \in Seq(Pid)
           /\ Len(k.cola["NUEVO"]) \in Nat
<1>1. k.cola["NUEVO"] \in Seq(Pid) /\ k.cantidad \in Int
  BY DEF Sistema, Estado
<1> QED
  BY <1>1, LenProperties

\* One piece after another.
LEMMA RestaTransitiva ==
    ASSUME NEW k, k \in Sistema, NEW l, l \in Sistema, NEW m, NEW i \in Int, NEW j \in Int,
           Resta(k, l, i), Resta(l, m, j)
    PROVE  Resta(k, m, i + j)
BY CuentaTipo DEF Resta, MismoNivel

\* One piece after another, where neither finishes anybody.
LEMMA RestaNada ==
    ASSUME NEW k, k \in Sistema, NEW l, l \in Sistema, NEW m, Resta(k, l, 0), Resta(l, m, 0)
    PROVE  Resta(k, m, 0)
BY CuentaTipo DEF Resta, MismoNivel

\* Nothing is done.
LEMMA RestaIgual ==
    ASSUME NEW k, k \in Sistema
    PROVE  Resta(k, k, 0)
BY CuentaTipo DEF Resta, MismoNivel

\* None of this.
LEMMA RestaAparte ==
    ASSUME NEW k, k \in Sistema, NEW m, MismoNivel(k, m),
           m.cantidad = k.cantidad, m.cola = k.cola,
           m.consolas = k.consolas, m.consola = k.consola
    PROVE  Resta(k, m, 0)
BY CuentaTipo DEF Resta, Esperables, EnCola

\* A handler that finishes nobody.
LEMMA CupoIgual ==
    ASSUME NEW k, k \in Sistema, NEW m, NEW x, NEW u, Resta(k, m, 0)
    PROVE  Cupo(k, m, x, u)
BY CuentaTipo DEF Resta, Cupo

\* More pieces that finish nobody, before and after.
LEMMA CupoDespues ==
    ASSUME NEW k, k \in Sistema, NEW l, l \in Sistema, NEW m, NEW x, NEW u,
           Cupo(k, l, x, u), Resta(l, m, 0)
    PROVE  Cupo(k, m, x, u)
BY CuentaTipo DEF Resta, Cupo, MismoNivel

\* More pieces that finish nobody, before and after.
LEMMA CupoAntes ==
    ASSUME NEW k, k \in Sistema, NEW l, l \in Sistema, NEW m, NEW x, NEW u,
           Resta(k, l, 0), Cupo(l, m, x, u)
    PROVE  Cupo(k, m, x, u)
BY CuentaTipo DEF Resta, Cupo, MismoNivel

\* list_remove and list_add between two queues that are not colaNuevos.
LEMMA MoverResta ==
    ASSUME NEW k, Bien(k), NEW p \in Pid,
           NEW desde \in EnSistema, NEW hacia \in EnSistema \cup {"TERMINADO"},
           desde # hacia, EnCola(k, p, desde)
    PROVE  Resta(k, Mover(k, p, desde, hacia),
                 IF hacia = "TERMINADO" THEN 1 ELSE 0)
<1>. DEFINE m == Mover(k, p, desde, hacia)
            n == IF hacia = "TERMINADO" THEN 1 ELSE 0
<1>1. k \in Sistema /\ desde \in Estado /\ hacia \in Estado
  BY DEF Bien, Estado, EnSistema
<1>2. /\ m.cola = Movida(k.cola, p, desde, hacia)
      /\ m.cantidad = IF hacia = "TERMINADO" THEN k.cantidad - 1 ELSE k.cantidad
  BY <1>1, MoverTipo
<1>3. MismoNivel(k, m) /\ m.consolas = k.consolas /\ m.consola = k.consola
  BY <1>1 DEF Mover, MismoNivel, Sistema
<1>. HIDE DEF m
<1>4. m.cola["NUEVO"] = k.cola["NUEVO"]
  <2>1. "NUEVO" \in Estado \ {desde, hacia}
    BY DEF Estado, EnSistema
  <2>2. k.cola \in [Estado -> Seq(Pid)]
    BY <1>1 DEF Sistema
  <2>3. Contains(k.cola[desde], p)
    BY DEF EnCola
  <2> QED
    BY <1>1, <1>2, <2>1, <2>2, <2>3, ColaMovida
<1>5. m.cantidad = k.cantidad - n
  BY <1>1, <1>2, CuentaTipo
<1>6. Esperables(k) => Esperables(m)
  BY <1>3, <1>4 DEF Esperables, EnCola
<1> QED
  BY <1>3, <1>4, <1>5, <1>6 DEF Resta, m

\* A process that stops waiting for a semaphore.
LEMMA LimpiarResta ==
    ASSUME NEW k, Bien(k), NEW p \in Pid
    PROVE  Resta(k, LimpiarSemaforos(k, p), 0)
<1>1. k \in Sistema
  BY DEF Bien
<1>2. CASE k.espera[p] = NoSem
  BY <1>1, <1>2, RestaIgual DEF LimpiarSemaforos
<1>3. CASE k.espera[p] # NoSem
  <2>. DEFINE m == [k EXCEPT !.valor[k.espera[p]] = @ + 1, !.espera[p] = NoSem]
  <2>1. /\ MismoNivel(k, m) /\ m.cantidad = k.cantidad /\ m.cola = k.cola
        /\ m.consolas = k.consolas /\ m.consola = k.consola
    BY <1>1 DEF MismoNivel, Sistema
  <2>2. LimpiarSemaforos(k, p) = m
    BY <1>3 DEF LimpiarSemaforos
  <2>. HIDE DEF m
  <2> QED
    BY <1>1, <2>1, <2>2, RestaAparte
<1> QED
  BY <1>2, <1>3

\* A process moves, if it is where it is looked for.
LEMMA PasosRestan ==
    ASSUME NEW k, Bien(k), NEW p \in Pid,
           NEW desde \in EnSistema, NEW hacia \in EnSistema \cup {"TERMINADO"},
           desde # hacia
    PROVE  Resta(k, Trasladar(k, p, desde, hacia),
                 IF Mueve(k, p, desde) /\ hacia = "TERMINADO" THEN 1 ELSE 0)
<1>1. k \in Sistema
  BY DEF Bien
<1> QED
  BY <1>1, MoverResta, RestaIgual DEF Trasladar, Mueve

\* A process finishes, after its semaphore was looked at.
LEMMA LimpiarYMoverResta ==
    ASSUME NEW k, Bien(k), NEW p \in Pid, NEW e \in EnSistema, EnCola(k, p, e)
    PROVE  Resta(k, Mover(LimpiarSemaforos(k, p), p, e, "TERMINADO"), 1)
<1>. DEFINE l == LimpiarSemaforos(k, p)
            m == Mover(l, p, e, "TERMINADO")
<1>1. Bien(l) /\ l.cola = k.cola /\ Resta(k, l, 0)
  BY LimpiarSemaforosBien, LimpiarResta
<1>. HIDE DEF l
<1>2. Resta(l, m, 1)
  <2>1. EnCola(l, p, e) /\ e # "TERMINADO"
    BY <1>1 DEF EnCola, EnSistema
  <2> QED
    BY <1>1, <2>1, MoverResta
<1>. HIDE DEF m
<1>3. k \in Sistema /\ l \in Sistema
  BY <1>1 DEF Bien
<1>4. Resta(k, m, 0 + 1)
  BY <1>1, <1>2, <1>3, RestaTransitiva
<1> QED
  BY <1>4 DEF m, l

\* The process a CPU gave back finishes, if it is in colaEjecutando.
LEMMA EjecutandoResta ==
    ASSUME NEW k, Bien(k), NEW p \in Pid
    PROVE  Resta(k, EjecutandoAFinalizados(k, p),
                 IF Mueve(k, p, "EJECUTANDO") THEN 1 ELSE 0)
<1>1. k \in Sistema /\ "EJECUTANDO" \in EnSistema
  BY DEF Bien, EnSistema
<1> QED
  BY <1>1, LimpiarYMoverResta, RestaIgual DEF EjecutandoAFinalizados, Mueve

\* EXECUTE.
LEMMA EjecutarSiguienteResta ==
    ASSUME NEW k, Bien(k), NEW c \in Cpus
    PROVE  Resta(k, EjecutarSiguientePcbEnCpu(k, c), 0)
<1>. DEFINE p == Head(k.cola["LISTO"])
            l == ListosAEjecutando(k, p)
            m == EjecutarSiguientePcbEnCpu(k, c)
<1>1. k \in Sistema
  BY DEF Bien
<1>2. CASE ~HayListos(k)
  BY <1>1, <1>2, RestaIgual DEF EjecutarSiguientePcbEnCpu
<1>3. CASE HayListos(k)
  <2>1. p \in Pid
    <3>1. k.cola["LISTO"] \in Seq(Pid) /\ k.cola["LISTO"] # <<>>
      BY <1>1, <1>3 DEF HayListos, Sistema, Estado
    <3> QED
      BY <3>1, HeadTailProperties
  <2>2. Bien(l) /\ Resta(k, l, 0)
    <3>1. Resta(k, l, IF Mueve(k, p, "LISTO") /\ "EJECUTANDO" = "TERMINADO"
                      THEN 1 ELSE 0)
      BY <2>1, PasosRestan DEF ListosAEjecutando, EnSistema
    <3> QED
      BY <2>1, <3>1, PasosBien
  <2>3. m = [l EXCEPT !.pidEn[c] = p, !.ecCopia[p] = k.ec[p],
               !.enCpu[c] = IF EsperaPcb(k, c) THEN p ELSE @,
               !.modo[c] = IF @ = "saludando" THEN "rechazada" ELSE @,
               !.vivo = IF EsperaOtraCosa(k, c)
                        THEN "desincronizado" ELSE @]
    BY <1>3 DEF EjecutarSiguientePcbEnCpu
  <2>. HIDE DEF m, l, p
  <2>4. l \in Sistema
    BY <2>2 DEF Bien
  <2>5. Resta(l, m, 0)
    <3>1. /\ MismoNivel(l, m) /\ m.cantidad = l.cantidad /\ m.cola = l.cola
          /\ m.consolas = l.consolas /\ m.consola = l.consola
      BY <2>3, <2>4 DEF MismoNivel, Sistema
    <3> QED
      BY <2>4, <3>1, RestaAparte
  <2> QED
    BY <1>1, <2>2, <2>4, <2>5, RestaNada DEF m
<1> QED
  BY <1>2, <1>3

\* planificar(NULL).
LEMMA PlanificarLibreResta ==
    ASSUME NEW k, Bien(k)
    PROVE  Resta(k, PlanificarLibre(k), 0)
<1>. DEFINE c == Head(k.libres)
            t == Tail(k.libres)
            a == Append(k.ocupadas, c)
            q == IF Algoritmo = "RR" THEN k.quantum[c] + 1 ELSE k.quantum[c]
            m == [k EXCEPT !.libres = t, !.ocupadas = a, !.quantum[c] = q]
<1>1. k \in Sistema
  BY DEF Bien
<1>2. CASE ~k.activa \/ k.libres = <<>>
  BY <1>1, <1>2, RestaIgual DEF PlanificarLibre
<1>3. CASE k.activa /\ k.libres # <<>>
  <2>1. k.libres \in Seq(Cpus) /\ k.ocupadas \in Seq(Cpus)
    BY <1>1 DEF Sistema
  <2>2. c \in Cpus /\ t \in Seq(Cpus)
    BY <1>3, <2>1, HeadTailProperties
  <2>. HIDE DEF c, t
  <2>3. a \in Seq(Cpus)
    BY <2>1, <2>2, AppendProperties
  <2>4. q \in Nat
    BY <1>1, <2>2 DEF Sistema
  <2>5. PlanificarLibre(k) = EjecutarSiguientePcbEnCpu(m, c)
    <3>1. PlanificarLibre(k) = EjecutarSiguientePcbEnCpu(
            [k EXCEPT !.libres = Tail(@), !.ocupadas = Append(@, c),
                !.quantum[c] = IF Algoritmo = "RR" THEN @ + 1 ELSE @], c)
      BY <1>3 DEF PlanificarLibre, c
    <3>2. [k EXCEPT !.libres = Tail(@), !.ocupadas = Append(@, c),
                !.quantum[c] = IF Algoritmo = "RR" THEN @ + 1 ELSE @] = m
      BY <1>1 DEF Sistema, t
    <3> QED
      BY <3>1, <3>2, Zenon
  <2>. HIDE DEF a, q
  <2>6. m \in Sistema
    BY <1>1, <2>2, <2>3, <2>4 DEF Sistema
  <2>7. /\ m.cola = k.cola /\ m.cantidad = k.cantidad /\ m.maxPID = k.maxPID
        /\ MismoNivel(k, m) /\ m.consolas = k.consolas /\ m.consola = k.consola
    BY <1>1 DEF Sistema, MismoNivel
  <2>. HIDE DEF m
  <2>8. Bien(m) /\ Resta(k, m, 0)
    BY <1>1, <2>6, <2>7, MismasColas, RestaAparte
  <2>9. Resta(m, EjecutarSiguientePcbEnCpu(m, c), 0)
    BY <2>2, <2>8, EjecutarSiguienteResta
  <2> QED
    BY <1>1, <2>5, <2>6, <2>8, <2>9, RestaNada
<1> QED
  BY <1>2, <1>3

\* planificar(NULL), when somebody is ready.
LEMMA PlanificarSiHayListosResta ==
    ASSUME NEW k, Bien(k)
    PROVE  Resta(k, PlanificarSiHayListos(k), 0)
<1>1. k \in Sistema
  BY DEF Bien
<1> QED
  BY <1>1, PlanificarLibreResta, RestaIgual DEF PlanificarSiHayListos

\* A CPU joins the free ones.
LEMMA LiberarCpuResta ==
    ASSUME NEW k, Bien(k), NEW c \in Cpus
    PROVE  Resta(k, LiberarCpu(k, c), 0)
<1>1. k \in Sistema
  BY DEF Bien
<1>2. LET m == LiberarCpu(k, c) IN
      /\ MismoNivel(k, m) /\ m.cantidad = k.cantidad /\ m.cola = k.cola
      /\ m.consolas = k.consolas /\ m.consola = k.consola
  BY <1>1 DEF LiberarCpu, MismoNivel, Sistema
<1> QED
  BY <1>1, <1>2, RestaAparte

\* The PCB comes back.
LEMMA RecibirPcbResta ==
    ASSUME NEW k, Bien(k), NEW c \in Cpus
    PROVE  Resta(k, RecibirPcb(k, c), 0)
<1>1. k \in Sistema
  BY DEF Bien
<1>2. LET m == RecibirPcb(k, c) IN
      /\ MismoNivel(k, m) /\ m.cantidad = k.cantidad /\ m.cola = k.cola
      /\ m.consolas = k.consolas /\ m.consola = k.consola
  BY <1>1 DEF RecibirPcb, ReemplazarPcbEnEjecutando, MismoNivel, Sistema
<1> QED
  BY <1>1, <1>2, RestaAparte

\* Memory and the console are told of the end of a process that is not NEW.
LEMMA AvisarResta ==
    ASSUME NEW k, Bien(k), NEW p \in Pid, ~EnCola(k, p, "NUEVO"), NEW code
    PROVE  Resta(k, InformarAConsola(PedirAMemoriaFinalizarProceso(k, p), p,
                                     code), 0)
<1>. DEFINE m == InformarAConsola(PedirAMemoriaFinalizarProceso(k, p), p, code)
<1>1. k \in Sistema
  BY DEF Bien
<1>2. /\ MismoNivel(k, m) /\ m.cantidad = k.cantidad /\ m.cola = k.cola
      /\ m.consolas \in {k.consolas, k.consolas \ {p}} /\ m.consola = k.consola
  BY <1>1 DEF InformarAConsola, PedirAMemoriaFinalizarProceso,
     EliminarPidProgramaSocket, MismoNivel, Sistema
<1>. HIDE DEF m
<1>3. Esperables(k) => Esperables(m)
  <2>1. ASSUME Esperables(k), NEW q \in Pid, EnCola(m, q, "NUEVO")
        PROVE  q \in m.consolas /\ m.consola[q] = "conectada"
    <3>1. EnCola(k, q, "NUEVO") /\ q # p
      BY <1>2, <2>1 DEF EnCola
    <3> QED
      BY <1>2, <2>1, <3>1 DEF Esperables
  <2> QED
    BY <2>1 DEF Esperables
<1>4. m.cantidad = k.cantidad - 0
  BY <1>1, <1>2, CuentaTipo
<1> QED
  BY <1>2, <1>3, <1>4 DEF Resta, m

\* A NEW process is let in, if there is one and its console and memory answer.
Repone(k, m, x) ==
    /\ MismoNivel(k, m)
    /\ m.cantidad \in {k.cantidad, k.cantidad + 1}
    /\ m.cantidad # k.cantidad => k.activa
    /\ Len(m.cola["NUEVO"]) <= Len(k.cola["NUEVO"])
    /\ k.activa => \/ Len(m.cola["NUEVO"]) = 0
                   \/ Len(m.cola["NUEVO"]) = Len(k.cola["NUEVO"]) - 1
    /\ x.memoria /\ k.activa /\ Esperables(k) =>
          Len(k.cola["NUEVO"]) = 0 \/ m.cantidad = k.cantidad + 1

\* AdmitirNuevo counts the process it lets in, and no other.
LEMMA AdmitirNuevoRepone ==
    ASSUME NEW k, Bien(k), NEW p \in Pid, p <= k.maxPID, NEW x,
           \A e \in Estado : ~Contains(k.cola[e], p)
    PROVE  LET m == AdmitirNuevo(k, p, x) IN
           /\ MismoNivel(k, m)
           /\ m.cantidad = IF x.memoria /\ k.activa THEN k.cantidad + 1
                           ELSE k.cantidad
           /\ m.cola["NUEVO"] = k.cola["NUEVO"]
<1>. DEFINE g == [k EXCEPT !.paginas = @ \cup {p}]
            l == NuevoAListos(g, p)
            r == SinMemoria(k, p)
            m == AdmitirNuevo(k, p, x)
<1>1. k \in Sistema
  BY DEF Bien
<1>2. CASE x.memoria
  <2>1. /\ g \in Sistema /\ MismoNivel(k, g) /\ g.cola = k.cola
        /\ g.cantidad = k.cantidad /\ g.maxPID = k.maxPID
    BY <1>1 DEF Sistema, MismoNivel
  <2>2. Bien(g)
    BY <2>1, MismasColas
  <2>3. m = IF k.libres # <<>> THEN PlanificarLibre(l) ELSE l
    BY <1>2 DEF AdmitirNuevo
  <2>. HIDE DEF g
  <2>4. Bien(l)
    BY <2>1, <2>2, NuevoAListosBien
  <2>5. /\ MismoNivel(k, l)
        /\ l.cantidad = IF k.activa THEN k.cantidad + 1 ELSE k.cantidad
        /\ l.cola["NUEVO"] = k.cola["NUEVO"]
    BY <2>1 DEF NuevoAListos, MismoNivel, Sistema, Estado
  <2>. HIDE DEF l, m
  <2>6. Resta(l, m, 0)
    <3>1. l \in Sistema
      BY <2>4 DEF Bien
    <3> QED
      BY <2>3, <2>4, <3>1, PlanificarLibreResta, RestaIgual
  <2>7. l.cantidad \in Int
    BY <2>4, CuentaTipo DEF Bien
  <2>8. MismoNivel(l, m) /\ m.cantidad = l.cantidad
        /\ m.cola["NUEVO"] = l.cola["NUEVO"]
    BY <2>6, <2>7 DEF Resta
  <2>9. MismoNivel(k, m)
    BY <2>5, <2>8 DEF MismoNivel
  <2> QED
    BY <1>2, <2>5, <2>8, <2>9 DEF m
<1>3. CASE ~x.memoria
  <2>1. /\ r \in Sistema
        /\ MismoNivel(k, r) /\ r.cantidad = k.cantidad /\ r.cola = k.cola
    BY <1>1, SinMemoriaBien DEF SinMemoria, MismoNivel, Bien, Sistema
  <2>2. m = InformarAConsola(r, p, "NO_SE_PUDO_ASIGNAR_RECURSO")
    BY <1>3, AdmitirRechaza, Zenon DEF m, r
  <2>. HIDE DEF r, m
  <2>3. MismoNivel(k, m) /\ m.cantidad = k.cantidad /\ m.cola = k.cola
    BY <2>1, <2>2 DEF InformarAConsola, EliminarPidProgramaSocket, MismoNivel,
       Sistema
  <2> QED
    BY <1>3, <2>3 DEF m
<1> QED
  BY <1>2, <1>3

\* pasarProximoProcDeNewAReady.
LEMMA PasarProximoRepone ==
    ASSUME NEW k, Bien(k), NEW x
    PROVE  Repone(k, PasarProximoProcDeNewAReady(k, x), x)
<1>. DEFINE p == Head(k.cola["NUEVO"])
            q == [k EXCEPT !.cola["NUEVO"] = Tail(@)]
            m == PasarProximoProcDeNewAReady(k, x)
<1>1. k \in Sistema /\ k.cola["NUEVO"] \in Seq(Pid) /\ k.cantidad \in Int
      /\ Len(k.cola["NUEVO"]) \in Nat
  BY CuentaTipo DEF Bien
<1>2. CASE ~k.activa \/ k.cola["NUEVO"] = <<>>
  <2>1. m = k
    BY <1>2 DEF PasarProximoProcDeNewAReady
  <2>2. k.activa => Len(k.cola["NUEVO"]) = 0
    BY <1>1, <1>2, EmptySeq
  <2> QED
    BY <1>1, <2>1, <2>2 DEF Repone, MismoNivel
<1>3. CASE k.activa /\ k.cola["NUEVO"] # <<>>
  <2>1. /\ Bien(q) /\ p \in Pid /\ p <= q.maxPID
        /\ \A e \in Estado : ~Contains(q.cola[e], p)
    BY <1>3, QuitadoBien
  <2>2. /\ MismoNivel(k, q) /\ q.cantidad = k.cantidad
        /\ q.cola["NUEVO"] = Tail(k.cola["NUEVO"])
    BY <1>1 DEF MismoNivel, Sistema, Estado
  <2>3. Len(q.cola["NUEVO"]) = Len(k.cola["NUEVO"]) - 1
    BY <1>1, <1>3, <2>2, HeadTailProperties
  <2>4. m =
          CASE p \notin k.consolas -> [q EXCEPT !.vivo = "caido"]
            [] p \in k.consolas /\ k.consola[p] = "finalizando" ->
                 [q EXCEPT !.vivo = "colgado"]
            [] p \in k.consolas /\ k.consola[p] = "cerrando" /\ x.basura ->
                 [q EXCEPT !.vivo = "caido"]
            [] OTHER -> AdmitirNuevo(q, p, x)
    BY <1>3 DEF PasarProximoProcDeNewAReady
  <2>5. Esperables(k) => p \in k.consolas /\ k.consola[p] = "conectada"
    <3>1. EnCola(k, p, "NUEVO")
      BY <1>3, QuitadoDonde
    <3> QED
      BY <2>1, <3>1 DEF Esperables
  <2>. HIDE DEF p, q, m
  <2>6. q \in Sistema
    BY <2>1 DEF Bien
  <2>7. CASE m = AdmitirNuevo(q, p, x)
    <3>1. /\ MismoNivel(q, m)
          /\ m.cantidad = IF x.memoria /\ q.activa THEN q.cantidad + 1
                          ELSE q.cantidad
          /\ m.cola["NUEVO"] = q.cola["NUEVO"]
      BY <2>1, <2>7, AdmitirNuevoRepone
    <3>2. MismoNivel(k, m)
      BY <2>2, <3>1 DEF MismoNivel
    <3>3. q.activa = k.activa
      BY <2>2 DEF MismoNivel
    <3> QED
      BY <1>1, <1>3, <2>2, <2>3, <3>1, <3>2, <3>3 DEF Repone, m
  <2>8. CASE m # AdmitirNuevo(q, p, x)
    <3>1. PICK v \in Vida : m = [q EXCEPT !.vivo = v]
      BY <2>4, <2>8 DEF Vida
    <3>2. ~Esperables(k)
      BY <2>4, <2>5, <2>8
    <3>3. MismoNivel(k, m) /\ m.cantidad = k.cantidad /\ m.cola = q.cola
      BY <2>2, <2>6, <3>1 DEF MismoNivel, Sistema
    <3> QED
      BY <1>1, <1>3, <2>3, <3>2, <3>3 DEF Repone, m
  <2> QED
    BY <2>7, <2>8
<1> QED
  BY <1>2, <1>3

\* A handler that finishes n processes and then lets one in.
LEMMA RelevoCupo ==
    ASSUME NEW k, Bien(k), NEW l, Bien(l), NEW n \in {0, 1}, Resta(k, l, n),
           ~k.activa => n = 0,
           NEW x, NEW u, u => n = 1 \/ ~k.activa
    PROVE  Cupo(k, PasarProximoProcDeNewAReady(l, x), x, u)
<1>. DEFINE m == PasarProximoProcDeNewAReady(l, x)
<1>1. Repone(l, m, x) /\ Bien(m)
  BY PasarProximoRepone, PasarProximoBien
<1>2. /\ k.cantidad \in Int /\ Len(k.cola["NUEVO"]) \in Nat
      /\ m.cola["NUEVO"] \in Seq(Pid) /\ Len(m.cola["NUEVO"]) \in Nat
  BY <1>1, CuentaTipo DEF Bien
<1>. HIDE DEF m
<1>3. Len(m.cola["NUEVO"]) = 0 => m.cola["NUEVO"] = <<>>
  BY <1>2, EmptySeq
<1>4. MismoNivel(k, m) /\ l.activa = k.activa
  BY <1>1 DEF Repone, Resta, MismoNivel
<1>5. u => m.cantidad <= k.cantidad
  BY <1>1, <1>2, <1>4 DEF Repone, Resta
<1>6. Len(m.cola["NUEVO"]) <= Len(k.cola["NUEVO"])
  BY <1>1 DEF Repone, Resta
<1>7. x.memoria /\ Esperables(k) =>
         m.cola["NUEVO"] = <<>> \/ m.cantidad >= k.cantidad
  <2>1. SUFFICES ASSUME x.memoria, Esperables(k), k.activa
                 PROVE  m.cola["NUEVO"] = <<>> \/ m.cantidad >= k.cantidad
    BY <1>1, <1>2, <1>4 DEF Repone, Resta
  <2>2. Len(l.cola["NUEVO"]) = 0 \/ m.cantidad = l.cantidad + 1
    BY <1>1, <1>4, <2>1 DEF Repone, Resta
  <2>3. Len(l.cola["NUEVO"]) = 0 => Len(m.cola["NUEVO"]) = 0
    BY <1>1, <1>2 DEF Repone
  <2> QED
    BY <1>2, <1>3, <2>2, <2>3 DEF Resta
<1>8. Cupo(k, m, x, u)
  BY <1>4, <1>5, <1>6, <1>7 DEF Cupo
<1> QED
  BY <1>8 DEF m

-----------------------------------------------------------------------------
(* What the handlers do to the slots: u is true where the process a CPU     *)
(* holds runs.                                                             *)

\* The slot of the process CPU c holds.
Ocupa(k, c) == IF Mueve(k, k.enCpu[c], "EJECUTANDO") THEN 1 ELSE 0

\* A slot that is there is emptied, unless planning is stopped.
LEMMA OcupaEstado ==
    ASSUME NEW k, NEW c, NEW u, u => EnCola(k, k.enCpu[c], "EJECUTANDO")
    PROVE  /\ Ocupa(k, c) \in {0, 1} /\ (~k.activa => Ocupa(k, c) = 0)
           /\ u => Ocupa(k, c) = 1 \/ ~k.activa
BY DEF Ocupa, Mueve

\* What CPU c held is finished once its PCB came back.
LEMMA FinalizadoResta ==
    ASSUME NEW k, Bien(k), NEW c \in Cpus, k.enCpu[c] # 0,
           Adentro(k, k.enCpu[c])
    PROVE  LET p == k.enCpu[c]
               f == EjecutandoAFinalizados(RecibirPcb(k, c), p)
           IN  /\ p \in Pid /\ Bien(f) /\ ~EnCola(f, p, "NUEVO")
               /\ Resta(k, f, Ocupa(k, c))
<1>. DEFINE p == k.enCpu[c]
            r == RecibirPcb(k, c)
            f == EjecutandoAFinalizados(r, p)
<1>1. Bien(r) /\ p \in Pid /\ Resta(k, r, 0)
  BY RecibirPcbBien, RecibirPcbResta
<1>2. r.cola = k.cola /\ r.activa = k.activa
  BY DEF RecibirPcb, ReemplazarPcbEnEjecutando, Bien, Sistema
<1>3. ~EnCola(k, p, "NUEVO")
  BY UnaCola DEF Adentro, Estado
<1>4. Ocupa(k, c) = IF Mueve(r, p, "EJECUTANDO") THEN 1 ELSE 0
  BY <1>2 DEF Ocupa, Mueve, EnCola
<1>5. Ocupa(k, c) \in Int
  BY DEF Ocupa
<1>. HIDE DEF p, r
<1>6. Bien(f) /\ Resta(r, f, Ocupa(k, c))
  <2>1. "FINALIZADO_POR_COMANDO" \in ExitCode
    BY DEF ExitCode
  <2> QED
    BY <1>1, <1>4, <2>1, FinalizarBien, EjecutandoResta
<1>. HIDE DEF f
<1>7. k \in Sistema /\ r \in Sistema
  BY <1>1 DEF Bien
<1>8. Resta(k, f, 0 + Ocupa(k, c))
  BY <1>1, <1>5, <1>6, <1>7, RestaTransitiva
<1>9. Resta(k, f, Ocupa(k, c))
  BY <1>5, <1>8
<1>10. ~EnCola(f, p, "NUEVO")
  BY <1>3, <1>9 DEF Resta, EnCola
<1> QED
  BY <1>1, <1>6, <1>9, <1>10 DEF f, r, p

\* A process with a kill flag.
LEMMA MatarEnCpuCupo ==
    ASSUME NEW k, Bien(k), NEW c \in Cpus, k.enCpu[c] # 0,
           Adentro(k, k.enCpu[c]), NEW x,
           NEW u, u => EnCola(k, k.enCpu[c], "EJECUTANDO")
    PROVE  Cupo(k, MatarEnCpu(k, c, x), x, u)
<1>. DEFINE p == k.enCpu[c]
            f == EjecutandoAFinalizados(RecibirPcb(k, c), p)
            e == k.ecCopia[p]
            a == InformarAConsola(PedirAMemoriaFinalizarProceso(f, p), p, e)
            n == PasarProximoProcDeNewAReady(a, x)
            l == LiberarCpu(n, c)
            m == EjecutarSiguientePcbEnCpu(l, c)
<1>1. /\ p \in Pid /\ Bien(f) /\ ~EnCola(f, p, "NUEVO")
      /\ Resta(k, f, Ocupa(k, c))
  BY FinalizadoResta
<1>2. e \in ExitCode
  BY <1>1 DEF Bien, Sistema
<1>3. /\ Ocupa(k, c) \in {0, 1} /\ (~k.activa => Ocupa(k, c) = 0)
      /\ u => Ocupa(k, c) = 1 \/ ~k.activa
  BY OcupaEstado
<1>4. MatarEnCpu(k, c, x) = m
  BY DEF MatarEnCpu
<1>. HIDE DEF p, f, e
<1>5. Bien(a) /\ Resta(f, a, 0)
  BY <1>1, <1>2, AvisarBien, AvisarResta
<1>. HIDE DEF a
<1>6. Resta(k, a, Ocupa(k, c))
  <2>1. k \in Sistema /\ f \in Sistema
    BY <1>1 DEF Bien
  <2>2. Resta(k, a, Ocupa(k, c) + 0)
    BY <1>1, <1>3, <1>5, <2>1, RestaTransitiva
  <2> QED
    BY <1>3, <2>2
<1>7. Bien(n) /\ Cupo(k, n, x, u)
  BY <1>3, <1>5, <1>6, PasarProximoBien, RelevoCupo
<1>. HIDE DEF n
<1>8. Bien(l) /\ Resta(n, l, 0)
  BY <1>7, LiberarCpuBien, LiberarCpuResta
<1>. HIDE DEF l
<1>9. Resta(l, m, 0)
  BY <1>8, EjecutarSiguienteResta
<1>. HIDE DEF m
<1>10. k \in Sistema /\ n \in Sistema /\ l \in Sistema
  BY <1>7, <1>8 DEF Bien
<1>11. Resta(n, m, 0)
  BY <1>8, <1>9, <1>10, RestaNada
<1> QED
  BY <1>4, <1>7, <1>10, <1>11, CupoDespues

\* The quantum of a CPU is over, or not yet.
LEMMA RoundRobinResta ==
    ASSUME NEW k, Bien(k), NEW c \in Cpus, k.enCpu[c] # 0,
           NEW x \in Exterior
    PROVE  Resta(k, RoundRobin(k, c, x), 0)
<1>. DEFINE cpu == CpuDelQuantum(k, c, x)
            p == k.enCpu[c]
            r == RecibirPcb(k, c)
            l == EjecutandoAListos(r, p)
            m == [l EXCEPT !.quantum[cpu] = 1]
            n == [k EXCEPT !.quantum[cpu] = @ + 1]
<1>1. cpu \in Cpus \cup {NoCpu} /\ k \in Sistema
  BY CpuDelQuantumTipo DEF Bien
<1>2. Bien(r) /\ p \in Pid /\ Resta(k, r, 0)
  BY RecibirPcbBien, RecibirPcbResta
<1>3. RoundRobin(k, c, x) =
        IF cpu = NoCpu THEN [k EXCEPT !.vivo = "caido"]
        ELSE IF k.quantum[cpu] >= Quantum
             THEN EjecutarSiguientePcbEnCpu(m, cpu) ELSE n
  BY DEF RoundRobin
<1>. HIDE DEF cpu, p, r
<1>4. Bien(l) /\ Resta(r, l, 0)
  <2>1. Resta(r, l, IF Mueve(r, p, "EJECUTANDO") /\ "LISTO" = "TERMINADO"
                    THEN 1 ELSE 0)
    BY <1>2, PasosRestan DEF EjecutandoAListos, EnSistema
  <2> QED
    BY <1>2, <2>1, PasosBien
<1>. HIDE DEF l
<1>5. Resta(k, [k EXCEPT !.vivo = "caido"], 0)
  <2>1. LET y == [k EXCEPT !.vivo = "caido"] IN
        /\ MismoNivel(k, y) /\ y.cantidad = k.cantidad /\ y.cola = k.cola
        /\ y.consolas = k.consolas /\ y.consola = k.consola
    BY <1>1 DEF MismoNivel, Sistema
  <2> QED
    BY <1>1, <2>1, RestaAparte
<1>6. Resta(k, n, 0)
  <2>1. /\ MismoNivel(k, n) /\ n.cantidad = k.cantidad /\ n.cola = k.cola
        /\ n.consolas = k.consolas /\ n.consola = k.consola
    BY <1>1 DEF MismoNivel, Sistema
  <2> QED
    BY <1>1, <2>1, RestaAparte
<1>7. ASSUME cpu # NoCpu
      PROVE  Resta(k, EjecutarSiguientePcbEnCpu(m, cpu), 0)
  <2>1. cpu \in Cpus /\ l \in Sistema /\ r \in Sistema
    BY <1>1, <1>2, <1>4, <1>7 DEF Bien
  <2>2. Bien(m)
    BY <1>4, <2>1, CampoBien
  <2>3. /\ MismoNivel(l, m) /\ m.cantidad = l.cantidad /\ m.cola = l.cola
        /\ m.consolas = l.consolas /\ m.consola = l.consola
    BY <2>1 DEF MismoNivel, Sistema
  <2>. HIDE DEF m
  <2>4. Resta(l, m, 0)
    BY <2>1, <2>3, RestaAparte
  <2>5. Resta(m, EjecutarSiguientePcbEnCpu(m, cpu), 0) /\ m \in Sistema
    BY <2>1, <2>2, EjecutarSiguienteResta DEF Bien
  <2>6. Resta(k, l, 0)
    BY <1>1, <1>2, <1>4, <2>1, RestaNada
  <2>7. Resta(k, m, 0)
    BY <1>1, <2>1, <2>4, <2>6, RestaNada
  <2> QED
    BY <1>1, <2>5, <2>7, RestaNada
<1>. HIDE DEF m, n
<1> QED
  BY <1>3, <1>5, <1>6, <1>7

\* TERMINE_SENTENCIA.
LEMMA PlanificarCpuCupo ==
    ASSUME NEW k, Bien(k), NEW c \in Cpus, k.enCpu[c] # 0,
           Adentro(k, k.enCpu[c]), NEW x \in Exterior,
           NEW u, u => EnCola(k, k.enCpu[c], "EJECUTANDO")
    PROVE  Cupo(k, PlanificarCpu(k, c, x), x, u)
<1>. DEFINE s == [k EXCEPT !.modo[c] = "activa"]
            e == [k EXCEPT !.modo[c] = "esperando"]
            f == QuitarFlag(s, k.pidEn[c], x)
<1>1. k \in Sistema /\ Bien(s)
  BY CampoBien DEF Bien, ModoCpu
<1>2. /\ MismoNivel(k, s) /\ s.cantidad = k.cantidad /\ s.cola = k.cola
      /\ s.consolas = k.consolas /\ s.consola = k.consola /\ s.enCpu = k.enCpu
  BY <1>1 DEF MismoNivel, Sistema
<1>3. /\ MismoNivel(k, e) /\ e.cantidad = k.cantidad /\ e.cola = k.cola
      /\ e.consolas = k.consolas /\ e.consola = k.consola
  BY <1>1 DEF MismoNivel, Sistema
<1>4. PlanificarCpu(k, c, x) =
        IF ~k.activa THEN e
        ELSE IF TengoQueMatar(k, k.pidEn[c], x) THEN MatarEnCpu(f, c, x)
        ELSE IF Algoritmo = "RR" THEN RoundRobin(s, c, x) ELSE s
  BY DEF PlanificarCpu
<1>. HIDE DEF s, e
<1>5. Resta(k, s, 0) /\ Resta(k, e, 0) /\ s \in Sistema
  BY <1>1, <1>2, <1>3, RestaAparte DEF Bien
<1>6. Bien(f)
  BY <1>1, QuitarFlagBien
<1>7. /\ MismoNivel(s, f) /\ f.cantidad = s.cantidad /\ f.cola = s.cola
      /\ f.consolas = s.consolas /\ f.consola = s.consola /\ f.enCpu = s.enCpu
  BY <1>5 DEF QuitarFlag, MismoNivel, Sistema
<1>. HIDE DEF f
<1>8. Resta(s, f, 0) /\ f \in Sistema
  BY <1>5, <1>6, <1>7, RestaAparte DEF Bien
<1>9. Resta(k, f, 0)
  BY <1>1, <1>5, <1>8, RestaNada
<1>10. Cupo(f, MatarEnCpu(f, c, x), x, u)
  <2>1. f.enCpu = k.enCpu /\ f.cola = k.cola
    BY <1>2, <1>7
  <2>2. f.enCpu[c] # 0 /\ Adentro(f, f.enCpu[c])
    BY <2>1 DEF Adentro, EnCola
  <2>3. u => EnCola(f, f.enCpu[c], "EJECUTANDO")
    BY <2>1 DEF EnCola
  <2> QED
    BY <1>6, <2>2, <2>3, MatarEnCpuCupo
<1>11. Cupo(k, MatarEnCpu(f, c, x), x, u)
  BY <1>1, <1>8, <1>9, <1>10, CupoAntes
<1>12. Resta(k, RoundRobin(s, c, x), 0)
  <2>1. Resta(s, RoundRobin(s, c, x), 0)
    BY <1>1, <1>2, RoundRobinResta
  <2> QED
    BY <1>1, <1>5, <2>1, RestaNada
<1>13. Cupo(k, e, x, u) /\ Cupo(k, s, x, u) /\ Cupo(k, RoundRobin(s, c, x), x, u)
  BY <1>1, <1>5, <1>12, CupoIgual
<1> QED
  BY <1>4, <1>11, <1>13

\* The CPU gives back a process that ended or that it aborted.
LEMMA DevueltoResta ==
    ASSUME NEW k, Bien(k), NEW c \in Cpus, k.enCpu[c] # 0,
           Adentro(k, k.enCpu[c]), NEW code \in ExitCode
    PROVE  LET p == k.enCpu[c]
               r == RecibirPcb([k EXCEPT !.ecCopia[p] = code], c)
               l == LiberarCpu([EjecutandoAFinalizados(r, p) EXCEPT
                                   !.pidEn[c] = 0, !.quantum[c] = 0], c)
           IN  Resta(k, InformarAConsola(
                            PedirAMemoriaFinalizarProceso(l, p), p, code),
                     Ocupa(k, c))
<1>. DEFINE p == k.enCpu[c]
            z == [k EXCEPT !.ecCopia[p] = code]
            f == EjecutandoAFinalizados(RecibirPcb(z, c), p)
            g == [f EXCEPT !.pidEn[c] = 0, !.quantum[c] = 0]
            l == LiberarCpu(g, c)
            m == InformarAConsola(PedirAMemoriaFinalizarProceso(l, p), p, code)
<1>1. p \in Pid /\ k \in Sistema
  BY RecibirPcbBien DEF Bien
<1>2. /\ MismoNivel(k, z) /\ z.cantidad = k.cantidad /\ z.cola = k.cola
      /\ z.consolas = k.consolas /\ z.consola = k.consola /\ z.enCpu = k.enCpu
  BY <1>1 DEF MismoNivel, Sistema
<1>3. Bien(z)
  BY <1>1, CambioBien
<1>. HIDE DEF z
<1>4. Resta(k, z, 0) /\ z.enCpu[c] = p /\ Adentro(z, p)
      /\ Ocupa(z, c) = Ocupa(k, c)
  BY <1>1, <1>2, RestaAparte DEF Adentro, EnCola, Ocupa, Mueve, MismoNivel
<1>5. Ocupa(k, c) \in Int
  BY DEF Ocupa
<1>. HIDE DEF p
<1>6. Bien(f) /\ ~EnCola(f, p, "NUEVO") /\ Resta(z, f, Ocupa(k, c))
  <2>1. p # 0
    BY DEF p
  <2> QED
    BY <1>3, <1>4, <2>1, FinalizadoResta
<1>. HIDE DEF f
<1>7. f \in Sistema /\ z \in Sistema
  BY <1>3, <1>6 DEF Bien
<1>8. Bien(g)
  <2>1. 0 \in 0..MaxPid /\ 0 \in Nat
    BY MaxPidAssumption
  <2> QED
    BY <1>6, <2>1, CampoBien
<1>9. /\ MismoNivel(f, g) /\ g.cantidad = f.cantidad /\ g.cola = f.cola
      /\ g.consolas = f.consolas /\ g.consola = f.consola
  BY <1>7 DEF MismoNivel, Sistema
<1>. HIDE DEF g
<1>10. Resta(f, g, 0) /\ g \in Sistema
  BY <1>7, <1>8, <1>9, RestaAparte DEF Bien
<1>11. Bien(l) /\ Resta(g, l, 0) /\ l.cola = g.cola
  <2>1. l.cola = g.cola
    BY <1>10 DEF LiberarCpu, Sistema
  <2> QED
    BY <1>8, <2>1, LiberarCpuBien, LiberarCpuResta
<1>. HIDE DEF l
<1>12. l \in Sistema /\ ~EnCola(l, p, "NUEVO")
  BY <1>6, <1>9, <1>11 DEF Bien, EnCola
<1>13. Resta(l, m, 0)
  BY <1>1, <1>11, <1>12, AvisarResta
<1>. HIDE DEF m
<1>14. Resta(f, l, 0)
  BY <1>7, <1>10, <1>11, RestaNada
<1>15. Resta(f, m, 0)
  BY <1>7, <1>12, <1>13, <1>14, RestaNada
<1>16. Resta(k, f, 0 + Ocupa(k, c))
  BY <1>1, <1>4, <1>5, <1>6, <1>7, RestaTransitiva
<1>17. Resta(k, m, (0 + Ocupa(k, c)) + 0)
  BY <1>1, <1>5, <1>7, <1>15, <1>16, RestaTransitiva
<1>18. Resta(k, m, Ocupa(k, c))
  BY <1>5, <1>17
<1> QED
  BY <1>18 DEF m, l, g, f, z, p

\* Once its slot is free, a NEW process takes it.
LEMMA DevueltoCupo ==
    ASSUME NEW k, Bien(k), NEW c \in Cpus, k.enCpu[c] # 0,
           Adentro(k, k.enCpu[c]), NEW code \in ExitCode, NEW x,
           NEW u, u => EnCola(k, k.enCpu[c], "EJECUTANDO")
    PROVE  Cupo(k, AbortarDeCpu(k, c, code, x), x, u)
<1>. DEFINE p == k.enCpu[c]
            r == RecibirPcb([k EXCEPT !.ecCopia[p] = code], c)
            l == LiberarCpu([EjecutandoAFinalizados(r, p) EXCEPT
                                !.pidEn[c] = 0, !.quantum[c] = 0], c)
            a == InformarAConsola(PedirAMemoriaFinalizarProceso(l, p), p, code)
<1>1. Bien(a) /\ Resta(k, a, Ocupa(k, c))
  BY DevueltoBien, DevueltoResta
<1>2. AbortarDeCpu(k, c, code, x) = PasarProximoProcDeNewAReady(a, x)
  BY DEF AbortarDeCpu
<1>. HIDE DEF a
<1>3. /\ Ocupa(k, c) \in {0, 1} /\ (~k.activa => Ocupa(k, c) = 0)
      /\ u => Ocupa(k, c) = 1 \/ ~k.activa
  BY OcupaEstado
<1> QED
  BY <1>1, <1>2, <1>3, RelevoCupo

\* The end of a program does what its abortion does, and plans.
LEMMA ProgramaTerminadoCupo ==
    ASSUME NEW k, Bien(k), NEW c \in Cpus, k.enCpu[c] # 0,
           Adentro(k, k.enCpu[c]), NEW x,
           NEW u, u => EnCola(k, k.enCpu[c], "EJECUTANDO")
    PROVE  Cupo(k, ProgramaTerminado(k, c, x), x, u)
<1>. DEFINE l == AbortarDeCpu(k, c, "FINALIZADO_CORRECTAMENTE", x)
<1>1. "FINALIZADO_CORRECTAMENTE" \in ExitCode
  BY DEF ExitCode
<1>2. Bien(l) /\ Cupo(k, l, x, u)
  BY <1>1, AbortarDeCpuBien, DevueltoCupo
<1>3. ProgramaTerminado(k, c, x) = PlanificarSiHayListos(l)
  BY DEF ProgramaTerminado, AbortarDeCpu
<1>. HIDE DEF l
<1>4. k \in Sistema /\ l \in Sistema
  BY <1>2 DEF Bien
<1> QED
  BY <1>2, <1>3, <1>4, PlanificarSiHayListosResta, CupoDespues

\* What the places of the processes do not depend on.
MismasPlazas(k, m) ==
    /\ MismoNivel(k, m)
    /\ m.cantidad = k.cantidad /\ m.cola = k.cola
    /\ m.consolas = k.consolas /\ m.consola = k.consola

\* Nobody finishes.
LEMMA PlazasResta ==
    ASSUME NEW k, Bien(k), NEW m, MismasPlazas(k, m)
    PROVE  Resta(k, m, 0)
BY RestaAparte DEF MismasPlazas, Bien

\* A WAIT on a process with a kill flag.
LEMMA WaitMataCupo ==
    ASSUME NEW k, Bien(k), NEW c \in Cpus, k.enCpu[c] # 0,
           Adentro(k, k.enCpu[c]), NEW s \in Sems, NEW x,
           NEW u, u => EnCola(k, k.enCpu[c], "EJECUTANDO")
    PROVE  Cupo(k, WaitMata(k, c, s, x), x, u)
<1>. DEFINE p == k.enCpu[c]
            f == EjecutandoAFinalizados(RecibirPcb(k, c), p)
            e == k.ecCopia[p]
            a == InformarAConsola(PedirAMemoriaFinalizarProceso(f, p), p, e)
            n == PasarProximoProcDeNewAReady(a, x)
            l == LiberarCpu(n, c)
            m == [l EXCEPT !.valor[s] = @ + 1]
<1>1. /\ p \in Pid /\ Bien(f) /\ ~EnCola(f, p, "NUEVO")
      /\ Resta(k, f, Ocupa(k, c))
  BY FinalizadoResta
<1>2. e \in ExitCode
  BY <1>1 DEF Bien, Sistema
<1>3. /\ Ocupa(k, c) \in {0, 1} /\ (~k.activa => Ocupa(k, c) = 0)
      /\ u => Ocupa(k, c) = 1 \/ ~k.activa
  BY OcupaEstado
<1>4. WaitMata(k, c, s, x) = m
  <2>1. AFinalizados(RecibirPcb(k, c), p, "EJECUTANDO") = f
    BY Zenon DEF AFinalizados, EjecutandoAFinalizados
  <2>. HIDE DEF f
  <2> QED
    BY <2>1, Zenon DEF WaitMata, p
<1>. HIDE DEF p, f, e
<1>5. Bien(a) /\ Resta(f, a, 0)
  BY <1>1, <1>2, AvisarBien, AvisarResta
<1>. HIDE DEF a
<1>6. Resta(k, a, Ocupa(k, c))
  <2>1. k \in Sistema /\ f \in Sistema
    BY <1>1 DEF Bien
  <2>2. Resta(k, a, Ocupa(k, c) + 0)
    BY <1>1, <1>3, <1>5, <2>1, RestaTransitiva
  <2> QED
    BY <1>3, <2>2
<1>7. Bien(n) /\ Cupo(k, n, x, u)
  BY <1>3, <1>5, <1>6, PasarProximoBien, RelevoCupo
<1>. HIDE DEF n
<1>8. Bien(l) /\ Resta(n, l, 0)
  BY <1>7, LiberarCpuBien, LiberarCpuResta
<1>. HIDE DEF l
<1>9. Resta(l, m, 0)
  <2>1. MismasPlazas(l, m)
    BY <1>8 DEF MismasPlazas, MismoNivel, Bien, Sistema
  <2>. HIDE DEF m
  <2> QED
    BY <1>8, <2>1, PlazasResta
<1>. HIDE DEF m
<1>10. k \in Sistema /\ n \in Sistema /\ l \in Sistema
  BY <1>7, <1>8 DEF Bien
<1>11. Resta(n, m, 0)
  BY <1>8, <1>9, <1>10, RestaNada
<1> QED
  BY <1>4, <1>7, <1>10, <1>11, CupoDespues

\* A WAIT that blocks its process.
LEMMA WaitBloqueaResta ==
    ASSUME NEW k, Bien(k), NEW c \in Cpus, k.enCpu[c] # 0, NEW s \in Sems
    PROVE  Resta(k, WaitBloquea(k, c, s), 0)
<1>. DEFINE p == k.enCpu[c]
            m == [k EXCEPT !.espera[p] = s]
            l == LiberarCpu(m, c)
            r == RecibirPcb(l, c)
            b == EjecutandoABloqueados(r, p)
<1>1. p \in Pid
  BY RecibirPcbBien
<1>2. l.enCpu[c] # 0
  BY DEF LiberarCpu, Bien, Sistema
<1>3. WaitBloquea(k, c, s) = b
  BY Zenon DEF WaitBloquea
<1>. HIDE DEF p
<1>4. Bien(m) /\ MismasPlazas(k, m)
  <2>1. Bien(m)
    BY <1>1, CampoBien
  <2>2. MismasPlazas(k, m)
    BY DEF MismasPlazas, MismoNivel, Bien, Sistema
  <2> QED
    BY <2>1, <2>2
<1>. HIDE DEF m
<1>5. Resta(k, m, 0) /\ Bien(l) /\ Resta(m, l, 0)
  BY <1>4, PlazasResta, LiberarCpuBien, LiberarCpuResta
<1>. HIDE DEF l
<1>6. Bien(r) /\ Resta(l, r, 0)
  BY <1>2, <1>5, RecibirPcbBien, RecibirPcbResta
<1>. HIDE DEF r
<1>7. Resta(r, b, 0)
  <2>1. Resta(r, b, IF Mueve(r, p, "EJECUTANDO") /\ "BLOQUEADO" = "TERMINADO"
                    THEN 1 ELSE 0)
    BY <1>1, <1>6, PasosRestan DEF EjecutandoABloqueados, EnSistema
  <2> QED
    BY <2>1
<1>. HIDE DEF b
<1>8. k \in Sistema /\ m \in Sistema /\ l \in Sistema /\ r \in Sistema
  BY <1>4, <1>5, <1>6 DEF Bien
<1>9. Resta(k, l, 0)
  BY <1>5, <1>8, RestaNada
<1>10. Resta(k, r, 0)
  BY <1>6, <1>8, <1>9, RestaNada
<1> QED
  BY <1>3, <1>7, <1>8, <1>10, RestaNada

\* A WAIT.
LEMMA WaitCupo ==
    ASSUME NEW k, Bien(k), NEW c \in Cpus, k.enCpu[c] # 0,
           Adentro(k, k.enCpu[c]), NEW s \in Sems, NEW x,
           NEW u, u => EnCola(k, k.enCpu[c], "EJECUTANDO")
    PROVE  Cupo(k, Wait(k, c, s, x), x, u)
<1>. DEFINE p == k.enCpu[c]
            v == k.valor[s] - 1
            t == [k EXCEPT !.valor[s] = v]
            f == QuitarFlag(t, p, x)
            a == WaitMata(f, c, s, x)
            w == WaitBloquea(t, c, s)
<1>1. v \in Int /\ t = [k EXCEPT !.valor[s] = @ - 1] /\ k.valor[s] \in Int
  BY DEF Bien, Sistema
<1>. HIDE DEF v
<1>2. Bien(t)
  BY <1>1, CampoBien
<1>3. t.enCpu = k.enCpu /\ MismasPlazas(k, t)
  BY DEF MismasPlazas, MismoNivel, Bien, Sistema
<1>4. Wait(k, c, s, x) =
        IF k.valor[s] > 0 THEN t
        ELSE IF TengoQueMatar(k, p, x) THEN PlanificarSiHayListos(a)
        ELSE PlanificarSiHayListos(w)
  <2>1. [k EXCEPT !.valor[s] = @ - 1] = t
    BY <1>1
  <2>2. k.valor[s] > 0 <=> ~(k.valor[s] <= 0)
    BY <1>1
  <2>. HIDE DEF t
  <2> QED
    BY <2>1, <2>2 DEF Wait, p, f
<1>. HIDE DEF t
<1>5. Bien(f) /\ MismasPlazas(t, f) /\ f.enCpu = t.enCpu
  <2>1. Bien(f)
    BY <1>2, QuitarFlagBien
  <2>2. MismasPlazas(t, f) /\ f.enCpu = t.enCpu
    BY <1>2 DEF QuitarFlag, MismasPlazas, MismoNivel, Bien, Sistema
  <2> QED
    BY <2>1, <2>2
<1>. HIDE DEF f
<1>6. /\ k \in Sistema /\ t \in Sistema /\ f \in Sistema
      /\ Resta(k, t, 0) /\ Resta(t, f, 0)
  BY <1>2, <1>3, <1>5, PlazasResta DEF Bien
<1>7. Cupo(k, t, x, u)
  BY <1>6, CupoIgual
<1>8. Cupo(k, PlanificarSiHayListos(a), x, u)
  <2>1. f.enCpu = k.enCpu /\ f.cola = k.cola
    BY <1>3, <1>5 DEF MismasPlazas
  <2>2. /\ f.enCpu[c] # 0 /\ Adentro(f, f.enCpu[c])
        /\ u => EnCola(f, f.enCpu[c], "EJECUTANDO")
    BY <2>1 DEF Adentro, EnCola
  <2>3. Bien(a) /\ Cupo(f, a, x, u)
    BY <1>5, <2>2, WaitMataBien, WaitMataCupo
  <2>. HIDE DEF a
  <2>4. Resta(a, PlanificarSiHayListos(a), 0) /\ a \in Sistema
    BY <2>3, PlanificarSiHayListosResta DEF Bien
  <2>5. Cupo(f, PlanificarSiHayListos(a), x, u)
    BY <1>6, <2>3, <2>4, CupoDespues
  <2>6. Resta(k, f, 0)
    BY <1>6, RestaNada
  <2> QED
    BY <1>6, <2>5, <2>6, CupoAntes
<1>9. Cupo(k, PlanificarSiHayListos(w), x, u)
  <2>1. Bien(w) /\ Resta(t, w, 0)
    BY <1>2, <1>3, WaitBloqueaBien, WaitBloqueaResta
  <2>. HIDE DEF w
  <2>2. Resta(w, PlanificarSiHayListos(w), 0) /\ w \in Sistema
    BY <2>1, PlanificarSiHayListosResta DEF Bien
  <2>3. Resta(k, w, 0)
    BY <1>6, <2>1, <2>2, RestaNada
  <2>4. Resta(k, PlanificarSiHayListos(w), 0)
    BY <1>6, <2>2, <2>3, RestaNada
  <2> QED
    BY <1>6, <2>4, CupoIgual
<1> QED
  BY <1>4, <1>7, <1>8, <1>9

\* A SIGNAL.
LEMMA SignalResta ==
    ASSUME NEW k, Bien(k), NEW c \in Cpus, NEW s \in Sems
    PROVE  Resta(k, Signal(k, c, s), 0)
<1>. DEFINE v == k.valor[s] + 1
            m == [k EXCEPT !.valor[s] = v, !.modo[c] = "sentencia"]
            q == k.cola["BLOQUEADO"]
            I == {j \in 1..Len(q) : k.espera[q[j]] = s}
            i == IF I # {} THEN Min(I) ELSE 0
            p == q[i]
            d == BloqueadoAListo(m, p)
            l == [d EXCEPT !.espera[p] = NoSem]
<1>1. v \in Int
      /\ m = [k EXCEPT !.valor[s] = @ + 1, !.modo[c] = "sentencia"]
  BY DEF Bien, Sistema
<1>2. Signal(k, c, s) =
        IF i = 0 THEN m
        ELSE IF k.libres # <<>> THEN PlanificarLibre(l) ELSE l
  BY <1>1, Zenon DEF Signal, SelectInSeq
<1>. HIDE DEF v
<1>3. Bien(m) /\ MismasPlazas(k, m)
  <2>1. m \in Sistema /\ MismasPlazas(k, m) /\ m.maxPID = k.maxPID
    BY <1>1 DEF Bien, Sistema, ModoCpu, MismasPlazas, MismoNivel
  <2>. HIDE DEF m
  <2> QED
    BY <2>1, MismasColas DEF MismasPlazas
<1>4. q \in Seq(Pid)
  BY DEF Bien, Sistema, Estado
<1>. HIDE DEF m, q
<1>5. Resta(k, m, 0)
  BY <1>3, PlazasResta
<1>6. CASE I = {}
  BY <1>2, <1>5, <1>6
<1>7. CASE I # {}
  <2>1. I \subseteq Nat
    OBVIOUS
  <2>2. Min(I) \in I
    BY <1>7, <2>1, MinimoExiste
  <2>3. i \in 1..Len(q)
    BY <1>7, <2>2
  <2>. HIDE DEF i
  <2>4. p \in Pid
    BY <1>4, <2>3, ElementOfSeq
  <2>. HIDE DEF p
  <2>5. Bien(d) /\ Resta(m, d, 0)
    <3>1. Resta(m, d, IF Mueve(m, p, "BLOQUEADO") /\ "LISTO" = "TERMINADO"
                      THEN 1 ELSE 0)
      BY <1>3, <2>4, PasosRestan DEF BloqueadoAListo, EnSistema
    <3> QED
      BY <1>3, <2>4, <3>1, PasosBien
  <2>. HIDE DEF d
  <2>6. Bien(l) /\ MismasPlazas(d, l)
    <3>1. Bien(l)
      BY <2>4, <2>5, CampoBien
    <3>2. MismasPlazas(d, l)
      BY <2>5 DEF MismasPlazas, MismoNivel, Bien, Sistema
    <3> QED
      BY <3>1, <3>2
  <2>. HIDE DEF l
  <2>7. Resta(d, l, 0) /\ Resta(l, PlanificarLibre(l), 0)
    BY <2>5, <2>6, PlazasResta, PlanificarLibreResta
  <2>8. k \in Sistema /\ m \in Sistema /\ d \in Sistema /\ l \in Sistema
    BY <1>3, <2>5, <2>6 DEF Bien
  <2>9. Resta(k, d, 0)
    BY <1>5, <2>5, <2>8, RestaNada
  <2>10. Resta(k, l, 0)
    BY <2>7, <2>8, <2>9, RestaNada
  <2>11. Resta(k, PlanificarLibre(l), 0)
    BY <2>7, <2>8, <2>10, RestaNada
  <2> QED
    BY <1>2, <1>5, <2>10, <2>11
<1> QED
  BY <1>6, <1>7

\* The end of file of a CPU.
LEMMA DesconexionCupo ==
    ASSUME NEW k, Bien(k), NEW c \in Cpus, NEW x, NEW basura, NEW u
    PROVE  Cupo(k, RemoverCpuDeLaLista(
                       TerminarProcesoEjecutandoEnCpu(k, c, x), c, basura),
                x, u)
<1>. DEFINE p == k.pidEn[c]
            code == "DESCONEXION_CPU"
            e == [k EXCEPT !.ec[p] = code]
            a == InformarAConsola(PedirAMemoriaFinalizarProceso(e, p), p, code)
            f == EjecutandoAFinalizados(a, p)
            t == TerminarProcesoEjecutandoEnCpu(k, c, x)
            m == RemoverCpuDeLaLista(t, c, basura)
<1>1. Bien(t)
  BY TerminarProcesoBien
<1>2. Cupo(k, t, x, u)
  <2>1. CASE ~EnCola(k, p, "EJECUTANDO")
    <3>1. t = k
      BY <2>1 DEF TerminarProcesoEjecutandoEnCpu
    <3>. HIDE DEF t
    <3> QED
      BY <3>1, RestaIgual, CupoIgual DEF Bien
  <2>2. CASE EnCola(k, p, "EJECUTANDO")
    <3>1. p \in Pid
      <4>1. k.cola["EJECUTANDO"] \in Seq(Pid)
        BY DEF Bien, Sistema, Estado
      <4> QED
        BY <2>2, <4>1, ElementOfSeq DEF EnCola, Contains
    <3>2. t = PasarProximoProcDeNewAReady(f, x)
      BY <2>2, Zenon DEF TerminarProcesoEjecutandoEnCpu
    <3>3. code \in ExitCode /\ ~EnCola(k, p, "NUEVO")
      BY <2>2, UnaCola DEF ExitCode, Estado
    <3>. HIDE DEF p, code, t
    <3>4. Bien(e) /\ MismasPlazas(k, e)
      BY <3>1, <3>3, CambioBien DEF MismasPlazas, MismoNivel, Bien, Sistema
    <3>. HIDE DEF e
    <3>5. Resta(k, e, 0) /\ ~EnCola(e, p, "NUEVO")
      BY <3>3, <3>4, PlazasResta DEF MismasPlazas, EnCola
    <3>6. Bien(a) /\ Resta(e, a, 0)
      BY <3>1, <3>3, <3>4, <3>5, AvisarBien, AvisarResta
    <3>7. a.cola = e.cola
      BY <3>4 DEF InformarAConsola, EliminarPidProgramaSocket,
                  PedirAMemoriaFinalizarProceso, Bien, Sistema
    <3>. HIDE DEF a
    <3>8. Bien(f) /\ Resta(a, f, IF Mueve(a, p, "EJECUTANDO") THEN 1 ELSE 0)
      BY <3>1, <3>3, <3>6, FinalizarBien, EjecutandoResta
    <3>. HIDE DEF f
    <3>9. k \in Sistema /\ e \in Sistema /\ a \in Sistema
      BY <3>4, <3>6 DEF Bien
    <3>10. Resta(k, a, 0)
      BY <3>5, <3>6, <3>9, RestaNada
    <3>11. Mueve(a, p, "EJECUTANDO") <=> k.activa
      <4>1. a.activa = k.activa /\ a.cola = k.cola
        BY <3>4, <3>7, <3>10 DEF Resta, MismoNivel, MismasPlazas
      <4> QED
        BY <2>2, <4>1 DEF Mueve, EnCola, p
    <3>12. CASE k.activa
      <4>1. Resta(a, f, 1)
        BY <3>8, <3>11, <3>12
      <4>2. Resta(k, f, 0 + 1)
        BY <3>9, <3>10, <4>1, RestaTransitiva
      <4> QED
        BY <3>2, <3>8, <3>12, <4>2, RelevoCupo
    <3>13. CASE ~k.activa
      <4>1. Resta(a, f, 0)
        BY <3>8, <3>11, <3>13
      <4>2. Resta(k, f, 0)
        BY <3>9, <3>10, <4>1, RestaNada
      <4> QED
        BY <3>2, <3>8, <3>13, <4>2, RelevoCupo
    <3> QED
      BY <3>12, <3>13
  <2> QED
    BY <2>1, <2>2
<1>. HIDE DEF t
<1>3. MismasPlazas(t, m)
  BY <1>1 DEF RemoverCpuDeLaLista, MismasPlazas, MismoNivel, Bien, Sistema
<1>. HIDE DEF m
<1>4. Resta(t, m, 0) /\ k \in Sistema /\ t \in Sistema
  BY <1>1, <1>3, PlazasResta DEF Bien
<1>5. Cupo(k, m, x, u)
  BY <1>2, <1>4, CupoDespues
<1> QED
  BY <1>5 DEF m, t

\* What a console or the operator finishes gives its slot back.
Baja(k, m) == m.grado = k.grado /\ m.cantidad <= k.cantidad

\* Every way a process finishes.
LEMMA FinalizarBaja ==
    ASSUME NEW k, Bien(k), NEW p \in Pid, NEW code
    PROVE  /\ Baja(k, NuevoAFinalizados(k, p, code))
           /\ Baja(k, ListoAFinalizados(k, p))
           /\ Baja(k, BloqueadoAFinalizados(k, p, code))
           /\ \A e \in Estado \ {"TERMINADO"} : Baja(k, AFinalizados(k, p, e))
<1>1. k \in Sistema /\ k.cantidad \in Int
  BY CuentaTipo DEF Bien
<1>2. Baja(k, k)
  BY <1>1 DEF Baja
<1>3. ASSUME NEW l, Bien(l), NEW e \in Estado, e # "TERMINADO"
      PROVE  Baja(l, Mover(l, p, e, "TERMINADO"))
  <2>. DEFINE m == Mover(l, p, e, "TERMINADO")
  <2>1. l \in Sistema /\ l.cantidad \in Int /\ "TERMINADO" \in Estado
    BY <1>3, CuentaTipo DEF Bien, Estado
  <2>2. m.cantidad \in {l.cantidad - 1, l.cantidad}
    BY <1>3, <2>1, MoverTipo
  <2>3. m.grado = l.grado
    BY <2>1 DEF Mover, Sistema
  <2>. HIDE DEF m
  <2>4. Baja(l, m)
    BY <2>1, <2>2, <2>3 DEF Baja
  <2> QED
    BY <2>4 DEF m
<1>4. ASSUME NEW e \in Estado, e # "TERMINADO"
      PROVE  Baja(k, Mover(LimpiarSemaforos(k, p), p, e, "TERMINADO"))
  <2>. DEFINE l == LimpiarSemaforos(k, p)
              m == Mover(l, p, e, "TERMINADO")
  <2>1. Bien(l) /\ Resta(k, l, 0)
    BY LimpiarSemaforosBien, LimpiarResta
  <2>. HIDE DEF l
  <2>2. Baja(l, m)
    BY <1>3, <1>4, <2>1
  <2>. HIDE DEF m
  <2>3. Baja(k, m)
    BY <1>1, <2>1, <2>2 DEF Baja, Resta, MismoNivel
  <2> QED
    BY <2>3 DEF m, l
<1>5. Baja(k, NuevoAFinalizados(k, p, code))
  <2>. DEFINE m == Mover(k, p, "NUEVO", "TERMINADO")
  <2>1. Bien(k) /\ "NUEVO" \in Estado
    BY DEF Estado
  <2>2. Baja(k, m)
    BY <1>3, <2>1
  <2>3. EnCola(k, p, "NUEVO") => m \in Sistema
    <3>1. EnCola(k, p, "NUEVO") => Bien(m)
      BY MoverBien DEF Estado
    <3> QED
      BY <3>1 DEF Bien
  <2>. HIDE DEF m
  <2>4. EnCola(k, p, "NUEVO") => Baja(k, [m EXCEPT !.ec[p] = code])
    BY <2>2, <2>3 DEF Baja, Sistema
  <2> QED
    BY <1>2, <2>4 DEF NuevoAFinalizados, Mueve, m
<1>6. Baja(k, ListoAFinalizados(k, p))
  <2>1. Bien(k) /\ "LISTO" \in Estado
    BY DEF Estado
  <2>2. Baja(k, Mover(k, p, "LISTO", "TERMINADO"))
    BY <1>3, <2>1
  <2> QED
    BY <1>2, <2>2 DEF ListoAFinalizados, Trasladar
<1>7. Baja(k, BloqueadoAFinalizados(k, p, code))
  <2>. DEFINE m == Mover(LimpiarSemaforos(k, p), p, "BLOQUEADO", "TERMINADO")
  <2>1. Baja(k, m)
    BY <1>4 DEF Estado
  <2>2. EnCola(k, p, "BLOQUEADO") => m \in Sistema
    <3>1. EnCola(k, p, "BLOQUEADO") => Bien(m)
      BY LimpiarYMoverBien DEF EnSistema
    <3> QED
      BY <3>1 DEF Bien
  <2>. HIDE DEF m
  <2>3. EnCola(k, p, "BLOQUEADO") => Baja(k, [m EXCEPT !.ec[p] = code])
    BY <2>1, <2>2 DEF Baja, Sistema
  <2> QED
    BY <1>2, <2>3 DEF BloqueadoAFinalizados, Mueve, m
<1>8. ASSUME NEW e \in Estado \ {"TERMINADO"}
      PROVE  Baja(k, AFinalizados(k, p, e))
  <2>1. Baja(k, Mover(k, p, "NUEVO", "TERMINADO"))
    <3>1. Bien(k) /\ "NUEVO" \in Estado
      BY DEF Estado
    <3> QED
      BY <1>3, <3>1
  <2>2. Baja(k, Mover(LimpiarSemaforos(k, p), p, e, "TERMINADO"))
    BY <1>4, <1>8
  <2> QED
    BY <1>2, <2>1, <2>2, Zenon DEF AFinalizados
<1> QED
  BY <1>5, <1>6, <1>7, <1>8, Zenon

\* Telling memory and the console moves no process.
LEMMA AvisarBaja ==
    ASSUME NEW k, NEW l, Bien(l), Baja(k, l), NEW p \in Pid, NEW code
    PROVE  /\ Baja(k, PedirAMemoriaFinalizarProceso(l, p))
           /\ Baja(k, InformarAConsola(PedirAMemoriaFinalizarProceso(l, p), p,
                                       code))
BY DEF Baja, PedirAMemoriaFinalizarProceso, InformarAConsola,
   EliminarPidProgramaSocket, Bien, Sistema

\* A console asks to end its program, or is gone.
LEMMA PedidoAbortarBaja ==
    ASSUME NEW k, Bien(k), NEW p \in Pid, NEW code \in ExitCode
    PROVE  Baja(k, PedidoAbortarProgramaDeConsola(k, p, code))
<1>. DEFINE s == EliminarPidProgramaSocket(k, p)
            n == [s EXCEPT !.ec[p] = code]
            e == CHOOSE g \in Estado : EnCola(k, p, g)
            d == [n EXCEPT !.destruir = @ \cup {p}]
            t == AFinalizados(n, p, e)
            a == PedirAMemoriaFinalizarProceso(t, p)
<1>1. k \in Sistema /\ k.cantidad \in Int
  BY CuentaTipo DEF Bien
<1>2. PedidoAbortarProgramaDeConsola(k, p, code) =
        CASE p \notin k.consolas -> k
          [] p \in k.consolas /\ ~BuscarPcb(k, p) -> s
          [] p \in k.consolas /\ EnCola(k, p, "EJECUTANDO") -> d
          [] OTHER -> a
  BY Zenon DEF PedidoAbortarProgramaDeConsola
<1>3. s \in Sistema /\ s.grado = k.grado /\ s.cantidad = k.cantidad
  BY <1>1, CambioBien DEF EliminarPidProgramaSocket, Bien, Sistema
<1>4. Bien(s)
  BY CambioBien
<1>. HIDE DEF s
<1>5. Bien(n) /\ n.grado = k.grado /\ n.cantidad = k.cantidad
  <2>1. Bien(n)
    BY <1>4, CambioBien
  <2>2. n.grado = k.grado /\ n.cantidad = k.cantidad
    BY <1>3 DEF Sistema
  <2> QED
    BY <2>1, <2>2
<1>. HIDE DEF n
<1>6. d.grado = k.grado /\ d.cantidad = k.cantidad
  BY <1>5 DEF Bien, Sistema
<1>. HIDE DEF d
<1>7. BuscarPcb(k, p) => Baja(k, a)
  <2>1. SUFFICES ASSUME BuscarPcb(k, p) PROVE Baja(k, a)
    OBVIOUS
  <2>2. PICK g \in Estado \ {"TERMINADO"} : EnCola(k, p, g)
    BY <2>1 DEF BuscarPcb, Estado
  <2>3. e \in Estado /\ EnCola(k, p, e)
    BY <2>2
  <2>. HIDE DEF e
  <2>4. e = g
    BY <2>2, <2>3, UnaCola
  <2>5. Bien(t) /\ Baja(n, t)
    BY <1>5, <2>2, <2>4, FinalizarBien, FinalizarBaja
  <2>. HIDE DEF t
  <2>6. Baja(k, t)
    BY <1>5, <2>5 DEF Baja
  <2> QED
    BY <2>5, <2>6, AvisarBaja
<1>. HIDE DEF a
<1>8. Baja(k, k) /\ Baja(k, s) /\ Baja(k, d)
  BY <1>1, <1>3, <1>6 DEF Baja
<1> QED
  BY <1>2, <1>7, <1>8

\* The operator kills a process.
LEMMA MatarProcesoBaja ==
    ASSUME NEW k, Bien(k), NEW p \in Pid
    PROVE  Baja(k, MatarProceso(k, p))
<1>. DEFINE code == "FINALIZADO_POR_COMANDO"
            d == [k EXCEPT !.colgados = @ + 1]
            n == NuevoAFinalizados(k, p, code)
            e == [k EXCEPT !.ec[p] = code]
            l == ListoAFinalizados(e, p)
            g == BloqueadoAFinalizados(k, p, code)
            sinPaginas(m) == InformarAConsola(
                PedirAMemoriaFinalizarProceso(m, p), p, m.ec[p])
<1>1. k \in Sistema /\ k.cantidad \in Int /\ code \in ExitCode
  BY CuentaTipo DEF Bien, ExitCode
<1>2. MatarProceso(k, p) =
        CASE EstaElProcesoEnEjecucion(k, p) -> d
          [] ~EstaElProcesoEnEjecucion(k, p) /\ EnCola(k, p, "NUEVO") -> n
          [] ~EstaElProcesoEnEjecucion(k, p) /\ EnCola(k, p, "LISTO") ->
                sinPaginas(l)
          [] ~EstaElProcesoEnEjecucion(k, p) /\ EnCola(k, p, "BLOQUEADO") ->
                sinPaginas(g)
          [] OTHER -> k
  BY Zenon DEF MatarProceso
<1>. HIDE DEF code
<1>3. Baja(k, d) /\ Baja(k, k)
  BY <1>1 DEF Baja, Sistema
<1>4. Bien(e) /\ e.grado = k.grado /\ e.cantidad = k.cantidad
  <2>1. Bien(e)
    BY <1>1, CambioBien
  <2>2. e.grado = k.grado /\ e.cantidad = k.cantidad
    BY <1>1 DEF Sistema
  <2> QED
    BY <2>1, <2>2
<1>. HIDE DEF d, e
<1>5. Baja(k, n) /\ Bien(g) /\ Baja(k, g)
  BY <1>1, FinalizarBien, FinalizarBaja
<1>6. Bien(l) /\ Baja(e, l)
  BY <1>4, PasosBien, FinalizarBaja
<1>. HIDE DEF n, l, g
<1>7. Baja(k, l)
  BY <1>4, <1>6 DEF Baja
<1>8. Baja(k, sinPaginas(l)) /\ Baja(k, sinPaginas(g))
  BY <1>5, <1>6, <1>7, AvisarBaja
<1>. HIDE DEF sinPaginas
<1> QED
  BY <1>2, <1>3, <1>5, <1>8

\* Every NEW process has a round of the admission loop, or the level is full.
Lleno(k) ==
    Len(k.cola["NUEVO"]) <= k.iteraciones \/ k.cantidad >= k.grado

\* A program that starts while the level has room.
LEMMA IniciarListoNivel ==
    ASSUME NEW k, Bien(k), k.maxPID < MaxPid, NEW x
    PROVE  LET m == IniciarListo(k, k.maxPID + 1, x) IN
           /\ m.grado = k.grado /\ m.iteraciones = k.iteraciones
           /\ m.cantidad <= k.cantidad + 1
           /\ x.memoria => m.cantidad >= k.cantidad
           /\ m.cola["NUEVO"] = k.cola["NUEVO"]
<1>. DEFINE p == k.maxPID + 1
            code == "NO_SE_PUDO_ASIGNAR_RECURSO"
            r == CrearPcb(k)
            n == NuevoAListos(r, p)
            m == [n EXCEPT !.consolas = @ \cup {p}, !.consola[p] = "conectada"]
            e == [m EXCEPT !.ec[p] = code]
            h == ListoAFinalizados(e, p)
            g == [m EXCEPT !.paginas = @ \cup {p}]
            i == InformarAConsola(h, p, code)
<1>1. /\ Bien(r) /\ p \in Pid /\ r.maxPID = p
      /\ \A q \in Estado : ~Contains(r.cola[q], p)
  BY CrearBien
<1>2. /\ MismoNivel(k, r) /\ r.cantidad = k.cantidad /\ r.cola = k.cola
      /\ k.cantidad \in Int
  BY CuentaTipo DEF CrearPcb, MismoNivel, Bien, Sistema
<1>3. code \in ExitCode
  BY DEF ExitCode
<1>4. IniciarListo(k, p, x) = IF x.memoria THEN g ELSE i
  BY Zenon DEF IniciarListo
<1>p. p <= r.maxPID
  BY <1>1, MaxPidAssumption DEF Pid
<1>. HIDE DEF p, code, r
<1>5. Bien(n)
  BY <1>1, <1>p, NuevoAListosBien
<1>6. /\ MismoNivel(r, n) /\ n.cantidad \in {r.cantidad, r.cantidad + 1}
      /\ n.cola["NUEVO"] = r.cola["NUEVO"]
  BY <1>1 DEF NuevoAListos, MismoNivel, Bien, Sistema, Estado
<1>. HIDE DEF n
<1>7. Bien(m)
  BY <1>1, <1>5, ConectarBien
<1>8. MismoNivel(n, m) /\ m.cantidad = n.cantidad /\ m.cola = n.cola
  BY <1>5 DEF MismoNivel, Bien, Sistema
<1>. HIDE DEF m
<1>9. /\ MismoNivel(k, m) /\ m.cantidad \in {k.cantidad, k.cantidad + 1}
      /\ m.cola["NUEVO"] = k.cola["NUEVO"]
  BY <1>2, <1>6, <1>8 DEF MismoNivel
<1>10. MismoNivel(m, g) /\ g.cantidad = m.cantidad /\ g.cola = m.cola
  BY <1>7 DEF MismoNivel, Bien, Sistema
<1>. HIDE DEF g
<1>11. Bien(e) /\ MismasPlazas(m, e)
  <2>1. Bien(e)
    BY <1>1, <1>3, <1>7, CambioBien
  <2>2. MismasPlazas(m, e)
    BY <1>7 DEF MismasPlazas, MismoNivel, Bien, Sistema
  <2> QED
    BY <2>1, <2>2
<1>. HIDE DEF e
<1>12. Bien(h) /\ \E j \in {0, 1} : Resta(e, h, j)
  <2>1. Resta(e, h, IF Mueve(e, p, "LISTO") /\ "TERMINADO" = "TERMINADO"
                    THEN 1 ELSE 0)
    BY <1>1, <1>11, PasosRestan DEF ListoAFinalizados, EnSistema
  <2> QED
    BY <1>1, <1>11, <2>1, PasosBien
<1>. HIDE DEF h
<1>13. MismoNivel(h, i) /\ i.cantidad = h.cantidad /\ i.cola = h.cola
  BY <1>12 DEF InformarAConsola, EliminarPidProgramaSocket, MismoNivel, Bien,
     Sistema
<1>. HIDE DEF i
<1>14. /\ MismoNivel(k, i) /\ i.cantidad <= k.cantidad + 1
       /\ i.cola["NUEVO"] = k.cola["NUEVO"]
  BY <1>2, <1>9, <1>11, <1>12, <1>13 DEF MismoNivel, MismasPlazas, Resta
<1>15. /\ MismoNivel(k, g) /\ g.cantidad <= k.cantidad + 1
       /\ g.cantidad >= k.cantidad /\ g.cola["NUEVO"] = k.cola["NUEVO"]
  BY <1>2, <1>9, <1>10 DEF MismoNivel
<1>16. LET y == IniciarListo(k, p, x) IN
       /\ y.grado = k.grado /\ y.iteraciones = k.iteraciones
       /\ y.cantidad <= k.cantidad + 1
       /\ x.memoria => y.cantidad >= k.cantidad
       /\ y.cola["NUEVO"] = k.cola["NUEVO"]
  BY <1>4, <1>14, <1>15 DEF MismoNivel
<1> QED
  BY <1>16 DEF p

\* A console starts a program.
LEMMA IniciarProcesoNivel ==
    ASSUME NEW k, Bien(k), k.maxPID < MaxPid, NEW x
    PROVE  LET m == IniciarProceso(k, x) IN
           /\ m.iteraciones = k.iteraciones
           /\ k.cantidad <= k.grado => m.cantidad <= m.grado
           /\ x.memoria /\ Lleno(k) => Lleno(m)
<1>. DEFINE l == IF CheckNivelMultiprogramacion(k)
                 THEN IniciarListo(k, k.maxPID + 1, x)
                 ELSE IniciarNuevo(k, k.maxPID + 1)
            m == IniciarProceso(k, x)
<1>1. m = PlanificarSiHayListos(l)
  BY DEF IniciarProceso
<1>2. Bien(l)
  BY IniciarListoBien, IniciarNuevoBien
<1>3. /\ k.cantidad \in Int /\ k.grado \in Int /\ k.iteraciones \in Nat
      /\ Len(k.cola["NUEVO"]) \in Nat
  BY CuentaTipo DEF Bien, Sistema
<1>4. /\ l.iteraciones = k.iteraciones
      /\ k.cantidad <= k.grado => l.cantidad <= l.grado
      /\ x.memoria /\ Lleno(k) => Lleno(l)
  <2>1. CASE CheckNivelMultiprogramacion(k)
    <3>1. k.cantidad < k.grado /\ l = IniciarListo(k, k.maxPID + 1, x)
      BY <2>1 DEF CheckNivelMultiprogramacion
    <3>. HIDE DEF l
    <3>2. /\ l.grado = k.grado /\ l.iteraciones = k.iteraciones
          /\ l.cantidad <= k.cantidad + 1
          /\ x.memoria => l.cantidad >= k.cantidad
          /\ l.cola["NUEVO"] = k.cola["NUEVO"]
      BY <3>1, IniciarListoNivel
    <3>3. l.cantidad \in Int
      BY <1>2, CuentaTipo DEF Bien
    <3> QED
      BY <1>3, <3>1, <3>2, <3>3 DEF Lleno
  <2>2. CASE ~CheckNivelMultiprogramacion(k)
    <3>1. k.cantidad >= k.grado /\ l = IniciarNuevo(k, k.maxPID + 1)
      BY <1>3, <2>2 DEF CheckNivelMultiprogramacion
    <3>. HIDE DEF l
    <3>2. /\ l.grado = k.grado /\ l.cantidad = k.cantidad
          /\ l.iteraciones = k.iteraciones
      BY <3>1 DEF IniciarNuevo, CrearPcb, Bien, Sistema
    <3> QED
      BY <3>1, <3>2 DEF Lleno
  <2> QED
    BY <2>1, <2>2
<1>. HIDE DEF l, m
<1>5. Resta(l, m, 0) /\ l.cantidad \in Int
  BY <1>1, <1>2, PlanificarSiHayListosResta, CuentaTipo DEF Bien
<1>6. m.cantidad = l.cantidad /\ m.grado = l.grado
      /\ m.iteraciones = l.iteraciones /\ m.cola["NUEVO"] = l.cola["NUEVO"]
  BY <1>5 DEF Resta, MismoNivel
<1> QED
  BY <1>4, <1>6 DEF Lleno, m

\* The operator's level and the rounds of its admission loop.
LEMMA NivelLleno ==
    ASSUME NEW k, Bien(k), NEW x
    PROVE  /\ \A n \in Nat : Lleno(Multiprogramacion(k, n))
           /\ LET m == RondaDeMultiprogramacion(k, x) IN
              /\ k.cantidad <= k.grado => m.cantidad <= m.grado
              /\ k.activa /\ k.iteraciones > 0 /\ Lleno(k) => Lleno(m)
<1>1. /\ k \in Sistema /\ k.cantidad \in Int /\ k.grado \in Int
      /\ k.iteraciones \in Nat /\ Len(k.cola["NUEVO"]) \in Nat
  BY CuentaTipo DEF Bien, Sistema
<1>2. ASSUME NEW n \in Nat
      PROVE  Lleno(Multiprogramacion(k, n))
  <2>. DEFINE m == Multiprogramacion(k, n)
  <2>1. /\ m.grado = n /\ m.cola = k.cola /\ m.cantidad = k.cantidad
        /\ m.iteraciones = IF k.cantidad < n THEN Len(k.cola["NUEVO"]) ELSE 0
    BY <1>1 DEF Multiprogramacion, Sistema
  <2>. HIDE DEF m
  <2>2. Lleno(m)
    BY <1>1, <2>1 DEF Lleno
  <2> QED
    BY <2>2 DEF m
<1>. DEFINE m == RondaDeMultiprogramacion(k, x)
            a == PasarProximoProcDeNewAReady(k, x)
<1>3. CASE CheckNivelMultiprogramacion(k)
  <2>1. m = [a EXCEPT !.iteraciones = k.iteraciones - 1] /\ k.cantidad < k.grado
    BY <1>3 DEF RondaDeMultiprogramacion, CheckNivelMultiprogramacion
  <2>2. Bien(a) /\ Repone(k, a, x)
    BY PasarProximoBien, PasarProximoRepone
  <2>. HIDE DEF a
  <2>3. m.cola = a.cola /\ m.cantidad = a.cantidad /\ m.grado = a.grado
        /\ m.iteraciones = k.iteraciones - 1
    BY <2>1, <2>2 DEF Bien, Sistema
  <2>4. Len(a.cola["NUEVO"]) \in Nat
    BY <2>2, CuentaTipo DEF Bien
  <2>. HIDE DEF m
  <2>5. m.cantidad <= m.grado
    BY <1>1, <2>1, <2>2, <2>3 DEF Repone, MismoNivel
  <2>6. k.activa /\ k.iteraciones > 0 /\ Lleno(k) => Lleno(m)
    BY <1>1, <2>1, <2>2, <2>3, <2>4 DEF Repone, Lleno
  <2> QED
    BY <1>2, <2>5, <2>6 DEF m
<1>4. CASE ~CheckNivelMultiprogramacion(k)
  <2>1. m = [k EXCEPT !.iteraciones = 0] /\ k.cantidad >= k.grado
    BY <1>1, <1>4 DEF RondaDeMultiprogramacion, CheckNivelMultiprogramacion
  <2>2. m.cantidad = k.cantidad /\ m.grado = k.grado
    BY <1>1, <2>1 DEF Sistema
  <2>. HIDE DEF m
  <2> QED
    BY <1>2, <2>1, <2>2 DEF Lleno, m
<1> QED
  BY <1>3, <1>4

\* What a step of a CPU does to the slots.
Recupera(k, m, u) ==
    \E x : ("sinMemoria" \notin Eventos => x.memoria) /\ Cupo(k, m, x, u)

\* A step that finishes nobody.
LEMMA RecuperaNada ==
    ASSUME NEW k, k \in Sistema, NEW m, Resta(k, m, 0), NEW u
    PROVE  Recupera(k, m, u)
<1>. DEFINE x == [memoria |-> TRUE]
<1>1. x.memoria
  OBVIOUS
<1>. HIDE DEF x
<1>2. Cupo(k, m, x, u)
  BY CupoIgual
<1> QED
  BY <1>1, <1>2 DEF Recupera

\* Only the state of a CPU changes.
LEMMA ModoResta ==
    ASSUME NEW k, Bien(k), NEW c \in Cpus, NEW o \in ModoCpu
    PROVE  LET m == [k EXCEPT !.modo[c] = o] IN
           /\ Bien(m) /\ Resta(k, m, 0)
           /\ m.enCpu = k.enCpu /\ m.cola = k.cola /\ m.pidEn = k.pidEn
           /\ \A p : Adentro(k, p) => Adentro(m, p)
<1>. DEFINE m == [k EXCEPT !.modo[c] = o]
<1>1. Bien(m)
  BY CampoBien
<1>2. MismasPlazas(k, m) /\ m.enCpu = k.enCpu /\ m.cola = k.cola
      /\ m.pidEn = k.pidEn
  BY DEF MismasPlazas, MismoNivel, Bien, Sistema
<1>3. m.destruir = k.destruir
  BY DEF Bien, Sistema
<1>. HIDE DEF m
<1>4. Resta(k, m, 0)
  BY <1>2, PlazasResta
<1>5. \A p : Adentro(k, p) => Adentro(m, p)
  BY <1>2, <1>3 DEF Adentro, EnCola
<1> QED
  BY <1>1, <1>2, <1>4, <1>5 DEF m

\* A CPU aborts the process it holds, from whatever state it says so.
LEMMA AbortaRecupera ==
    ASSUME NEW k, Bien(k), NEW c \in Cpus, k.enCpu[c] # 0,
           Adentro(k, k.enCpu[c]), NEW o \in ModoCpu, NEW code \in ExitCode,
           NEW x, "sinMemoria" \notin Eventos => x.memoria,
           NEW u, u => EnCola(k, k.enCpu[c], "EJECUTANDO")
    PROVE  Recupera(k, AbortarDeCpu([k EXCEPT !.modo[c] = o], c, code, x), u)
<1>. DEFINE m == [k EXCEPT !.modo[c] = o]
<1>1. /\ Bien(m) /\ Resta(k, m, 0)
      /\ m.enCpu = k.enCpu /\ m.cola = k.cola /\ m.pidEn = k.pidEn
      /\ \A p : Adentro(k, p) => Adentro(m, p)
  BY ModoResta
<1>. HIDE DEF m
<1>2. u => EnCola(m, m.enCpu[c], "EJECUTANDO")
  BY <1>1 DEF EnCola
<1>3. m.enCpu[c] # 0 /\ Adentro(m, m.enCpu[c])
  BY <1>1
<1>4. Cupo(m, AbortarDeCpu(m, c, code, x), x, u)
  BY <1>1, <1>2, <1>3, DevueltoCupo
<1>5. Cupo(k, AbortarDeCpu(m, c, code, x), x, u)
  BY <1>1, <1>4, CupoAntes DEF Bien
<1> QED
  BY <1>5 DEF Recupera, m

\* What a CPU that wants to run says.
LEMMA PasoCpuRecupera ==
    ASSUME NEW c \in Cpus, IInv, Sostenidos(sistema, Cpus), PasoCpu(c),
           "malloc" \notin Eventos,
           NEW u, u => \A d \in Cpus : sistema.enCpu[d] # 0 =>
                          EnCola(sistema, sistema.enCpu[d], "EJECUTANDO")
    PROVE  Recupera(sistema, sistema', u)
<1>1. Bien(sistema) /\ sistema \in Sistema
  BY DEF IInv, Bien
<1>2. \A x \in Respuestas :
         x \in Exterior /\ ("sinMemoria" \notin Eventos => x.memoria)
  BY DEF Respuestas
<1>3. sistema.enCpu[c] # 0 => Adentro(sistema, sistema.enCpu[c])
  BY DEF Sostenidos
<1>4. sistema.enCpu[c] # 0 /\ u
         => EnCola(sistema, sistema.enCpu[c], "EJECUTANDO")
  OBVIOUS
<1>5. CASE MsjHandshake(c)
  <2>. DEFINE o == IF sistema.modo[c] = "saludando" THEN "activa" ELSE "muerta"
              m == [sistema EXCEPT !.modo[c] = o]
  <2>1. sistema' = PlanificarSiHayListos(m)
    <3>1. [sistema EXCEPT !.modo[c] =
              IF @ = "saludando" THEN "activa" ELSE "muerta"] = m
      BY <1>1 DEF Bien, Sistema
    <3>. HIDE DEF m
    <3> QED
      BY <1>5, <3>1 DEF MsjHandshake
  <2>2. o \in ModoCpu
    BY DEF ModoCpu
  <2>. HIDE DEF o
  <2>3. Bien(m) /\ Resta(sistema, m, 0)
    BY <1>1, <2>2, ModoResta
  <2>. HIDE DEF m
  <2>4. Resta(m, sistema', 0)
    BY <2>1, <2>3, PlanificarSiHayListosResta
  <2>5. Resta(sistema, sistema', 0)
    BY <1>1, <2>3, <2>4, RestaNada DEF Bien
  <2> QED
    BY <1>1, <2>5, RecuperaNada
<1>6. CASE MsjTermineSentencia(c)
  <2>1. sistema.enCpu[c] # 0
    BY <1>6 DEF MsjTermineSentencia
  <2>2. PICK x \in Respuestas : sistema' = PlanificarCpu(sistema, c, x)
    BY <1>6 DEF MsjTermineSentencia
  <2>3. Cupo(sistema, sistema', x, u)
    BY <1>1, <1>2, <1>3, <1>4, <2>1, <2>2, PlanificarCpuCupo
  <2> QED
    BY <1>2, <2>3 DEF Recupera
<1>7. ASSUME NEW s \in Sems, MsjWait(c, s)
      PROVE  Recupera(sistema, sistema', u)
  <2>1. sistema.enCpu[c] # 0
    BY <1>7 DEF MsjWait, Ejecuta
  <2>2. PICK x \in Respuestas : sistema' = Wait(sistema, c, s, x)
    BY <1>7 DEF MsjWait
  <2>3. Cupo(sistema, sistema', x, u)
    BY <1>1, <1>3, <1>4, <2>1, <2>2, WaitCupo
  <2> QED
    BY <1>2, <2>3 DEF Recupera
<1>8. ASSUME NEW s \in Sems, MsjSignal(c, s)
      PROVE  Recupera(sistema, sistema', u)
  <2>1. sistema' = Signal(sistema, c, s)
    BY <1>8 DEF MsjSignal
  <2>2. Resta(sistema, sistema', 0)
    BY <1>1, <2>1, SignalResta
  <2> QED
    BY <1>1, <2>2, RecuperaNada
<1>9. CASE MsjProgramaTerminado(c)
  <2>1. sistema.enCpu[c] # 0
    BY <1>9 DEF MsjProgramaTerminado, Ejecuta
  <2>2. PICK x \in Respuestas : sistema' = ProgramaTerminado(sistema, c, x)
    BY <1>9 DEF MsjProgramaTerminado
  <2>3. Cupo(sistema, sistema', x, u)
    BY <1>1, <1>3, <1>4, <2>1, <2>2, ProgramaTerminadoCupo
  <2> QED
    BY <1>2, <2>3 DEF Recupera
<1>10. CASE MsjAbortarPrograma(c)
  <2>1. sistema.enCpu[c] # 0 /\ "activa" \in ModoCpu
        /\ "ERROR_DE_EJECUCION" \in ExitCode
    BY <1>10 DEF MsjAbortarPrograma, ModoCpu, ExitCode
  <2>2. PICK x \in Respuestas :
           sistema' = AbortarDeCpu([sistema EXCEPT !.modo[c] = "activa"], c,
                                   "ERROR_DE_EJECUCION", x)
    BY <1>10 DEF MsjAbortarPrograma
  <2> QED
    BY <1>1, <1>2, <1>3, <1>4, <2>1, <2>2, AbortaRecupera
<1>11. ~MsjPedidoBloqueMemoria(c)
  BY DEF MsjPedidoBloqueMemoria
<1>12. CASE DesconexionCpu(c)
  <2>1. PICK x \in Respuestas, basura \in PidSinInicializar :
           sistema' = RemoverCpuDeLaLista(
               TerminarProcesoEjecutandoEnCpu(sistema, c, x), c, basura)
    BY <1>12 DEF DesconexionCpu
  <2>2. Cupo(sistema, sistema', x, u)
    BY <1>1, <2>1, DesconexionCupo
  <2> QED
    BY <1>2, <2>2 DEF Recupera
<1> QED
  BY <1>5, <1>6, <1>7, <1>8, <1>9, <1>10, <1>11, <1>12, Zenon DEF PasoCpu

\* A CPU connects, disconnects in order or dies.
LEMMA ConexionRecupera ==
    ASSUME NEW c \in Cpus, IInv, Sostenidos(sistema, Cpus),
           NuevoCpuConectado(c) \/ MsjMeDesconecto(c) \/ CaidaCpu(c),
           NEW u, u => \A d \in Cpus : sistema.enCpu[d] # 0 =>
                          EnCola(sistema, sistema.enCpu[d], "EJECUTANDO")
    PROVE  Recupera(sistema, sistema', u)
<1>1. Bien(sistema) /\ sistema \in Sistema
  BY DEF IInv, Bien
<1>2. CASE NuevoCpuConectado(c)
  <2>. DEFINE l == Append(sistema.libres, c)
  <2>1. PICK basura \in PidSinInicializar :
           sistema' = [sistema EXCEPT !.modo[c] = "saludando", !.libres = l,
                          !.quantum[c] = 0, !.pidEn[c] = basura]
    BY <1>2 DEF NuevoCpuConectado
  <2>. HIDE DEF l
  <2>2. MismasPlazas(sistema, sistema')
    BY <1>1, <2>1 DEF MismasPlazas, MismoNivel, Sistema
  <2> QED
    BY <1>1, <2>2, PlazasResta, RecuperaNada
<1>3. CASE MsjMeDesconecto(c)
  <2>1. PICK x \in Respuestas :
           sistema' = AbortarDeCpu([sistema EXCEPT !.modo[c] = "muerta"], c,
                                   "DESCONEXION_CPU", x)
    BY <1>3 DEF MsjMeDesconecto
  <2>2. sistema.enCpu[c] # 0 /\ "DESCONEXION_CPU" \in ExitCode
        /\ "muerta" \in ModoCpu
    BY <1>3 DEF MsjMeDesconecto, ExitCode, ModoCpu
  <2>3. Adentro(sistema, sistema.enCpu[c])
    BY <2>2 DEF Sostenidos
  <2>4. "sinMemoria" \notin Eventos => x.memoria
    BY DEF Respuestas
  <2>5. u => EnCola(sistema, sistema.enCpu[c], "EJECUTANDO")
    BY <2>2
  <2> QED
    BY <1>1, <2>1, <2>2, <2>3, <2>4, <2>5, AbortaRecupera
<1>4. CASE CaidaCpu(c)
  <2>1. sistema' = [sistema EXCEPT !.modo[c] = "muerta", !.enCpu[c] = 0]
    BY <1>4 DEF CaidaCpu
  <2>2. MismasPlazas(sistema, sistema')
    BY <1>1, <2>1 DEF MismasPlazas, MismoNivel, Sistema
  <2> QED
    BY <1>1, <2>2, PlazasResta, RecuperaNada
<1> QED
  BY <1>2, <1>3, <1>4

\* A handler that finishes somebody leaves no NEW process that fits.
LEMMA LlenoDeCupo ==
    ASSUME NEW k, Bien(k), NEW m, Bien(m), NEW x, x.memoria, NEW u,
           Cupo(k, m, x, u), Esperables(k), Lleno(k)
    PROVE  Lleno(m)
<1>1. /\ k.cantidad \in Int /\ k.grado \in Int /\ k.iteraciones \in Nat
      /\ m.cantidad \in Int
      /\ Len(k.cola["NUEVO"]) \in Nat /\ Len(m.cola["NUEVO"]) \in Nat
  BY CuentaTipo DEF Bien, Sistema
<1>2. m.cola["NUEVO"] = <<>> => Len(m.cola["NUEVO"]) = 0
  OBVIOUS
<1>. DEFINE n == Len(m.cola["NUEVO"])
            i == Len(k.cola["NUEVO"])
<1>3. /\ m.grado = k.grado /\ m.iteraciones = k.iteraciones
      /\ n <= i /\ (n = 0 \/ m.cantidad >= k.cantidad)
  BY <1>2 DEF Cupo, MismoNivel
<1>4. i <= k.iteraciones \/ k.cantidad >= k.grado
  BY DEF Lleno
<1>5. n \in Nat /\ i \in Nat
  BY <1>1
<1>6. Lleno(m) <=> n <= m.iteraciones \/ m.cantidad >= m.grado
  BY DEF Lleno
<1>. HIDE DEF n, i
<1> QED
  BY <1>1, <1>3, <1>4, <1>5, <1>6

\* No process is let in beyond the level: a slot is given where one was
\* emptied, and the others only while the level has room.  It fails
\* once the operator lowers the level below what is running, and where a
\* process ends twice: after a request for more than a page, or on a CPU that
\* died with the PID of one that another CPU runs.
THEOREM SiempreAdmiteSegunNivel ==
    ASSUME Eventos \cap {"multiprog", "malloc", "caidaCpu"} = {}
    PROVE  Spec => AdmiteSegunNivel
<1>. DEFINE J == /\ Vale(sistema, TRUE, FALSE) /\ Calmo(sistema)
                 /\ sistema.cantidad <= sistema.grado
            A == (\E p \in Pid : /\ ~ \E e \in EnSistema : En(p, e)
                                 /\ \E e \in EnSistema : En(p, e)')
                    => sistema'.cantidad <= sistema'.grado
<1>1. Admite(TRUE, FALSE)
  BY DEF Admite
<1>2. Init => J
  <2>1. SUFFICES ASSUME Init PROVE sistema.cantidad <= sistema.grado
    BY InicialMarcha, InicialQuieto
  <2>2. PICK g \in Grados : sistema = Inicial(g)
    BY <2>1 DEF Init
  <2>3. sistema.cantidad = 0 /\ sistema.grado = g /\ g \in Nat
    BY <2>2, GradosAssumption DEF Inicial
  <2> QED
    BY <2>3
<1>3. IInv /\ Sostenidos(sistema, Cpus) /\ [Next]_vars /\ J => J'
  <2>1. SUFFICES ASSUME IInv, Sostenidos(sistema, Cpus), [Next]_vars, J
                 PROVE  J'
    OBVIOUS
  <2>2. Vale(sistema', TRUE, FALSE)
    BY <1>1, <2>1, NextMarcha DEF Marcha
  <2>3. Calmo(sistema')
    BY <2>1, NextQueda DEF Queda
  <2>4. /\ Bien(sistema) /\ sistema.cantidad \in Int
        /\ sistema.cantidad <= sistema.grado
    BY <2>1, CuentaTipo DEF IInv, Bien
  <2>5. sistema'.cantidad \in Int /\ sistema.grado \in Int
        /\ sistema'.grado \in Int
    <3>1. Bien(sistema')
      BY <2>1, InvNext DEF IInv
    <3> QED
      BY <2>4, <3>1, CuentaTipo DEF Bien, Sistema
  <2>6. \A d \in Cpus : sistema.enCpu[d] # 0 =>
           EnCola(sistema, sistema.enCpu[d], "EJECUTANDO")
    BY <2>1 DEF Vale, Orden, Calmo, SinAbortos
  <2>7. Recupera(sistema, sistema', TRUE)
           => sistema'.cantidad <= sistema'.grado
    BY <2>4, <2>5 DEF Recupera, Cupo, MismoNivel
  <2>8. Baja(sistema, sistema') => sistema'.cantidad <= sistema'.grado
    BY <2>4, <2>5 DEF Baja
  <2>9. ASSUME NEW c \in Cpus,
               \/ NuevoCpuConectado(c) \/ PasoCpu(c)
               \/ MsjMeDesconecto(c) \/ CaidaCpu(c)
        PROVE  sistema'.cantidad <= sistema'.grado
    <3>1. "malloc" \notin Eventos
      OBVIOUS
    <3>2. Recupera(sistema, sistema', TRUE)
      BY <2>1, <2>6, <2>9, <3>1, PasoCpuRecupera, ConexionRecupera
    <3> QED
      BY <2>7, <3>2
  <2>10. ASSUME MsjIniciarProceso
         PROVE  sistema'.cantidad <= sistema'.grado
    <3>1. sistema.maxPID < MaxPid
      BY <2>10 DEF MsjIniciarProceso
    <3>2. PICK x \in Respuestas : sistema' = IniciarProceso(sistema, x)
      BY <2>10 DEF MsjIniciarProceso
    <3> QED
      BY <2>4, <3>1, <3>2, IniciarProcesoNivel
  <2>11. ASSUME NEW p \in Pid, ConsolaPideFinalizar(p) \/ ConsolaCierra(p)
         PROVE  sistema'.cantidad <= sistema'.grado
    <3>1. PICK o : sistema' = [sistema EXCEPT !.consola[p] = o]
      BY <2>11 DEF ConsolaPideFinalizar, ConsolaCierra
    <3>2. sistema'.cantidad = sistema.cantidad /\ sistema'.grado = sistema.grado
      BY <2>4, <3>1 DEF Bien, Sistema
    <3> QED
      BY <2>4, <3>2
  <2>12. ASSUME NEW p \in Pid, NEW modo, NEW code \in ExitCode,
                AtiendeConsola(p, modo, code)
         PROVE  sistema'.cantidad <= sistema'.grado
    <3>. DEFINE m == [sistema EXCEPT !.consola[p] = "atendida"]
    <3>1. sistema' = PedidoAbortarProgramaDeConsola(m, p, code)
      BY <2>12 DEF AtiendeConsola
    <3>2. Bien(m)
      BY <2>4, MismasColas DEF Bien, Sistema, ModoConsola
    <3>3. m.cantidad = sistema.cantidad /\ m.grado = sistema.grado
      BY <2>4 DEF Bien, Sistema
    <3>. HIDE DEF m
    <3>4. Baja(m, sistema')
      BY <3>1, <3>2, PedidoAbortarBaja
    <3> QED
      BY <2>8, <3>3, <3>4 DEF Baja
  <2>13. ASSUME NEW p \in Pid, PasoConsola(p)
         PROVE  sistema'.cantidad <= sistema'.grado
    BY <2>12, <2>13 DEF PasoConsola, MsjFinalizarProceso,
       DesconexionConsola, ExitCode
  <2>14. ASSUME NEW p \in Pid, CmdKill(p)
         PROVE  sistema'.cantidad <= sistema'.grado
    BY <2>4, <2>8, <2>14, MatarProcesoBaja DEF CmdKill
  <2>15. ASSUME CmdStop \/ CmdRestart
         PROVE  sistema'.cantidad <= sistema'.grado
    <3>1. sistema'.cantidad = sistema.cantidad /\ sistema'.grado = sistema.grado
      BY <2>4, <2>15 DEF CmdStop, CmdRestart, Bien, Sistema
    <3> QED
      BY <2>4, <3>1
  <2>16. \A n \in Grados : ~CmdMultiprogramacion(n)
    BY DEF CmdMultiprogramacion
  <2>17. ASSUME RondaAdmision
         PROVE  sistema'.cantidad <= sistema'.grado
    <3>1. PICK x \in Respuestas : sistema' = RondaDeMultiprogramacion(sistema, x)
      BY <2>17 DEF RondaAdmision
    <3> QED
      BY <2>4, <3>1, NivelLleno
  <2>18. ASSUME UNCHANGED vars
         PROVE  sistema'.cantidad <= sistema'.grado
    BY <2>4, <2>18 DEF vars
  <2>19. sistema'.cantidad <= sistema'.grado
    BY <2>1, <2>9, <2>10, <2>11, <2>13, <2>14, <2>15, <2>16, <2>17, <2>18,
       Zenon DEF Next
  <2> QED
    BY <2>2, <2>3, <2>19
<1>4. J' => A
  OBVIOUS
<1>5. J' => [A]_vars
  BY <1>4
<1>. HIDE DEF J, A
<1>6. Spec => [][A]_vars
  BY <1>2, <1>3, <1>5, TablaEnOrden, SiempreSostenidos, PTL DEF Spec
<1> QED
  BY <1>6 DEF AdmiteSegunNivel, A

\* No NEW process waits while the level has room: who leaves lets the next
\* one in, and the operator's command lets in as many as fit.  A process that
\* ends by other hands than its CPU's, a process memory rejects and a stop in
\* the middle of the operator's command leave a slot that nobody gives away.
THEOREM AdmisionSiempreConservada ==
    ASSUME Eventos \cap {"sinMemoria", "finalizar", "cierre", "kill",
                         "malloc"} = {},
           ~({"stop", "multiprog"} \subseteq Eventos)
    PROVE  Spec => []AdmisionConservada
<1>. DEFINE J == /\ Vale(sistema, FALSE, TRUE) /\ Lleno(sistema)
                 /\ "stop" \notin Eventos => sistema.activa
                 /\ "multiprog" \notin Eventos => sistema.iteraciones = 0
<1>1. Admite(FALSE, TRUE) /\ "malloc" \notin Eventos
  BY DEF Admite
<1>2. Init => J
  <2>1. SUFFICES ASSUME Init PROVE Lleno(sistema) /\ sistema.iteraciones = 0
    BY InicialMarcha
  <2>2. PICK g \in Grados : sistema = Inicial(g)
    BY <2>1 DEF Init
  <2>3. sistema.cola["NUEVO"] = <<>> /\ sistema.iteraciones = 0
    BY <2>2 DEF Inicial, Estado
  <2> QED
    BY <2>3 DEF Lleno
<1>3. IInv /\ Sostenidos(sistema, Cpus) /\ [Next]_vars /\ J => J'
  <2>1. SUFFICES ASSUME IInv, Sostenidos(sistema, Cpus), [Next]_vars, J
                 PROVE  J'
    OBVIOUS
  <2>2. /\ Vale(sistema', FALSE, TRUE)
        /\ "stop" \notin Eventos => sistema'.activa
    BY <1>1, <2>1, NextMarcha DEF Marcha
  <2>3. Bien(sistema) /\ Bien(sistema')
    BY <2>1, InvNext DEF IInv
  <2>4. /\ Lleno(sistema) /\ Conectados(sistema) /\ Esperables(sistema)
        /\ "multiprog" \notin Eventos => sistema.iteraciones = 0
    BY <2>1 DEF Vale, Firme, Conectados, Esperables
  <2>. DEFINE G == /\ Lleno(sistema')
                   /\ "multiprog" \notin Eventos => sistema'.iteraciones = 0
  <2>5. \A x \in Respuestas : x.memoria
    BY DEF Respuestas
  <2>6. ASSUME NEW c \in Cpus,
               \/ NuevoCpuConectado(c) \/ PasoCpu(c)
               \/ MsjMeDesconecto(c) \/ CaidaCpu(c)
        PROVE  G
    <3>1. Recupera(sistema, sistema', FALSE)
      BY <1>1, <2>1, <2>6, PasoCpuRecupera, ConexionRecupera
    <3>2. PICK x : x.memoria /\ Cupo(sistema, sistema', x, FALSE)
      BY <3>1 DEF Recupera
    <3> QED
      BY <2>3, <2>4, <3>2, LlenoDeCupo DEF Cupo, MismoNivel
  <2>7. ASSUME MsjIniciarProceso
        PROVE  G
    <3>1. sistema.maxPID < MaxPid
      BY <2>7 DEF MsjIniciarProceso
    <3>2. PICK x \in Respuestas : sistema' = IniciarProceso(sistema, x)
      BY <2>7 DEF MsjIniciarProceso
    <3> QED
      BY <2>3, <2>4, <2>5, <3>1, <3>2, IniciarProcesoNivel
  <2>8. \A p \in Pid : /\ ~ConsolaPideFinalizar(p) /\ ~ConsolaCierra(p)
                       /\ ~PasoConsola(p) /\ ~CmdKill(p)
    BY <2>4 DEF ConsolaPideFinalizar, ConsolaCierra, CmdKill, PasoConsola,
       MsjFinalizarProceso, DesconexionConsola, AtiendeConsola, Conectados
  <2>9. ASSUME CmdStop \/ CmdRestart
        PROVE  G
    <3>1. /\ sistema'.cantidad = sistema.cantidad
          /\ sistema'.grado = sistema.grado /\ sistema'.cola = sistema.cola
          /\ sistema'.iteraciones = sistema.iteraciones
      BY <2>3, <2>9 DEF CmdStop, CmdRestart, Bien, Sistema
    <3> QED
      BY <2>4, <3>1 DEF Lleno
  <2>10. ASSUME NEW n \in Grados, CmdMultiprogramacion(n)
         PROVE  G
    BY <2>3, <2>10, GradosAssumption, NivelLleno DEF CmdMultiprogramacion
  <2>11. ASSUME RondaAdmision
         PROVE  G
    <3>1. sistema.iteraciones > 0 /\ "multiprog" \in Eventos
      BY <2>4, <2>11 DEF RondaAdmision
    <3>2. sistema.activa
      BY <2>1, <3>1
    <3>3. PICK x \in Respuestas : sistema' = RondaDeMultiprogramacion(sistema, x)
      BY <2>11 DEF RondaAdmision
    <3> QED
      BY <2>3, <2>4, <3>1, <3>2, <3>3, NivelLleno
  <2>12. ASSUME UNCHANGED vars
         PROVE  G
    BY <2>4, <2>12 DEF vars
  <2>13. G
    BY <2>1, <2>6, <2>7, <2>8, <2>9, <2>10, <2>11, <2>12, Zenon DEF Next
  <2> QED
    BY <2>2, <2>13
<1>4. J /\ IInv => AdmisionConservada
  <2>1. SUFFICES ASSUME J, IInv, sistema.iteraciones = 0,
                        sistema.cola["NUEVO"] # <<>>
                 PROVE  ~CheckNivelMultiprogramacion(sistema)
    BY DEF AdmisionConservada
  <2>2. sistema.cola["NUEVO"] \in Seq(Pid)
    BY <2>1 DEF IInv, Bien, Sistema, Estado
  <2>3. Len(sistema.cola["NUEVO"]) \in Nat /\ Len(sistema.cola["NUEVO"]) # 0
    BY <2>1, <2>2
  <2>4. sistema.cantidad >= sistema.grado
    BY <2>1, <2>3 DEF Lleno
  <2>5. sistema.cantidad \in Int /\ sistema.grado \in Int
    BY <2>1 DEF IInv, Bien, Sistema
  <2> QED
    BY <2>4, <2>5 DEF CheckNivelMultiprogramacion
<1>. HIDE DEF J
<1> QED
  BY <1>2, <1>3, <1>4, TablaEnOrden, SiempreSostenidos, PTL DEF Spec

-----------------------------------------------------------------------------
(* Work: the free CPUs and the ready processes.                            *)

\* No CPU is still to be greeted and none aborts; some may be gone.
Saludadas(k) ==
    \A c \in Cpus :
        k.modo[c] \in {"ausente", "activa", "sentencia", "muerta", "fuera"}

\* No more than n CPUs are free while somebody is ready.
Trabaja(k, n) ==
    /\ k.activa /\ Saludadas(k)
    /\ k.cola["LISTO"] = <<>> \/ Len(k.libres) <= n

\* What none of this is about.
MismoTrabajo(k, m) ==
    /\ m.activa = k.activa /\ m.modo = k.modo /\ m.libres = k.libres
    /\ m.cola["LISTO"] = k.cola["LISTO"]

\* One more process is ready, at most.
Suma(k, m) ==
    /\ m.activa = k.activa /\ m.modo = k.modo /\ m.libres = k.libres
    /\ Len(m.cola["LISTO"]) <= Len(k.cola["LISTO"]) + 1

\* The types these lemmas use.
LEMMA ListoTipo ==
    ASSUME NEW k, k \in Sistema
    PROVE  /\ k.cola["LISTO"] \in Seq(Pid) /\ Len(k.cola["LISTO"]) \in Nat
           /\ (k.cola["LISTO"] = <<>> <=> Len(k.cola["LISTO"]) = 0)
           /\ k.libres \in Seq(Cpus) /\ Len(k.libres) \in Nat
           /\ (k.libres = <<>> <=> Len(k.libres) = 0)
<1>1. k.cola["LISTO"] \in Seq(Pid) /\ k.libres \in Seq(Cpus)
  BY DEF Sistema, Estado
<1> QED
  BY <1>1, LenProperties, EmptySeq

\* Nothing changes for the CPUs and the ready processes.
LEMMA MismoTrabaja ==
    ASSUME NEW k, NEW m, MismoTrabajo(k, m), NEW n, Trabaja(k, n)
    PROVE  Trabaja(m, n)
BY DEF MismoTrabajo, Trabaja, Saludadas

\* One thing after another.
LEMMA MismoTransitivo ==
    ASSUME NEW k, NEW l, NEW m, MismoTrabajo(k, l), MismoTrabajo(l, m)
    PROVE  MismoTrabajo(k, m)
BY DEF MismoTrabajo

\* list_remove and list_add between two queues.
LEMMA TrasladarTrabajo ==
    ASSUME NEW k, Bien(k), NEW p \in Pid,
           NEW desde \in EnSistema, NEW hacia \in EnSistema \cup {"TERMINADO"},
           desde # hacia
    PROVE  LET m == Trasladar(k, p, desde, hacia) IN
           /\ "LISTO" \notin {desde, hacia} => MismoTrabajo(k, m)
           /\ Suma(k, m)
<1>. DEFINE m == Trasladar(k, p, desde, hacia)
            l == Mover(k, p, desde, hacia)
<1>1. k \in Sistema /\ desde \in Estado /\ hacia \in Estado
  BY DEF Bien, Estado, EnSistema
<1>2. Len(k.cola["LISTO"]) \in Nat
  BY <1>1, ListoTipo
<1>3. CASE Mueve(k, p, desde)
  <2>1. m = l
    BY <1>3 DEF Trasladar
  <2>2. l.cola = Movida(k.cola, p, desde, hacia)
    BY <1>1, MoverTipo
  <2>3. l.activa = k.activa /\ l.modo = k.modo /\ l.libres = k.libres
    BY <1>1 DEF Mover, Sistema
  <2>. HIDE DEF l, m
  <2>4. /\ \A e \in Estado \ {desde, hacia} : l.cola[e] = k.cola[e]
        /\ Len(l.cola[hacia]) = Len(k.cola[hacia]) + 1
        /\ Len(l.cola[desde]) = Len(k.cola[desde]) - 1
    <3>1. k.cola \in [Estado -> Seq(Pid)] /\ Contains(k.cola[desde], p)
      BY <1>1, <1>3 DEF Mueve, EnCola, Sistema
    <3> QED
      BY <1>1, <2>2, <3>1, ColaMovida
  <2>5. "LISTO" \in Estado
    BY DEF Estado
  <2>6. CASE hacia = "LISTO"
    BY <1>2, <2>1, <2>3, <2>4, <2>6 DEF Suma, m
  <2>7. CASE desde = "LISTO"
    BY <1>2, <2>1, <2>3, <2>4, <2>7 DEF Suma, m
  <2>8. CASE "LISTO" \notin {desde, hacia}
    <3>1. l.cola["LISTO"] = k.cola["LISTO"]
      BY <2>4, <2>5, <2>8
    <3> QED
      BY <1>2, <2>1, <2>3, <3>1 DEF Suma, MismoTrabajo, m
  <2> QED
    BY <2>6, <2>7, <2>8
<1>4. CASE ~Mueve(k, p, desde)
  BY <1>2, <1>4 DEF Trasladar, Suma, MismoTrabajo
<1> QED
  BY <1>3, <1>4

\* A ready process finishes.
LEMMA ListoSaleTrabajo ==
    ASSUME NEW k, Bien(k), NEW p \in Pid
    PROVE  LET m == ListoAFinalizados(k, p) IN
           /\ m.activa = k.activa /\ m.modo = k.modo /\ m.libres = k.libres
           /\ Len(m.cola["LISTO"]) <= Len(k.cola["LISTO"])
<1>. DEFINE m == ListoAFinalizados(k, p)
            q == k.cola
            d == Movida(q, p, "LISTO", "TERMINADO")
<1>1. k \in Sistema /\ Len(k.cola["LISTO"]) \in Nat
      /\ "LISTO" \in Estado /\ "TERMINADO" \in Estado
  BY ListoTipo DEF Bien, Estado
<1>2. CASE Mueve(k, p, "LISTO")
  <2>1. m = Mover(k, p, "LISTO", "TERMINADO")
    BY <1>2 DEF ListoAFinalizados, Trasladar
  <2>2. m.activa = k.activa /\ m.modo = k.modo /\ m.libres = k.libres
    BY <1>1, <2>1 DEF Mover, Sistema
  <2>3. m.cola = d
    BY <1>1, <2>1, MoverTipo
  <2>. HIDE DEF m
  <2>4. q \in [Estado -> Seq(Pid)] /\ Contains(q["LISTO"], p)
    BY <1>1, <1>2 DEF Mueve, EnCola, Sistema
  <2>. HIDE DEF q
  <2>5. \A e, f \in Estado : e # f /\ Contains(q[e], p) =>
           Len(Movida(q, p, e, f)[e]) = Len(q[e]) - 1
    BY <2>4, ColaMovida
  <2>6. Len(d["LISTO"]) = Len(q["LISTO"]) - 1
    BY <1>1, <2>4, <2>5
  <2> QED
    BY <1>1, <2>2, <2>3, <2>6 DEF m, q
<1>3. CASE ~Mueve(k, p, "LISTO")
  BY <1>1, <1>3 DEF ListoAFinalizados, Trasladar
<1> QED
  BY <1>2, <1>3

\* A process that runs finishes.
LEMMA EjecutandoTrabajo ==
    ASSUME NEW k, Bien(k), NEW p \in Pid
    PROVE  MismoTrabajo(k, EjecutandoAFinalizados(k, p))
<1>. DEFINE l == LimpiarSemaforos(k, p)
            m == Mover(l, p, "EJECUTANDO", "TERMINADO")
<1>1. CASE Mueve(k, p, "EJECUTANDO")
  <2>1. Bien(l) /\ l.cola = k.cola
    BY LimpiarSemaforosBien
  <2>2. MismoTrabajo(k, l)
    BY <2>1 DEF LimpiarSemaforos, MismoTrabajo, Bien, Sistema
  <2>3. EjecutandoAFinalizados(k, p) = m
    BY <1>1 DEF EjecutandoAFinalizados
  <2>4. Mueve(l, p, "EJECUTANDO")
    BY <1>1, <2>1, <2>2 DEF Mueve, EnCola, MismoTrabajo
  <2>. HIDE DEF l
  <2>5. m = Trasladar(l, p, "EJECUTANDO", "TERMINADO")
    BY <2>4 DEF Trasladar
  <2>6. MismoTrabajo(l, m)
    BY <2>1, <2>5, TrasladarTrabajo DEF EnSistema
  <2> QED
    BY <2>2, <2>3, <2>6, MismoTransitivo
<1>2. CASE ~Mueve(k, p, "EJECUTANDO")
  BY <1>2 DEF EjecutandoAFinalizados, MismoTrabajo
<1> QED
  BY <1>1, <1>2

\* A PCB comes back, and memory and the console are told of its end.
LEMMA AvisarTrabajo ==
    ASSUME NEW k, Bien(k)
    PROVE  /\ \A c \in Cpus : MismoTrabajo(k, RecibirPcb(k, c))
           /\ \A p, code : MismoTrabajo(k, InformarAConsola(k, p, code))
           /\ \A p : MismoTrabajo(k, PedirAMemoriaFinalizarProceso(k, p))
           /\ \A p, code : MismoTrabajo(k, InformarAConsola(
                  PedirAMemoriaFinalizarProceso(k, p), p, code))
BY DEF RecibirPcb, ReemplazarPcbEnEjecutando, InformarAConsola,
   EliminarPidProgramaSocket, PedirAMemoriaFinalizarProceso, MismoTrabajo,
   Bien, Sistema

\* EXECUTE: the first ready process leaves the queue.
LEMMA EjecutarSiguienteTrabajo ==
    ASSUME NEW k, Bien(k), NEW c \in Cpus, k.activa, Saludadas(k)
    PROVE  LET m == EjecutarSiguientePcbEnCpu(k, c) IN
           /\ m.activa /\ Saludadas(m) /\ m.libres = k.libres
           /\ Len(m.cola["LISTO"]) = IF k.cola["LISTO"] = <<>> THEN 0
                                     ELSE Len(k.cola["LISTO"]) - 1
<1>. DEFINE p == Head(k.cola["LISTO"])
            l == ListosAEjecutando(k, p)
            g == Mover(k, p, "LISTO", "EJECUTANDO")
            m == EjecutarSiguientePcbEnCpu(k, c)
<1>1. k \in Sistema /\ k.cola["LISTO"] \in Seq(Pid)
  BY ListoTipo DEF Bien
<1>2. CASE ~HayListos(k)
  BY <1>1, <1>2, EmptySeq DEF EjecutarSiguientePcbEnCpu, HayListos
<1>3. CASE HayListos(k)
  <2>1. p \in Pid /\ Contains(k.cola["LISTO"], p)
    <3>1. p \in Pid /\ p = k.cola["LISTO"][1] /\ 1 \in 1..Len(k.cola["LISTO"])
      BY <1>1, <1>3, HeadTailProperties DEF HayListos
    <3> QED
      BY <3>1 DEF Contains
  <2>2. l = g
    BY <2>1 DEF ListosAEjecutando, Trasladar, Mueve, EnCola
  <2>3. m = [l EXCEPT !.pidEn[c] = p, !.ecCopia[p] = k.ec[p],
               !.enCpu[c] = IF EsperaPcb(k, c) THEN p ELSE @,
               !.modo[c] = IF @ = "saludando" THEN "rechazada" ELSE @,
               !.vivo = IF EsperaOtraCosa(k, c)
                        THEN "desincronizado" ELSE @]
    BY <1>3 DEF EjecutarSiguientePcbEnCpu
  <2>. HIDE DEF m, l, p
  <2>4. "LISTO" \in Estado /\ "EJECUTANDO" \in Estado
    BY DEF Estado
  <2>5. /\ l.cola = Movida(k.cola, p, "LISTO", "EJECUTANDO")
        /\ l \in Sistema
    BY <1>1, <2>1, <2>2, <2>4, MoverTipo
  <2>6. l.activa = k.activa /\ l.modo = k.modo /\ l.libres = k.libres
    BY <1>1, <2>2 DEF Mover, Sistema
  <2>7. Len(l.cola["LISTO"]) = Len(k.cola["LISTO"]) - 1
    <3>. DEFINE q == k.cola
                d == Movida(q, p, "LISTO", "EJECUTANDO")
    <3>1. q \in [Estado -> Seq(Pid)] /\ Contains(q["LISTO"], p)
      BY <1>1, <2>1 DEF Sistema
    <3>. HIDE DEF q
    <3>2. \A e, f \in Estado : e # f /\ Contains(q[e], p) =>
             Len(Movida(q, p, e, f)[e]) = Len(q[e]) - 1
      BY <2>1, <3>1, ColaMovida
    <3>3. Len(d["LISTO"]) = Len(q["LISTO"]) - 1
      BY <2>4, <3>1, <3>2
    <3> QED
      BY <2>5, <3>3 DEF q
  <2>8. m.activa = l.activa /\ m.libres = l.libres /\ m.cola = l.cola
    BY <2>3, <2>5 DEF Sistema
  <2>9. \A d \in Cpus : m.modo[d] = IF d = c /\ l.modo[d] = "saludando"
                                    THEN "rechazada" ELSE l.modo[d]
    BY <2>3, <2>5 DEF Sistema
  <2>10. Saludadas(m)
    BY <2>6, <2>9 DEF Saludadas
  <2> QED
    BY <1>3, <2>6, <2>7, <2>8, <2>10 DEF HayListos, m
<1> QED
  BY <1>2, <1>3

\* planificar(NULL): a free CPU and a ready process less.
LEMMA PlanificarLibreTrabajo ==
    ASSUME NEW k, Bien(k), k.activa, Saludadas(k), k.libres # <<>>
    PROVE  LET m == PlanificarLibre(k) IN
           /\ m.activa /\ Saludadas(m) /\ Len(m.libres) = Len(k.libres) - 1
           /\ Len(m.cola["LISTO"]) = IF k.cola["LISTO"] = <<>> THEN 0
                                     ELSE Len(k.cola["LISTO"]) - 1
<1>. DEFINE c == Head(k.libres)
            t == Tail(k.libres)
            a == Append(k.ocupadas, c)
            q == IF Algoritmo = "RR" THEN k.quantum[c] + 1 ELSE k.quantum[c]
            m == [k EXCEPT !.libres = t, !.ocupadas = a, !.quantum[c] = q]
<1>1. k \in Sistema
  BY DEF Bien
<1>2. k.libres \in Seq(Cpus) /\ k.ocupadas \in Seq(Cpus)
  BY <1>1 DEF Sistema
<1>3. c \in Cpus /\ t \in Seq(Cpus) /\ Len(t) = Len(k.libres) - 1
  BY <1>2, HeadTailProperties
<1>4. PlanificarLibre(k) = EjecutarSiguientePcbEnCpu(m, c)
  <2>1. PlanificarLibre(k) = EjecutarSiguientePcbEnCpu(
          [k EXCEPT !.libres = Tail(@), !.ocupadas = Append(@, c),
              !.quantum[c] = IF Algoritmo = "RR" THEN @ + 1 ELSE @], c)
    BY DEF PlanificarLibre, c
  <2>2. [k EXCEPT !.libres = Tail(@), !.ocupadas = Append(@, c),
              !.quantum[c] = IF Algoritmo = "RR" THEN @ + 1 ELSE @] = m
    BY <1>1 DEF Sistema, t
  <2> QED
    BY <2>1, <2>2, Zenon
<1>. HIDE DEF c, t
<1>5. a \in Seq(Cpus) /\ q \in Nat
  BY <1>1, <1>2, <1>3, AppendProperties DEF Sistema
<1>. HIDE DEF a, q
<1>6. m \in Sistema
  BY <1>1, <1>3, <1>5 DEF Sistema
<1>7. /\ m.cola = k.cola /\ m.cantidad = k.cantidad /\ m.maxPID = k.maxPID
      /\ m.activa = k.activa /\ m.modo = k.modo /\ m.libres = t
  BY <1>1 DEF Sistema
<1>. HIDE DEF m
<1>8. Bien(m) /\ Saludadas(m)
  BY <1>6, <1>7, MismasColas DEF Saludadas
<1> QED
  BY <1>3, <1>4, <1>7, <1>8, EjecutarSiguienteTrabajo

\* planificar(NULL) after a CPU joined the free ones.
LEMMA PlanificarSiHayListosTrabaja ==
    ASSUME NEW k, Bien(k), Trabaja(k, 1)
    PROVE  Trabaja(PlanificarSiHayListos(k), 0)
<1>. DEFINE m == PlanificarSiHayListos(k)
<1>1. Bien(m) /\ k \in Sistema
  BY PlanificarSiHayListosBien DEF Bien
<1>2. CASE ~HayListos(k)
  BY <1>2 DEF PlanificarSiHayListos, HayListos, Trabaja
<1>3. CASE HayListos(k) /\ k.libres = <<>>
  <2>1. m = k
    BY <1>3 DEF PlanificarSiHayListos, PlanificarLibre
  <2> QED
    BY <1>1, <1>3, <2>1, ListoTipo DEF Trabaja
<1>4. CASE HayListos(k) /\ k.libres # <<>>
  <2>1. m = PlanificarLibre(k)
    BY <1>4 DEF PlanificarSiHayListos
  <2>. HIDE DEF m
  <2>2. m.activa /\ Saludadas(m) /\ Len(m.libres) = Len(k.libres) - 1
    BY <1>4, <2>1, PlanificarLibreTrabajo DEF Trabaja
  <2>3. Len(k.libres) <= 1 /\ Len(k.libres) \in Nat
    BY <1>1, <1>4, ListoTipo DEF Trabaja, HayListos
  <2> QED
    BY <2>2, <2>3 DEF Trabaja, m
<1> QED
  BY <1>2, <1>3, <1>4

\* One more process is ready, and a free CPU takes one if there is any.
LEMMA SumaTrabaja ==
    ASSUME NEW k, Bien(k), NEW n \in Nat, Trabaja(k, n),
           NEW l, Bien(l), Suma(k, l)
    PROVE  /\ Trabaja(IF l.libres # <<>> THEN PlanificarLibre(l) ELSE l, n)
           /\ Trabaja(PlanificarSiHayListos(l), n)
<1>. DEFINE m == PlanificarLibre(l)
<1>1. k \in Sistema /\ l \in Sistema
  BY DEF Bien
<1>2. l.activa /\ Saludadas(l) /\ l.libres = k.libres
      /\ Len(l.cola["LISTO"]) <= Len(k.cola["LISTO"]) + 1
  BY DEF Trabaja, Suma, Saludadas
<1>3. CASE l.libres = <<>>
  <2>1. Trabaja(l, n)
    BY <1>1, <1>2, <1>3, ListoTipo DEF Trabaja
  <2>2. m = l
    BY <1>3 DEF PlanificarLibre
  <2> QED
    BY <1>3, <2>1, <2>2 DEF PlanificarSiHayListos
<1>4. CASE l.libres # <<>>
  <2>1. /\ m.activa /\ Saludadas(m) /\ Len(m.libres) = Len(l.libres) - 1
        /\ Len(m.cola["LISTO"]) = IF l.cola["LISTO"] = <<>> THEN 0
                                  ELSE Len(l.cola["LISTO"]) - 1
    BY <1>2, <1>4, PlanificarLibreTrabajo
  <2>2. m \in Sistema
    BY PlanificarLibreBien DEF Bien
  <2>. HIDE DEF m
  <2>3. Len(k.cola["LISTO"]) = 0 \/ Len(k.libres) <= n
    BY <1>1, ListoTipo DEF Trabaja
  <2>4. Len(m.cola["LISTO"]) = 0 \/ Len(m.libres) <= n
    <3>1. /\ Len(k.cola["LISTO"]) \in Nat /\ Len(l.cola["LISTO"]) \in Nat
          /\ Len(k.libres) \in Nat
          /\ l.cola["LISTO"] = <<>> <=> Len(l.cola["LISTO"]) = 0
      BY <1>1, ListoTipo
    <3>2. CASE Len(k.cola["LISTO"]) = 0
      <4>. DEFINE a == Len(l.cola["LISTO"])
                  b == Len(k.cola["LISTO"])
      <4>1. a \in Nat /\ a <= b + 1 /\ b = 0
        BY <1>2, <3>1, <3>2
      <4>. HIDE DEF a, b
      <4>2. a \in {0, 1}
        BY <4>1
      <4>3. Len(l.cola["LISTO"]) \in {0, 1}
        BY <4>2 DEF a
      <4>4. Len(m.cola["LISTO"]) = 0
        BY <2>1, <3>1, <4>3
      <4> QED
        BY <4>4
    <3>3. CASE Len(k.libres) <= n
      BY <1>2, <2>1, <3>1, <3>3
    <3> QED
      BY <2>3, <3>2, <3>3
  <2>5. Trabaja(m, n)
    BY <2>1, <2>2, <2>4, ListoTipo DEF Trabaja
  <2>6. ~HayListos(l) => Trabaja(l, n)
    BY <1>2 DEF HayListos, Trabaja
  <2> QED
    BY <1>4, <2>5, <2>6 DEF PlanificarSiHayListos, m
<1> QED
  BY <1>3, <1>4

\* A CPU joins the free ones.
LEMMA LiberarCpuTrabaja ==
    ASSUME NEW k, Bien(k), NEW c \in Cpus, Trabaja(k, 0)
    PROVE  Trabaja(LiberarCpu(k, c), 1)
<1>. DEFINE m == LiberarCpu(k, c)
<1>1. k \in Sistema /\ k.libres \in Seq(Cpus)
  BY ListoTipo DEF Bien
<1>2. m.activa = k.activa /\ m.modo = k.modo /\ m.cola = k.cola
      /\ m.libres = Append(k.libres, c)
  BY <1>1 DEF LiberarCpu, Sistema
<1>. HIDE DEF m
<1>3. Len(m.libres) = Len(k.libres) + 1 /\ Len(k.libres) \in Nat
  BY <1>1, <1>2, AppendProperties, LenProperties
<1>4. Trabaja(m, 1)
  BY <1>2, <1>3 DEF Trabaja, Saludadas
<1> QED
  BY <1>4 DEF m

\* A process that is new among the ready ones.
LEMMA NuevoAListosTrabajo ==
    ASSUME NEW k, Bien(k), NEW p \in Pid
    PROVE  Suma(k, NuevoAListos(k, p))
<1>. DEFINE a == Append(k.cola["LISTO"], p)
            l == NuevoAListos(k, p)
<1>1. k \in Sistema /\ k.cola["LISTO"] \in Seq(Pid)
  BY ListoTipo DEF Bien
<1>2. Len(a) = Len(k.cola["LISTO"]) + 1 /\ Len(k.cola["LISTO"]) \in Nat
  BY <1>1, AppendProperties, LenProperties
<1>3. l = IF k.activa THEN [k EXCEPT !.cola["LISTO"] = a, !.cantidad = @ + 1]
          ELSE k
  BY <1>1 DEF NuevoAListos, Sistema, Estado
<1>. HIDE DEF a
<1>4. /\ l.activa = k.activa /\ l.modo = k.modo /\ l.libres = k.libres
      /\ l.cola["LISTO"] \in {a, k.cola["LISTO"]}
  BY <1>1, <1>3 DEF Sistema, Estado
<1>. HIDE DEF l
<1>5. Len(l.cola["LISTO"]) <= Len(k.cola["LISTO"]) + 1
  BY <1>2, <1>4
<1> QED
  BY <1>4, <1>5 DEF Suma, l

\* AdmitirNuevo.
LEMMA AdmitirNuevoTrabaja ==
    ASSUME NEW k, Bien(k), NEW p \in Pid, p <= k.maxPID, NEW x,
           \A e \in Estado : ~Contains(k.cola[e], p),
           NEW n \in Nat, Trabaja(k, n)
    PROVE  Trabaja(AdmitirNuevo(k, p, x), n)
<1>. DEFINE g == [k EXCEPT !.paginas = @ \cup {p}]
            l == NuevoAListos(g, p)
            r == SinMemoria(k, p)
            m == AdmitirNuevo(k, p, x)
<1>1. k \in Sistema
  BY DEF Bien
<1>2. CASE x.memoria
  <2>1. /\ g \in Sistema /\ MismoTrabajo(k, g) /\ g.cola = k.cola
        /\ g.cantidad = k.cantidad /\ g.maxPID = k.maxPID
    BY <1>1 DEF Sistema, MismoTrabajo
  <2>2. Bien(g)
    BY <2>1, MismasColas
  <2>3. m = IF l.libres # <<>> THEN PlanificarLibre(l) ELSE l
    <3>1. l.libres = k.libres
      BY <1>1 DEF NuevoAListos, Sistema
    <3>2. m = IF k.libres # <<>> THEN PlanificarLibre(l) ELSE l
      BY <1>2 DEF AdmitirNuevo
    <3> QED
      BY <3>1, <3>2
  <2>. HIDE DEF g
  <2>4. Bien(l)
    BY <2>1, <2>2, NuevoAListosBien
  <2>5. Suma(k, l)
    <3>1. Suma(g, l)
      BY <2>2, NuevoAListosTrabajo
    <3>. HIDE DEF l
    <3> QED
      BY <2>1, <3>1 DEF Suma, MismoTrabajo
  <2>. HIDE DEF l, m
  <2>6. Trabaja(m, n)
    BY <2>3, <2>4, <2>5, SumaTrabaja
  <2> QED
    BY <2>6 DEF m
<1>3. CASE ~x.memoria
  <2>1. Bien(r) /\ MismoTrabajo(k, r)
    BY SinMemoriaBien DEF SinMemoria, MismoTrabajo, Bien, Sistema
  <2>2. m = InformarAConsola(r, p, "NO_SE_PUDO_ASIGNAR_RECURSO")
    BY <1>3, AdmitirRechaza, Zenon DEF m, r
  <2>. HIDE DEF r, m
  <2>3. MismoTrabajo(r, m)
    BY <2>1, <2>2, AvisarTrabajo
  <2>4. Trabaja(m, n)
    BY <2>1, <2>3, MismoTransitivo, MismoTrabaja
  <2> QED
    BY <2>4 DEF m
<1> QED
  BY <1>2, <1>3

\* pasarProximoProcDeNewAReady: whoever is let in waits only for a CPU.
LEMMA PasarProximoTrabaja ==
    ASSUME NEW k, Bien(k), NEW x, NEW n \in Nat, Trabaja(k, n)
    PROVE  Trabaja(PasarProximoProcDeNewAReady(k, x), n)
<1>. DEFINE p == Head(k.cola["NUEVO"])
            q == [k EXCEPT !.cola["NUEVO"] = Tail(@)]
            m == PasarProximoProcDeNewAReady(k, x)
<1>1. k \in Sistema
  BY DEF Bien
<1>2. CASE ~k.activa \/ k.cola["NUEVO"] = <<>>
  BY <1>2 DEF PasarProximoProcDeNewAReady
<1>3. CASE k.activa /\ k.cola["NUEVO"] # <<>>
  <2>1. /\ Bien(q) /\ p \in Pid /\ p <= q.maxPID
        /\ \A e \in Estado : ~Contains(q.cola[e], p)
    BY <1>3, QuitadoBien
  <2>2. MismoTrabajo(k, q)
    BY <1>1 DEF MismoTrabajo, Sistema, Estado
  <2>3. m =
          CASE p \notin k.consolas -> [q EXCEPT !.vivo = "caido"]
            [] p \in k.consolas /\ k.consola[p] = "finalizando" ->
                 [q EXCEPT !.vivo = "colgado"]
            [] p \in k.consolas /\ k.consola[p] = "cerrando" /\ x.basura ->
                 [q EXCEPT !.vivo = "caido"]
            [] OTHER -> AdmitirNuevo(q, p, x)
    BY <1>3 DEF PasarProximoProcDeNewAReady
  <2>. HIDE DEF p, q, m
  <2>4. Trabaja(q, n) /\ q \in Sistema
    BY <2>1, <2>2, MismoTrabaja DEF Bien
  <2>5. Trabaja(AdmitirNuevo(q, p, x), n)
    BY <2>1, <2>4, AdmitirNuevoTrabaja
  <2>6. \A v : Trabaja([q EXCEPT !.vivo = v], n)
    <3>1. \A v : MismoTrabajo(q, [q EXCEPT !.vivo = v])
      BY <2>4 DEF MismoTrabajo, Sistema
    <3> QED
      BY <2>4, <3>1, MismoTrabaja
  <2> QED
    BY <2>3, <2>5, <2>6 DEF m
<1> QED
  BY <1>2, <1>3

\* The quantum of a CPU is over, or not yet.
LEMMA RoundRobinTrabaja ==
    ASSUME NEW k, Bien(k), NEW c \in Cpus, k.enCpu[c] # 0,
           NEW x \in Exterior, Trabaja(k, 0)
    PROVE  Trabaja(RoundRobin(k, c, x), 0)
<1>. DEFINE cpu == CpuDelQuantum(k, c, x)
            p == k.enCpu[c]
            r == RecibirPcb(k, c)
            l == EjecutandoAListos(r, p)
            m == [l EXCEPT !.quantum[cpu] = 1]
            n == [k EXCEPT !.quantum[cpu] = @ + 1]
            v == [k EXCEPT !.vivo = "caido"]
            e == EjecutarSiguientePcbEnCpu(m, cpu)
<1>1. cpu \in Cpus \cup {NoCpu} /\ k \in Sistema
  BY CpuDelQuantumTipo DEF Bien
<1>2. Bien(r) /\ p \in Pid /\ MismoTrabajo(k, r)
  BY RecibirPcbBien, AvisarTrabajo
<1>3. RoundRobin(k, c, x) =
        IF cpu = NoCpu THEN v ELSE IF k.quantum[cpu] >= Quantum THEN e ELSE n
  BY DEF RoundRobin
<1>. HIDE DEF cpu, p, r
<1>4. Bien(l) /\ Suma(r, l)
  BY <1>2, PasosBien, TrasladarTrabajo DEF EjecutandoAListos, EnSistema
<1>. HIDE DEF l
<1>5. MismoTrabajo(k, v) /\ MismoTrabajo(k, n)
  BY <1>1 DEF MismoTrabajo, Sistema
<1>6. ASSUME cpu # NoCpu
      PROVE  Trabaja(e, 0)
  <2>1. cpu \in Cpus /\ l \in Sistema
    BY <1>1, <1>4, <1>6 DEF Bien
  <2>2. Bien(m)
    BY <1>4, <2>1, CampoBien
  <2>3. MismoTrabajo(l, m)
    BY <2>1 DEF MismoTrabajo, Sistema
  <2>. HIDE DEF m
  <2>4. Suma(k, m)
    BY <1>2, <1>4, <2>3 DEF Suma, MismoTrabajo
  <2>5. m.activa /\ Saludadas(m)
    BY <2>4 DEF Suma, Trabaja, Saludadas
  <2>6. /\ e.activa /\ Saludadas(e) /\ e.libres = m.libres
        /\ Len(e.cola["LISTO"]) = IF m.cola["LISTO"] = <<>> THEN 0
                                  ELSE Len(m.cola["LISTO"]) - 1
    BY <2>1, <2>2, <2>5, EjecutarSiguienteTrabajo
  <2>7. e \in Sistema /\ m \in Sistema
    BY <2>1, <2>2, EjecutarSiguienteBien DEF Bien
  <2>. HIDE DEF e
  <2>8. CASE k.cola["LISTO"] = <<>>
    <3>. DEFINE a == Len(m.cola["LISTO"])
    <3>1. Len(k.cola["LISTO"]) = 0 /\ a \in Nat
      BY <1>1, <2>7, <2>8, ListoTipo
    <3>2. a <= 0 + 1
      BY <2>4, <3>1 DEF Suma
    <3>3. m.cola["LISTO"] = <<>> <=> a = 0
      BY <2>7, ListoTipo
    <3>. HIDE DEF a
    <3>4. a \in {0, 1}
      BY <3>1, <3>2
    <3>5. Len(e.cola["LISTO"]) = 0
      BY <2>6, <3>3, <3>4 DEF a
    <3>6. e.cola["LISTO"] = <<>>
      BY <2>7, <3>5, ListoTipo
    <3> QED
      BY <2>6, <3>6 DEF Trabaja
  <2>9. CASE k.cola["LISTO"] # <<>>
    <3>1. Len(k.libres) <= 0 /\ m.libres = k.libres
      BY <2>4, <2>9 DEF Trabaja, Suma
    <3> QED
      BY <2>6, <3>1 DEF Trabaja
  <2> QED
    BY <2>8, <2>9
<1>7. Trabaja(v, 0) /\ Trabaja(n, 0)
  BY <1>5, MismoTrabaja
<1>. HIDE DEF e, n, v
<1> QED
  BY <1>3, <1>6, <1>7

\* Nobody has a kill flag.
SinFlags(k) == k.destruir = {} /\ k.colgados = 0

\* A CPU says it goes on.
LEMMA ModoTrabaja ==
    ASSUME NEW k, Bien(k), NEW c \in Cpus,
           NEW o \in {"activa", "sentencia"}, NEW n, Trabaja(k, n)
    PROVE  LET m == [k EXCEPT !.modo[c] = o] IN
           Bien(m) /\ Trabaja(m, n) /\ m.enCpu = k.enCpu
<1>. DEFINE m == [k EXCEPT !.modo[c] = o]
<1>1. Bien(m)
  BY CampoBien DEF ModoCpu
<1>2. /\ m.enCpu = k.enCpu /\ m.activa = k.activa /\ m.libres = k.libres
      /\ m.cola = k.cola
      /\ \A d \in Cpus : m.modo[d] = IF d = c THEN o ELSE k.modo[d]
  BY DEF Bien, Sistema
<1>. HIDE DEF m
<1>3. Trabaja(m, n)
  BY <1>2 DEF Trabaja, Saludadas
<1> QED
  BY <1>1, <1>2, <1>3 DEF m

\* TERMINE_SENTENCIA.
LEMMA PlanificarCpuTrabaja ==
    ASSUME NEW k, Bien(k), NEW c \in Cpus, k.enCpu[c] # 0,
           NEW x \in Exterior, SinFlags(k), Trabaja(k, 0)
    PROVE  Trabaja(PlanificarCpu(k, c, x), 0)
<1>. DEFINE s == [k EXCEPT !.modo[c] = "activa"]
<1>1. PlanificarCpu(k, c, x) = IF Algoritmo = "RR" THEN RoundRobin(s, c, x)
                                ELSE s
  BY DEF PlanificarCpu, TengoQueMatar, SinFlags, Trabaja
<1>2. Bien(s) /\ Trabaja(s, 0) /\ s.enCpu = k.enCpu
  BY ModoTrabaja
<1>. HIDE DEF s
<1> QED
  BY <1>1, <1>2, RoundRobinTrabaja

\* The end of a program.
LEMMA ProgramaTerminadoTrabaja ==
    ASSUME NEW k, Bien(k), NEW c \in Cpus, k.enCpu[c] # 0, NEW x,
           Trabaja(k, 0)
    PROVE  Trabaja(ProgramaTerminado(k, c, x), 0)
<1>. DEFINE p == k.enCpu[c]
            code == "FINALIZADO_CORRECTAMENTE"
            z == [k EXCEPT !.ecCopia[p] = code]
            r == RecibirPcb(z, c)
            f == EjecutandoAFinalizados(r, p)
            g == [f EXCEPT !.pidEn[c] = 0, !.quantum[c] = 0]
            l == LiberarCpu(g, c)
            a == InformarAConsola(PedirAMemoriaFinalizarProceso(l, p), p, code)
            b == PasarProximoProcDeNewAReady(a, x)
<1>1. ProgramaTerminado(k, c, x) = PlanificarSiHayListos(b)
  BY DEF ProgramaTerminado
<1>2. p \in Pid /\ code \in ExitCode
  BY RecibirPcbBien DEF ExitCode
<1>3. Bien(z) /\ MismoTrabajo(k, z) /\ z.enCpu = k.enCpu
  <2>1. Bien(z)
    BY <1>2, CambioBien
  <2>2. MismoTrabajo(k, z) /\ z.enCpu = k.enCpu
    BY DEF MismoTrabajo, Bien, Sistema
  <2> QED
    BY <2>1, <2>2
<1>. HIDE DEF z
<1>4. Bien(r) /\ MismoTrabajo(z, r)
  BY <1>3, RecibirPcbBien, AvisarTrabajo
<1>. HIDE DEF p, r
<1>5. Bien(f) /\ MismoTrabajo(r, f)
  BY <1>2, <1>4, FinalizarBien, EjecutandoTrabajo
<1>. HIDE DEF f
<1>6. Bien(g) /\ MismoTrabajo(f, g)
  <2>1. 0 \in 0..MaxPid /\ 0 \in Nat
    BY MaxPidAssumption
  <2>2. Bien(g)
    BY <1>5, <2>1, CampoBien
  <2>3. MismoTrabajo(f, g)
    BY <1>5 DEF MismoTrabajo, Bien, Sistema
  <2> QED
    BY <2>2, <2>3
<1>. HIDE DEF g
<1>7. Trabaja(g, 0)
  <2>1. MismoTrabajo(k, g)
    BY <1>3, <1>4, <1>5, <1>6, MismoTransitivo
  <2> QED
    BY <2>1, MismoTrabaja
<1>8. Bien(l) /\ Trabaja(l, 1)
  BY <1>6, <1>7, LiberarCpuBien, LiberarCpuTrabaja
<1>. HIDE DEF l
<1>9. Bien(a) /\ Trabaja(a, 1)
  <2>1. MismoTrabajo(l, a)
    BY <1>8, AvisarTrabajo
  <2> QED
    BY <1>2, <1>8, <2>1, AvisarBien, MismoTrabaja
<1>. HIDE DEF a
<1>10. Bien(b) /\ Trabaja(b, 1)
  BY <1>9, PasarProximoBien, PasarProximoTrabaja
<1>. HIDE DEF b
<1> QED
  BY <1>1, <1>10, PlanificarSiHayListosTrabaja

\* A WAIT that blocks its process.
LEMMA WaitBloqueaTrabaja ==
    ASSUME NEW k, Bien(k), NEW c \in Cpus, k.enCpu[c] # 0, NEW s \in Sems,
           Trabaja(k, 0)
    PROVE  Trabaja(WaitBloquea(k, c, s), 1)
<1>. DEFINE p == k.enCpu[c]
            m == [k EXCEPT !.espera[p] = s]
            l == LiberarCpu(m, c)
            r == RecibirPcb(l, c)
            b == EjecutandoABloqueados(r, p)
<1>1. p \in Pid
  BY RecibirPcbBien
<1>2. l.enCpu[c] # 0
  BY DEF LiberarCpu, Bien, Sistema
<1>3. WaitBloquea(k, c, s) = b
  BY Zenon DEF WaitBloquea
<1>. HIDE DEF p
<1>4. Bien(m) /\ MismoTrabajo(k, m)
  <2>1. Bien(m)
    BY <1>1, CampoBien
  <2>2. MismoTrabajo(k, m)
    BY DEF MismoTrabajo, Bien, Sistema
  <2> QED
    BY <2>1, <2>2
<1>. HIDE DEF m
<1>5. Bien(l) /\ Trabaja(l, 1)
  <2>1. Trabaja(m, 0)
    BY <1>4, MismoTrabaja
  <2> QED
    BY <1>4, <2>1, LiberarCpuBien, LiberarCpuTrabaja
<1>. HIDE DEF l
<1>6. Bien(r) /\ MismoTrabajo(l, r)
  BY <1>2, <1>5, RecibirPcbBien, AvisarTrabajo
<1>. HIDE DEF r
<1>7. MismoTrabajo(r, b)
  BY <1>1, <1>6, TrasladarTrabajo DEF EjecutandoABloqueados, EnSistema
<1>. HIDE DEF b
<1>8. MismoTrabajo(l, b)
  BY <1>6, <1>7, MismoTransitivo
<1> QED
  BY <1>3, <1>5, <1>8, MismoTrabaja

\* A WAIT.
LEMMA WaitTrabaja ==
    ASSUME NEW k, Bien(k), NEW c \in Cpus, k.enCpu[c] # 0, NEW s \in Sems,
           NEW x, SinFlags(k), Trabaja(k, 0)
    PROVE  Trabaja(Wait(k, c, s, x), 0)
<1>. DEFINE v == k.valor[s] - 1
            t == [k EXCEPT !.valor[s] = v]
            w == WaitBloquea(t, c, s)
<1>1. v \in Int /\ t = [k EXCEPT !.valor[s] = @ - 1] /\ k.valor[s] \in Int
  BY DEF Bien, Sistema
<1>2. Wait(k, c, s, x) = IF k.valor[s] > 0 THEN t ELSE PlanificarSiHayListos(w)
  BY <1>1 DEF Wait, TengoQueMatar, SinFlags
<1>. HIDE DEF v
<1>3. Bien(t) /\ MismoTrabajo(k, t) /\ t.enCpu = k.enCpu
  <2>1. Bien(t)
    BY <1>1, CampoBien
  <2>2. MismoTrabajo(k, t) /\ t.enCpu = k.enCpu
    BY DEF MismoTrabajo, Bien, Sistema
  <2> QED
    BY <2>1, <2>2
<1>. HIDE DEF t
<1>4. Trabaja(t, 0)
  BY <1>3, MismoTrabaja
<1>5. Bien(w) /\ Trabaja(w, 1)
  BY <1>3, <1>4, WaitBloqueaBien, WaitBloqueaTrabaja
<1>. HIDE DEF w
<1> QED
  BY <1>2, <1>4, <1>5, PlanificarSiHayListosTrabaja

\* A SIGNAL that wakes somebody hands it to a free CPU.
LEMMA SignalTrabaja ==
    ASSUME NEW k, Bien(k), NEW c \in Cpus, NEW s \in Sems, Trabaja(k, 0)
    PROVE  Trabaja(Signal(k, c, s), 0)
<1>. DEFINE v == k.valor[s] + 1
            m == [k EXCEPT !.valor[s] = v, !.modo[c] = "sentencia"]
            q == k.cola["BLOQUEADO"]
            I == {j \in 1..Len(q) : k.espera[q[j]] = s}
            i == IF I # {} THEN Min(I) ELSE 0
            p == q[i]
            d == BloqueadoAListo(m, p)
            l == [d EXCEPT !.espera[p] = NoSem]
<1>1. v \in Int
      /\ m = [k EXCEPT !.valor[s] = @ + 1, !.modo[c] = "sentencia"]
  BY DEF Bien, Sistema
<1>2. Signal(k, c, s) =
        IF i = 0 THEN m
        ELSE IF k.libres # <<>> THEN PlanificarLibre(l) ELSE l
  BY <1>1, Zenon DEF Signal, SelectInSeq
<1>. HIDE DEF v
<1>3. Bien(m) /\ Trabaja(m, 0) /\ m.libres = k.libres
  <2>1. m \in Sistema /\ m.maxPID = k.maxPID /\ m.cantidad = k.cantidad
        /\ m.cola = k.cola /\ m.libres = k.libres /\ m.activa = k.activa
    BY <1>1 DEF Bien, Sistema, ModoCpu
  <2>2. \A b \in Cpus : m.modo[b] = IF b = c THEN "sentencia" ELSE k.modo[b]
    BY DEF Bien, Sistema
  <2>. HIDE DEF m
  <2>3. Bien(m)
    BY <2>1, MismasColas
  <2>4. Trabaja(m, 0)
    BY <2>1, <2>2 DEF Trabaja, Saludadas
  <2> QED
    BY <2>1, <2>3, <2>4
<1>4. q \in Seq(Pid)
  BY DEF Bien, Sistema, Estado
<1>. HIDE DEF m, q
<1>5. CASE I = {}
  BY <1>2, <1>3, <1>5
<1>6. CASE I # {}
  <2>1. I \subseteq Nat
    OBVIOUS
  <2>2. Min(I) \in I
    BY <1>6, <2>1, MinimoExiste
  <2>3. i \in 1..Len(q)
    BY <1>6, <2>2
  <2>. HIDE DEF i
  <2>4. p \in Pid
    BY <1>4, <2>3, ElementOfSeq
  <2>. HIDE DEF p
  <2>5. Bien(d) /\ Suma(m, d)
    BY <1>3, <2>4, PasosBien, TrasladarTrabajo DEF BloqueadoAListo, EnSistema
  <2>. HIDE DEF d
  <2>6. Bien(l) /\ MismoTrabajo(d, l)
    <3>1. Bien(l)
      BY <2>4, <2>5, CampoBien
    <3>2. MismoTrabajo(d, l)
      BY <2>5 DEF MismoTrabajo, Bien, Sistema
    <3> QED
      BY <3>1, <3>2
  <2>. HIDE DEF l
  <2>7. Suma(m, l) /\ l.libres = k.libres
    BY <1>3, <2>5, <2>6 DEF Suma, MismoTrabajo
  <2>8. Trabaja(IF l.libres # <<>> THEN PlanificarLibre(l) ELSE l, 0)
    BY <1>3, <2>6, <2>7, SumaTrabaja
  <2>9. Signal(k, c, s) = IF l.libres # <<>> THEN PlanificarLibre(l) ELSE l
    BY <1>2, <2>3, <2>7
  <2> QED
    BY <2>8, <2>9
<1> QED
  BY <1>5, <1>6

\* A program that starts, whether the level has room or not.
LEMMA IniciarProcesoTrabaja ==
    ASSUME NEW k, Bien(k), k.maxPID < MaxPid, NEW x, Trabaja(k, 0)
    PROVE  Trabaja(IniciarProceso(k, x), 0)
<1>. DEFINE p == k.maxPID + 1
            code == "NO_SE_PUDO_ASIGNAR_RECURSO"
            r == CrearPcb(k)
            n == NuevoAListos(r, p)
            m == [n EXCEPT !.consolas = @ \cup {p}, !.consola[p] = "conectada"]
            e == [m EXCEPT !.ec[p] = code]
            h == ListoAFinalizados(e, p)
            g == [m EXCEPT !.paginas = @ \cup {p}]
            i == InformarAConsola(h, p, code)
            u == IniciarListo(k, p, x)
            w == IniciarNuevo(k, p)
            l == IF CheckNivelMultiprogramacion(k) THEN u ELSE w
<1>1. IniciarProceso(k, x) = PlanificarSiHayListos(l)
  BY DEF IniciarProceso
<1>2. Bien(u) /\ Bien(w)
  BY IniciarListoBien, IniciarNuevoBien
<1>3. /\ Bien(r) /\ p \in Pid /\ r.maxPID = p
      /\ \A q \in Estado : ~Contains(r.cola[q], p)
  BY CrearBien
<1>4. MismoTrabajo(k, r) /\ MismoTrabajo(k, w)
  BY DEF CrearPcb, IniciarNuevo, MismoTrabajo, Bien, Sistema, Estado
<1>5. u = IF x.memoria THEN g ELSE i
  BY Zenon DEF IniciarListo
<1>6. code \in ExitCode
  BY DEF ExitCode
<1>7. p <= r.maxPID
  BY <1>3, MaxPidAssumption DEF Pid
<1>8. Len(k.cola["LISTO"]) \in Nat
  BY ListoTipo DEF Bien
<1>. HIDE DEF p, code, r, u, w
<1>9. Bien(n) /\ Suma(r, n)
  BY <1>3, <1>7, NuevoAListosBien, NuevoAListosTrabajo
<1>. HIDE DEF n
<1>10. Bien(m) /\ MismoTrabajo(n, m)
  <2>1. MismoTrabajo(n, m)
    BY <1>9 DEF MismoTrabajo, Bien, Sistema
  <2> QED
    BY <1>3, <1>9, <2>1, ConectarBien
<1>. HIDE DEF m
<1>11. Suma(k, m) /\ Suma(k, w)
  BY <1>4, <1>8, <1>9, <1>10 DEF Suma, MismoTrabajo
<1>12. Suma(k, g)
  <2>1. MismoTrabajo(m, g)
    BY <1>10 DEF MismoTrabajo, Bien, Sistema
  <2> QED
    BY <1>11, <2>1 DEF Suma, MismoTrabajo
<1>13. Bien(e) /\ MismoTrabajo(m, e)
  <2>1. MismoTrabajo(m, e)
    BY <1>10 DEF MismoTrabajo, Bien, Sistema
  <2> QED
    BY <1>3, <1>6, <1>10, <2>1, CambioBien
<1>. HIDE DEF e, g
<1>14. Suma(k, i)
  <2>1. Bien(h)
    BY <1>3, <1>13, PasosBien
  <2>2. h.activa = e.activa /\ h.modo = e.modo /\ h.libres = e.libres
        /\ Len(h.cola["LISTO"]) <= Len(e.cola["LISTO"])
    BY <1>3, <1>13, ListoSaleTrabajo
  <2>. HIDE DEF h
  <2>3. MismoTrabajo(h, i)
    BY <2>1, AvisarTrabajo
  <2>4. Len(h.cola["LISTO"]) \in Nat /\ Len(e.cola["LISTO"]) \in Nat
    BY <1>13, <2>1, ListoTipo DEF Bien
  <2>. HIDE DEF i
  <2>5. Suma(k, e)
    BY <1>11, <1>13 DEF Suma, MismoTrabajo
  <2>6. Len(i.cola["LISTO"]) <= Len(k.cola["LISTO"]) + 1
    <3>. DEFINE a == Len(h.cola["LISTO"])
                b == Len(e.cola["LISTO"])
                d == Len(k.cola["LISTO"])
    <3>1. a <= b /\ b <= d + 1 /\ a \in Nat /\ b \in Nat /\ d \in Nat
      BY <1>8, <2>2, <2>4, <2>5 DEF Suma
    <3>2. Len(i.cola["LISTO"]) = a
      BY <2>3 DEF MismoTrabajo
    <3>. HIDE DEF a, b, d
    <3>3. a <= d + 1
      BY <3>1
    <3> QED
      BY <3>2, <3>3 DEF d
  <2> QED
    BY <2>2, <2>3, <2>5, <2>6 DEF Suma, MismoTrabajo
<1>15. Suma(k, l) /\ Bien(l)
  BY <1>2, <1>5, <1>11, <1>12, <1>14
<1>. HIDE DEF l
<1> QED
  BY <1>1, <1>15, SumaTrabaja

-----------------------------------------------------------------------------
(* Work, while a CPU is being greeted and while none is.                    *)

\* At most one CPU is still to be greeted, between two messages and not in
\* the middle of the operator's command, and no other one idles while a
\* process is ready.
Laborioso(k) ==
    /\ \A c \in Cpus : k.modo[c] \in
          {"ausente", "saludando", "activa", "sentencia", "muerta", "fuera"}
    /\ \A c, d \in Cpus :
          k.modo[c] = "saludando" /\ k.modo[d] = "saludando" => c = d
    /\ \A c \in Cpus : k.modo[c] = "saludando" => k.iteraciones = 0
    /\ \/ k.cola["LISTO"] = <<>>
       \/ \A c \in Cpus : Contains(k.libres, c) => k.modo[c] = "saludando"

\* When all of them were greeted.
LEMMA LaboriosoTrabaja ==
    ASSUME NEW k, k \in Sistema
    PROVE  /\ k.activa /\ Laborioso(k)
                 /\ (\A c \in Cpus : k.modo[c] # "saludando") => Trabaja(k, 0)
           /\ Trabaja(k, 0) => Laborioso(k) /\ k.activa
<1>1. k.libres \in Seq(Cpus) /\ Len(k.libres) \in Nat
  BY ListoTipo
<1>2. ASSUME k.activa, Laborioso(k), \A c \in Cpus : k.modo[c] # "saludando"
      PROVE  Trabaja(k, 0)
  <2>1. Saludadas(k)
    BY <1>2 DEF Laborioso, Saludadas
  <2>2. ASSUME k.cola["LISTO"] # <<>>
        PROVE  Len(k.libres) <= 0
    <3>1. SUFFICES ASSUME Len(k.libres) > 0 PROVE FALSE
      BY <1>1
    <3>2. k.libres[1] \in Cpus
      BY <1>1, <3>1, ElementOfSeq
    <3>3. Contains(k.libres, k.libres[1])
      BY <1>1, <3>1 DEF Contains
    <3> QED
      BY <1>2, <2>2, <3>2, <3>3 DEF Laborioso
  <2> QED
    BY <1>2, <2>1, <2>2 DEF Trabaja
<1>3. ASSUME Trabaja(k, 0)
      PROVE  Laborioso(k) /\ k.activa
  <2>1. Len(k.libres) <= 0 => \A c \in Cpus : ~Contains(k.libres, c)
    BY <1>1 DEF Contains
  <2> QED
    BY <1>3, <2>1 DEF Trabaja, Saludadas, Laborioso
<1> QED
  BY <1>2, <1>3

\* A CPU that connects is free and not greeted yet.
LEMMA NuevaCpuLaboriosa ==
    ASSUME NEW k, k \in Sistema, Trabaja(k, 0), k.iteraciones = 0,
           NEW c \in Cpus, NEW m, m.modo = [k.modo EXCEPT ![c] = "saludando"],
           m.libres = Append(k.libres, c), m.cola = k.cola,
           m.activa = k.activa, m.iteraciones = k.iteraciones
    PROVE  Laborioso(m) /\ m.activa
<1>1. k.libres \in Seq(Cpus) /\ Len(k.libres) \in Nat
      /\ k.modo \in [Cpus -> ModoCpu]
      /\ (k.libres = <<>> <=> Len(k.libres) = 0)
  BY ListoTipo DEF Sistema
<1>2. \A d \in Cpus : m.modo[d] = IF d = c THEN "saludando" ELSE k.modo[d]
  BY <1>1
<1>3. ASSUME k.cola["LISTO"] # <<>>, NEW d \in Cpus, Contains(m.libres, d)
      PROVE  m.modo[d] = "saludando"
  <2>1. k.libres = <<>>
    BY <1>1, <1>3 DEF Trabaja
  <2>2. m.libres = <<c>>
    BY <2>1
  <2>3. d = c
    BY <1>3, <2>2 DEF Contains
  <2> QED
    BY <1>2, <2>3
<1> QED
  BY <1>2, <1>3 DEF Trabaja, Saludadas, Laborioso

\* The CPU that is greeted may be the only free one.
LEMMA SaludoTrabaja ==
    ASSUME NEW k, Bien(k), k.activa, Laborioso(k), SinDobles(k.libres),
           NEW c \in Cpus, k.modo[c] = "saludando"
    PROVE  LET m == [k EXCEPT !.modo[c] = "activa"] IN
           Bien(m) /\ Trabaja(m, 1)
<1>. DEFINE m == [k EXCEPT !.modo[c] = "activa"]
<1>1. Bien(m)
  BY CampoBien DEF ModoCpu
<1>2. /\ m.activa = k.activa /\ m.libres = k.libres /\ m.cola = k.cola
      /\ \A d \in Cpus : m.modo[d] = IF d = c THEN "activa" ELSE k.modo[d]
  BY DEF Bien, Sistema
<1>. HIDE DEF m
<1>3. Saludadas(m)
  BY <1>2 DEF Laborioso, Saludadas
<1>4. ASSUME k.cola["LISTO"] # <<>>
      PROVE  Len(k.libres) <= 1
  <2>1. k.libres \in Seq(Cpus) /\ Len(k.libres) \in Nat
    BY ListoTipo DEF Bien
  <2>2. SUFFICES ASSUME Len(k.libres) > 1 PROVE FALSE
    BY <2>1
  <2>3. 1 \in 1..Len(k.libres) /\ 2 \in 1..Len(k.libres)
    BY <2>1, <2>2
  <2>4. /\ k.libres[1] \in Cpus /\ Contains(k.libres, k.libres[1])
        /\ k.libres[2] \in Cpus /\ Contains(k.libres, k.libres[2])
    BY <2>1, <2>3, ElementOfSeq DEF Contains
  <2>5. k.libres[1] = k.libres[2]
    BY <1>4, <2>4 DEF Laborioso
  <2> QED
    BY <2>3, <2>5 DEF SinDobles
<1>5. Trabaja(m, 1)
  BY <1>2, <1>3, <1>4 DEF Trabaja
<1> QED
  BY <1>1, <1>5 DEF m

\* The end of file of a CPU: its process ends, the next one is let in, and
\* the CPU leaves the list it is in.
LEMMA DesconexionTrabaja ==
    ASSUME NEW k, Bien(k), NEW c \in Cpus, NEW x, NEW basura, Trabaja(k, 0)
    PROVE  Trabaja(RemoverCpuDeLaLista(
                       TerminarProcesoEjecutandoEnCpu(k, c, x), c, basura), 0)
<1>. DEFINE p == k.pidEn[c]
            code == "DESCONEXION_CPU"
            e == [k EXCEPT !.ec[p] = code]
            a == InformarAConsola(PedirAMemoriaFinalizarProceso(e, p), p, code)
            f == EjecutandoAFinalizados(a, p)
            t == TerminarProcesoEjecutandoEnCpu(k, c, x)
            m == RemoverCpuDeLaLista(t, c, basura)
<1>1. Bien(t)
  BY TerminarProcesoBien
<1>2. Trabaja(t, 0)
  <2>1. CASE ~EnCola(k, p, "EJECUTANDO")
    BY <2>1 DEF TerminarProcesoEjecutandoEnCpu
  <2>2. CASE EnCola(k, p, "EJECUTANDO")
    <3>1. p \in Pid /\ code \in ExitCode
      <4>1. k.cola["EJECUTANDO"] \in Seq(Pid)
        BY DEF Bien, Sistema, Estado
      <4> QED
        BY <2>2, <4>1, ElementOfSeq DEF EnCola, Contains, ExitCode
    <3>2. t = PasarProximoProcDeNewAReady(f, x)
      BY <2>2, Zenon DEF TerminarProcesoEjecutandoEnCpu
    <3>3. MismoTrabajo(k, e)
      BY DEF MismoTrabajo, Bien, Sistema
    <3>. HIDE DEF p, code, t
    <3>4. Bien(e)
      BY <3>1, CambioBien
    <3>. HIDE DEF e
    <3>5. Bien(a) /\ MismoTrabajo(e, a)
      BY <3>1, <3>4, AvisarBien, AvisarTrabajo
    <3>. HIDE DEF a
    <3>6. Bien(f) /\ MismoTrabajo(a, f)
      BY <3>1, <3>5, FinalizarBien, EjecutandoTrabajo
    <3>. HIDE DEF f
    <3>7. Trabaja(f, 0)
      BY <3>3, <3>5, <3>6, MismoTransitivo, MismoTrabaja
    <3> QED
      BY <3>2, <3>6, <3>7, PasarProximoTrabaja
  <2> QED
    BY <2>1, <2>2
<1>. HIDE DEF t
<1>3. /\ m.activa = t.activa /\ m.cola = t.cola
      /\ ~Contains(t.libres, c) => m.libres = t.libres
      /\ \A d \in Cpus : m.modo[d] = IF d = c THEN "fuera" ELSE t.modo[d]
  BY <1>1 DEF RemoverCpuDeLaLista, Bien, Sistema
<1>4. t.libres \in Seq(Cpus) /\ Len(t.libres) \in Nat
  BY <1>1, ListoTipo DEF Bien
<1>5. Len(t.libres) <= 0 => ~Contains(t.libres, c)
  BY <1>4 DEF Contains
<1>6. Trabaja(m, 0)
  BY <1>2, <1>3, <1>5 DEF Trabaja, Saludadas
<1> QED
  BY <1>6 DEF t

\* What a message of a CPU does to the work, when all of them were greeted.
LEMMA PasoCpuTrabaja ==
    ASSUME NEW c \in Cpus, IInv,
           Eventos \subseteq {"multiprog", "sinMemoria", "caidaCpu"},
           PasoCpu(c), Trabaja(sistema, 0), SinFlags(sistema)
    PROVE  Trabaja(sistema', 0)
<1>1. Bien(sistema)
  BY DEF IInv
<1>2. \A d \in Cpus : sistema.modo[d] \in
          {"ausente", "activa", "sentencia", "muerta", "fuera"}
  BY DEF Trabaja, Saludadas
<1>3. \A x \in Respuestas : x \in Exterior
  BY DEF Respuestas
<1>4. ASSUME MsjTermineSentencia(c)
      PROVE  Trabaja(sistema', 0)
  <2>1. sistema.enCpu[c] # 0
    BY <1>4 DEF MsjTermineSentencia
  <2>2. PICK x \in Respuestas : sistema' = PlanificarCpu(sistema, c, x)
    BY <1>4 DEF MsjTermineSentencia
  <2> QED
    BY <1>1, <1>3, <2>1, <2>2, PlanificarCpuTrabaja
<1>5. ASSUME NEW s \in Sems, MsjWait(c, s)
      PROVE  Trabaja(sistema', 0)
  <2>1. sistema.enCpu[c] # 0
    BY <1>5 DEF MsjWait, Ejecuta
  <2>2. PICK x \in Respuestas : sistema' = Wait(sistema, c, s, x)
    BY <1>5 DEF MsjWait
  <2> QED
    BY <1>1, <2>1, <2>2, WaitTrabaja
<1>6. ASSUME NEW s \in Sems, MsjSignal(c, s)
      PROVE  Trabaja(sistema', 0)
  <2>1. sistema' = Signal(sistema, c, s)
    BY <1>6 DEF MsjSignal
  <2> QED
    BY <1>1, <2>1, SignalTrabaja
<1>7. ASSUME MsjProgramaTerminado(c)
      PROVE  Trabaja(sistema', 0)
  <2>1. sistema.enCpu[c] # 0
    BY <1>7 DEF MsjProgramaTerminado, Ejecuta
  <2>2. PICK x \in Respuestas : sistema' = ProgramaTerminado(sistema, c, x)
    BY <1>7 DEF MsjProgramaTerminado
  <2> QED
    BY <1>1, <2>1, <2>2, ProgramaTerminadoTrabaja
<1>8. ~MsjHandshake(c)
  BY <1>2 DEF MsjHandshake
<1>9. ~MsjAbortarPrograma(c)
  BY <1>2 DEF MsjAbortarPrograma
<1>10. ~MsjPedidoBloqueMemoria(c)
  BY DEF MsjPedidoBloqueMemoria
<1>11. ASSUME DesconexionCpu(c)
       PROVE  Trabaja(sistema', 0)
  <2>1. PICK x \in Respuestas, basura \in PidSinInicializar :
           sistema' = RemoverCpuDeLaLista(
               TerminarProcesoEjecutandoEnCpu(sistema, c, x), c, basura)
    BY <1>11 DEF DesconexionCpu
  <2> QED
    BY <1>1, <2>1, DesconexionTrabaja
<1> QED
  BY <1>4, <1>5, <1>6, <1>7, <1>8, <1>9, <1>10, <1>11, Zenon DEF PasoCpu

\* No ready process waits while a CPU that shook hands is free: when memory may
\* reject a process and CPUs may die, consoles stay and the operator only sets
\* the level.  A CPU joins cpusLibres before its handshake, which is why the
\* invariant lets one CPU be free meanwhile.
THEOREM TrabajoSiempreConservado ==
    ASSUME Eventos \subseteq {"multiprog", "sinMemoria", "caidaCpu"}
    PROVE  Spec => []TrabajoConservado
<1>. DEFINE J == /\ Vale(sistema, FALSE, TRUE) /\ sistema.activa
                 /\ Laborioso(sistema)
<1>1. Admite(FALSE, TRUE) /\ "stop" \notin Eventos /\ "saludoLento" \notin Eventos
  BY DEF Admite
<1>2. Init => J
  <2>1. SUFFICES ASSUME Init PROVE Laborioso(sistema)
    BY InicialMarcha
  <2>2. PICK g \in Grados : sistema = Inicial(g)
    BY <2>1 DEF Init
  <2>3. /\ \A c \in Cpus : sistema.modo[c] = "ausente"
        /\ sistema.cola["LISTO"] = <<>>
    BY <2>2 DEF Inicial, Estado
  <2> QED
    BY <2>3 DEF Laborioso
<1>3. IInv /\ Sostenidos(sistema, Cpus) /\ [Next]_vars /\ J => J'
  <2>1. SUFFICES ASSUME IInv, Sostenidos(sistema, Cpus), [Next]_vars, J
                 PROVE  J'
    OBVIOUS
  <2>2. Vale(sistema', FALSE, TRUE) /\ sistema'.activa
    BY <1>1, <2>1, NextMarcha DEF Marcha
  <2>3. Bien(sistema) /\ sistema \in Sistema /\ sistema.iteraciones \in Nat
    BY <2>1 DEF IInv, Bien, Sistema
  <2>4. sistema' \in Sistema
    BY <2>1, InvNext DEF IInv, Bien
  <2>5. SinFlags(sistema) /\ Conectados(sistema) /\ SinDobles(sistema.libres)
    BY <2>1 DEF Vale, Firme, SinFlags
  <2>. DEFINE T == Trabaja(sistema, 0)
              G == Laborioso(sistema')
  <2>6. EnSelect \/ sistema.iteraciones > 0 => T
    <3>1. SUFFICES ASSUME \/ \A c \in Cpus : sistema.modo[c] # "saludando"
                          \/ sistema.iteraciones > 0
                   PROVE  T
      BY <1>1 DEF EnSelect
    <3>2. \A c \in Cpus : sistema.modo[c] # "saludando"
      BY <2>1, <2>3, <3>1 DEF Laborioso
    <3> QED
      BY <2>1, <2>3, <3>2, LaboriosoTrabaja
  <2>7. Trabaja(sistema', 0) => G
    BY <2>4, LaboriosoTrabaja
  <2>8. ASSUME NEW c \in Cpus, NuevoCpuConectado(c)
        PROVE  G
    <3>1. T /\ sistema.iteraciones = 0
      BY <2>6, <2>8 DEF NuevoCpuConectado, EnSelect, Libre
    <3>2. /\ sistema'.modo = [sistema.modo EXCEPT ![c] = "saludando"]
          /\ sistema'.libres = Append(sistema.libres, c)
          /\ sistema'.cola = sistema.cola /\ sistema'.activa = sistema.activa
          /\ sistema'.iteraciones = sistema.iteraciones
      BY <2>3, <2>8 DEF NuevoCpuConectado, Sistema
    <3> QED
      BY <2>3, <3>1, <3>2, NuevaCpuLaboriosa
  <2>9. ASSUME NEW c \in Cpus, MsjHandshake(c)
        PROVE  G
    <3>. DEFINE m == [sistema EXCEPT !.modo[c] = "activa"]
    <3>1. sistema.modo[c] = "saludando"
      BY <2>1, <2>9 DEF MsjHandshake, Laborioso
    <3>2. [sistema EXCEPT !.modo[c] =
              IF @ = "saludando" THEN "activa" ELSE "muerta"] = m
      BY <2>3, <3>1 DEF Sistema
    <3>3. Bien(m) /\ Trabaja(m, 1)
      BY <2>1, <2>3, <2>5, <3>1, SaludoTrabaja
    <3>. HIDE DEF m
    <3>4. sistema' = PlanificarSiHayListos(m)
      BY <2>9, <3>2 DEF MsjHandshake
    <3> QED
      BY <2>7, <3>3, <3>4, PlanificarSiHayListosTrabaja
  <2>10. ASSUME NEW c \in Cpus, PasoCpu(c), ~MsjHandshake(c)
         PROVE  G
    <3>1. EnSelect
      BY <2>10, Zenon DEF PasoCpu, MsjTermineSentencia, MsjWait, MsjSignal,
         MsjProgramaTerminado, MsjAbortarPrograma, MsjPedidoBloqueMemoria,
         DesconexionCpu
    <3> QED
      BY <2>1, <2>5, <2>6, <2>7, <2>10, <3>1, PasoCpuTrabaja
  <2>11. \A c \in Cpus : ~MsjMeDesconecto(c)
    BY DEF MsjMeDesconecto
  <2>12. ASSUME NEW c \in Cpus, CaidaCpu(c)
         PROVE  G
    <3>1. /\ sistema'.cola = sistema.cola /\ sistema'.libres = sistema.libres
          /\ sistema'.iteraciones = sistema.iteraciones
          /\ sistema.modo[c] # "saludando"
          /\ \A d \in Cpus : sistema'.modo[d] = IF d = c THEN "muerta"
                                               ELSE sistema.modo[d]
      BY <2>3, <2>12 DEF CaidaCpu, Sistema
    <3> QED
      BY <2>1, <3>1 DEF Laborioso
  <2>13. ASSUME MsjIniciarProceso
         PROVE  G
    <3>1. T /\ sistema.maxPID < MaxPid
      BY <2>6, <2>13 DEF MsjIniciarProceso
    <3>2. PICK x \in Respuestas : sistema' = IniciarProceso(sistema, x)
      BY <2>13 DEF MsjIniciarProceso
    <3> QED
      BY <2>3, <2>7, <3>1, <3>2, IniciarProcesoTrabaja
  <2>14. \A p \in Pid : /\ ~ConsolaPideFinalizar(p) /\ ~ConsolaCierra(p)
                        /\ ~PasoConsola(p) /\ ~CmdKill(p)
    BY <2>5 DEF ConsolaPideFinalizar, ConsolaCierra, CmdKill, PasoConsola,
       MsjFinalizarProceso, DesconexionConsola, AtiendeConsola, Conectados
  <2>15. ~CmdStop /\ ~CmdRestart
    BY <1>1 DEF CmdStop, CmdRestart
  <2>16. ASSUME NEW n \in Grados, CmdMultiprogramacion(n)
         PROVE  G
    <3>1. T /\ sistema' = Multiprogramacion(sistema, n)
      BY <2>6, <2>16 DEF CmdMultiprogramacion
    <3>2. MismoTrabajo(sistema, sistema')
      BY <2>3, <3>1 DEF MismoTrabajo, Multiprogramacion, Sistema
    <3> QED
      BY <2>7, <3>1, <3>2, MismoTrabaja
  <2>17. ASSUME RondaAdmision
         PROVE  G
    <3>1. T
      BY <2>6, <2>17 DEF RondaAdmision
    <3>2. PICK x \in Respuestas : sistema' = RondaDeMultiprogramacion(sistema, x)
      BY <2>17 DEF RondaAdmision
    <3>. DEFINE a == PasarProximoProcDeNewAReady(sistema, x)
    <3>3. Bien(a) /\ Trabaja(a, 0)
      BY <2>3, <3>1, PasarProximoBien, PasarProximoTrabaja
    <3>4. \/ sistema' = [a EXCEPT !.iteraciones = sistema.iteraciones - 1]
          \/ sistema' = [sistema EXCEPT !.iteraciones = 0]
      BY <3>2 DEF RondaDeMultiprogramacion
    <3>. HIDE DEF a
    <3>5. MismoTrabajo(a, sistema') \/ MismoTrabajo(sistema, sistema')
      BY <2>3, <3>3, <3>4 DEF MismoTrabajo, Bien, Sistema
    <3> QED
      BY <2>7, <3>1, <3>3, <3>5, MismoTrabaja
  <2>18. ASSUME UNCHANGED vars
         PROVE  G
    BY <2>1, <2>18 DEF vars
  <2>19. G
    BY <2>1, <2>8, <2>9, <2>10, <2>11, <2>12, <2>13, <2>14, <2>15, <2>16,
       <2>17, <2>18, Zenon DEF Next
  <2> QED
    BY <2>2, <2>19
<1>4. J /\ IInv => TrabajoConservado
  <2>1. SUFFICES ASSUME J, IInv, HayListos(sistema),
                        NEW i \in DOMAIN sistema.libres,
                        sistema.modo[sistema.libres[i]] = "activa"
                 PROVE  FALSE
    BY DEF TrabajoConservado
  <2>2. sistema.libres \in Seq(Cpus)
    BY <2>1, ListoTipo DEF IInv, Bien
  <2>3. i \in 1..Len(sistema.libres)
    BY <2>2
  <2>4. sistema.libres[i] \in Cpus /\ Contains(sistema.libres, sistema.libres[i])
    BY <2>2, <2>3, ElementOfSeq DEF Contains
  <2>5. sistema.cola["LISTO"] # <<>>
    BY <2>1 DEF HayListos
  <2> QED
    BY <2>1, <2>4, <2>5 DEF Laborioso
<1>. HIDE DEF J
<1> QED
  BY <1>2, <1>3, <1>4, TablaEnOrden, SiempreSostenidos, PTL DEF Spec

=============================================================================

------------------------ MODULE Planificacion_proofs ------------------------
(***************************************************************************)
(* What the handlers call, in three passes over the operators of           *)
(* Planificacion: each takes a record that is Bien to one that is Bien     *)
(* (the process table stays in order), keeps the PCBs that the CPUs hold   *)
(* (Cuida, Suelta, Sigue), and leaves nothing of a process behind that has *)
(* ended (Ajeno, Cuadra).                                                  *)
(***************************************************************************)
EXTENDS Planificacion, PcbOperaciones_proofs

-----------------------------------------------------------------------------
(* Handing a process to a CPU.                                             *)

\* EjecutarSiguientePcbEnCpu moves the first ready process and writes what
\* the CPU has.
LEMMA EjecutarSiguienteBien ==
    ASSUME NEW k, Bien(k), NEW c \in Cpus
    PROVE  Bien(EjecutarSiguientePcbEnCpu(k, c))
<1>. DEFINE p == Head(k.cola["LISTO"])
            l == ListosAEjecutando(k, p)
            e == k.ec[p]
            n == IF EsperaPcb(k, c) THEN p ELSE l.enCpu[c]
            o == IF l.modo[c] = "saludando" THEN "rechazada" ELSE l.modo[c]
            v == IF EsperaOtraCosa(k, c) THEN "desincronizado" ELSE l.vivo
            m == [l EXCEPT !.pidEn[c] = p, !.ecCopia[p] = e, !.enCpu[c] = n,
                           !.modo[c] = o, !.vivo = v]
<1>1. CASE ~HayListos(k)
  BY <1>1 DEF EjecutarSiguientePcbEnCpu
<1>2. CASE HayListos(k)
  <2>1. k.cola["LISTO"] \in Seq(Pid) /\ k.cola["LISTO"] # <<>>
    BY <1>2 DEF HayListos, Bien, Sistema, Estado
  <2>2. p \in Pid /\ p \in 0..MaxPid
    <3>1. p \in Pid
      BY <2>1, HeadTailProperties
    <3> QED
      BY <3>1, MaxPidAssumption DEF Pid
  <2>. HIDE DEF p
  <2>3. Bien(l)
    BY <2>2, PasosBien
  <2>4. e \in ExitCode
    BY <2>2 DEF Bien, Sistema
  <2>. HIDE DEF l, e
  <2>5. n \in 0..MaxPid /\ o \in ModoCpu /\ v \in Vida
    BY <2>2, <2>3 DEF Bien, Sistema, ModoCpu, Vida
  <2>6. EjecutarSiguientePcbEnCpu(k, c) = m
    <3>1. EjecutarSiguientePcbEnCpu(k, c) =
            [l EXCEPT !.pidEn[c] = p, !.ecCopia[p] = e,
                !.enCpu[c] = IF EsperaPcb(k, c) THEN p ELSE @,
                !.modo[c] = IF @ = "saludando" THEN "rechazada" ELSE @,
                !.vivo = IF EsperaOtraCosa(k, c)
                         THEN "desincronizado" ELSE @]
      BY <1>2 DEF EjecutarSiguientePcbEnCpu, l, p, e
    <3> QED
      BY <2>3, <3>1 DEF Bien, Sistema
  <2>. HIDE DEF n, o, v
  <2>7. m \in Sistema
    BY <2>2, <2>3, <2>4, <2>5 DEF Bien, Sistema
  <2>8. m.cola = l.cola /\ m.cantidad = l.cantidad /\ m.maxPID = l.maxPID
    BY <2>3 DEF Bien, Sistema
  <2> QED
    BY <2>3, <2>6, <2>7, <2>8, MismasColas
<1> QED
  BY <1>1, <1>2

\* planificar(NULL) moves a CPU between the lists and gives it a process.
LEMMA PlanificarLibreBien ==
    ASSUME NEW k, Bien(k)
    PROVE  Bien(PlanificarLibre(k))
<1>. DEFINE c == Head(k.libres)
            t == Tail(k.libres)
            a == Append(k.ocupadas, c)
            q == IF Algoritmo = "RR" THEN k.quantum[c] + 1 ELSE k.quantum[c]
            m == [k EXCEPT !.libres = t, !.ocupadas = a, !.quantum[c] = q]
<1>1. CASE ~k.activa \/ k.libres = <<>>
  BY <1>1 DEF PlanificarLibre
<1>2. CASE k.activa /\ k.libres # <<>>
  <2>1. k.libres \in Seq(Cpus) /\ k.ocupadas \in Seq(Cpus)
    BY DEF Bien, Sistema
  <2>2. c \in Cpus /\ t \in Seq(Cpus)
    BY <1>2, <2>1, HeadTailProperties
  <2>. HIDE DEF c, t
  <2>3. a \in Seq(Cpus)
    BY <2>1, <2>2, AppendProperties
  <2>4. q \in Nat
    BY <2>2 DEF Bien, Sistema
  <2>5. PlanificarLibre(k) = EjecutarSiguientePcbEnCpu(m, c)
    <3>1. PlanificarLibre(k) = EjecutarSiguientePcbEnCpu(
            [k EXCEPT !.libres = Tail(@), !.ocupadas = Append(@, c),
                !.quantum[c] = IF Algoritmo = "RR" THEN @ + 1 ELSE @], c)
      BY <1>2 DEF PlanificarLibre, c
    <3>2. [k EXCEPT !.libres = Tail(@), !.ocupadas = Append(@, c),
                !.quantum[c] = IF Algoritmo = "RR" THEN @ + 1 ELSE @] = m
      BY DEF Bien, Sistema, t
    <3> QED
      BY <3>1, <3>2, Zenon
  <2>. HIDE DEF a, q
  <2>6. m \in Sistema
    BY <2>2, <2>3, <2>4 DEF Bien, Sistema
  <2>7. m.cola = k.cola /\ m.cantidad = k.cantidad /\ m.maxPID = k.maxPID
    BY DEF Bien, Sistema
  <2>. HIDE DEF m
  <2>8. Bien(m)
    BY <2>6, <2>7, MismasColas
  <2> QED
    BY <2>2, <2>5, <2>8, EjecutarSiguienteBien
<1> QED
  BY <1>1, <1>2

\* So does planning after a handler.
LEMMA PlanificarSiHayListosBien ==
    ASSUME NEW k, Bien(k)
    PROVE  Bien(PlanificarSiHayListos(k))
BY PlanificarLibreBien DEF PlanificarSiHayListos

\* A CPU changes list.
LEMMA LiberarCpuBien ==
    ASSUME NEW k, Bien(k), NEW c \in Cpus
    PROVE  Bien(LiberarCpu(k, c))
<1>. DEFINE a == Append(k.libres, c)
            r == RemoveFirst(k.ocupadas, c)
            m == [k EXCEPT !.ocupadas = r, !.libres = a]
<1>1. k.libres \in Seq(Cpus) /\ k.ocupadas \in Seq(Cpus)
  BY DEF Bien, Sistema
<1>2. a \in Seq(Cpus) /\ r \in Seq(Cpus)
  BY <1>1, AppendProperties, QuitarTipo
<1>3. LiberarCpu(k, c) = m
  BY DEF LiberarCpu, Bien, Sistema
<1>. HIDE DEF a, r
<1>4. m \in Sistema
  BY <1>2 DEF Bien, Sistema
<1>5. m.cola = k.cola /\ m.cantidad = k.cantidad /\ m.maxPID = k.maxPID
  BY DEF Bien, Sistema
<1> QED
  BY <1>3, <1>4, <1>5, MismasColas

\* Fields the queues do not depend on.
LEMMA CampoBien ==
    ASSUME NEW k, Bien(k), NEW c \in Cpus
    PROVE  /\ \A v \in Vida : Bien([k EXCEPT !.vivo = v])
           /\ \A o \in ModoCpu : Bien([k EXCEPT !.modo[c] = o])
           /\ \A n \in 0..MaxPid : Bien([k EXCEPT !.enCpu[c] = n])
           /\ \A n \in 0..MaxPid, q \in Nat :
                 Bien([k EXCEPT !.pidEn[c] = n, !.quantum[c] = q])
           /\ \A q \in Nat : Bien([k EXCEPT !.quantum[c] = q])
           /\ \A s \in Sems, n \in Int : Bien([k EXCEPT !.valor[s] = n])
           /\ \A p \in Pid, s \in Sems \cup {NoSem} :
                 Bien([k EXCEPT !.espera[p] = s])
           /\ \A p \in Pid : Bien([k EXCEPT !.paginas = @ \cup {p}])
           /\ \A d \in SUBSET Pid : Bien([k EXCEPT !.destruir = d])
           /\ \A n \in Nat : Bien([k EXCEPT !.colgados = n])
           /\ \A n \in Nat : Bien([k EXCEPT !.iteraciones = n])
<1>1. ASSUME NEW v \in Vida PROVE Bien([k EXCEPT !.vivo = v])
  BY MismasColas DEF Bien, Sistema
<1>2. ASSUME NEW o \in ModoCpu PROVE Bien([k EXCEPT !.modo[c] = o])
  BY MismasColas DEF Bien, Sistema
<1>3. ASSUME NEW n \in 0..MaxPid PROVE Bien([k EXCEPT !.enCpu[c] = n])
  BY MismasColas DEF Bien, Sistema
<1>4. ASSUME NEW n \in 0..MaxPid, NEW q \in Nat
      PROVE  Bien([k EXCEPT !.pidEn[c] = n, !.quantum[c] = q])
  BY MismasColas, ZenonT(60) DEF Bien, Sistema
<1>5. ASSUME NEW q \in Nat PROVE Bien([k EXCEPT !.quantum[c] = q])
  BY MismasColas DEF Bien, Sistema
<1>6. ASSUME NEW s \in Sems, NEW n \in Int
      PROVE  Bien([k EXCEPT !.valor[s] = n])
  BY MismasColas DEF Bien, Sistema
<1>7. ASSUME NEW p \in Pid, NEW s \in Sems \cup {NoSem}
      PROVE  Bien([k EXCEPT !.espera[p] = s])
  BY MismasColas DEF Bien, Sistema
<1>8. ASSUME NEW p \in Pid PROVE Bien([k EXCEPT !.paginas = @ \cup {p}])
  BY MismasColas, ZenonT(60) DEF Bien, Sistema
<1>9. ASSUME NEW d \in SUBSET Pid PROVE Bien([k EXCEPT !.destruir = d])
  BY MismasColas DEF Bien, Sistema
<1>10. ASSUME NEW n \in Nat PROVE Bien([k EXCEPT !.colgados = n])
  BY MismasColas DEF Bien, Sistema
<1>11. ASSUME NEW n \in Nat PROVE Bien([k EXCEPT !.iteraciones = n])
  BY MismasColas DEF Bien, Sistema
<1> QED
  BY <1>1, <1>2, <1>3, <1>4, <1>5, <1>6, <1>7, <1>8, <1>9, <1>10, <1>11,
     Zenon

-----------------------------------------------------------------------------
(* Admission.                                                              *)

\* A process memory rejects keeps the exit code of that, and no queue has it.
LEMMA SinMemoriaBien ==
    ASSUME NEW k, Bien(k), NEW p \in Pid
    PROVE  LET r == SinMemoria(k, p) IN
           /\ Bien(r) /\ r.cola = k.cola
           /\ r.ec[p] = "NO_SE_PUDO_ASIGNAR_RECURSO"
<1>. DEFINE r == SinMemoria(k, p)
<1>1. r \in Sistema
  BY DEF SinMemoria, Bien, Sistema, ExitCode
<1>2. r.cola = k.cola /\ r.cantidad = k.cantidad /\ r.maxPID = k.maxPID
  BY DEF SinMemoria, Bien, Sistema
<1>3. r.ec[p] = "NO_SE_PUDO_ASIGNAR_RECURSO"
  BY DEF SinMemoria, Bien, Sistema
<1>. HIDE DEF r
<1>4. Bien(r)
  BY <1>1, <1>2, MismasColas
<1> QED
  BY <1>2, <1>3, <1>4 DEF r

\* Without memory, AdmitirNuevo writes that code and tells the console.
LEMMA AdmitirRechaza ==
    ASSUME NEW k, Bien(k), NEW p \in Pid, NEW x, ~x.memoria,
           \A e \in Estado : ~Contains(k.cola[e], p)
    PROVE  AdmitirNuevo(k, p, x) = InformarAConsola(
              SinMemoria(k, p), p, "NO_SE_PUDO_ASIGNAR_RECURSO")
<1>. DEFINE r == SinMemoria(k, p)
            f == NuevoAFinalizados(r, p, "NO_SE_PUDO_ASIGNAR_RECURSO")
<1>1. r.cola = k.cola /\ r.ec[p] = "NO_SE_PUDO_ASIGNAR_RECURSO"
  BY SinMemoriaBien
<1>2. AdmitirNuevo(k, p, x) = InformarAConsola(f, p, f.ec[p])
  BY Zenon DEF AdmitirNuevo, r, f
<1>. HIDE DEF r
<1>3. f = r
  BY <1>1 DEF NuevoAFinalizados, Mueve, EnCola, Estado
<1>. HIDE DEF f
<1> QED
  BY <1>1, <1>2, <1>3 DEF r

\* AdmitirNuevo gives the process a place in colaListos, or none.
LEMMA AdmitirNuevoBien ==
    ASSUME NEW k, Bien(k), NEW p \in Pid, p <= k.maxPID, NEW x,
           \A e \in Estado : ~Contains(k.cola[e], p)
    PROVE  Bien(AdmitirNuevo(k, p, x))
<1>. DEFINE m == [k EXCEPT !.paginas = @ \cup {p}]
            l == NuevoAListos(m, p)
            code == "NO_SE_PUDO_ASIGNAR_RECURSO"
<1>1. m \in Sistema
  BY DEF Bien, Sistema
<1>2. m.cola = k.cola /\ m.cantidad = k.cantidad /\ m.maxPID = k.maxPID
  BY DEF Bien, Sistema
<1>. HIDE DEF m
<1>3. Bien(m)
  BY <1>1, <1>2, MismasColas
<1>4. Bien(l)
  BY <1>2, <1>3, NuevoAListosBien
<1>. HIDE DEF l
<1>5. Bien(PlanificarLibre(l))
  BY <1>4, PlanificarLibreBien
<1>6. Bien(InformarAConsola(SinMemoria(k, p), p, code))
  BY SinMemoriaBien, InformarBien DEF ExitCode
<1>7. ~x.memoria => Bien(AdmitirNuevo(k, p, x))
  BY <1>6, AdmitirRechaza, Zenon
<1>8. x.memoria => AdmitirNuevo(k, p, x) \in {l, PlanificarLibre(l)}
  BY Zenon DEF AdmitirNuevo, l, m
<1> QED
  BY <1>4, <1>5, <1>7, <1>8

\* The oldest NEW process leaves colaNuevos, and is in no queue while its
\* console and memory are asked.
LEMMA QuitadoBien ==
    ASSUME NEW k, Bien(k), k.cola["NUEVO"] # <<>>
    PROVE  LET p == Head(k.cola["NUEVO"])
               m == [k EXCEPT !.cola["NUEVO"] = Tail(@)]
           IN  /\ Bien(m)
               /\ p \in Pid /\ p <= m.maxPID
               /\ \A e \in Estado : ~Contains(m.cola[e], p)
<1>. DEFINE c == k.cola
            p == Head(c["NUEVO"])
            d == [c EXCEPT !["NUEVO"] = Tail(@)]
            m == [k EXCEPT !.cola = d]
<1>1. /\ c \in [Estado -> Seq(Pid)] /\ SinRepetir(c)
      /\ Conocidos(c, k.maxPID) /\ c["NUEVO"] # <<>> /\ "NUEVO" \in Estado
  BY DEF Bien, Sistema, Estado
<1>2. [k EXCEPT !.cola["NUEVO"] = Tail(@)] = m
  BY DEF Bien, Sistema
<1>. HIDE DEF c
<1>3. d \in [Estado -> Seq(Pid)] /\ SinRepetir(d)
  BY <1>1, DescabezadaSinRepetir
<1>4. \A f \in Estado \ {"NUEVO"} : d[f] = c[f]
  BY <1>1, DescabezadaSinRepetir
<1>5. \A f \in Estado : ~Contains(d[f], p)
  BY <1>1, DescabezadaSinRepetir
<1>6. \A f \in Estado : \A i \in 1..Len(d[f]) :
         \E j \in 1..Len(c[f]) : d[f][i] = c[f][j]
  BY <1>1, DescabezadaSinRepetir
<1>7. p \in Pid /\ p <= k.maxPID
  <2>1. c["NUEVO"] \in Seq(Pid)
    BY <1>1
  <2>2. p \in Pid /\ p = c["NUEVO"][1]
    BY <1>1, <2>1, HeadTailProperties
  <2>3. 1 \in 1..Len(c["NUEVO"])
    BY <1>1, <2>1, LenProperties, EmptySeq
  <2>4. c["NUEVO"][1] <= k.maxPID
    BY <1>1, <2>3 DEF Conocidos
  <2> QED
    BY <2>2, <2>4
<1>. HIDE DEF d
<1>8. Conocidos(d, k.maxPID)
  BY <1>1, <1>6 DEF Conocidos
<1>9. m \in Sistema
  BY <1>3 DEF Bien, Sistema
<1>10. m.cola = d /\ m.cantidad = k.cantidad /\ m.maxPID = k.maxPID
  BY DEF Bien, Sistema
<1>11. Cuenta(m)
  <2>1. Cuenta(k)
    BY DEF Bien
  <2>2. d["LISTO"] = k.cola["LISTO"] /\ d["EJECUTANDO"] = k.cola["EJECUTANDO"]
        /\ d["BLOQUEADO"] = k.cola["BLOQUEADO"]
    BY <1>4 DEF Estado, c
  <2> QED
    BY <1>10, <2>1, <2>2 DEF Cuenta
<1>. HIDE DEF m, p
<1>12. Bien(m)
  BY <1>3, <1>8, <1>9, <1>10, <1>11 DEF Bien
<1>13. \A e \in Estado : ~Contains(m.cola[e], p)
  BY <1>5, <1>10
<1> QED
  BY <1>2, <1>7, <1>10, <1>12, <1>13, Zenon DEF p, c

\* PasarProximoProcDeNewAReady, on each of its ways out.
LEMMA PasarProximoBien ==
    ASSUME NEW k, Bien(k), NEW x
    PROVE  Bien(PasarProximoProcDeNewAReady(k, x))
<1>. DEFINE p == Head(k.cola["NUEVO"])
            m == [k EXCEPT !.cola["NUEVO"] = Tail(@)]
<1>1. CASE ~k.activa \/ k.cola["NUEVO"] = <<>>
  BY <1>1 DEF PasarProximoProcDeNewAReady
<1>2. CASE ~(~k.activa \/ k.cola["NUEVO"] = <<>>)
  <2>1. /\ Bien(m) /\ p \in Pid /\ p <= m.maxPID
        /\ \A e \in Estado : ~Contains(m.cola[e], p)
    BY <1>2, QuitadoBien
  <2>2. PasarProximoProcDeNewAReady(k, x) =
          CASE p \notin k.consolas -> [m EXCEPT !.vivo = "caido"]
            [] p \in k.consolas /\ k.consola[p] = "finalizando" ->
                 [m EXCEPT !.vivo = "colgado"]
            [] p \in k.consolas /\ k.consola[p] = "cerrando" /\ x.basura ->
                 [m EXCEPT !.vivo = "caido"]
            [] OTHER -> AdmitirNuevo(m, p, x)
    BY <1>2 DEF PasarProximoProcDeNewAReady
  <2>. HIDE DEF p, m
  <2>3. Bien([m EXCEPT !.vivo = "caido"])
    BY <2>1, MismasColas DEF Bien, Sistema, Vida
  <2>4. Bien([m EXCEPT !.vivo = "colgado"])
    BY <2>1, MismasColas DEF Bien, Sistema, Vida
  <2>5. Bien(AdmitirNuevo(m, p, x))
    BY <2>1, AdmitirNuevoBien
  <2> QED
    BY <2>2, <2>3, <2>4, <2>5
<1> QED
  BY <1>1, <1>2

-----------------------------------------------------------------------------
(* A CPU finished a sentence.                                              *)

\* A kill flag is taken from the list.
LEMMA QuitarFlagBien ==
    ASSUME NEW k, Bien(k), NEW p, NEW x
    PROVE  Bien(QuitarFlag(k, p, x))
<1>1. CASE k.colgados > 0 /\ x.colgado
  <2>. DEFINE n == k.colgados - 1
  <2>1. n \in Nat
    BY <1>1 DEF Bien, Sistema
  <2>2. QuitarFlag(k, p, x) = [k EXCEPT !.colgados = n]
    BY <1>1 DEF QuitarFlag, Bien, Sistema
  <2>. HIDE DEF n
  <2>3. [k EXCEPT !.colgados = n] \in Sistema
    BY <2>1 DEF Bien, Sistema
  <2> QED
    BY <2>2, <2>3, MismasColas DEF Bien, Sistema
<1>2. CASE ~(k.colgados > 0 /\ x.colgado)
  <2>1. QuitarFlag(k, p, x) = [k EXCEPT !.destruir = @ \ {p}]
    BY <1>2 DEF QuitarFlag
  <2>2. [k EXCEPT !.destruir = @ \ {p}] \in Sistema
    BY DEF Bien, Sistema
  <2> QED
    BY <2>1, <2>2, MismasColas DEF Bien, Sistema
<1> QED
  BY <1>1, <1>2

\* The PCB comes back from a CPU.
LEMMA RecibirPcbBien ==
    ASSUME NEW k, Bien(k), NEW c \in Cpus, k.enCpu[c] # 0
    PROVE  /\ Bien(RecibirPcb(k, c))
           /\ k.enCpu[c] \in Pid
<1>1. k.enCpu[c] \in Pid
  <2>1. k.enCpu[c] \in 0..MaxPid
    BY DEF Bien, Sistema
  <2> QED
    BY <2>1, MaxPidAssumption DEF Pid
<1>2. Bien([k EXCEPT !.enCpu[c] = 0])
  <2>1. 0 \in 0..MaxPid
    BY MaxPidAssumption
  <2> QED
    BY <2>1, CampoBien
<1> QED
  BY <1>1, <1>2, ReemplazarBien DEF RecibirPcb

\* The pages are freed and the console is told.
LEMMA AvisarBien ==
    ASSUME NEW k, Bien(k), NEW p \in Pid, NEW code \in ExitCode
    PROVE  Bien(InformarAConsola(PedirAMemoriaFinalizarProceso(k, p), p, code))
BY CambioBien, InformarBien

\* A process with a kill flag is finished by the CPU that runs it.
LEMMA MatarEnCpuBien ==
    ASSUME NEW k, Bien(k), NEW c \in Cpus, k.enCpu[c] # 0, NEW x
    PROVE  Bien(MatarEnCpu(k, c, x))
<1>. DEFINE p == k.enCpu[c]
            r == RecibirPcb(k, c)
            f == EjecutandoAFinalizados(r, p)
            e == k.ecCopia[p]
            a == InformarAConsola(PedirAMemoriaFinalizarProceso(f, p), p, e)
            n == PasarProximoProcDeNewAReady(a, x)
            l == LiberarCpu(n, c)
<1>1. Bien(r) /\ p \in Pid
  BY RecibirPcbBien
<1>2. e \in ExitCode
  BY <1>1 DEF Bien, Sistema
<1>. HIDE DEF p, r, e
<1>3. Bien(f)
  BY <1>1, <1>2, FinalizarBien
<1>4. Bien(a)
  BY <1>1, <1>2, <1>3, AvisarBien
<1>5. Bien(n)
  BY <1>4, PasarProximoBien
<1>6. Bien(l)
  BY <1>5, LiberarCpuBien
<1>7. Bien(EjecutarSiguientePcbEnCpu(l, c))
  BY <1>6, EjecutarSiguienteBien
<1> QED
  BY <1>7, Zenon DEF MatarEnCpu, l, n, a, f, r, e, p

\* The CPU planificar finds is one, or it crashes.
LEMMA CpuDelQuantumTipo ==
    ASSUME NEW k, Bien(k), NEW c \in Cpus, NEW x \in Exterior
    PROVE  CpuDelQuantum(k, c, x) \in Cpus \cup {NoCpu}
<1>1. CASE Contains(k.ocupadas, c)
  BY <1>1 DEF CpuDelQuantum
<1>2. CASE ~Contains(k.ocupadas, c) /\ k.ocupadas # <<>>
  <2>1. k.ocupadas \in Seq(Cpus)
    BY DEF Bien, Sistema
  <2>2. Len(k.ocupadas) \in 1..Len(k.ocupadas)
    BY <1>2, <2>1, LenProperties, EmptySeq
  <2>3. k.ocupadas[Len(k.ocupadas)] \in Cpus
    BY <2>1, <2>2, ElementOfSeq
  <2> QED
    BY <1>2, <2>3 DEF CpuDelQuantum, Last
<1>3. CASE ~Contains(k.ocupadas, c) /\ ~(k.ocupadas # <<>>)
  BY <1>3 DEF CpuDelQuantum, Exterior
<1> QED
  BY <1>1, <1>2, <1>3

\* The quantum of a CPU is over, or not yet.
LEMMA RoundRobinBien ==
    ASSUME NEW k, Bien(k), NEW c \in Cpus, k.enCpu[c] # 0,
           NEW x \in Exterior
    PROVE  Bien(RoundRobin(k, c, x))
<1>. DEFINE cpu == CpuDelQuantum(k, c, x)
            p == k.enCpu[c]
            r == RecibirPcb(k, c)
            l == EjecutandoAListos(r, p)
            m == [l EXCEPT !.quantum[cpu] = 1]
            n == [k EXCEPT !.quantum[cpu] = @ + 1]
<1>1. cpu \in Cpus \cup {NoCpu}
  BY CpuDelQuantumTipo
<1>2. Bien(r) /\ p \in Pid
  BY RecibirPcbBien
<1>. HIDE DEF cpu, p, r
<1>3. Bien(l)
  BY <1>2, PasosBien
<1>. HIDE DEF l
<1>4. CASE cpu = NoCpu
  <2>1. Bien([k EXCEPT !.vivo = "caido"])
    BY CampoBien DEF Vida
  <2> QED
    BY <1>4, <2>1 DEF RoundRobin, cpu
<1>5. CASE cpu # NoCpu
  <2>1. cpu \in Cpus
    BY <1>1, <1>5
  <2>2. Bien(m)
    BY <1>3, <2>1, CampoBien
  <2>3. Bien(EjecutarSiguientePcbEnCpu(m, cpu))
    BY <2>1, <2>2, EjecutarSiguienteBien
  <2>4. Bien(n)
    <3>. DEFINE q == k.quantum[cpu] + 1
    <3>1. q \in Nat /\ n = [k EXCEPT !.quantum[cpu] = q]
      BY <2>1 DEF Bien, Sistema
    <3>. HIDE DEF q, n
    <3> QED
      BY <2>1, <3>1, CampoBien
  <2>5. RoundRobin(k, c, x) =
          IF k.quantum[cpu] >= Quantum
          THEN EjecutarSiguientePcbEnCpu(m, cpu) ELSE n
    BY <1>5 DEF RoundRobin, cpu, p, l, r
  <2>. HIDE DEF m, n
  <2> QED
    BY <2>3, <2>4, <2>5
<1> QED
  BY <1>4, <1>5

\* planificar(cpuSocket), on each of its ways out.
LEMMA PlanificarCpuBien ==
    ASSUME NEW k, Bien(k), NEW c \in Cpus, k.enCpu[c] # 0,
           NEW x \in Exterior
    PROVE  Bien(PlanificarCpu(k, c, x))
<1>. DEFINE s == [k EXCEPT !.modo[c] = "activa"]
            f == QuitarFlag(s, k.pidEn[c], x)
<1>1. Bien([k EXCEPT !.modo[c] = "esperando"])
  BY CampoBien DEF ModoCpu
<1>2. Bien(s) /\ s.enCpu[c] # 0
  <2>1. Bien(s)
    BY CampoBien DEF ModoCpu
  <2>2. s.enCpu = k.enCpu
    BY DEF Bien, Sistema
  <2> QED
    BY <2>1, <2>2
<1>. HIDE DEF s
<1>3. Bien(f) /\ f.enCpu[c] # 0
  <2>1. Bien(f)
    BY <1>2, QuitarFlagBien
  <2>2. f.enCpu = s.enCpu
    BY <1>2 DEF QuitarFlag, Bien, Sistema
  <2> QED
    BY <1>2, <2>1, <2>2
<1>. HIDE DEF f
<1>4. Bien(MatarEnCpu(f, c, x))
  BY <1>3, MatarEnCpuBien
<1>5. Bien(RoundRobin(s, c, x))
  BY <1>2, RoundRobinBien
<1>6. CASE ~k.activa
  BY <1>1, <1>6 DEF PlanificarCpu
<1>7. CASE k.activa
  <2>1. PlanificarCpu(k, c, x) =
          CASE TengoQueMatar(k, k.pidEn[c], x) -> MatarEnCpu(f, c, x)
            [] ~TengoQueMatar(k, k.pidEn[c], x) /\ Algoritmo = "RR" ->
                 RoundRobin(s, c, x)
            [] OTHER -> s
    BY <1>7 DEF PlanificarCpu, f, s
  <2> QED
    BY <1>2, <1>4, <1>5, <2>1
<1> QED
  BY <1>6, <1>7

-----------------------------------------------------------------------------
(* The other messages of a CPU.                                            *)

\* The CPU gives back a process that ended or that it aborted.
LEMMA DevueltoBien ==
    ASSUME NEW k, Bien(k), NEW c \in Cpus, k.enCpu[c] # 0,
           NEW code \in ExitCode
    PROVE  LET p == k.enCpu[c]
               r == RecibirPcb([k EXCEPT !.ecCopia[p] = code], c)
               l == LiberarCpu([EjecutandoAFinalizados(r, p) EXCEPT
                                   !.pidEn[c] = 0, !.quantum[c] = 0], c)
           IN  Bien(InformarAConsola(
                   PedirAMemoriaFinalizarProceso(l, p), p, code))
<1>. DEFINE p == k.enCpu[c]
            m == [k EXCEPT !.ecCopia[p] = code]
            r == RecibirPcb(m, c)
            f == EjecutandoAFinalizados(r, p)
            g == [f EXCEPT !.pidEn[c] = 0, !.quantum[c] = 0]
            l == LiberarCpu(g, c)
<1>1. p \in Pid
  BY RecibirPcbBien
<1>2. m.enCpu[c] # 0
  BY DEF Bien, Sistema
<1>. HIDE DEF p
<1>3. Bien(m)
  BY <1>1, CambioBien
<1>. HIDE DEF m
<1>4. Bien(r)
  BY <1>2, <1>3, RecibirPcbBien
<1>. HIDE DEF r
<1>5. Bien(f)
  BY <1>1, <1>4, FinalizarBien
<1>. HIDE DEF f
<1>6. Bien(g)
  <2>1. 0 \in 0..MaxPid /\ 0 \in Nat
    BY MaxPidAssumption
  <2> QED
    BY <1>5, <2>1, CampoBien
<1>. HIDE DEF g
<1>7. Bien(l)
  BY <1>6, LiberarCpuBien
<1>. HIDE DEF l
<1>8. Bien(InformarAConsola(PedirAMemoriaFinalizarProceso(l, p), p, code))
  BY <1>1, <1>7, AvisarBien
<1> QED
  BY <1>8, Zenon DEF l, g, f, r, m, p

\* A program ends.
LEMMA ProgramaTerminadoBien ==
    ASSUME NEW k, Bien(k), NEW c \in Cpus, k.enCpu[c] # 0, NEW x
    PROVE  Bien(ProgramaTerminado(k, c, x))
<1>1. "FINALIZADO_CORRECTAMENTE" \in ExitCode
  BY DEF ExitCode
<1> QED
  BY <1>1, DevueltoBien, PasarProximoBien, PlanificarSiHayListosBien
     DEF ProgramaTerminado

\* A CPU aborts its program.
LEMMA AbortarDeCpuBien ==
    ASSUME NEW k, Bien(k), NEW c \in Cpus, k.enCpu[c] # 0,
           NEW code \in ExitCode, NEW x
    PROVE  Bien(AbortarDeCpu(k, c, code, x))
BY DevueltoBien, PasarProximoBien DEF AbortarDeCpu

\* A WAIT on a process with a kill flag.
LEMMA WaitMataBien ==
    ASSUME NEW k, Bien(k), NEW c \in Cpus, k.enCpu[c] # 0,
           NEW s \in Sems, NEW x
    PROVE  Bien(WaitMata(k, c, s, x))
<1>. DEFINE p == k.enCpu[c]
            r == RecibirPcb(k, c)
            f == AFinalizados(r, p, "EJECUTANDO")
            e == k.ecCopia[p]
            a == InformarAConsola(PedirAMemoriaFinalizarProceso(f, p), p, e)
            l == LiberarCpu(PasarProximoProcDeNewAReady(a, x), c)
            v == l.valor[s] + 1
<1>1. Bien(r) /\ p \in Pid
  BY RecibirPcbBien
<1>2. e \in ExitCode
  BY <1>1 DEF Bien, Sistema
<1>. HIDE DEF p, r, e
<1>3. Bien(f)
  BY <1>1, <1>2, FinalizarBien DEF Estado
<1>. HIDE DEF f
<1>4. Bien(a)
  BY <1>1, <1>2, <1>3, AvisarBien
<1>. HIDE DEF a
<1>5. Bien(l)
  BY <1>4, PasarProximoBien, LiberarCpuBien
<1>6. WaitMata(k, c, s, x) = [l EXCEPT !.valor[s] = @ + 1]
  BY Zenon DEF WaitMata, l, a, f, r, e, p
<1>. HIDE DEF l
<1>7. v \in Int
  <2>1. l.valor \in [Sems -> Int]
    BY <1>5 DEF Bien, Sistema
  <2> QED
    BY <2>1
<1>7a. [l EXCEPT !.valor[s] = @ + 1] = [l EXCEPT !.valor[s] = v]
  <2>. HIDE DEF l
  <2> QED
    BY <1>5, Zenon
<1>. HIDE DEF v
<1>8. Bien([l EXCEPT !.valor[s] = v])
  BY <1>5, <1>7, CampoBien
<1> QED
  BY <1>6, <1>7a, <1>8, Zenon

\* A WAIT that blocks its process.
LEMMA WaitBloqueaBien ==
    ASSUME NEW k, Bien(k), NEW c \in Cpus, k.enCpu[c] # 0, NEW s \in Sems
    PROVE  Bien(WaitBloquea(k, c, s))
<1>. DEFINE p == k.enCpu[c]
            m == [k EXCEPT !.espera[p] = s]
            l == LiberarCpu(m, c)
            r == RecibirPcb(l, c)
<1>1. p \in Pid
  BY RecibirPcbBien
<1>2. l.enCpu[c] # 0
  BY DEF LiberarCpu, Bien, Sistema
<1>. HIDE DEF p
<1>3. Bien(m)
  BY <1>1, CampoBien
<1>. HIDE DEF m
<1>4. Bien(l)
  BY <1>3, LiberarCpuBien
<1>. HIDE DEF l
<1>5. Bien(r)
  BY <1>2, <1>4, RecibirPcbBien
<1>. HIDE DEF r
<1>6. Bien(EjecutandoABloqueados(r, p))
  BY <1>1, <1>5, PasosBien
<1> QED
  BY <1>6, Zenon DEF WaitBloquea, r, l, m, p

\* A WAIT, on each of its ways out.
LEMMA WaitBien ==
    ASSUME NEW k, Bien(k), NEW c \in Cpus, k.enCpu[c] # 0,
           NEW s \in Sems, NEW x
    PROVE  Bien(Wait(k, c, s, x))
<1>. DEFINE p == k.enCpu[c]
            v == k.valor[s] - 1
            t == [k EXCEPT !.valor[s] = v]
            f == QuitarFlag(t, p, x)
<1>1. v \in Int /\ t = [k EXCEPT !.valor[s] = @ - 1]
  BY DEF Bien, Sistema
<1>. HIDE DEF v
<1>2. Bien(t)
  BY <1>1, CampoBien
<1>3. t.enCpu = k.enCpu
  BY DEF Bien, Sistema
<1>4. Wait(k, c, s, x) =
        CASE k.valor[s] > 0 -> t
          [] k.valor[s] <= 0 /\ TengoQueMatar(k, p, x) ->
                PlanificarSiHayListos(WaitMata(f, c, s, x))
          [] OTHER -> PlanificarSiHayListos(WaitBloquea(t, c, s))
  <2>1. [k EXCEPT !.valor[s] = @ - 1] = t
    BY <1>1
  <2>. HIDE DEF t
  <2> QED
    BY <2>1 DEF Wait, p, f
<1>. HIDE DEF t
<1>5. Bien(f) /\ f.enCpu[c] # 0
  <2>1. Bien(f)
    BY <1>2, QuitarFlagBien
  <2>2. f.enCpu = t.enCpu
    BY <1>2 DEF QuitarFlag, Bien, Sistema
  <2> QED
    BY <1>3, <2>1, <2>2
<1>. HIDE DEF f, p
<1>6. Bien(PlanificarSiHayListos(WaitMata(f, c, s, x)))
  BY <1>5, WaitMataBien, PlanificarSiHayListosBien
<1>7. Bien(PlanificarSiHayListos(WaitBloquea(t, c, s)))
  BY <1>2, <1>3, WaitBloqueaBien, PlanificarSiHayListosBien
<1> QED
  BY <1>2, <1>4, <1>6, <1>7

\* A SIGNAL.
LEMMA SignalBien ==
    ASSUME NEW k, Bien(k), NEW c \in Cpus, NEW s \in Sems
    PROVE  Bien(Signal(k, c, s))
<1>. DEFINE v == k.valor[s] + 1
            m == [k EXCEPT !.valor[s] = v, !.modo[c] = "sentencia"]
            q == k.cola["BLOQUEADO"]
            I == {j \in 1..Len(q) : k.espera[q[j]] = s}
            i == IF I # {} THEN Min(I) ELSE 0
            p == q[i]
            l == [BloqueadoAListo(m, p) EXCEPT !.espera[p] = NoSem]
<1>1. v \in Int
      /\ m = [k EXCEPT !.valor[s] = @ + 1, !.modo[c] = "sentencia"]
  BY DEF Bien, Sistema
<1>2. Signal(k, c, s) =
        IF i = 0 THEN m
        ELSE IF k.libres # <<>> THEN PlanificarLibre(l) ELSE l
  BY <1>1, Zenon DEF Signal, SelectInSeq
<1>. HIDE DEF v
<1>3. Bien(m)
  <2>1. m \in Sistema
    BY <1>1 DEF Bien, Sistema, ModoCpu
  <2>2. m.cola = k.cola /\ m.cantidad = k.cantidad /\ m.maxPID = k.maxPID
    BY DEF Bien, Sistema
  <2> QED
    BY <2>1, <2>2, MismasColas
<1>4. q \in Seq(Pid)
  BY DEF Bien, Sistema, Estado
<1>. HIDE DEF m, q
<1>5. CASE I = {}
  BY <1>2, <1>3, <1>5
<1>6. CASE I # {}
  <2>1. I \subseteq Nat
    OBVIOUS
  <2>2. Min(I) \in I
    BY <1>6, <2>1, MinimoExiste
  <2>3. i \in 1..Len(q)
    BY <1>6, <2>2
  <2>. HIDE DEF i
  <2>4. p \in Pid
    BY <1>4, <2>3, ElementOfSeq
  <2>. HIDE DEF p
  <2>5. Bien(l)
    <3>1. Bien(BloqueadoAListo(m, p))
      BY <1>3, <2>4, PasosBien
    <3> QED
      BY <2>4, <3>1, CampoBien
  <2>. HIDE DEF l
  <2>6. Bien(PlanificarLibre(l))
    BY <2>5, PlanificarLibreBien
  <2> QED
    BY <1>2, <1>3, <2>5, <2>6
<1> QED
  BY <1>5, <1>6

\* A request for more memory than a page.
LEMMA PedidoBloqueGrandeBien ==
    ASSUME NEW k, Bien(k), NEW c \in Cpus
    PROVE  Bien(PedidoBloqueGrande(k, c))
<1>. DEFINE p == k.pidEn[c]
            code == "MALLOC_MAYOR_A_PAGESIZE"
            f == EjecutandoAFinalizados([k EXCEPT !.ec[p] = code], p)
            a == IF p \in k.consolas THEN Append(f.avisos[p], code)
                 ELSE f.avisos[p]
            m == [f EXCEPT !.modo[c] = "abortando", !.avisos[p] = a]
<1>1. CASE ~BuscarPcb(k, p)
  <2>1. Bien([k EXCEPT !.vivo = "caido"])
    BY CampoBien DEF Vida
  <2> QED
    BY <1>1, <2>1 DEF PedidoBloqueGrande
<1>2. CASE BuscarPcb(k, p)
  <2>1. p \in Pid
    <3>1. PICK e \in Estado : EnCola(k, p, e)
      BY <1>2 DEF BuscarPcb, Estado
    <3>2. k.cola[e] \in Seq(Pid)
      BY DEF Bien, Sistema
    <3> QED
      BY <3>1, <3>2, ElementOfSeq DEF EnCola, Contains
  <2>2. Bien(f)
    BY <2>1, CambioBien, FinalizarBien DEF ExitCode
  <2>3. PedidoBloqueGrande(k, c) =
          [f EXCEPT !.modo[c] = "abortando",
              !.avisos[p] = IF p \in k.consolas THEN Append(@, code) ELSE @]
    BY <1>2 DEF PedidoBloqueGrande
  <2>. HIDE DEF p, f
  <2>4. m = [f EXCEPT !.modo[c] = "abortando",
              !.avisos[p] = IF p \in k.consolas THEN Append(@, code) ELSE @]
    BY <2>1, <2>2 DEF Bien, Sistema
  <2>5. a \in Seq(ExitCode)
    BY <2>1, <2>2 DEF Bien, Sistema, ExitCode
  <2>. HIDE DEF a
  <2>6. m \in Sistema
    BY <2>2, <2>5 DEF Bien, Sistema, ModoCpu
  <2>7. m.cola = f.cola /\ m.cantidad = f.cantidad /\ m.maxPID = f.maxPID
    BY <2>2 DEF Bien, Sistema
  <2>. HIDE DEF m
  <2>8. Bien(m)
    BY <2>2, <2>6, <2>7, MismasColas
  <2> QED
    BY <2>3, <2>4, <2>8, Zenon
<1> QED
  BY <1>1, <1>2

-----------------------------------------------------------------------------
(* A CPU is gone.                                                          *)

\* The process the kernel believes on the CPU is finished.
LEMMA TerminarProcesoBien ==
    ASSUME NEW k, Bien(k), NEW c \in Cpus, NEW x
    PROVE  Bien(TerminarProcesoEjecutandoEnCpu(k, c, x))
<1>. DEFINE p == k.pidEn[c]
            code == "DESCONEXION_CPU"
            a == InformarAConsola(
                    PedirAMemoriaFinalizarProceso([k EXCEPT !.ec[p] = code], p),
                    p, code)
            f == EjecutandoAFinalizados(a, p)
<1>1. CASE ~EnCola(k, p, "EJECUTANDO")
  BY <1>1 DEF TerminarProcesoEjecutandoEnCpu
<1>2. CASE EnCola(k, p, "EJECUTANDO")
  <2>1. p \in Pid
    <3>1. k.cola["EJECUTANDO"] \in Seq(Pid)
      BY DEF Bien, Sistema, Estado
    <3> QED
      BY <1>2, <3>1, ElementOfSeq DEF EnCola, Contains
  <2>2. TerminarProcesoEjecutandoEnCpu(k, c, x) =
          PasarProximoProcDeNewAReady(f, x)
    BY <1>2, Zenon DEF TerminarProcesoEjecutandoEnCpu
  <2>3. code \in ExitCode
    BY DEF ExitCode
  <2>. HIDE DEF p, code
  <2>4. Bien(a)
    BY <2>1, <2>3, CambioBien, AvisarBien
  <2>. HIDE DEF a
  <2>5. Bien(f)
    BY <2>1, <2>3, <2>4, FinalizarBien
  <2> QED
    BY <2>2, <2>5, PasarProximoBien
<1> QED
  BY <1>1, <1>2

\* One entry of the CPU leaves the lists.
LEMMA RemoverCpuBien ==
    ASSUME NEW k, Bien(k), NEW c \in Cpus, NEW basura \in 0..MaxPid
    PROVE  Bien(RemoverCpuDeLaLista(k, c, basura))
<1>. DEFINE l == RemoveFirst(k.libres, c)
            o == RemoveFirst(k.ocupadas, c)
            q == IF Contains(k.libres, c) THEN [k EXCEPT !.libres = l]
                 ELSE [k EXCEPT !.ocupadas = o]
            m == [q EXCEPT !.modo[c] = "fuera", !.pidEn[c] = basura]
<1>1. l \in Seq(Cpus) /\ o \in Seq(Cpus)
  <2>1. k.libres \in Seq(Cpus) /\ k.ocupadas \in Seq(Cpus)
    BY DEF Bien, Sistema
  <2> QED
    BY <2>1, QuitarTipo
<1>2. RemoverCpuDeLaLista(k, c, basura) = m
  <2>1. /\ [k EXCEPT !.libres = RemoveFirst(@, c)] = [k EXCEPT !.libres = l]
        /\ [k EXCEPT !.ocupadas = RemoveFirst(@, c)] = [k EXCEPT !.ocupadas = o]
    BY DEF Bien, Sistema
  <2>. HIDE DEF l, o
  <2> QED
    BY <2>1, Zenon DEF RemoverCpuDeLaLista
<1>. HIDE DEF l, o
<1>3. q \in Sistema
      /\ q.cola = k.cola /\ q.cantidad = k.cantidad /\ q.maxPID = k.maxPID
  BY <1>1, ZenonT(60) DEF Bien, Sistema
<1>. HIDE DEF q
<1>4. Bien(q)
  BY <1>3, MismasColas
<1>5. m \in Sistema
  BY <1>4 DEF Bien, Sistema, ModoCpu
<1>6. m.cola = q.cola /\ m.cantidad = q.cantidad /\ m.maxPID = q.maxPID
  BY <1>3 DEF Sistema
<1>. HIDE DEF m
<1>7. Bien(m)
  BY <1>4, <1>5, <1>6, MismasColas
<1> QED
  BY <1>2, <1>7

-----------------------------------------------------------------------------
(* Consoles and operator.                                                  *)

\* A new console joins listaProgramaSocketPid.
LEMMA ConectarBien ==
    ASSUME NEW k, Bien(k), NEW p \in Pid
    PROVE  Bien([k EXCEPT !.consolas = @ \cup {p},
                          !.consola[p] = "conectada"])
<1>. DEFINE m == [k EXCEPT !.consolas = @ \cup {p},
                           !.consola[p] = "conectada"]
<1>1. m \in Sistema
  BY DEF Bien, Sistema, ModoConsola
<1>2. m.cola = k.cola /\ m.cantidad = k.cantidad /\ m.maxPID = k.maxPID
  BY DEF Bien, Sistema
<1> QED
  BY <1>1, <1>2, MismasColas

\* A program that starts while the level has room.
LEMMA IniciarListoBien ==
    ASSUME NEW k, Bien(k), k.maxPID < MaxPid, NEW x
    PROVE  Bien(IniciarListo(k, k.maxPID + 1, x))
<1>. DEFINE p == k.maxPID + 1
            code == "NO_SE_PUDO_ASIGNAR_RECURSO"
            n == NuevoAListos(CrearPcb(k), p)
            m == [n EXCEPT !.consolas = @ \cup {p}, !.consola[p] = "conectada"]
            f == ListoAFinalizados([m EXCEPT !.ec[p] = code], p)
<1>1. /\ Bien(CrearPcb(k)) /\ p \in Pid
      /\ CrearPcb(k).maxPID = p
      /\ \A e \in Estado : ~Contains(CrearPcb(k).cola[e], p)
  BY CrearBien
<1>2. code \in ExitCode
  BY DEF ExitCode
<1>. HIDE DEF code
<1>3. IniciarListo(k, p, x) =
        IF x.memoria THEN [m EXCEPT !.paginas = @ \cup {p}]
        ELSE InformarAConsola(f, p, code)
  BY Zenon DEF IniciarListo, code
<1>. HIDE DEF p
<1>4. Bien(n)
  BY <1>1, NuevoAListosBien, MaxPidAssumption DEF Pid
<1>. HIDE DEF n
<1>5. Bien(m)
  BY <1>1, <1>4, ConectarBien
<1>. HIDE DEF m
<1>6. Bien([m EXCEPT !.paginas = @ \cup {p}])
  BY <1>1, <1>5, MismasColas, ZenonT(60) DEF Bien, Sistema
<1>7. Bien(f)
  BY <1>1, <1>2, <1>5, CambioBien, PasosBien
<1>. HIDE DEF f
<1>8. Bien(InformarAConsola(f, p, code))
  BY <1>1, <1>2, <1>7, InformarBien
<1>9. Bien(IniciarListo(k, p, x))
  BY <1>3, <1>6, <1>8
<1> QED
  BY <1>9 DEF p

\* A program that starts when the level is full.
LEMMA IniciarNuevoBien ==
    ASSUME NEW k, Bien(k), k.maxPID < MaxPid
    PROVE  Bien(IniciarNuevo(k, k.maxPID + 1))
<1>. DEFINE p == k.maxPID + 1
            b == CrearPcb(k)
            c == b.cola
            d == Agregada(c, p, "NUEVO")
            l == [b EXCEPT !.cola = d]
            m == [l EXCEPT !.consolas = @ \cup {p}, !.consola[p] = "conectada"]
<1>1. /\ Bien(b) /\ p \in Pid /\ b.maxPID = p
      /\ \A e \in Estado : ~Contains(c[e], p)
  BY CrearBien
<1>. HIDE DEF p, b
<1>2. IniciarNuevo(k, p) = m
  BY <1>1 DEF IniciarNuevo, Agregada, Bien, Sistema, b
<1>3. /\ c \in [Estado -> Seq(Pid)] /\ "NUEVO" \in Estado
      /\ SinRepetir(c) /\ \A e \in Estado : ~Contains(c[e], p)
  BY <1>1 DEF Bien, Sistema, Estado
<1>4. Conocidos(c, p)
  BY <1>1 DEF Bien
<1>. HIDE DEF c
<1>5. d \in [Estado -> Seq(Pid)] /\ SinRepetir(d)
  BY <1>1, <1>3, AgregadaSinRepetir
<1>6. \A f \in Estado \ {"NUEVO"} : d[f] = c[f]
  BY <1>1, <1>3, AgregadaSinRepetir
<1>7. \A f \in Estado : \A i \in 1..Len(d[f]) :
         d[f][i] = p \/ \E j \in 1..Len(c[f]) : d[f][i] = c[f][j]
  BY <1>1, <1>3, AgregadaSinRepetir
<1>. HIDE DEF d
<1>8. Conocidos(d, p)
  BY <1>1, <1>4, <1>7, MaxPidAssumption DEF Conocidos, Pid
<1>9. l \in Sistema
  BY <1>1, <1>5 DEF Bien, Sistema
<1>10. l.cola = d /\ l.cantidad = b.cantidad /\ l.maxPID = b.maxPID
  BY <1>1 DEF Bien, Sistema
<1>11. Cuenta(l)
  <2>1. Cuenta(b)
    BY <1>1 DEF Bien
  <2>2. d["LISTO"] = b.cola["LISTO"] /\ d["EJECUTANDO"] = b.cola["EJECUTANDO"]
        /\ d["BLOQUEADO"] = b.cola["BLOQUEADO"]
    BY <1>6 DEF Estado, c
  <2> QED
    BY <1>10, <2>1, <2>2 DEF Cuenta
<1>. HIDE DEF l
<1>12. Bien(l)
  BY <1>1, <1>5, <1>8, <1>9, <1>10, <1>11 DEF Bien
<1>13. Bien(m)
  BY <1>1, <1>12, ConectarBien
<1> QED
  BY <1>2, <1>13 DEF p

\* A console starts a program.
LEMMA IniciarProcesoBien ==
    ASSUME NEW k, Bien(k), k.maxPID < MaxPid, NEW x
    PROVE  Bien(IniciarProceso(k, x))
<1>1. Bien(IF CheckNivelMultiprogramacion(k)
           THEN IniciarListo(k, k.maxPID + 1, x)
           ELSE IniciarNuevo(k, k.maxPID + 1))
  BY IniciarListoBien, IniciarNuevoBien
<1> QED
  BY <1>1, PlanificarSiHayListosBien DEF IniciarProceso

\* A console asks to end its program, or is gone.
LEMMA PedidoAbortarBien ==
    ASSUME NEW k, Bien(k), NEW p \in Pid, NEW code \in ExitCode
    PROVE  Bien(PedidoAbortarProgramaDeConsola(k, p, code))
<1>. DEFINE b == [EliminarPidProgramaSocket(k, p) EXCEPT !.ec[p] = code]
            e == CHOOSE f \in Estado : EnCola(k, p, f)
            d == [b EXCEPT !.destruir = @ \cup {p}]
            a == PedirAMemoriaFinalizarProceso(AFinalizados(b, p, e), p)
<1>1. Bien(EliminarPidProgramaSocket(k, p))
  BY CambioBien
<1>2. Bien(b)
  BY <1>1, CambioBien
<1>3. PedidoAbortarProgramaDeConsola(k, p, code) =
        CASE p \notin k.consolas -> k
          [] p \in k.consolas /\ ~BuscarPcb(k, p) ->
                EliminarPidProgramaSocket(k, p)
          [] p \in k.consolas /\ EnCola(k, p, "EJECUTANDO") -> d
          [] OTHER -> a
  BY Zenon DEF PedidoAbortarProgramaDeConsola
<1>. HIDE DEF b
<1>4. Bien(d)
  <2>1. d \in Sistema
    BY <1>2 DEF Bien, Sistema
  <2>2. d.cola = b.cola /\ d.cantidad = b.cantidad /\ d.maxPID = b.maxPID
    BY <1>2 DEF Bien, Sistema
  <2> QED
    BY <1>2, <2>1, <2>2, MismasColas
<1>. HIDE DEF d
<1>5. BuscarPcb(k, p) => Bien(a)
  <2>1. SUFFICES ASSUME BuscarPcb(k, p) PROVE Bien(a)
    OBVIOUS
  <2>2. PICK f \in Estado \ {"TERMINADO"} : EnCola(k, p, f)
    BY <2>1 DEF BuscarPcb, Estado
  <2>3. e \in Estado /\ EnCola(k, p, e)
    BY <2>2
  <2>. HIDE DEF e
  <2>4. e = f
    <3>1. PICK i \in 1..Len(k.cola[e]) : k.cola[e][i] = p
      BY <2>3 DEF EnCola, Contains
    <3>2. PICK j \in 1..Len(k.cola[f]) : k.cola[f][j] = p
      BY <2>2 DEF EnCola, Contains
    <3>3. SinRepetir(k.cola)
      BY DEF Bien
    <3> QED
      BY <2>3, <3>1, <3>2, <3>3 DEF SinRepetir
  <2>5. Bien(AFinalizados(b, p, e))
    BY <1>2, <2>4, FinalizarBien
  <2> QED
    BY <2>5, CambioBien
<1>. HIDE DEF a
<1> QED
  BY <1>1, <1>3, <1>4, <1>5

\* The operator kills a process.
LEMMA MatarProcesoBien ==
    ASSUME NEW k, Bien(k), NEW p \in Pid
    PROVE  Bien(MatarProceso(k, p))
<1>. DEFINE code == "FINALIZADO_POR_COMANDO"
            d == [k EXCEPT !.colgados = @ + 1]
            n == NuevoAFinalizados(k, p, code)
            l == ListoAFinalizados([k EXCEPT !.ec[p] = code], p)
            b == BloqueadoAFinalizados(k, p, code)
            sinPaginas(m) == InformarAConsola(
                PedirAMemoriaFinalizarProceso(m, p), p, m.ec[p])
<1>1. code \in ExitCode
  BY DEF ExitCode
<1>2. Bien(d)
  <2>. DEFINE i == k.colgados + 1
  <2>1. i \in Nat /\ d = [k EXCEPT !.colgados = i]
    BY DEF Bien, Sistema
  <2>. HIDE DEF i, d
  <2>2. [k EXCEPT !.colgados = i] \in Sistema
    BY <2>1 DEF Bien, Sistema
  <2> QED
    BY <2>1, <2>2, MismasColas DEF Bien, Sistema
<1>3. ASSUME NEW m, Bien(m)
      PROVE  Bien(sinPaginas(m))
  <2>1. m.ec[p] \in ExitCode
    BY <1>3 DEF Bien, Sistema
  <2> QED
    BY <1>3, <2>1, AvisarBien
<1>4. MatarProceso(k, p) =
        CASE EstaElProcesoEnEjecucion(k, p) -> d
          [] ~EstaElProcesoEnEjecucion(k, p) /\ EnCola(k, p, "NUEVO") -> n
          [] ~EstaElProcesoEnEjecucion(k, p) /\ EnCola(k, p, "LISTO") ->
                sinPaginas(l)
          [] ~EstaElProcesoEnEjecucion(k, p) /\ EnCola(k, p, "BLOQUEADO") ->
                sinPaginas(b)
          [] OTHER -> k
  BY Zenon DEF MatarProceso
<1>. HIDE DEF code, d
<1>5. Bien(n) /\ Bien(b)
  BY <1>1, FinalizarBien
<1>6. Bien(l)
  BY <1>1, CambioBien, PasosBien
<1>. HIDE DEF n, l, b
<1>7. Bien(sinPaginas(l)) /\ Bien(sinPaginas(b))
  BY <1>3, <1>5, <1>6
<1>. HIDE DEF sinPaginas
<1> QED
  BY <1>2, <1>4, <1>5, <1>7

\* The operator changes the multiprogramming level.
LEMMA MultiprogramacionBien ==
    ASSUME NEW k, Bien(k), NEW n \in Nat
    PROVE  Bien(Multiprogramacion(k, n))
<1>. DEFINE i == IF k.cantidad < n THEN Len(k.cola["NUEVO"]) ELSE 0
            m == [k EXCEPT !.grado = n, !.iteraciones = i]
<1>1. i \in Nat
  <2>1. k.cola["NUEVO"] \in Seq(Pid)
    BY DEF Bien, Sistema, Estado
  <2> QED
    BY <2>1, LenProperties
<1>2. Multiprogramacion(k, n) = m
  BY DEF Multiprogramacion
<1>. HIDE DEF i
<1>3. m \in Sistema
  <2>1. n \in Int
    OBVIOUS
  <2> QED
    BY <1>1, <2>1 DEF Bien, Sistema
<1>4. m.cola = k.cola /\ m.cantidad = k.cantidad /\ m.maxPID = k.maxPID
  BY DEF Bien, Sistema
<1> QED
  BY <1>2, <1>3, <1>4, MismasColas

\* A round of its admission loop.
LEMMA RondaBien ==
    ASSUME NEW k, Bien(k), k.iteraciones > 0, NEW x
    PROVE  Bien(RondaDeMultiprogramacion(k, x))
<1>. DEFINE n == k.iteraciones - 1
            a == PasarProximoProcDeNewAReady(k, x)
<1>1. n \in Nat /\ 0 \in Nat
  BY DEF Bien, Sistema
<1>2. Bien(a)
  BY PasarProximoBien
<1>. HIDE DEF a
<1>3. ASSUME NEW m, Bien(m), NEW i \in Nat
      PROVE  Bien([m EXCEPT !.iteraciones = i])
  BY <1>3, MismasColas DEF Bien, Sistema
<1>. HIDE DEF n
<1> QED
  BY <1>1, <1>2, <1>3, Zenon DEF RondaDeMultiprogramacion, a, n

-----------------------------------------------------------------------------
(* The PCBs that CPUs hold.  A handler runs between two messages of the    *)
(* same CPU, and what it does to the other processes must not take from    *)
(* under a CPU the one it holds.                                           *)

\* A CPU may hold p: it runs, or something else finished it meanwhile.
Adentro(k, p) == EnCola(k, p, "EJECUTANDO") \/ EnCola(k, p, "TERMINADO")

ConPcb == {"activa", "sentencia", "abortando", "esperando"}

\* What the CPUs of S hold is theirs alone, and while the kernel lives it
\* knows what each one runs.
Sostenidos(k, S) ==
    /\ \A c \in S : k.enCpu[c] # 0 =>
          /\ Adentro(k, k.enCpu[c])
          /\ k.modo[c] \in ConPcb
          /\ k.vivo = "vivo" => k.pidEn[c] = k.enCpu[c]
    /\ \A c, d \in S : k.enCpu[c] = k.enCpu[d] /\ c # d => k.enCpu[c] = 0

\* No process a CPU may hold goes back to a queue it can run from.
Retiene(k, m) == \A p \in Pid : Adentro(k, p) => Adentro(m, p)

\* A CPU process that ended is given nothing.
Difuntas(k, m) ==
    \A c \in Cpus : k.modo[c] = "muerta" /\ k.enCpu[c] = 0 =>
        m.modo[c] = "muerta" /\ m.enCpu[c] = 0

\* Going from k to m takes no PCB from under a CPU.
Cuida(k, m) ==
    /\ m.activa = k.activa
    /\ Retiene(k, m)
    /\ Difuntas(k, m)
    /\ \A S \in SUBSET Cpus : Sostenidos(k, S) => Sostenidos(m, S)

\* Two pieces of a handler one after the other.
LEMMA CuidaTransitiva ==
    ASSUME NEW k, NEW l, NEW m, Cuida(k, l), Cuida(l, m)
    PROVE  Cuida(k, m)
BY DEF Cuida, Retiene, Difuntas

\* Nothing at all is done.
LEMMA CuidaIgual ==
    ASSUME NEW k
    PROVE  Cuida(k, k)
BY DEF Cuida, Retiene, Difuntas

\* The CPUs hold what they held.
Quieto(k, m) ==
    /\ m.activa = k.activa /\ m.enCpu = k.enCpu /\ m.modo = k.modo
    /\ m.pidEn = k.pidEn
    /\ m.vivo = "vivo" => k.vivo = "vivo"

\* It is enough that the CPUs keep what they held and no held PCB is lost.
LEMMA QuietoCuida ==
    ASSUME NEW k, Bien(k), NEW m, Quieto(k, m), Retiene(k, m)
    PROVE  Cuida(k, m)
<1>1. ASSUME NEW c \in Cpus, k.enCpu[c] # 0
      PROVE  k.enCpu[c] \in Pid
  BY <1>1, RecibirPcbBien
<1>2. ASSUME NEW S \in SUBSET Cpus, Sostenidos(k, S)
      PROVE  Sostenidos(m, S)
  BY <1>1, <1>2 DEF Sostenidos, Quieto, Retiene
<1> QED
  BY <1>2 DEF Cuida, Quieto, Difuntas

\* The queues are the same.
LEMMA ColasIgualesCuida ==
    ASSUME NEW k, Bien(k), NEW m, Quieto(k, m), m.cola = k.cola
    PROVE  Cuida(k, m)
BY QuietoCuida DEF Retiene, Adentro, EnCola

\* A move that does not bring p back to colaListos or colaBloqueados.
LEMMA TrasladoCuida ==
    ASSUME NEW k, Bien(k), NEW m, NEW p \in Pid, NEW e \in Estado,
           Traslado(k, m, p, e),
           e \in {"EJECUTANDO", "TERMINADO"} \/ ~Adentro(k, p)
    PROVE  Cuida(k, m)
<1>1. Quieto(k, m)
  BY DEF Quieto, Traslado, MismoResto
<1>2. \A q \in Pid, f \in Estado :
         EnCola(m, q, f) <=> IF q = p THEN f = e ELSE EnCola(k, q, f)
  BY DEF Traslado
<1>3. "EJECUTANDO" \in Estado /\ "TERMINADO" \in Estado
  BY DEF Estado
<1>4. Retiene(k, m)
  BY <1>2, <1>3 DEF Retiene, Adentro
<1> QED
  BY <1>1, <1>4, QuietoCuida

\* A process that is in another queue is held by no CPU.
LEMMA AfueraNoAdentro ==
    ASSUME NEW k, Bien(k), NEW p, NEW e \in {"NUEVO", "LISTO", "BLOQUEADO"},
           EnCola(k, p, e)
    PROVE  ~Adentro(k, p)
<1>1. /\ e \in Estado /\ "EJECUTANDO" \in Estado /\ "TERMINADO" \in Estado
      /\ e # "EJECUTANDO" /\ e # "TERMINADO"
  BY DEF Estado
<1> QED
  BY <1>1, UnaCola DEF Adentro

\* The ways a process changes queue that no CPU notices.
LEMMA PasosCuidan ==
    ASSUME NEW k, Bien(k), NEW p \in Pid, NEW code \in ExitCode
    PROVE  /\ Cuida(k, ListosAEjecutando(k, p))
           /\ Cuida(k, BloqueadoAListo(k, p))
           /\ Cuida(k, ListoAFinalizados(k, p))
           /\ Cuida(k, NuevoAFinalizados(k, p, code))
           /\ Cuida(k, EjecutandoAFinalizados(k, p))
           /\ Cuida(k, BloqueadoAFinalizados(k, p, code))
           /\ \A e \in Estado \ {"TERMINADO"} : Cuida(k, AFinalizados(k, p, e))
<1>1. /\ "EJECUTANDO" \in Estado /\ "TERMINADO" \in Estado /\ "LISTO" \in Estado
      /\ "LISTO" \in EnSistema /\ "EJECUTANDO" \in EnSistema
      /\ "BLOQUEADO" \in EnSistema
  BY DEF Estado, EnSistema
<1>3. Cuida(k, ListosAEjecutando(k, p))
  <2>1. IF Mueve(k, p, "LISTO")
        THEN Traslado(k, ListosAEjecutando(k, p), p, "EJECUTANDO")
        ELSE ListosAEjecutando(k, p) = k
    BY <1>1, PasosTrasladan DEF ListosAEjecutando
  <2> QED
    BY <1>1, <2>1, TrasladoCuida, CuidaIgual
<1>4. Cuida(k, BloqueadoAListo(k, p))
  <2>1. IF Mueve(k, p, "BLOQUEADO")
        THEN Traslado(k, BloqueadoAListo(k, p), p, "LISTO")
        ELSE BloqueadoAListo(k, p) = k
    BY <1>1, PasosTrasladan DEF BloqueadoAListo
  <2>2. Mueve(k, p, "BLOQUEADO") => ~Adentro(k, p)
    BY AfueraNoAdentro DEF Mueve
  <2> QED
    BY <1>1, <2>1, <2>2, TrasladoCuida, CuidaIgual
<1>5. Cuida(k, ListoAFinalizados(k, p))
  <2>1. IF Mueve(k, p, "LISTO")
        THEN Traslado(k, ListoAFinalizados(k, p), p, "TERMINADO")
        ELSE ListoAFinalizados(k, p) = k
    BY <1>1, PasosTrasladan DEF ListoAFinalizados
  <2> QED
    BY <1>1, <2>1, TrasladoCuida, CuidaIgual
<1>6. Cuida(k, NuevoAFinalizados(k, p, code))
  BY <1>1, FinalizarTraslada, TrasladoCuida, CuidaIgual
<1>7. Cuida(k, EjecutandoAFinalizados(k, p))
  <2>1. code \in ExitCode
    OBVIOUS
  <2> QED
    BY <1>1, <2>1, FinalizarTraslada, TrasladoCuida, CuidaIgual
<1>8. Cuida(k, BloqueadoAFinalizados(k, p, code))
  BY <1>1, FinalizarTraslada, TrasladoCuida, CuidaIgual
<1>9. \A e \in Estado \ {"TERMINADO"} : Cuida(k, AFinalizados(k, p, e))
  <2>1. code \in ExitCode
    OBVIOUS
  <2> QED
    BY <1>1, <2>1, FinalizarTraslada, TrasladoCuida, CuidaIgual
<1> QED
  BY <1>3, <1>4, <1>5, <1>6, <1>7, <1>8, <1>9

\* What a handler writes that is not about CPUs.
LEMMA EscribirCuida ==
    ASSUME NEW k, Bien(k), NEW p \in Pid, NEW code
    PROVE  /\ Cuida(k, [k EXCEPT !.ec[p] = code])
           /\ Cuida(k, [k EXCEPT !.ecCopia[p] = code])
           /\ Cuida(k, EliminarPidProgramaSocket(k, p))
           /\ Cuida(k, PedirAMemoriaFinalizarProceso(k, p))
           /\ Cuida(k, InformarAConsola(k, p, code))
           /\ Cuida(k, ReemplazarPcbEnEjecutando(k, p))
           /\ Cuida(k, CrearPcb(k))
           /\ Cuida(k, LimpiarSemaforos(k, p))
           /\ \A x : Cuida(k, QuitarFlag(k, p, x))
<1>1. ASSUME NEW m, \/ m = [k EXCEPT !.ec[p] = code]
                    \/ m = [k EXCEPT !.ecCopia[p] = code]
                    \/ m = EliminarPidProgramaSocket(k, p)
                    \/ m = PedirAMemoriaFinalizarProceso(k, p)
      PROVE  Quieto(k, m) /\ m.cola = k.cola
  BY <1>1 DEF Quieto, EliminarPidProgramaSocket,
     PedirAMemoriaFinalizarProceso, Bien, Sistema
<1>2. ASSUME NEW m, \/ m = ReemplazarPcbEnEjecutando(k, p)
                    \/ m = CrearPcb(k)
                    \/ m = LimpiarSemaforos(k, p)
      PROVE  Quieto(k, m) /\ m.cola = k.cola
  BY <1>2 DEF Quieto, ReemplazarPcbEnEjecutando, CrearPcb, LimpiarSemaforos,
     Bien, Sistema
<1>3. /\ Quieto(k, InformarAConsola(k, p, code))
      /\ InformarAConsola(k, p, code).cola = k.cola
  BY DEF Quieto, EliminarPidProgramaSocket, InformarAConsola, Bien, Sistema
<1>4. ASSUME NEW x
      PROVE  Quieto(k, QuitarFlag(k, p, x)) /\ QuitarFlag(k, p, x).cola = k.cola
  BY DEF QuitarFlag, Quieto, Bien, Sistema
<1>5. ASSUME NEW m, Quieto(k, m) /\ m.cola = k.cola
      PROVE  Cuida(k, m)
  BY <1>5, ColasIgualesCuida
<1> QED
  BY <1>1, <1>2, <1>3, <1>4, <1>5, Zenon

\* EXECUTE: the CPU gets a process that no other one has.
LEMMA EjecutarSiguienteCuida ==
    ASSUME NEW k, Bien(k), k.activa, NEW c \in Cpus
    PROVE  Cuida(k, EjecutarSiguientePcbEnCpu(k, c))
<1>. DEFINE p == Head(k.cola["LISTO"])
            l == ListosAEjecutando(k, p)
            m == EjecutarSiguientePcbEnCpu(k, c)
<1>1. CASE ~HayListos(k)
  BY <1>1, CuidaIgual DEF EjecutarSiguientePcbEnCpu
<1>2. CASE HayListos(k)
  <2>1. k.cola["LISTO"] \in Seq(Pid) /\ k.cola["LISTO"] # <<>>
    BY <1>2 DEF HayListos, Bien, Sistema, Estado
  <2>2. p \in Pid
    BY <2>1, HeadTailProperties
  <2>3. EnCola(k, p, "LISTO")
    BY <2>1, <2>2, Pertenencia DEF EnCola
  <2>4. ~Adentro(k, p)
    BY <2>3, AfueraNoAdentro
  <2>5. Bien(l)
    BY <2>2, PasosBien
  <2>6. Traslado(k, l, p, "EJECUTANDO")
    BY <2>2, <2>3, PasosTrasladan DEF ListosAEjecutando, Mueve, EnSistema
  <2>7. Cuida(k, l)
    BY <2>2, <2>6, TrasladoCuida DEF Estado
  <2>8. Adentro(l, p)
    BY <2>2, <2>6 DEF Traslado, Adentro, Estado
  <2>9. /\ m.activa = l.activa /\ m.cola = l.cola
        /\ m.pidEn = [l.pidEn EXCEPT ![c] = p]
        /\ m.enCpu = [l.enCpu EXCEPT ![c] = IF EsperaPcb(k, c) THEN p ELSE @]
        /\ m.modo = [l.modo EXCEPT ![c] =
                        IF @ = "saludando" THEN "rechazada" ELSE @]
        /\ m.vivo = IF EsperaOtraCosa(k, c) THEN "desincronizado" ELSE l.vivo
    <3>1. m = [l EXCEPT !.pidEn[c] = p, !.ecCopia[p] = k.ec[p],
                !.enCpu[c] = IF EsperaPcb(k, c) THEN p ELSE @,
                !.modo[c] = IF @ = "saludando" THEN "rechazada" ELSE @,
                !.vivo = IF EsperaOtraCosa(k, c)
                         THEN "desincronizado" ELSE @]
      BY <1>2 DEF EjecutarSiguientePcbEnCpu
    <3>. HIDE DEF m, l, p
    <3> QED
      BY <2>5, <3>1 DEF Bien, Sistema
  <2>10. l.enCpu = k.enCpu /\ l.modo = k.modo
    BY <2>6 DEF Traslado, MismoResto
  <2>11. /\ l.enCpu \in [Cpus -> 0..MaxPid] /\ l.pidEn \in [Cpus -> 0..MaxPid]
         /\ l.modo \in [Cpus -> ModoCpu]
    BY <2>5 DEF Bien, Sistema
  <2>. HIDE DEF m, l, p
  <2>12. \A q : Adentro(m, q) <=> Adentro(l, q)
    BY <2>9 DEF Adentro, EnCola
  <2>13. Retiene(l, m)
    BY <2>12 DEF Retiene
  <2>14. ASSUME NEW S \in SUBSET Cpus, Sostenidos(k, S)
         PROVE  Sostenidos(m, S)
    <3>1. Sostenidos(l, S)
      BY <1>2, <2>7, <2>14 DEF Cuida
    <3>2. ASSUME NEW d \in S, m.enCpu[d] # 0
          PROVE  /\ Adentro(m, m.enCpu[d]) /\ m.modo[d] \in ConPcb
                 /\ m.vivo = "vivo" => m.pidEn[d] = m.enCpu[d]
      <4>1. CASE d # c
        <5>1. /\ m.enCpu[d] = l.enCpu[d] /\ m.modo[d] = l.modo[d]
              /\ m.pidEn[d] = l.pidEn[d]
          BY <2>9, <2>11, <4>1
        <5>2. m.vivo = "vivo" => l.vivo = "vivo"
          BY <2>9
        <5> QED
          BY <2>12, <3>1, <3>2, <5>1, <5>2 DEF Sostenidos
      <4>2. CASE d = c /\ EsperaPcb(k, c)
        <5>1. m.enCpu[d] = p /\ m.pidEn[d] = p
          BY <2>9, <2>11, <4>2
        <5>2. m.modo[d] = "activa"
          BY <2>9, <2>10, <2>11, <4>2 DEF EsperaPcb
        <5> QED
          BY <2>8, <2>12, <5>1, <5>2 DEF ConPcb
      <4>3. CASE d = c /\ ~EsperaPcb(k, c)
        <5>1. m.enCpu[d] = l.enCpu[d]
          BY <2>9, <2>11, <4>3
        <5>2. m.vivo = "desincronizado"
          BY <2>9, <2>10, <3>2, <4>3, <5>1 DEF EsperaOtraCosa
        <5>3. Adentro(l, l.enCpu[d]) /\ l.modo[d] \in ConPcb
          BY <3>1, <3>2, <5>1 DEF Sostenidos
        <5>4. m.modo[d] = l.modo[d]
          BY <2>9, <2>11, <4>3, <5>3 DEF ConPcb
        <5> QED
          BY <2>12, <5>1, <5>2, <5>3, <5>4
      <4> QED
        BY <4>1, <4>2, <4>3
    <3>3. ASSUME NEW a \in S, NEW b \in S,
                 m.enCpu[a] = m.enCpu[b], a # b, m.enCpu[a] # 0
          PROVE  FALSE
      <4>1. ASSUME NEW d \in S, d # c
            PROVE  l.enCpu[d] # p
        <5>1. m.enCpu[d] = l.enCpu[d]
          BY <2>9, <2>11, <4>1
        <5>2. k.enCpu[d] # 0 => Adentro(k, k.enCpu[d])
          BY <2>14 DEF Sostenidos
        <5>3. p # 0
          BY <2>2, MaxPidAssumption DEF Pid
        <5> QED
          BY <2>4, <2>10, <5>2, <5>3
      <4>2. \A d \in S : d # c => m.enCpu[d] = l.enCpu[d]
        BY <2>9, <2>11
      <4>3. m.enCpu[c] = p \/ m.enCpu[c] = l.enCpu[c]
        BY <2>9, <2>11
      <4> QED
        BY <3>1, <3>3, <4>1, <4>2, <4>3 DEF Sostenidos
    <3> QED
      BY <3>2, <3>3 DEF Sostenidos
  <2>15. m.activa = k.activa
    BY <2>7, <2>9 DEF Cuida
  <2>16. Retiene(k, m)
    BY <2>7, <2>13 DEF Cuida, Retiene
  <2>17. Difuntas(k, m)
    <3>1. ASSUME NEW d \in Cpus, k.modo[d] = "muerta", k.enCpu[d] = 0
          PROVE  m.modo[d] = "muerta" /\ m.enCpu[d] = 0
      <4>1. CASE d # c
        BY <2>9, <2>10, <2>11, <3>1, <4>1
      <4>2. CASE d = c
        BY <2>9, <2>10, <2>11, <3>1, <4>2 DEF EsperaPcb
      <4> QED
        BY <4>1, <4>2
    <3> QED
      BY <3>1 DEF Difuntas
  <2>18. Cuida(k, m)
    BY <2>14, <2>15, <2>16, <2>17 DEF Cuida
  <2> QED
    BY <2>18 DEF m
<1> QED
  BY <1>1, <1>2

\* planificar(NULL).
LEMMA PlanificarLibreCuida ==
    ASSUME NEW k, Bien(k)
    PROVE  Cuida(k, PlanificarLibre(k))
<1>. DEFINE c == Head(k.libres)
            t == Tail(k.libres)
            a == Append(k.ocupadas, c)
            q == IF Algoritmo = "RR" THEN k.quantum[c] + 1 ELSE k.quantum[c]
            m == [k EXCEPT !.libres = t, !.ocupadas = a, !.quantum[c] = q]
<1>1. CASE ~k.activa \/ k.libres = <<>>
  BY <1>1, CuidaIgual DEF PlanificarLibre
<1>2. CASE k.activa /\ k.libres # <<>>
  <2>1. k.libres \in Seq(Cpus) /\ k.ocupadas \in Seq(Cpus)
    BY DEF Bien, Sistema
  <2>2. c \in Cpus /\ t \in Seq(Cpus)
    BY <1>2, <2>1, HeadTailProperties
  <2>. HIDE DEF c, t
  <2>3. a \in Seq(Cpus)
    BY <2>1, <2>2, AppendProperties
  <2>3a. q \in Nat
    BY <2>2 DEF Bien, Sistema
  <2>4. PlanificarLibre(k) = EjecutarSiguientePcbEnCpu(m, c)
    <3>1. PlanificarLibre(k) = EjecutarSiguientePcbEnCpu(
            [k EXCEPT !.libres = Tail(@), !.ocupadas = Append(@, c),
                !.quantum[c] = IF Algoritmo = "RR" THEN @ + 1 ELSE @], c)
      BY <1>2 DEF PlanificarLibre, c
    <3>2. [k EXCEPT !.libres = Tail(@), !.ocupadas = Append(@, c),
                !.quantum[c] = IF Algoritmo = "RR" THEN @ + 1 ELSE @] = m
      BY DEF Bien, Sistema, t
    <3> QED
      BY <3>1, <3>2, Zenon
  <2>. HIDE DEF a, q
  <2>5. m \in Sistema
    BY <2>2, <2>3, <2>3a DEF Bien, Sistema
  <2>6. m.cola = k.cola /\ m.cantidad = k.cantidad /\ m.maxPID = k.maxPID
    BY DEF Bien, Sistema
  <2>7. Quieto(k, m)
    BY DEF Quieto, Bien, Sistema
  <2>. HIDE DEF m
  <2>8. Bien(m)
    BY <2>5, <2>6, MismasColas
  <2>9. Cuida(k, m) /\ m.activa
    BY <1>2, <2>6, <2>7, ColasIgualesCuida DEF Quieto
  <2>10. Cuida(m, EjecutarSiguientePcbEnCpu(m, c))
    BY <2>2, <2>8, <2>9, EjecutarSiguienteCuida
  <2> QED
    BY <2>4, <2>9, <2>10, CuidaTransitiva
<1> QED
  BY <1>1, <1>2

\* Planning after a handler.
LEMMA PlanificarSiHayListosCuida ==
    ASSUME NEW k, Bien(k)
    PROVE  Cuida(k, PlanificarSiHayListos(k))
BY PlanificarLibreCuida, CuidaIgual DEF PlanificarSiHayListos

\* A CPU changes list.
LEMMA LiberarCpuCuida ==
    ASSUME NEW k, Bien(k), NEW c
    PROVE  Cuida(k, LiberarCpu(k, c))
<1>1. Quieto(k, LiberarCpu(k, c)) /\ LiberarCpu(k, c).cola = k.cola
  BY DEF LiberarCpu, Quieto, Bien, Sistema
<1> QED
  BY <1>1, ColasIgualesCuida

\* The kernel ends, or waits for ever.
LEMMA MuerteCuida ==
    ASSUME NEW k, Bien(k), NEW v \in Vida \ {"vivo"}
    PROVE  Cuida(k, [k EXCEPT !.vivo = v])
<1>1. Quieto(k, [k EXCEPT !.vivo = v]) /\ [k EXCEPT !.vivo = v].cola = k.cola
  BY DEF Quieto, Bien, Sistema
<1> QED
  BY <1>1, ColasIgualesCuida

-----------------------------------------------------------------------------
(* Admission.                                                              *)

\* AdmitirNuevo.
LEMMA AdmitirNuevoCuida ==
    ASSUME NEW k, Bien(k), NEW p \in Pid, p <= k.maxPID, NEW x,
           \A e \in Estado : ~Contains(k.cola[e], p)
    PROVE  Cuida(k, AdmitirNuevo(k, p, x))
<1>. DEFINE m == [k EXCEPT !.paginas = @ \cup {p}]
            l == NuevoAListos(m, p)
            code == "NO_SE_PUDO_ASIGNAR_RECURSO"
            r == SinMemoria(k, p)
<1>0. m \in Sistema
  BY DEF Bien, Sistema
<1>2. /\ m.cola = k.cola /\ m.cantidad = k.cantidad /\ m.maxPID = k.maxPID
      /\ Quieto(k, m)
  BY DEF Quieto, Bien, Sistema
<1>. HIDE DEF m
<1>1. Bien(m)
  BY <1>0, <1>2, MismasColas
<1>3. Cuida(k, m)
  BY <1>2, ColasIgualesCuida
<1>4. Bien(l)
  BY <1>1, <1>2, NuevoAListosBien
<1>5. Cuida(m, l)
  <2>1. IF m.activa THEN Traslado(m, l, p, "LISTO") ELSE l = m
    BY <1>1, <1>2, NuevoAListosTraslada
  <2>2. ~Adentro(m, p)
    BY <1>2 DEF Adentro, EnCola, Estado
  <2> QED
    BY <1>1, <2>1, <2>2, TrasladoCuida, CuidaIgual DEF Estado
<1>. HIDE DEF l
<1>6. Cuida(l, PlanificarLibre(l))
  BY <1>4, PlanificarLibreCuida
<1>7. Cuida(k, l) /\ Cuida(k, PlanificarLibre(l))
  BY <1>3, <1>5, <1>6, CuidaTransitiva
<1>8. Bien(r) /\ Cuida(k, r)
  BY SinMemoriaBien, EscribirCuida DEF SinMemoria
<1>. HIDE DEF r
<1>9. Cuida(r, InformarAConsola(r, p, code))
  BY <1>8, EscribirCuida
<1>10. ~x.memoria => Cuida(k, AdmitirNuevo(k, p, x))
  BY <1>8, <1>9, AdmitirRechaza, CuidaTransitiva, Zenon DEF r
<1>11. x.memoria => AdmitirNuevo(k, p, x) \in {l, PlanificarLibre(l)}
  BY Zenon DEF AdmitirNuevo, l, m
<1> QED
  BY <1>7, <1>10, <1>11

\* PasarProximoProcDeNewAReady, on each of its ways out.
LEMMA PasarProximoCuida ==
    ASSUME NEW k, Bien(k), NEW x
    PROVE  Cuida(k, PasarProximoProcDeNewAReady(k, x))
<1>. DEFINE p == Head(k.cola["NUEVO"])
            m == [k EXCEPT !.cola["NUEVO"] = Tail(@)]
<1>1. CASE ~k.activa \/ k.cola["NUEVO"] = <<>>
  BY <1>1, CuidaIgual DEF PasarProximoProcDeNewAReady
<1>2. CASE ~(~k.activa \/ k.cola["NUEVO"] = <<>>)
  <2>1. /\ Bien(m) /\ p \in Pid /\ p <= m.maxPID
        /\ \A e \in Estado : ~Contains(m.cola[e], p)
    BY <1>2, QuitadoBien
  <2>2. /\ MismoResto(k, m) /\ EnCola(k, p, "NUEVO")
        /\ \A q \in Pid, f \in Estado :
              EnCola(m, q, f) <=> EnCola(k, q, f) /\ q # p
    BY <1>2, QuitadoDonde
  <2>3. PasarProximoProcDeNewAReady(k, x) =
          CASE p \notin k.consolas -> [m EXCEPT !.vivo = "caido"]
            [] p \in k.consolas /\ k.consola[p] = "finalizando" ->
                 [m EXCEPT !.vivo = "colgado"]
            [] p \in k.consolas /\ k.consola[p] = "cerrando" /\ x.basura ->
                 [m EXCEPT !.vivo = "caido"]
            [] OTHER -> AdmitirNuevo(m, p, x)
    BY <1>2 DEF PasarProximoProcDeNewAReady
  <2>. HIDE DEF p, m
  <2>4. ~Adentro(k, p)
    BY <2>2, AfueraNoAdentro
  <2>5. Retiene(k, m)
    BY <2>2, <2>4 DEF Retiene, Adentro, Estado
  <2>6. Quieto(k, m)
    BY <2>2 DEF MismoResto, Quieto
  <2>7. Cuida(k, m)
    BY <2>5, <2>6, QuietoCuida
  <2>8. ASSUME NEW n, \/ n = [m EXCEPT !.vivo = "caido"]
                      \/ n = [m EXCEPT !.vivo = "colgado"]
                      \/ n = AdmitirNuevo(m, p, x)
        PROVE  Cuida(m, n)
    BY <2>1, <2>8, MuerteCuida, AdmitirNuevoCuida DEF Vida
  <2>9. Cuida(m, PasarProximoProcDeNewAReady(k, x))
    BY <2>3, <2>8
  <2> QED
    BY <2>7, <2>9, CuidaTransitiva
<1> QED
  BY <1>1, <1>2

-----------------------------------------------------------------------------
(* The messages of a CPU.                                                  *)

\* Going from k to m the kernel took the PCB of c, which it may give to c
\* again.
Suelta(k, m, c) ==
    /\ m.activa = k.activa
    /\ Retiene(k, m)
    /\ Sostenidos(k, Cpus \ {c}) => Sostenidos(m, Cpus)

\* A piece that releases a CPU next to one that does not.
LEMMA SueltaTransitiva ==
    ASSUME NEW k, NEW l, NEW m, NEW c,
           \/ Suelta(k, l, c) /\ Cuida(l, m)
           \/ Cuida(k, l) /\ Suelta(l, m, c)
    PROVE  Suelta(k, m, c)
<1>1. Cpus \in SUBSET Cpus /\ Cpus \ {c} \in SUBSET Cpus
  OBVIOUS
<1> QED
  BY <1>1 DEF Suelta, Cuida, Retiene

\* What a handler writes about a CPU.
LEMMA CpuCuida ==
    ASSUME NEW k, Bien(k), NEW c \in Cpus
    PROVE  /\ \A o \in ConPcb : k.enCpu[c] # 0 =>
                 Cuida(k, [k EXCEPT !.modo[c] = o])
           /\ \A n, q : k.enCpu[c] = 0 =>
                 Cuida(k, [k EXCEPT !.pidEn[c] = n, !.quantum[c] = q])
           /\ \A q : Cuida(k, [k EXCEPT !.quantum[c] = q])
           /\ \A s, v : Cuida(k, [k EXCEPT !.valor[s] = v])
           /\ \A p, s : Cuida(k, [k EXCEPT !.espera[p] = s])
<1>1. ASSUME NEW o \in ConPcb, k.enCpu[c] # 0
      PROVE  Cuida(k, [k EXCEPT !.modo[c] = o])
  <2>. DEFINE m == [k EXCEPT !.modo[c] = o]
  <2>1. /\ m.activa = k.activa /\ m.cola = k.cola /\ m.enCpu = k.enCpu
        /\ m.pidEn = k.pidEn /\ m.vivo = k.vivo
        /\ m.modo = [k.modo EXCEPT ![c] = o]
    BY DEF Bien, Sistema
  <2>2. k.modo \in [Cpus -> ModoCpu]
    BY DEF Bien, Sistema
  <2>. HIDE DEF m
  <2>3. \A q : Adentro(m, q) <=> Adentro(k, q)
    BY <2>1 DEF Adentro, EnCola
  <2>4. \A d \in Cpus : m.modo[d] = k.modo[d] \/ m.modo[d] \in ConPcb
    BY <2>1, <2>2
  <2>5. ASSUME NEW S \in SUBSET Cpus, Sostenidos(k, S)
        PROVE  Sostenidos(m, S)
    BY <2>1, <2>3, <2>4, <2>5 DEF Sostenidos
  <2>6. Cuida(k, m)
    BY <1>1, <2>1, <2>2, <2>3, <2>5 DEF Cuida, Retiene, Difuntas
  <2> QED
    BY <2>6 DEF m
<1>2. ASSUME NEW n, NEW q, k.enCpu[c] = 0
      PROVE  Cuida(k, [k EXCEPT !.pidEn[c] = n, !.quantum[c] = q])
  <2>. DEFINE m == [k EXCEPT !.pidEn[c] = n, !.quantum[c] = q]
  <2>1. /\ m.activa = k.activa /\ m.cola = k.cola /\ m.enCpu = k.enCpu
        /\ m.modo = k.modo /\ m.vivo = k.vivo
        /\ m.pidEn = [k.pidEn EXCEPT ![c] = n]
    BY DEF Bien, Sistema
  <2>2. k.pidEn \in [Cpus -> 0..MaxPid]
    BY DEF Bien, Sistema
  <2>. HIDE DEF m
  <2>3. \A r : Adentro(m, r) <=> Adentro(k, r)
    BY <2>1 DEF Adentro, EnCola
  <2>4. \A d \in Cpus : d # c => m.pidEn[d] = k.pidEn[d]
    BY <2>1, <2>2
  <2>5. ASSUME NEW S \in SUBSET Cpus, Sostenidos(k, S)
        PROVE  Sostenidos(m, S)
    BY <1>2, <2>1, <2>3, <2>4, <2>5 DEF Sostenidos
  <2>6. Cuida(k, m)
    BY <2>1, <2>3, <2>5 DEF Cuida, Retiene, Difuntas
  <2> QED
    BY <2>6 DEF m
<1>3. ASSUME NEW q
      PROVE  Cuida(k, [k EXCEPT !.quantum[c] = q])
  <2>1. /\ Quieto(k, [k EXCEPT !.quantum[c] = q])
        /\ [k EXCEPT !.quantum[c] = q].cola = k.cola
    BY DEF Quieto, Bien, Sistema
  <2> QED
    BY <2>1, ColasIgualesCuida
<1>4. ASSUME NEW s, NEW v
      PROVE  Cuida(k, [k EXCEPT !.valor[s] = v])
  <2>1. /\ Quieto(k, [k EXCEPT !.valor[s] = v])
        /\ [k EXCEPT !.valor[s] = v].cola = k.cola
    BY DEF Quieto, Bien, Sistema
  <2> QED
    BY <2>1, ColasIgualesCuida
<1>5. ASSUME NEW p, NEW s
      PROVE  Cuida(k, [k EXCEPT !.espera[p] = s])
  <2>1. /\ Quieto(k, [k EXCEPT !.espera[p] = s])
        /\ [k EXCEPT !.espera[p] = s].cola = k.cola
    BY DEF Quieto, Bien, Sistema
  <2> QED
    BY <2>1, ColasIgualesCuida
<1> QED
  BY <1>1, <1>2, <1>3, <1>4, <1>5

\* The PCB comes back.
LEMMA RecibirSuelta ==
    ASSUME NEW k, Bien(k), NEW c \in Cpus, k.enCpu[c] # 0
    PROVE  LET m == RecibirPcb(k, c) IN
           /\ Suelta(k, m, c)
           /\ m.enCpu = [k.enCpu EXCEPT ![c] = 0]
           /\ m.cola = k.cola
<1>. DEFINE p == k.enCpu[c]
            l == [k EXCEPT !.enCpu[c] = 0]
            m == RecibirPcb(k, c)
<1>1. /\ l.activa = k.activa /\ l.cola = k.cola
      /\ l.enCpu = [k.enCpu EXCEPT ![c] = 0]
      /\ l.modo = k.modo /\ l.vivo = k.vivo /\ l.pidEn = k.pidEn
  BY DEF Bien, Sistema
<1>2. k.enCpu \in [Cpus -> 0..MaxPid] /\ p \in Pid /\ 0 \in 0..MaxPid
  <2>1. k.enCpu \in [Cpus -> 0..MaxPid] /\ 0 \in 0..MaxPid
    BY MaxPidAssumption DEF Bien, Sistema
  <2> QED
    BY <2>1, RecibirPcbBien
<1>3. Bien(l)
  BY <1>2, CampoBien
<1>4. m = ReemplazarPcbEnEjecutando(l, p)
  BY DEF RecibirPcb
<1>. HIDE DEF l, m, p
<1>5. m.cola = l.cola /\ m.enCpu = l.enCpu
  BY <1>3, <1>4 DEF ReemplazarPcbEnEjecutando, Bien, Sistema
<1>6. Cuida(l, m)
  BY <1>2, <1>3, <1>4, EscribirCuida
<1>7. \A q : Adentro(l, q) <=> Adentro(k, q)
  BY <1>1 DEF Adentro, EnCola
<1>8. \A d \in Cpus : l.enCpu[d] = IF d = c THEN 0 ELSE k.enCpu[d]
  BY <1>1, <1>2
<1>9. ASSUME Sostenidos(k, Cpus \ {c})
      PROVE  Sostenidos(l, Cpus)
  BY <1>1, <1>7, <1>8, <1>9 DEF Sostenidos
<1>10. Suelta(k, l, c)
  BY <1>1, <1>7, <1>9 DEF Suelta, Retiene
<1>11. Suelta(k, m, c)
  BY <1>6, <1>10, SueltaTransitiva
<1> QED
  BY <1>1, <1>5, <1>11 DEF m

\* The process ends, memory frees its pages and its console is told.
LEMMA AvisarCuida ==
    ASSUME NEW k, Bien(k), NEW p \in Pid, NEW code
    PROVE  Cuida(k, InformarAConsola(PedirAMemoriaFinalizarProceso(k, p), p,
                                     code))
<1>1. /\ Bien(PedirAMemoriaFinalizarProceso(k, p))
      /\ Cuida(k, PedirAMemoriaFinalizarProceso(k, p))
  BY CambioBien, EscribirCuida DEF ExitCode
<1>2. Cuida(PedirAMemoriaFinalizarProceso(k, p),
            InformarAConsola(PedirAMemoriaFinalizarProceso(k, p), p, code))
  BY <1>1, EscribirCuida
<1> QED
  BY <1>1, <1>2, CuidaTransitiva

\* A process with a kill flag is finished by the CPU that runs it.
LEMMA MatarEnCpuSuelta ==
    ASSUME NEW k, Bien(k), k.activa, NEW c \in Cpus, k.enCpu[c] # 0, NEW x
    PROVE  Suelta(k, MatarEnCpu(k, c, x), c)
<1>. DEFINE p == k.enCpu[c]
            r == RecibirPcb(k, c)
            f == EjecutandoAFinalizados(r, p)
            e == k.ecCopia[p]
            a == InformarAConsola(PedirAMemoriaFinalizarProceso(f, p), p, e)
            n == PasarProximoProcDeNewAReady(a, x)
            l == LiberarCpu(n, c)
<1>1. Bien(r) /\ p \in Pid /\ Suelta(k, r, c)
  BY RecibirPcbBien, RecibirSuelta
<1>2. e \in ExitCode
  BY <1>1 DEF Bien, Sistema
<1>. HIDE DEF p, r, e
<1>3. Bien(f) /\ Cuida(r, f)
  BY <1>1, <1>2, FinalizarBien, PasosCuidan
<1>. HIDE DEF f
<1>4. Bien(a) /\ Cuida(f, a)
  BY <1>1, <1>2, <1>3, AvisarBien, AvisarCuida
<1>. HIDE DEF a
<1>5. Bien(n) /\ Cuida(a, n)
  BY <1>4, PasarProximoBien, PasarProximoCuida
<1>. HIDE DEF n
<1>6. Bien(l) /\ Cuida(n, l)
  BY <1>5, LiberarCpuBien, LiberarCpuCuida
<1>. HIDE DEF l
<1>7. Suelta(k, l, c)
  BY <1>1, <1>3, <1>4, <1>5, <1>6, SueltaTransitiva
<1>8. Cuida(l, EjecutarSiguientePcbEnCpu(l, c))
  BY <1>6, <1>7, EjecutarSiguienteCuida DEF Suelta
<1>9. Suelta(k, EjecutarSiguientePcbEnCpu(l, c), c)
  BY <1>7, <1>8, SueltaTransitiva
<1> QED
  BY <1>9, Zenon DEF MatarEnCpu, l, n, a, f, r, e, p

\* A process that no CPU holds goes to any queue.
LEMMA SueltoSeMueve ==
    ASSUME NEW k, Bien(k), Sostenidos(k, Cpus), NEW p \in Pid,
           \A d \in Cpus : k.enCpu[d] # p,
           NEW e \in Estado, NEW m, Traslado(k, m, p, e) \/ m = k
    PROVE  /\ Sostenidos(m, Cpus)
           /\ \A q \in Pid \ {p} : Adentro(k, q) => Adentro(m, q)
           /\ m.activa = k.activa
<1>1. CASE m = k
  BY <1>1
<1>2. CASE Traslado(k, m, p, e)
  <2>1. /\ m.activa = k.activa /\ m.vivo = k.vivo /\ m.modo = k.modo
        /\ m.enCpu = k.enCpu /\ m.pidEn = k.pidEn
    BY <1>2 DEF Traslado, MismoResto
  <2>2. \A q \in Pid \ {p} : Adentro(k, q) => Adentro(m, q)
    BY <1>2 DEF Traslado, Adentro, Estado
  <2>3. \A d \in Cpus : k.enCpu[d] # 0 => k.enCpu[d] \in Pid \ {p}
    BY RecibirPcbBien
  <2>4. Sostenidos(m, Cpus)
    BY <2>1, <2>2, <2>3 DEF Sostenidos
  <2> QED
    BY <2>1, <2>2, <2>4
<1> QED
  BY <1>1, <1>2

\* What a handler owes: the PCBs of the CPUs are theirs, and no process with
\* a kill flag leaves colaEjecutando for a queue it can run from.
Sigue(k, m) ==
    /\ Sostenidos(m, Cpus)
    /\ \A q \in k.destruir : Adentro(k, q) => Adentro(m, q)

\* A whole handler made of such pieces.
LEMMA SigueDeCuida ==
    ASSUME NEW k, Bien(k), NEW m, NEW c,
           \/ Sostenidos(k, Cpus) /\ Cuida(k, m)
           \/ Sostenidos(k, Cpus \ {c}) /\ Suelta(k, m, c)
    PROVE  Sigue(k, m)
<1>1. k.destruir \subseteq Pid /\ Cpus \in SUBSET Cpus
  BY DEF Bien, Sistema
<1> QED
  BY <1>1 DEF Sigue, Cuida, Suelta, Retiene

\* Whatever holds of every CPU holds of all but one.
LEMMA TodasMenosUna ==
    ASSUME NEW k, NEW c, Sostenidos(k, Cpus)
    PROVE  Sostenidos(k, Cpus \ {c})
BY DEF Sostenidos

\* The quantum of a CPU is over, or not yet.
LEMMA RoundRobinSigue ==
    ASSUME NEW k, Bien(k), k.activa, NEW c \in Cpus, k.enCpu[c] # 0,
           NEW x \in Exterior, Sostenidos(k, Cpus),
           k.enCpu[c] \notin k.destruir
    PROVE  Sigue(k, RoundRobin(k, c, x))
<1>. DEFINE cpu == CpuDelQuantum(k, c, x)
            p == k.enCpu[c]
            r == RecibirPcb(k, c)
            l == EjecutandoAListos(r, p)
            m == [l EXCEPT !.quantum[cpu] = 1]
            n == [k EXCEPT !.quantum[cpu] = @ + 1]
<1>1. cpu \in Cpus \cup {NoCpu}
  BY CpuDelQuantumTipo
<1>2. /\ Bien(r) /\ p \in Pid /\ Suelta(k, r, c)
      /\ r.enCpu = [k.enCpu EXCEPT ![c] = 0]
  BY RecibirPcbBien, RecibirSuelta
<1>3. /\ k.destruir \subseteq Pid /\ k.enCpu \in [Cpus -> 0..MaxPid]
      /\ p \notin k.destruir
  BY DEF Bien, Sistema
<1>4. \A d \in Cpus : r.enCpu[d] # p
  <2>1. p # 0
    OBVIOUS
  <2>2. \A d \in Cpus : r.enCpu[d] = IF d = c THEN 0 ELSE k.enCpu[d]
    BY <1>2, <1>3
  <2>3. \A d \in Cpus : d # c => k.enCpu[d] # p
    BY <2>1 DEF Sostenidos
  <2> QED
    BY <2>1, <2>2, <2>3
<1>. HIDE DEF cpu, p, r
<1>5. Sostenidos(r, Cpus) /\ Retiene(k, r) /\ r.activa
  BY <1>2, TodasMenosUna DEF Suelta
<1>6. Bien(l)
  BY <1>2, PasosBien
<1>7. Traslado(r, l, p, "LISTO") \/ l = r
  BY <1>2, PasosTrasladan DEF EjecutandoAListos, EnSistema
<1>. HIDE DEF l
<1>8. /\ Sostenidos(l, Cpus) /\ l.activa
      /\ \A q \in Pid \ {p} : Adentro(r, q) => Adentro(l, q)
  BY <1>2, <1>4, <1>5, <1>7, SueltoSeMueve DEF Estado
<1>9. \A q \in k.destruir : Adentro(k, q) => Adentro(l, q)
  BY <1>3, <1>5, <1>8 DEF Retiene
<1>10. CASE cpu = NoCpu
  <2>1. Cuida(k, [k EXCEPT !.vivo = "caido"])
    BY MuerteCuida DEF Vida
  <2>2. RoundRobin(k, c, x) = [k EXCEPT !.vivo = "caido"]
    BY <1>10 DEF RoundRobin, cpu
  <2> QED
    BY <2>1, <2>2, SigueDeCuida
<1>11. CASE cpu # NoCpu
  <2>1. cpu \in Cpus
    BY <1>1, <1>11
  <2>2. Bien(m) /\ Cuida(l, m)
    BY <1>6, <2>1, CampoBien, CpuCuida
  <2>3. Cuida(m, EjecutarSiguientePcbEnCpu(m, cpu))
    BY <1>8, <2>1, <2>2, EjecutarSiguienteCuida DEF Cuida
  <2>4. Cuida(l, EjecutarSiguientePcbEnCpu(m, cpu))
    BY <2>2, <2>3, CuidaTransitiva
  <2>5. Sigue(k, EjecutarSiguientePcbEnCpu(m, cpu))
    BY <1>3, <1>8, <1>9, <2>4 DEF Sigue, Cuida, Retiene
  <2>6. Sigue(k, n)
    <3>1. n = [k EXCEPT !.quantum[cpu] = k.quantum[cpu] + 1]
      BY DEF Bien, Sistema
    <3>2. Cuida(k, n)
      BY <2>1, <3>1, CpuCuida
    <3> QED
      BY <3>2, SigueDeCuida
  <2>7. RoundRobin(k, c, x) =
          IF k.quantum[cpu] >= Quantum
          THEN EjecutarSiguientePcbEnCpu(m, cpu) ELSE n
    BY <1>11 DEF RoundRobin, cpu, p, l, r
  <2>. HIDE DEF m, n
  <2> QED
    BY <2>5, <2>6, <2>7
<1> QED
  BY <1>10, <1>11

\* planificar(cpuSocket): a process with a kill flag is finished, not put
\* back in colaListos.
LEMMA PlanificarCpuSigue ==
    ASSUME NEW k, Bien(k), NEW c \in Cpus, k.enCpu[c] # 0,
           NEW x \in Exterior, Sostenidos(k, Cpus), k.vivo = "vivo"
    PROVE  Sigue(k, PlanificarCpu(k, c, x))
<1>. DEFINE p == k.enCpu[c]
            s == [k EXCEPT !.modo[c] = "activa"]
            f == QuitarFlag(s, k.pidEn[c], x)
<1>1. p = k.pidEn[c] /\ p \in Pid
  BY RecibirPcbBien DEF Sostenidos
<1>2. Cuida(k, [k EXCEPT !.modo[c] = "esperando"])
  BY CpuCuida DEF ConPcb
<1>3. Bien(s) /\ Cuida(k, s)
  BY CampoBien, CpuCuida DEF ModoCpu, ConPcb
<1>4. /\ s.enCpu = k.enCpu /\ s.destruir = k.destruir /\ s.cola = k.cola
      /\ s.activa = k.activa
  BY DEF Bien, Sistema
<1>. HIDE DEF s
<1>5. Bien(f) /\ Cuida(s, f) /\ f.enCpu = s.enCpu /\ f.activa = s.activa
  <2>1. Bien(f) /\ Cuida(s, f)
    BY <1>1, <1>3, QuitarFlagBien, EscribirCuida
  <2>2. f.enCpu = s.enCpu /\ f.activa = s.activa
    BY <1>3 DEF QuitarFlag, Bien, Sistema
  <2> QED
    BY <2>1, <2>2
<1>. HIDE DEF f
<1>6. CASE ~k.activa
  <2>1. PlanificarCpu(k, c, x) = [k EXCEPT !.modo[c] = "esperando"]
    BY <1>6 DEF PlanificarCpu
  <2> QED
    BY <1>2, <2>1, SigueDeCuida
<1>7. CASE k.activa
  <2>1. PlanificarCpu(k, c, x) =
          CASE TengoQueMatar(k, k.pidEn[c], x) -> MatarEnCpu(f, c, x)
            [] ~TengoQueMatar(k, k.pidEn[c], x) /\ Algoritmo = "RR" ->
                 RoundRobin(s, c, x)
            [] OTHER -> s
    BY <1>7 DEF PlanificarCpu, f, s
  <2>2. Sigue(k, MatarEnCpu(f, c, x))
    <3>1. Suelta(f, MatarEnCpu(f, c, x), c)
      BY <1>4, <1>5, <1>7, MatarEnCpuSuelta
    <3>2. Cuida(k, f)
      BY <1>3, <1>5, CuidaTransitiva
    <3>3. Suelta(k, MatarEnCpu(f, c, x), c)
      BY <3>1, <3>2, SueltaTransitiva
    <3> QED
      BY <3>3, TodasMenosUna, SigueDeCuida
  <2>3. Sigue(k, s)
    BY <1>3, SigueDeCuida
  <2>4. ASSUME ~TengoQueMatar(k, k.pidEn[c], x)
        PROVE  Sigue(k, RoundRobin(s, c, x))
    <3>1. p \notin s.destruir
      BY <1>1, <1>4, <2>4 DEF TengoQueMatar
    <3>2. Sostenidos(s, Cpus)
      BY <2>3 DEF Sigue
    <3>3. Sigue(s, RoundRobin(s, c, x))
      BY <1>3, <1>4, <1>7, <3>1, <3>2, RoundRobinSigue
    <3> QED
      BY <1>4, <3>3 DEF Sigue, Adentro, EnCola
  <2> QED
    BY <2>1, <2>2, <2>3, <2>4
<1> QED
  BY <1>6, <1>7

\* The CPU gives back a process that ended or that it aborted.
LEMMA DevueltoSuelta ==
    ASSUME NEW k, Bien(k), NEW c \in Cpus, k.enCpu[c] # 0,
           NEW code \in ExitCode
    PROVE  LET p == k.enCpu[c]
               r == RecibirPcb([k EXCEPT !.ecCopia[p] = code], c)
               l == LiberarCpu([EjecutandoAFinalizados(r, p) EXCEPT
                                   !.pidEn[c] = 0, !.quantum[c] = 0], c)
           IN  Suelta(k, InformarAConsola(
                   PedirAMemoriaFinalizarProceso(l, p), p, code), c)
<1>. DEFINE p == k.enCpu[c]
            m == [k EXCEPT !.ecCopia[p] = code]
            r == RecibirPcb(m, c)
            f == EjecutandoAFinalizados(r, p)
            g == [f EXCEPT !.pidEn[c] = 0, !.quantum[c] = 0]
            l == LiberarCpu(g, c)
            a == InformarAConsola(PedirAMemoriaFinalizarProceso(l, p), p, code)
<1>1. p \in Pid
  BY RecibirPcbBien
<1>2. m.enCpu = k.enCpu /\ m.enCpu[c] # 0
  BY DEF Bien, Sistema
<1>3. k.enCpu \in [Cpus -> 0..MaxPid]
  BY DEF Bien, Sistema
<1>. HIDE DEF p
<1>4. Bien(m) /\ Cuida(k, m)
  BY <1>1, CambioBien, EscribirCuida
<1>. HIDE DEF m
<1>5. /\ Bien(r) /\ Suelta(m, r, c)
      /\ r.enCpu = [m.enCpu EXCEPT ![c] = 0]
  BY <1>2, <1>4, RecibirPcbBien, RecibirSuelta
<1>5a. r.enCpu[c] = 0
  BY <1>2, <1>3, <1>5
<1>. HIDE DEF r
<1>6. Bien(f) /\ Cuida(r, f)
  BY <1>1, <1>5, FinalizarBien, PasosCuidan
<1>7. f.enCpu[c] = 0
  BY <1>1, <1>5, <1>5a, FinalizarTraslada DEF Traslado, MismoResto
<1>. HIDE DEF f
<1>8. Bien(g) /\ Cuida(f, g)
  <2>1. 0 \in 0..MaxPid /\ 0 \in Nat
    BY MaxPidAssumption
  <2> QED
    BY <1>6, <1>7, <2>1, CampoBien, CpuCuida
<1>. HIDE DEF g
<1>9. Bien(l) /\ Cuida(g, l)
  BY <1>8, LiberarCpuBien, LiberarCpuCuida
<1>. HIDE DEF l
<1>10. Cuida(l, a)
  BY <1>1, <1>9, AvisarCuida
<1>. HIDE DEF a
<1>11. Suelta(k, a, c)
  BY <1>4, <1>5, <1>6, <1>8, <1>9, <1>10, SueltaTransitiva
<1> QED
  BY <1>11, Zenon DEF a, l, g, f, r, m, p

\* A program ends.
LEMMA ProgramaTerminadoSuelta ==
    ASSUME NEW k, Bien(k), NEW c \in Cpus, k.enCpu[c] # 0, NEW x
    PROVE  Suelta(k, ProgramaTerminado(k, c, x), c)
<1>. DEFINE p == k.enCpu[c]
            code == "FINALIZADO_CORRECTAMENTE"
            r == RecibirPcb([k EXCEPT !.ecCopia[p] = code], c)
            l == LiberarCpu([EjecutandoAFinalizados(r, p) EXCEPT
                                !.pidEn[c] = 0, !.quantum[c] = 0], c)
            a == InformarAConsola(PedirAMemoriaFinalizarProceso(l, p), p, code)
            n == PasarProximoProcDeNewAReady(a, x)
<1>1. code \in ExitCode
  BY DEF ExitCode
<1>2. Bien(a) /\ Suelta(k, a, c)
  BY <1>1, DevueltoBien, DevueltoSuelta
<1>3. ProgramaTerminado(k, c, x) = PlanificarSiHayListos(n)
  BY Zenon DEF ProgramaTerminado
<1>. HIDE DEF a
<1>4. Bien(n) /\ Cuida(a, n)
  BY <1>2, PasarProximoBien, PasarProximoCuida
<1>. HIDE DEF n
<1>5. Cuida(n, PlanificarSiHayListos(n))
  BY <1>4, PlanificarSiHayListosCuida
<1> QED
  BY <1>2, <1>3, <1>4, <1>5, SueltaTransitiva

\* A CPU aborts its program.
LEMMA AbortarDeCpuSuelta ==
    ASSUME NEW k, Bien(k), NEW c \in Cpus, k.enCpu[c] # 0,
           NEW code \in ExitCode, NEW x
    PROVE  Suelta(k, AbortarDeCpu(k, c, code, x), c)
<1>. DEFINE p == k.enCpu[c]
            r == RecibirPcb([k EXCEPT !.ecCopia[p] = code], c)
            l == LiberarCpu([EjecutandoAFinalizados(r, p) EXCEPT
                                !.pidEn[c] = 0, !.quantum[c] = 0], c)
            a == InformarAConsola(PedirAMemoriaFinalizarProceso(l, p), p, code)
<1>1. Bien(a) /\ Suelta(k, a, c)
  BY DevueltoBien, DevueltoSuelta
<1>2. AbortarDeCpu(k, c, code, x) = PasarProximoProcDeNewAReady(a, x)
  BY Zenon DEF AbortarDeCpu
<1>. HIDE DEF a
<1>3. Cuida(a, PasarProximoProcDeNewAReady(a, x))
  BY <1>1, PasarProximoCuida
<1> QED
  BY <1>1, <1>2, <1>3, SueltaTransitiva

\* A WAIT on a process with a kill flag.
LEMMA WaitMataSuelta ==
    ASSUME NEW k, Bien(k), NEW c \in Cpus, k.enCpu[c] # 0,
           NEW s \in Sems, NEW x
    PROVE  Suelta(k, WaitMata(k, c, s, x), c)
<1>. DEFINE p == k.enCpu[c]
            r == RecibirPcb(k, c)
            f == AFinalizados(r, p, "EJECUTANDO")
            e == k.ecCopia[p]
            a == InformarAConsola(PedirAMemoriaFinalizarProceso(f, p), p, e)
            n == PasarProximoProcDeNewAReady(a, x)
            l == LiberarCpu(n, c)
<1>1. Bien(r) /\ p \in Pid /\ Suelta(k, r, c)
  BY RecibirPcbBien, RecibirSuelta
<1>2. e \in ExitCode
  BY <1>1 DEF Bien, Sistema
<1>. HIDE DEF p, r, e
<1>3. Bien(f) /\ Cuida(r, f)
  BY <1>1, <1>2, FinalizarBien, PasosCuidan DEF Estado
<1>. HIDE DEF f
<1>4. Bien(a) /\ Cuida(f, a)
  BY <1>1, <1>2, <1>3, AvisarBien, AvisarCuida
<1>. HIDE DEF a
<1>5. Bien(n) /\ Cuida(a, n)
  BY <1>4, PasarProximoBien, PasarProximoCuida
<1>. HIDE DEF n
<1>6. Bien(l) /\ Cuida(n, l)
  BY <1>5, LiberarCpuBien, LiberarCpuCuida
<1>7. WaitMata(k, c, s, x) = [l EXCEPT !.valor[s] = @ + 1]
  BY Zenon DEF WaitMata, l, n, a, f, r, e, p
<1>. HIDE DEF l
<1>8. [l EXCEPT !.valor[s] = @ + 1] = [l EXCEPT !.valor[s] = l.valor[s] + 1]
  BY <1>6, Zenon
<1>9. Cuida(l, [l EXCEPT !.valor[s] = l.valor[s] + 1])
  BY <1>6, CpuCuida
<1>10. Suelta(k, l, c)
  BY <1>1, <1>3, <1>4, <1>5, <1>6, SueltaTransitiva
<1>11. Suelta(k, [l EXCEPT !.valor[s] = l.valor[s] + 1], c)
  BY <1>9, <1>10, SueltaTransitiva
<1> QED
  BY <1>7, <1>8, <1>11

\* A WAIT that blocks its process: no other CPU had it.
LEMMA WaitBloqueaSigue ==
    ASSUME NEW k, Bien(k), NEW c \in Cpus, k.enCpu[c] # 0, NEW s \in Sems,
           Sostenidos(k, Cpus), k.enCpu[c] \notin k.destruir
    PROVE  Sigue(k, WaitBloquea(k, c, s))
<1>. DEFINE p == k.enCpu[c]
            m == [k EXCEPT !.espera[p] = s]
            l == LiberarCpu(m, c)
            r == RecibirPcb(l, c)
            b == EjecutandoABloqueados(r, p)
<1>1. p \in Pid /\ p # 0 /\ p \notin k.destruir
  BY RecibirPcbBien
<1>2. l.enCpu = k.enCpu
  BY DEF LiberarCpu, Bien, Sistema
<1>3. k.enCpu \in [Cpus -> 0..MaxPid] /\ k.destruir \subseteq Pid
  BY DEF Bien, Sistema
<1>4. \A d \in Cpus : d # c => k.enCpu[d] # p
  BY <1>1 DEF Sostenidos
<1>4a. l.enCpu[c] # 0
  BY <1>1, <1>2
<1>. HIDE DEF p
<1>5. Bien(m) /\ Cuida(k, m)
  BY <1>1, CampoBien, CpuCuida
<1>. HIDE DEF m
<1>6. Bien(l) /\ Cuida(m, l)
  BY <1>5, LiberarCpuBien, LiberarCpuCuida
<1>. HIDE DEF l
<1>7. Bien(r) /\ Suelta(l, r, c) /\ r.enCpu = [k.enCpu EXCEPT ![c] = 0]
  BY <1>2, <1>4a, <1>6, RecibirPcbBien, RecibirSuelta
<1>. HIDE DEF r
<1>8. Suelta(k, r, c)
  BY <1>5, <1>6, <1>7, SueltaTransitiva
<1>9. Sostenidos(r, Cpus) /\ Retiene(k, r)
  BY <1>8, TodasMenosUna DEF Suelta
<1>10. \A d \in Cpus : r.enCpu[d] # p
  BY <1>1, <1>3, <1>4, <1>7
<1>11. Traslado(r, b, p, "BLOQUEADO") \/ b = r
  BY <1>1, <1>7, PasosTrasladan DEF EjecutandoABloqueados, EnSistema
<1>. HIDE DEF b
<1>12. /\ Sostenidos(b, Cpus)
       /\ \A q \in Pid \ {p} : Adentro(r, q) => Adentro(b, q)
  BY <1>1, <1>7, <1>9, <1>10, <1>11, SueltoSeMueve DEF Estado
<1>13. Sigue(k, b)
  BY <1>1, <1>3, <1>9, <1>12 DEF Sigue, Retiene
<1> QED
  BY <1>13, Zenon DEF WaitBloquea, b, r, l, m, p

\* A WAIT: a process with a kill flag is never blocked.
LEMMA WaitSigue ==
    ASSUME NEW k, Bien(k), NEW c \in Cpus, k.enCpu[c] # 0,
           NEW s \in Sems, NEW x, Sostenidos(k, Cpus)
    PROVE  Sigue(k, Wait(k, c, s, x))
<1>. DEFINE p == k.enCpu[c]
            v == k.valor[s] - 1
            t == [k EXCEPT !.valor[s] = v]
            f == QuitarFlag(t, p, x)
            w == WaitMata(f, c, s, x)
            b == WaitBloquea(t, c, s)
<1>1. v \in Int /\ t = [k EXCEPT !.valor[s] = @ - 1]
  BY DEF Bien, Sistema
<1>. HIDE DEF v
<1>2. Bien(t) /\ Cuida(k, t)
  BY <1>1, CampoBien, CpuCuida
<1>3. t.enCpu = k.enCpu /\ t.destruir = k.destruir /\ t.cola = k.cola
  BY DEF Bien, Sistema
<1>4. Wait(k, c, s, x) =
        CASE k.valor[s] > 0 -> t
          [] k.valor[s] <= 0 /\ TengoQueMatar(k, p, x) ->
                PlanificarSiHayListos(w)
          [] OTHER -> PlanificarSiHayListos(b)
  <2>1. [k EXCEPT !.valor[s] = @ - 1] = t
    BY <1>1
  <2>. HIDE DEF t
  <2> QED
    BY <2>1 DEF Wait, p, f
<1>. HIDE DEF t
<1>5. p \in Pid
  BY RecibirPcbBien
<1>6. Bien(f) /\ f.enCpu[c] # 0 /\ Cuida(t, f)
  <2>1. Bien(f) /\ Cuida(t, f)
    BY <1>2, <1>5, QuitarFlagBien, EscribirCuida
  <2>2. f.enCpu = t.enCpu
    BY <1>2 DEF QuitarFlag, Bien, Sistema
  <2> QED
    BY <1>3, <2>1, <2>2
<1>7. k.valor[s] \in Int
  BY DEF Bien, Sistema
<1>. HIDE DEF f
<1>8. Sigue(k, PlanificarSiHayListos(w))
  <2>1. Bien(w) /\ Suelta(f, w, c)
    BY <1>6, WaitMataBien, WaitMataSuelta
  <2>. HIDE DEF w
  <2>2. Cuida(w, PlanificarSiHayListos(w))
    BY <2>1, PlanificarSiHayListosCuida
  <2>3. Suelta(k, PlanificarSiHayListos(w), c)
    BY <1>2, <1>6, <2>1, <2>2, SueltaTransitiva, CuidaTransitiva
  <2> QED
    BY <2>3, TodasMenosUna, SigueDeCuida
<1>9. ASSUME p \notin k.destruir
      PROVE  Sigue(k, PlanificarSiHayListos(b))
  <2>1. Sostenidos(t, Cpus)
    BY <1>2 DEF Cuida
  <2>2. Bien(b) /\ Sigue(t, b)
    BY <1>2, <1>3, <1>9, <2>1, WaitBloqueaBien, WaitBloqueaSigue
  <2>. HIDE DEF b
  <2>3. Cuida(b, PlanificarSiHayListos(b))
    BY <2>2, PlanificarSiHayListosCuida
  <2>4. k.destruir \subseteq Pid
    BY DEF Bien, Sistema
  <2>5. \A q : Adentro(t, q) <=> Adentro(k, q)
    BY <1>3 DEF Adentro, EnCola
  <2> QED
    BY <1>3, <2>2, <2>3, <2>4, <2>5 DEF Sigue, Cuida, Retiene
<1>10. Sigue(k, t)
  BY <1>2, SigueDeCuida
<1>11. ~TengoQueMatar(k, p, x) => p \notin k.destruir
  BY DEF TengoQueMatar
<1>. HIDE DEF p, w, b
<1> QED
  BY <1>4, <1>7, <1>8, <1>9, <1>10, <1>11

\* A SIGNAL takes a process that waits out of colaBloqueados.
LEMMA SignalCuida ==
    ASSUME NEW k, Bien(k), NEW c \in Cpus, k.enCpu[c] # 0, NEW s \in Sems
    PROVE  Cuida(k, Signal(k, c, s))
<1>. DEFINE v == k.valor[s] + 1
            t == [k EXCEPT !.valor[s] = v]
            m == [t EXCEPT !.modo[c] = "sentencia"]
            q == k.cola["BLOQUEADO"]
            I == {j \in 1..Len(q) : k.espera[q[j]] = s}
            i == IF I # {} THEN Min(I) ELSE 0
            p == q[i]
            b == BloqueadoAListo(m, p)
            l == [b EXCEPT !.espera[p] = NoSem]
<1>1. v \in Int
      /\ m = [k EXCEPT !.valor[s] = @ + 1, !.modo[c] = "sentencia"]
  BY DEF Bien, Sistema
<1>2. Signal(k, c, s) =
        IF i = 0 THEN m
        ELSE IF k.libres # <<>> THEN PlanificarLibre(l) ELSE l
  BY <1>1, Zenon DEF Signal, SelectInSeq
<1>. HIDE DEF v
<1>3. Bien(t) /\ Cuida(k, t) /\ t.enCpu = k.enCpu
  <2>1. t.enCpu = k.enCpu
    BY DEF Bien, Sistema
  <2> QED
    BY <1>1, <2>1, CampoBien, CpuCuida
<1>. HIDE DEF t
<1>4. Bien(m) /\ Cuida(t, m)
  BY <1>3, CampoBien, CpuCuida DEF ModoCpu, ConPcb
<1>5. Cuida(k, m)
  BY <1>3, <1>4, CuidaTransitiva
<1>6. q \in Seq(Pid)
  BY DEF Bien, Sistema, Estado
<1>. HIDE DEF m, q
<1>7. CASE I = {}
  BY <1>2, <1>5, <1>7
<1>8. CASE I # {}
  <2>1. I \subseteq Nat
    OBVIOUS
  <2>2. Min(I) \in I
    BY <1>8, <2>1, MinimoExiste
  <2>3. i \in 1..Len(q)
    BY <1>8, <2>2
  <2>. HIDE DEF i
  <2>4. p \in Pid
    BY <1>6, <2>3, ElementOfSeq
  <2>. HIDE DEF p
  <2>5. Bien(b) /\ Cuida(m, b)
    <3>1. "NO_SE_PUDO_ASIGNAR_RECURSO" \in ExitCode
      BY DEF ExitCode
    <3> QED
      BY <1>4, <2>4, <3>1, PasosBien, PasosCuidan
  <2>. HIDE DEF b
  <2>6. Bien(l) /\ Cuida(b, l)
    BY <2>4, <2>5, CampoBien, CpuCuida
  <2>. HIDE DEF l
  <2>7. Cuida(l, PlanificarLibre(l))
    BY <2>6, PlanificarLibreCuida
  <2>8. Cuida(k, l) /\ Cuida(k, PlanificarLibre(l))
    BY <1>5, <2>5, <2>6, <2>7, CuidaTransitiva
  <2> QED
    BY <1>2, <1>5, <2>8
<1> QED
  BY <1>7, <1>8

\* A request for more memory than a page finishes the process while its CPU
\* holds it.
LEMMA PedidoBloqueGrandeCuida ==
    ASSUME NEW k, Bien(k), NEW c \in Cpus, k.enCpu[c] # 0
    PROVE  Cuida(k, PedidoBloqueGrande(k, c))
<1>. DEFINE p == k.pidEn[c]
            code == "MALLOC_MAYOR_A_PAGESIZE"
            e == [k EXCEPT !.ec[p] = code]
            f == EjecutandoAFinalizados(e, p)
            a == IF p \in k.consolas THEN Append(f.avisos[p], code)
                 ELSE f.avisos[p]
            n == [f EXCEPT !.avisos[p] = a]
            m == [n EXCEPT !.modo[c] = "abortando"]
<1>1. CASE ~BuscarPcb(k, p)
  <2>1. Cuida(k, [k EXCEPT !.vivo = "caido"])
    BY MuerteCuida DEF Vida
  <2> QED
    BY <1>1, <2>1 DEF PedidoBloqueGrande
<1>2. CASE BuscarPcb(k, p)
  <2>1. p \in Pid
    <3>1. PICK g \in Estado : EnCola(k, p, g)
      BY <1>2 DEF BuscarPcb, Estado
    <3>2. k.cola[g] \in Seq(Pid)
      BY DEF Bien, Sistema
    <3> QED
      BY <3>1, <3>2, ElementOfSeq DEF EnCola, Contains
  <2>2. code \in ExitCode
    BY DEF ExitCode
  <2>3. Bien(e) /\ Cuida(k, e)
    BY <2>1, <2>2, CambioBien, EscribirCuida
  <2>4. e.enCpu = k.enCpu
    BY DEF Bien, Sistema
  <2>5. PedidoBloqueGrande(k, c) =
          [f EXCEPT !.modo[c] = "abortando",
              !.avisos[p] = IF p \in k.consolas THEN Append(@, code) ELSE @]
    BY <1>2 DEF PedidoBloqueGrande
  <2>. HIDE DEF p, code, e
  <2>6. Bien(f) /\ Cuida(e, f)
    BY <2>1, <2>2, <2>3, FinalizarBien, PasosCuidan
  <2>7. f.enCpu = e.enCpu
    BY <2>1, <2>2, <2>3, FinalizarTraslada DEF Traslado, MismoResto
  <2>. HIDE DEF f
  <2>8. a \in Seq(ExitCode)
    BY <2>1, <2>2, <2>6 DEF Bien, Sistema
  <2>9. PedidoBloqueGrande(k, c) = m
    BY <2>1, <2>5, <2>6 DEF Bien, Sistema
  <2>. HIDE DEF a
  <2>10. n \in Sistema
    BY <2>1, <2>6, <2>8 DEF Bien, Sistema
  <2>11. /\ n.cola = f.cola /\ n.cantidad = f.cantidad /\ n.maxPID = f.maxPID
         /\ n.enCpu = f.enCpu /\ Quieto(f, n)
    BY <2>6 DEF Quieto, Bien, Sistema
  <2>. HIDE DEF n
  <2>12. Bien(n) /\ Cuida(f, n)
    BY <2>6, <2>10, <2>11, MismasColas, ColasIgualesCuida
  <2>13. Cuida(n, m)
    BY <2>4, <2>7, <2>11, <2>12, CpuCuida DEF ConPcb
  <2> QED
    BY <2>3, <2>6, <2>9, <2>12, <2>13, CuidaTransitiva
<1> QED
  BY <1>1, <1>2

-----------------------------------------------------------------------------
(* A CPU is gone.                                                          *)

\* The process the kernel believes on the CPU is finished: if another CPU
\* holds it, it holds a finished process.
LEMMA TerminarProcesoCuida ==
    ASSUME NEW k, Bien(k), NEW c \in Cpus, NEW x
    PROVE  Cuida(k, TerminarProcesoEjecutandoEnCpu(k, c, x))
<1>. DEFINE p == k.pidEn[c]
            code == "DESCONEXION_CPU"
            e == [k EXCEPT !.ec[p] = code]
            a == InformarAConsola(PedirAMemoriaFinalizarProceso(e, p), p, code)
            f == EjecutandoAFinalizados(a, p)
<1>1. CASE ~EnCola(k, p, "EJECUTANDO")
  BY <1>1, CuidaIgual DEF TerminarProcesoEjecutandoEnCpu
<1>2. CASE EnCola(k, p, "EJECUTANDO")
  <2>1. p \in Pid
    <3>1. k.cola["EJECUTANDO"] \in Seq(Pid)
      BY DEF Bien, Sistema, Estado
    <3> QED
      BY <1>2, <3>1, ElementOfSeq DEF EnCola, Contains
  <2>2. TerminarProcesoEjecutandoEnCpu(k, c, x) =
          PasarProximoProcDeNewAReady(f, x)
    BY <1>2, Zenon DEF TerminarProcesoEjecutandoEnCpu
  <2>3. code \in ExitCode
    BY DEF ExitCode
  <2>. HIDE DEF p, code
  <2>4. Bien(e) /\ Cuida(k, e)
    BY <2>1, <2>3, CambioBien, EscribirCuida
  <2>. HIDE DEF e
  <2>5. Bien(a) /\ Cuida(e, a)
    BY <2>1, <2>3, <2>4, AvisarBien, AvisarCuida
  <2>. HIDE DEF a
  <2>6. Bien(f) /\ Cuida(a, f)
    BY <2>1, <2>3, <2>5, FinalizarBien, PasosCuidan
  <2>. HIDE DEF f
  <2>7. Cuida(f, PasarProximoProcDeNewAReady(f, x))
    BY <2>6, PasarProximoCuida
  <2> QED
    BY <2>2, <2>4, <2>5, <2>6, <2>7, CuidaTransitiva
<1> QED
  BY <1>1, <1>2

\* One entry of a CPU process that ended leaves the lists.
LEMMA RemoverCpuSigue ==
    ASSUME NEW k, Bien(k), NEW c \in Cpus, k.enCpu[c] = 0, NEW basura,
           Sostenidos(k, Cpus)
    PROVE  LET m == RemoverCpuDeLaLista(k, c, basura)
           IN  Sostenidos(m, Cpus) /\ m.cola = k.cola
<1>. DEFINE m == RemoverCpuDeLaLista(k, c, basura)
<1>1. /\ m.cola = k.cola /\ m.enCpu = k.enCpu /\ m.vivo = k.vivo
      /\ m.modo = [k.modo EXCEPT ![c] = "fuera"]
      /\ m.pidEn = [k.pidEn EXCEPT ![c] = basura]
  BY DEF RemoverCpuDeLaLista, Bien, Sistema
<1>2. k.modo \in [Cpus -> ModoCpu] /\ k.pidEn \in [Cpus -> 0..MaxPid]
  BY DEF Bien, Sistema
<1>. HIDE DEF m
<1>3. \A q : Adentro(m, q) <=> Adentro(k, q)
  BY <1>1 DEF Adentro, EnCola
<1>4. Sostenidos(m, Cpus)
  BY <1>1, <1>2, <1>3 DEF Sostenidos
<1> QED
  BY <1>1, <1>4 DEF m

-----------------------------------------------------------------------------
(* Consoles and operator.                                                  *)

\* A program that starts while the level has room.
LEMMA IniciarListoCuida ==
    ASSUME NEW k, Bien(k), k.maxPID < MaxPid, NEW x
    PROVE  Cuida(k, IniciarListo(k, k.maxPID + 1, x))
<1>. DEFINE p == k.maxPID + 1
            code == "NO_SE_PUDO_ASIGNAR_RECURSO"
            b == CrearPcb(k)
            n == NuevoAListos(b, p)
            m == [n EXCEPT !.consolas = @ \cup {p}, !.consola[p] = "conectada"]
            e == [m EXCEPT !.ec[p] = code]
            f == ListoAFinalizados(e, p)
            g == [m EXCEPT !.paginas = @ \cup {p}]
<1>1. /\ Bien(b) /\ p \in Pid
      /\ b.maxPID = p
      /\ \A q \in Estado : ~Contains(b.cola[q], p)
  BY CrearBien
<1>2. Cuida(k, b)
  BY <1>1, EscribirCuida
<1>3. code \in ExitCode
  BY DEF ExitCode
<1>4. IniciarListo(k, p, x) =
        IF x.memoria THEN g ELSE InformarAConsola(f, p, code)
  BY Zenon DEF IniciarListo
<1>. HIDE DEF p, b, code
<1>5. Bien(n)
  BY <1>1, NuevoAListosBien, MaxPidAssumption DEF Pid
<1>6. Cuida(b, n)
  <2>1. IF b.activa THEN Traslado(b, n, p, "LISTO") ELSE n = b
    BY <1>1, NuevoAListosTraslada
  <2>2. ~Adentro(b, p)
    BY <1>1 DEF Adentro, EnCola, Estado
  <2> QED
    BY <1>1, <2>1, <2>2, TrasladoCuida, CuidaIgual DEF Estado
<1>. HIDE DEF n
<1>7. Bien(m)
  BY <1>1, <1>5, ConectarBien
<1>8. Cuida(n, m)
  <2>1. Quieto(n, m) /\ m.cola = n.cola
    BY <1>5 DEF Quieto, Bien, Sistema
  <2> QED
    BY <1>5, <2>1, ColasIgualesCuida
<1>. HIDE DEF m
<1>9. Cuida(m, g)
  <2>1. Quieto(m, g) /\ g.cola = m.cola
    BY <1>7 DEF Quieto, Bien, Sistema
  <2> QED
    BY <1>7, <2>1, ColasIgualesCuida
<1>10. Bien(e) /\ Cuida(m, e)
  BY <1>1, <1>3, <1>7, CambioBien, EscribirCuida
<1>. HIDE DEF e
<1>11. Bien(f) /\ Cuida(e, f)
  BY <1>1, <1>3, <1>10, PasosBien, PasosCuidan
<1>. HIDE DEF f, g
<1>12. Cuida(f, InformarAConsola(f, p, code))
  BY <1>1, <1>11, EscribirCuida
<1>13. Cuida(k, m)
  BY <1>2, <1>6, <1>8, CuidaTransitiva
<1>14. Cuida(k, g)
  BY <1>9, <1>13, CuidaTransitiva
<1>15. Cuida(k, InformarAConsola(f, p, code))
  BY <1>10, <1>11, <1>12, <1>13, CuidaTransitiva
<1>16. Cuida(k, IniciarListo(k, p, x))
  BY <1>4, <1>14, <1>15
<1> QED
  BY <1>16 DEF p

\* A program that starts when the level is full.
LEMMA IniciarNuevoCuida ==
    ASSUME NEW k, Bien(k), k.maxPID < MaxPid
    PROVE  Cuida(k, IniciarNuevo(k, k.maxPID + 1))
<1>. DEFINE p == k.maxPID + 1
            b == CrearPcb(k)
            m == IniciarNuevo(k, p)
<1>1. Bien(b) /\ p \in Pid
  BY CrearBien
<1>2. Cuida(k, b)
  BY <1>1, EscribirCuida
<1>. HIDE DEF p, b
<1>3. /\ Quieto(b, m)
      /\ m.cola = [b.cola EXCEPT !["NUEVO"] = Append(@, p)]
  BY <1>1 DEF IniciarNuevo, Quieto, Bien, Sistema, b
<1>4. m.cola["EJECUTANDO"] = b.cola["EJECUTANDO"]
      /\ m.cola["TERMINADO"] = b.cola["TERMINADO"]
  <2>1. b.cola \in [Estado -> Seq(Pid)]
    BY <1>1 DEF Bien, Sistema
  <2> QED
    BY <1>3, <2>1 DEF Estado
<1>5. Retiene(b, m)
  BY <1>4 DEF Retiene, Adentro, EnCola
<1>6. Cuida(b, m)
  BY <1>1, <1>3, <1>5, QuietoCuida
<1>7. Cuida(k, m)
  BY <1>2, <1>6, CuidaTransitiva
<1> QED
  BY <1>7 DEF p

\* A console starts a program.
LEMMA IniciarProcesoCuida ==
    ASSUME NEW k, Bien(k), k.maxPID < MaxPid, NEW x
    PROVE  Cuida(k, IniciarProceso(k, x))
<1>. DEFINE m == IF CheckNivelMultiprogramacion(k)
                 THEN IniciarListo(k, k.maxPID + 1, x)
                 ELSE IniciarNuevo(k, k.maxPID + 1)
<1>1. Bien(m) /\ Cuida(k, m)
  BY IniciarListoBien, IniciarNuevoBien, IniciarListoCuida, IniciarNuevoCuida
<1>2. IniciarProceso(k, x) = PlanificarSiHayListos(m)
  BY DEF IniciarProceso
<1>. HIDE DEF m
<1>3. Cuida(m, PlanificarSiHayListos(m))
  BY <1>1, PlanificarSiHayListosCuida
<1> QED
  BY <1>1, <1>2, <1>3, CuidaTransitiva

\* A console asks to end its program, or is gone.
LEMMA PedidoAbortarCuida ==
    ASSUME NEW k, Bien(k), NEW p \in Pid, NEW code \in ExitCode
    PROVE  Cuida(k, PedidoAbortarProgramaDeConsola(k, p, code))
<1>. DEFINE s == EliminarPidProgramaSocket(k, p)
            b == [s EXCEPT !.ec[p] = code]
            e == CHOOSE f \in Estado : EnCola(k, p, f)
            d == [b EXCEPT !.destruir = @ \cup {p}]
            t == AFinalizados(b, p, e)
            a == PedirAMemoriaFinalizarProceso(t, p)
<1>1. Bien(s) /\ Cuida(k, s)
  BY CambioBien, EscribirCuida
<1>2. PedidoAbortarProgramaDeConsola(k, p, code) =
        CASE p \notin k.consolas -> k
          [] p \in k.consolas /\ ~BuscarPcb(k, p) -> s
          [] p \in k.consolas /\ EnCola(k, p, "EJECUTANDO") -> d
          [] OTHER -> a
  BY Zenon DEF PedidoAbortarProgramaDeConsola
<1>. HIDE DEF s
<1>3. Bien(b) /\ Cuida(s, b)
  BY <1>1, CambioBien, EscribirCuida
<1>4. Cuida(k, b)
  BY <1>1, <1>3, CuidaTransitiva
<1>. HIDE DEF b
<1>5. Cuida(b, d)
  <2>1. Quieto(b, d) /\ d.cola = b.cola
    BY <1>3 DEF Quieto, Bien, Sistema
  <2> QED
    BY <1>3, <2>1, ColasIgualesCuida
<1>6. Cuida(k, d)
  BY <1>4, <1>5, CuidaTransitiva
<1>. HIDE DEF d
<1>7. BuscarPcb(k, p) => Cuida(k, a)
  <2>1. SUFFICES ASSUME BuscarPcb(k, p) PROVE Cuida(k, a)
    OBVIOUS
  <2>2. PICK f \in Estado \ {"TERMINADO"} : EnCola(k, p, f)
    BY <2>1 DEF BuscarPcb, Estado
  <2>3. e \in Estado /\ EnCola(k, p, e)
    BY <2>2
  <2>. HIDE DEF e
  <2>4. e = f
    BY <2>2, <2>3, UnaCola
  <2>5. Bien(t) /\ Cuida(b, t)
    BY <1>3, <2>4, FinalizarBien, PasosCuidan
  <2>. HIDE DEF t
  <2>6. Cuida(t, a)
    BY <2>5, EscribirCuida
  <2> QED
    BY <1>4, <2>5, <2>6, CuidaTransitiva
<1>. HIDE DEF a
<1> QED
  BY <1>1, <1>2, <1>6, <1>7, CuidaIgual

\* The operator kills a process: one that runs only gets a flag.
LEMMA MatarProcesoCuida ==
    ASSUME NEW k, Bien(k), NEW p \in Pid
    PROVE  Cuida(k, MatarProceso(k, p))
<1>. DEFINE code == "FINALIZADO_POR_COMANDO"
            d == [k EXCEPT !.colgados = @ + 1]
            n == NuevoAFinalizados(k, p, code)
            e == [k EXCEPT !.ec[p] = code]
            l == ListoAFinalizados(e, p)
            b == BloqueadoAFinalizados(k, p, code)
            sinPaginas(m) == InformarAConsola(
                PedirAMemoriaFinalizarProceso(m, p), p, m.ec[p])
<1>1. code \in ExitCode
  BY DEF ExitCode
<1>2. Cuida(k, d)
  <2>1. Quieto(k, d) /\ d.cola = k.cola
    BY DEF Quieto, Bien, Sistema
  <2> QED
    BY <2>1, ColasIgualesCuida
<1>3. MatarProceso(k, p) =
        CASE EstaElProcesoEnEjecucion(k, p) -> d
          [] ~EstaElProcesoEnEjecucion(k, p) /\ EnCola(k, p, "NUEVO") -> n
          [] ~EstaElProcesoEnEjecucion(k, p) /\ EnCola(k, p, "LISTO") ->
                sinPaginas(l)
          [] ~EstaElProcesoEnEjecucion(k, p) /\ EnCola(k, p, "BLOQUEADO") ->
                sinPaginas(b)
          [] OTHER -> k
  BY Zenon DEF MatarProceso
<1>. HIDE DEF code, d
<1>4. Bien(n) /\ Bien(b) /\ Cuida(k, n) /\ Cuida(k, b)
  BY <1>1, FinalizarBien, PasosCuidan
<1>5. Bien(e) /\ Cuida(k, e)
  BY <1>1, CambioBien, EscribirCuida
<1>. HIDE DEF e
<1>6. Bien(l) /\ Cuida(k, l)
  BY <1>1, <1>5, PasosBien, PasosCuidan, CuidaTransitiva
<1>. HIDE DEF n, l, b
<1>7. ASSUME NEW m, Bien(m), Cuida(k, m)
      PROVE  Cuida(k, sinPaginas(m))
  BY <1>7, AvisarCuida, CuidaTransitiva
<1>8. Cuida(k, sinPaginas(l)) /\ Cuida(k, sinPaginas(b))
  BY <1>4, <1>6, <1>7
<1>. HIDE DEF sinPaginas
<1> QED
  BY <1>2, <1>3, <1>4, <1>8, CuidaIgual

\* The operator's level and its admission loop.
LEMMA NivelCuida ==
    ASSUME NEW k, Bien(k)
    PROVE  /\ \A n : Cuida(k, Multiprogramacion(k, n))
           /\ \A x : Cuida(k, RondaDeMultiprogramacion(k, x))
<1>1. ASSUME NEW n
      PROVE  Cuida(k, Multiprogramacion(k, n))
  <2>1. /\ Quieto(k, Multiprogramacion(k, n))
        /\ Multiprogramacion(k, n).cola = k.cola
    BY DEF Multiprogramacion, Quieto, Bien, Sistema
  <2> QED
    BY <2>1, ColasIgualesCuida
<1>2. ASSUME NEW m, Bien(m), NEW i
      PROVE  Cuida(m, [m EXCEPT !.iteraciones = i])
  <2>1. /\ Quieto(m, [m EXCEPT !.iteraciones = i])
        /\ [m EXCEPT !.iteraciones = i].cola = m.cola
    BY <1>2 DEF Quieto, Bien, Sistema
  <2> QED
    BY <1>2, <2>1, ColasIgualesCuida
<1>3. ASSUME NEW x
      PROVE  Cuida(k, RondaDeMultiprogramacion(k, x))
  <2>. DEFINE a == PasarProximoProcDeNewAReady(k, x)
  <2>1. Bien(a) /\ Cuida(k, a)
    BY PasarProximoBien, PasarProximoCuida
  <2>. HIDE DEF a
  <2>2. /\ Cuida(k, [a EXCEPT !.iteraciones = k.iteraciones - 1])
        /\ Cuida(k, [k EXCEPT !.iteraciones = 0])
    BY <1>2, <2>1, CuidaTransitiva
  <2> QED
    BY <2>2, Zenon DEF RondaDeMultiprogramacion, a
<1> QED
  BY <1>1, <1>3

-----------------------------------------------------------------------------
(* What a process leaves behind: its pages in memory, its entry in the     *)
(* list of the consoles, the exit code its console was told.  Only the     *)
(* process a handler is about may be halfway between two of them.          *)

Fin(k, p) == EnCola(k, p, "TERMINADO")

Tiene(k, p) == \E c \in Cpus : k.enCpu[c] = p

\* A CPU was refused memory for p and is about to say that it aborts p.
EnAborto(k, p) == \E c \in Cpus : k.enCpu[c] = p /\ k.modo[c] = "abortando"

SinPaginas(k, p) ==
    /\ p \in k.paginas => p <= k.maxPID
    /\ p \in k.paginas /\ (EnCola(k, p, "NUEVO") \/ Fin(k, p))
          => EnAborto(k, p)

Enterado(k, p) == Fin(k, p) /\ p \in k.consolas => EnAborto(k, p)

\* A process that was killed while it was NEW keeps its console and no CPU.
Veraz(k, p) ==
    /\ k.avisos[p] # <<>> =>
          Fin(k, p) /\ Last(k.avisos[p]) = k.ec[p] /\ p \notin k.consolas
    /\ Fin(k, p) /\ p \in k.consolas => ~Tiene(k, p)

SinAbortos(k) == \A c \in Cpus : k.modo[c] # "abortando"

TodosSinPaginas(k) == \A p \in Pid : SinPaginas(k, p)
TodosEnterados(k) == \A p \in Pid : Enterado(k, p)
TodosVeraces(k) == \A p \in Pid : Veraz(k, p)

\* Going from k to m is nothing to q, as far as its end is concerned.
Intacto(k, m, q) ==
    /\ q <= k.maxPID => q <= m.maxPID
    /\ EnCola(m, q, "NUEVO") => EnCola(k, q, "NUEVO")
    /\ Fin(m, q) <=> Fin(k, q)
    /\ q \in m.paginas => q \in k.paginas
    /\ q \in m.consolas => q \in k.consolas
    /\ EnAborto(k, q) => EnAborto(m, q)
    /\ Fin(k, q) /\ Tiene(m, q) => Tiene(k, q)
    /\ m.avisos[q] = k.avisos[q]
    /\ Fin(k, q) => m.ec[q] = k.ec[q]

\* Going from k to m is about p only.
Ajeno(k, m, p) ==
    /\ m.activa = k.activa
    /\ \A c \in Cpus : m.modo[c] = "abortando" => k.modo[c] = "abortando"
    /\ \A q \in Pid \ {p} : Intacto(k, m, q)

\* Going from k to m leaves nothing behind; x is what the outside answers.
Cuadra(k, m, x) ==
    /\ m.activa = k.activa
    /\ SinAbortos(k) => SinAbortos(m)
    /\ TodosSinPaginas(k) => TodosSinPaginas(m)
    /\ TodosEnterados(k) => TodosEnterados(m)
    /\ x.memoria /\ k.activa /\ TodosVeraces(k) => TodosVeraces(m)

\* What nothing was done to is as it was.
LEMMA IntactoSigue ==
    ASSUME NEW k, NEW m, NEW q, Intacto(k, m, q)
    PROVE  /\ SinPaginas(k, q) => SinPaginas(m, q)
           /\ Enterado(k, q) => Enterado(m, q)
           /\ Veraz(k, q) => Veraz(m, q)
<1>1. SinPaginas(k, q) => SinPaginas(m, q)
  BY DEF Intacto, SinPaginas
<1>2. Enterado(k, q) => Enterado(m, q)
  BY DEF Intacto, Enterado
<1>3. Veraz(k, q) => Veraz(m, q)
  BY DEF Intacto, Veraz
<1> QED
  BY <1>1, <1>2, <1>3

\* Two pieces of a handler about the same process, or the second of them, or
\* the first, about none.
LEMMA AjenoTransitiva ==
    ASSUME NEW k, NEW l, NEW m, NEW p,
           Ajeno(k, l, p) \/ Ajeno(k, l, 0), Ajeno(l, m, p) \/ Ajeno(l, m, 0)
    PROVE  Ajeno(k, m, p)
<1>1. 0 \notin Pid
  BY DEF Pid
<1>2. ASSUME NEW q \in Pid, Intacto(k, l, q), Intacto(l, m, q)
      PROVE  Intacto(k, m, q)
  BY <1>2 DEF Intacto
<1>3. /\ m.activa = k.activa
      /\ \A c \in Cpus : m.modo[c] = "abortando" => k.modo[c] = "abortando"
  BY DEF Ajeno
<1>4. \A q \in Pid \ {p} : Intacto(k, l, q) /\ Intacto(l, m, q)
  BY <1>1 DEF Ajeno
<1> QED
  BY <1>2, <1>3, <1>4 DEF Ajeno

\* Nothing is done.
LEMMA AjenoIgual ==
    ASSUME NEW k, NEW p
    PROVE  Ajeno(k, k, p)
BY DEF Ajeno, Intacto

\* A piece of a handler about nobody, or about a process it settles.
LEMMA AjenoCuadra ==
    ASSUME NEW k, NEW m, NEW x, NEW p \in Pid \cup {0}, Ajeno(k, m, p),
           p # 0 => /\ TodosSinPaginas(k) => SinPaginas(m, p)
                    /\ TodosEnterados(k) => Enterado(m, p)
                    /\ x.memoria /\ k.activa /\ TodosVeraces(k) => Veraz(m, p)
    PROVE  Cuadra(k, m, x)
<1>1. m.activa = k.activa /\ (SinAbortos(k) => SinAbortos(m))
  BY DEF Ajeno, SinAbortos
<1>2. \A q \in Pid \ {p} : Intacto(k, m, q)
  BY DEF Ajeno
<1>3. p # 0 \/ p \notin Pid
  BY DEF Pid
<1>4. TodosSinPaginas(k) => TodosSinPaginas(m)
  BY <1>2, <1>3, IntactoSigue DEF TodosSinPaginas
<1>5. TodosEnterados(k) => TodosEnterados(m)
  BY <1>2, <1>3, IntactoSigue DEF TodosEnterados
<1>6. x.memoria /\ k.activa /\ TodosVeraces(k) => TodosVeraces(m)
  BY <1>2, <1>3, IntactoSigue DEF TodosVeraces
<1> QED
  BY <1>1, <1>4, <1>5, <1>6 DEF Cuadra

\* One piece after another.
LEMMA CuadraTransitiva ==
    ASSUME NEW k, NEW l, NEW m, NEW x, Cuadra(k, l, x), Cuadra(l, m, x)
    PROVE  Cuadra(k, m, x)
BY DEF Cuadra

\* Nothing is done.
LEMMA CuadraIgual ==
    ASSUME NEW k, NEW x
    PROVE  Cuadra(k, k, x)
BY DEF Cuadra

\* The queues and the CPUs are the same.
LEMMA QuietoAjeno ==
    ASSUME NEW k, NEW m, NEW p, k.maxPID \in Nat, m.maxPID \in Nat,
           m.activa = k.activa, m.cola = k.cola, m.maxPID >= k.maxPID,
           m.enCpu = k.enCpu, m.modo = k.modo,
           \A q \in Pid \ {p} :
              /\ q \in m.paginas => q \in k.paginas
              /\ q \in m.consolas => q \in k.consolas
              /\ m.avisos[q] = k.avisos[q]
              /\ Fin(k, q) => m.ec[q] = k.ec[q]
    PROVE  Ajeno(k, m, p)
<1>1. \A q \in Pid : q <= k.maxPID => q <= m.maxPID
  BY DEF Pid
<1>2. \A q, e : EnCola(m, q, e) <=> EnCola(k, q, e)
  BY DEF EnCola
<1>3. \A q : Tiene(m, q) <=> Tiene(k, q)
  BY DEF Tiene
<1>4. \A q : EnAborto(m, q) <=> EnAborto(k, q)
  BY DEF EnAborto
<1>5. ASSUME NEW q \in Pid \ {p}
      PROVE  Intacto(k, m, q)
  BY <1>1, <1>2, <1>3, <1>4, <1>5 DEF Intacto, Fin
<1> QED
  BY <1>5 DEF Ajeno

\* Nothing that the end of a process is about changed.
LEMMA MismoAjeno ==
    ASSUME NEW k, Bien(k), NEW m,
           m.maxPID = k.maxPID, m.activa = k.activa, m.cola = k.cola,
           m.enCpu = k.enCpu, m.modo = k.modo, m.ec = k.ec,
           m.consolas = k.consolas, m.paginas = k.paginas,
           m.avisos = k.avisos
    PROVE  Ajeno(k, m, 0)
<1>1. k.maxPID \in Nat /\ k.maxPID >= k.maxPID
  BY DEF Bien, Sistema
<1> QED
  BY <1>1, QuietoAjeno

\* A process changes queue.
LEMMA TrasladoAjeno ==
    ASSUME NEW k, Bien(k), NEW m, NEW p \in Pid, NEW e \in Estado,
           Traslado(k, m, p, e), \A q \in Pid \ {p} : m.ec[q] = k.ec[q]
    PROVE  /\ Ajeno(k, m, p)
           /\ e \in EnSistema /\ ~Fin(k, p) => Ajeno(k, m, 0)
<1>1. "NUEVO" \in Estado /\ "TERMINADO" \in Estado
  BY DEF Estado
<1>2. /\ m.maxPID = k.maxPID /\ m.activa = k.activa
      /\ m.enCpu = k.enCpu /\ m.modo = k.modo
      /\ m.consolas = k.consolas /\ m.avisos = k.avisos
      /\ m.paginas = k.paginas
  BY DEF Traslado, MismoResto
<1>3. /\ \A q : Tiene(m, q) <=> Tiene(k, q)
      /\ \A q : EnAborto(m, q) <=> EnAborto(k, q)
  BY <1>2 DEF Tiene, EnAborto
<1>4. \A q \in Pid \ {p}, f \in Estado : EnCola(m, q, f) <=> EnCola(k, q, f)
  BY DEF Traslado
<1>5. \A f \in Estado : EnCola(m, p, f) <=> f = e
  BY DEF Traslado
<1>6. ASSUME NEW q \in Pid \ {p}
      PROVE  Intacto(k, m, q)
  BY <1>1, <1>2, <1>3, <1>4, <1>6 DEF Intacto, Fin
<1>7. ASSUME e \in EnSistema, ~Fin(k, p)
      PROVE  Intacto(k, m, p)
  <2>1. e # "NUEVO" /\ e # "TERMINADO"
    BY <1>7 DEF EnSistema
  <2>2. ~EnCola(m, p, "NUEVO") /\ ~Fin(m, p)
    BY <1>1, <1>5, <2>1 DEF Fin
  <2> QED
    BY <1>2, <1>3, <1>7, <2>2 DEF Intacto
<1>8. Ajeno(k, m, p)
  BY <1>2, <1>6 DEF Ajeno
<1>9. ASSUME e \in EnSistema, ~Fin(k, p)
      PROVE  Ajeno(k, m, 0)
  BY <1>2, <1>6, <1>7, <1>9 DEF Ajeno
<1> QED
  BY <1>8, <1>9

\* The ways a process changes queue.
LEMMA PasosAjenos ==
    ASSUME NEW k, Bien(k), NEW p \in Pid, NEW code \in ExitCode
    PROVE  /\ Ajeno(k, ListosAEjecutando(k, p), 0)
           /\ Ajeno(k, BloqueadoAListo(k, p), 0)
           /\ Ajeno(k, EjecutandoAListos(k, p), 0)
           /\ Ajeno(k, EjecutandoABloqueados(k, p), 0)
           /\ Ajeno(k, ListoAFinalizados(k, p), p)
           /\ Ajeno(k, NuevoAFinalizados(k, p, code), p)
           /\ Ajeno(k, EjecutandoAFinalizados(k, p), p)
           /\ Ajeno(k, BloqueadoAFinalizados(k, p, code), p)
           /\ \A e \in Estado \ {"TERMINADO"} : Ajeno(k, AFinalizados(k, p, e), p)
<1>1. /\ "TERMINADO" \in Estado /\ EnSistema \subseteq Estado
      /\ "LISTO" \in EnSistema /\ "EJECUTANDO" \in EnSistema
      /\ "BLOQUEADO" \in EnSistema /\ "TERMINADO" \notin EnSistema
  BY DEF Estado, EnSistema
<1>2. k.ec \in [Pid -> ExitCode]
  BY DEF Bien, Sistema
<1>3. ASSUME NEW desde \in EnSistema, NEW hacia \in EnSistema, desde # hacia
      PROVE  Ajeno(k, Trasladar(k, p, desde, hacia), 0)
  <2>. DEFINE m == Trasladar(k, p, desde, hacia)
  <2>1. m.ec = k.ec /\ IF Mueve(k, p, desde) THEN Traslado(k, m, p, hacia)
                       ELSE m = k
    BY <1>3, PasosTrasladan
  <2>. HIDE DEF m
  <2>2. Mueve(k, p, desde) => ~Fin(k, p)
    BY <1>1, UnaCola DEF Mueve, Fin
  <2>3. Ajeno(k, m, 0)
    BY <1>1, <2>1, <2>2, TrasladoAjeno, AjenoIgual
  <2> QED
    BY <2>3 DEF m
<1>4. ASSUME NEW m, Traslado(k, m, p, "TERMINADO") \/ m = k,
             \/ m.ec = k.ec
             \/ m.ec = [k.ec EXCEPT ![p] = code]
      PROVE  Ajeno(k, m, p)
  <2>1. \A q \in Pid \ {p} : m.ec[q] = k.ec[q]
    BY <1>2, <1>4
  <2> QED
    BY <1>1, <1>4, <2>1, TrasladoAjeno, AjenoIgual
<1>5. /\ Ajeno(k, ListosAEjecutando(k, p), 0)
      /\ Ajeno(k, BloqueadoAListo(k, p), 0)
      /\ Ajeno(k, EjecutandoAListos(k, p), 0)
      /\ Ajeno(k, EjecutandoABloqueados(k, p), 0)
  BY <1>1, <1>3 DEF ListosAEjecutando, BloqueadoAListo, EjecutandoAListos,
     EjecutandoABloqueados
<1>6. Ajeno(k, ListoAFinalizados(k, p), p)
  BY <1>1, <1>4, PasosTrasladan DEF ListoAFinalizados
<1>7. /\ Ajeno(k, NuevoAFinalizados(k, p, code), p)
      /\ Ajeno(k, EjecutandoAFinalizados(k, p), p)
      /\ Ajeno(k, BloqueadoAFinalizados(k, p, code), p)
  BY <1>4, FinalizarTraslada
<1>8. \A e \in Estado \ {"TERMINADO"} : Ajeno(k, AFinalizados(k, p, e), p)
  <2>1. code \in ExitCode
    OBVIOUS
  <2> QED
    BY <1>4, <2>1, FinalizarTraslada
<1> QED
  BY <1>5, <1>6, <1>7, <1>8

\* What a handler writes that is not about CPUs.
LEMMA EscribirAjeno ==
    ASSUME NEW k, Bien(k), NEW p \in Pid, NEW code
    PROVE  /\ Ajeno(k, [k EXCEPT !.ec[p] = code], p)
           /\ ~Fin(k, p) => Ajeno(k, [k EXCEPT !.ec[p] = code], 0)
           /\ Ajeno(k, [k EXCEPT !.ecCopia[p] = code], 0)
           /\ Ajeno(k, EliminarPidProgramaSocket(k, p), 0)
           /\ Ajeno(k, PedirAMemoriaFinalizarProceso(k, p), 0)
           /\ Ajeno(k, InformarAConsola(k, p, code), p)
           /\ Ajeno(k, ReemplazarPcbEnEjecutando(k, p), 0)
           /\ \A x : Ajeno(k, QuitarFlag(k, p, x), 0)
<1>1. k.maxPID \in Nat
  BY DEF Bien, Sistema
<1>2. k.ec \in [Pid -> ExitCode] /\ k.avisos \in [Pid -> Seq(ExitCode)]
  BY DEF Bien, Sistema
<1>3. ASSUME NEW m, m = [k EXCEPT !.ec[p] = code]
      PROVE  Ajeno(k, m, p) /\ (~Fin(k, p) => Ajeno(k, m, 0))
  <2>1. /\ m.maxPID = k.maxPID /\ m.activa = k.activa /\ m.cola = k.cola
        /\ m.enCpu = k.enCpu /\ m.modo = k.modo /\ m.consolas = k.consolas
        /\ m.avisos = k.avisos /\ m.paginas = k.paginas
        /\ m.ec = [k.ec EXCEPT ![p] = code]
    BY <1>3 DEF Bien, Sistema
  <2>2. \A q \in Pid \ {p} : m.ec[q] = k.ec[q]
    BY <1>2, <2>1
  <2>3. m.maxPID >= k.maxPID /\ m.maxPID \in Nat
    BY <1>1, <2>1
  <2>4. Ajeno(k, m, p)
    BY <1>1, <2>1, <2>2, <2>3, QuietoAjeno
  <2>5. ASSUME ~Fin(k, p)
        PROVE  Ajeno(k, m, 0)
    <3>1. \A q \in Pid : Fin(k, q) => m.ec[q] = k.ec[q]
      BY <2>2, <2>5
    <3> QED
      BY <1>1, <2>1, <2>3, <3>1, QuietoAjeno
  <2> QED
    BY <2>4, <2>5
<1>4. ASSUME NEW m, \/ m = [k EXCEPT !.ecCopia[p] = code]
                    \/ m = EliminarPidProgramaSocket(k, p)
                    \/ m = PedirAMemoriaFinalizarProceso(k, p)
                    \/ \E x : m = QuitarFlag(k, p, x)
      PROVE  Ajeno(k, m, 0)
  <2>1. /\ m.maxPID = k.maxPID /\ m.activa = k.activa /\ m.cola = k.cola
        /\ m.enCpu = k.enCpu /\ m.modo = k.modo /\ m.ec = k.ec
        /\ m.consolas \subseteq k.consolas /\ m.paginas \subseteq k.paginas
        /\ m.avisos = k.avisos
    BY <1>4 DEF EliminarPidProgramaSocket, PedirAMemoriaFinalizarProceso,
       QuitarFlag, Bien, Sistema
  <2> QED
    BY <1>1, <2>1, QuietoAjeno
<1>5. Ajeno(k, InformarAConsola(k, p, code), p)
  <2>. DEFINE m == InformarAConsola(k, p, code)
  <2>1. /\ m.maxPID = k.maxPID /\ m.activa = k.activa /\ m.cola = k.cola
        /\ m.enCpu = k.enCpu /\ m.modo = k.modo /\ m.ec = k.ec
        /\ m.consolas \subseteq k.consolas /\ m.paginas = k.paginas
        /\ \A q \in Pid \ {p} : m.avisos[q] = k.avisos[q]
    BY DEF InformarAConsola, EliminarPidProgramaSocket, Bien, Sistema
  <2>. HIDE DEF m
  <2>2. Ajeno(k, m, p)
    BY <1>1, <2>1, QuietoAjeno
  <2> QED
    BY <2>2 DEF m
<1>6. Ajeno(k, ReemplazarPcbEnEjecutando(k, p), 0)
  <2>. DEFINE m == ReemplazarPcbEnEjecutando(k, p)
  <2>1. /\ m.maxPID = k.maxPID /\ m.activa = k.activa /\ m.cola = k.cola
        /\ m.enCpu = k.enCpu /\ m.modo = k.modo
        /\ m.consolas = k.consolas /\ m.paginas = k.paginas
        /\ m.avisos = k.avisos
        /\ m.ec = [k.ec EXCEPT ![p] = IF EnCola(k, p, "EJECUTANDO")
                                      THEN k.ecCopia[p] ELSE @]
    BY DEF ReemplazarPcbEnEjecutando, Bien, Sistema
  <2>. HIDE DEF m
  <2>2. Fin(k, p) => ~EnCola(k, p, "EJECUTANDO")
    BY UnaCola DEF Fin, Estado
  <2>3. \A q \in Pid : Fin(k, q) => m.ec[q] = k.ec[q]
    BY <1>2, <2>1, <2>2
  <2>4. m.maxPID >= k.maxPID /\ m.maxPID \in Nat
    BY <1>1, <2>1
  <2>5. Ajeno(k, m, 0)
    BY <1>1, <2>1, <2>3, <2>4, QuietoAjeno
  <2> QED
    BY <2>5 DEF m
<1> QED
  BY <1>3, <1>4, <1>5, <1>6

\* What it writes about CPUs, semaphores and the operator.
LEMMA CpuAjena ==
    ASSUME NEW k, Bien(k), NEW c \in Cpus
    PROVE  /\ \A n, q : Ajeno(k, [k EXCEPT !.pidEn[c] = n, !.quantum[c] = q], 0)
           /\ \A q : Ajeno(k, [k EXCEPT !.quantum[c] = q], 0)
           /\ \A s, v : Ajeno(k, [k EXCEPT !.valor[s] = v], 0)
           /\ \A p, s : Ajeno(k, [k EXCEPT !.espera[p] = s], 0)
           /\ \A v : Ajeno(k, [k EXCEPT !.vivo = v], 0)
           /\ \A n : Ajeno(k, [k EXCEPT !.iteraciones = n], 0)
           /\ \A n : Ajeno(k, [k EXCEPT !.colgados = n], 0)
           /\ \A p, o : Ajeno(k, [k EXCEPT !.consola[p] = o], 0)
           /\ \A s : Ajeno(k, [k EXCEPT !.destruir = s], 0)
           /\ Ajeno(k, LiberarCpu(k, c), 0)
           /\ \A a, b : Ajeno(k, [k EXCEPT !.libres = a, !.ocupadas = b], 0)
<1>2. ASSUME NEW m, m.maxPID = k.maxPID, m.activa = k.activa, m.cola = k.cola,
             m.enCpu = k.enCpu, m.modo = k.modo, m.ec = k.ec,
             m.consolas = k.consolas, m.paginas = k.paginas,
             m.avisos = k.avisos
      PROVE  Ajeno(k, m, 0)
  BY <1>2, MismoAjeno
<1>3. \A n, q : Ajeno(k, [k EXCEPT !.pidEn[c] = n, !.quantum[c] = q], 0)
  BY <1>2 DEF Bien, Sistema
<1>4. \A q : Ajeno(k, [k EXCEPT !.quantum[c] = q], 0)
  BY <1>2 DEF Bien, Sistema
<1>5. \A s, v : Ajeno(k, [k EXCEPT !.valor[s] = v], 0)
  BY <1>2 DEF Bien, Sistema
<1>6. \A p, s : Ajeno(k, [k EXCEPT !.espera[p] = s], 0)
  BY <1>2 DEF Bien, Sistema
<1>7. /\ \A v : Ajeno(k, [k EXCEPT !.vivo = v], 0)
      /\ \A n : Ajeno(k, [k EXCEPT !.iteraciones = n], 0)
      /\ \A n : Ajeno(k, [k EXCEPT !.colgados = n], 0)
  BY <1>2 DEF Bien, Sistema
<1>8. /\ \A p, o : Ajeno(k, [k EXCEPT !.consola[p] = o], 0)
      /\ \A s : Ajeno(k, [k EXCEPT !.destruir = s], 0)
  BY <1>2 DEF Bien, Sistema
<1>9. /\ Ajeno(k, LiberarCpu(k, c), 0)
      /\ \A a, b : Ajeno(k, [k EXCEPT !.libres = a, !.ocupadas = b], 0)
  BY <1>2 DEF LiberarCpu, Bien, Sistema
<1> QED
  BY <1>3, <1>4, <1>5, <1>6, <1>7, <1>8, <1>9

\* The mode of a CPU, when no abort is on its way.
LEMMA ModoAjeno ==
    ASSUME NEW k, Bien(k), NEW c \in Cpus, NEW o \in ModoCpu \ {"abortando"},
           NEW p \in Pid \cup {0},
           k.modo[c] # "abortando" \/ k.enCpu[c] = 0 \/ k.enCpu[c] = p
    PROVE  Ajeno(k, [k EXCEPT !.modo[c] = o], p)
<1>. DEFINE m == [k EXCEPT !.modo[c] = o]
<1>1. /\ m.maxPID = k.maxPID /\ m.activa = k.activa /\ m.cola = k.cola
      /\ m.enCpu = k.enCpu /\ m.ec = k.ec /\ m.consolas = k.consolas
      /\ m.paginas = k.paginas /\ m.avisos = k.avisos
      /\ m.modo = [k.modo EXCEPT ![c] = o]
  BY DEF Bien, Sistema
<1>2. k.modo \in [Cpus -> ModoCpu]
  BY DEF Bien, Sistema
<1>. HIDE DEF m
<1>3. \A d \in Cpus : m.modo[d] = IF d = c THEN o ELSE k.modo[d]
  BY <1>1, <1>2
<1>4. \A q, e : EnCola(m, q, e) <=> EnCola(k, q, e)
  BY <1>1 DEF EnCola
<1>5. 0 \notin Pid
  BY DEF Pid
<1>6. ASSUME NEW q \in Pid \ {p}
      PROVE  Intacto(k, m, q)
  <2>1. EnAborto(k, q) => EnAborto(m, q)
    BY <1>1, <1>3, <1>5, <1>6 DEF EnAborto
  <2> QED
    BY <1>1, <1>4, <2>1 DEF Intacto, Fin, Tiene
<1>7. Ajeno(k, m, p)
  BY <1>1, <1>3, <1>6 DEF Ajeno
<1> QED
  BY <1>7 DEF m

\* The PCB of a CPU comes back, or is lost with it.
LEMMA SinPcbAjeno ==
    ASSUME NEW k, Bien(k), NEW c \in Cpus
    PROVE  LET m == [k EXCEPT !.enCpu[c] = 0] IN
           /\ Ajeno(k, m, k.enCpu[c])
           /\ k.modo[c] # "abortando" => Ajeno(k, m, 0)
<1>. DEFINE m == [k EXCEPT !.enCpu[c] = 0]
<1>1. /\ m.maxPID = k.maxPID /\ m.activa = k.activa /\ m.cola = k.cola
      /\ m.modo = k.modo /\ m.ec = k.ec /\ m.consolas = k.consolas
      /\ m.paginas = k.paginas /\ m.avisos = k.avisos
      /\ m.enCpu = [k.enCpu EXCEPT ![c] = 0]
  BY DEF Bien, Sistema
<1>2. k.enCpu \in [Cpus -> 0..MaxPid]
  BY DEF Bien, Sistema
<1>. HIDE DEF m
<1>3. \A d \in Cpus : m.enCpu[d] = IF d = c THEN 0 ELSE k.enCpu[d]
  BY <1>1, <1>2
<1>4. \A q, e : EnCola(m, q, e) <=> EnCola(k, q, e)
  BY <1>1 DEF EnCola
<1>5. 0 \notin Pid
  BY DEF Pid
<1>6. ASSUME NEW q \in Pid, q # k.enCpu[c] \/ k.modo[c] # "abortando"
      PROVE  Intacto(k, m, q)
  <2>1. EnAborto(k, q) => EnAborto(m, q)
    BY <1>1, <1>3, <1>6 DEF EnAborto
  <2>2. Tiene(m, q) => Tiene(k, q)
    BY <1>3, <1>5 DEF Tiene
  <2> QED
    BY <1>1, <1>4, <2>1, <2>2 DEF Intacto, Fin
<1>7. Ajeno(k, m, k.enCpu[c])
  BY <1>1, <1>6 DEF Ajeno
<1>8. k.modo[c] # "abortando" => Ajeno(k, m, 0)
  BY <1>1, <1>6 DEF Ajeno
<1> QED
  BY <1>7, <1>8 DEF m

\* RecibirPcb.
LEMMA RecibirAjeno ==
    ASSUME NEW k, Bien(k), NEW c \in Cpus, k.enCpu[c] # 0
    PROVE  /\ Ajeno(k, RecibirPcb(k, c), k.enCpu[c])
           /\ k.modo[c] # "abortando" => Ajeno(k, RecibirPcb(k, c), 0)
<1>. DEFINE p == k.enCpu[c]
            l == [k EXCEPT !.enCpu[c] = 0]
            m == RecibirPcb(k, c)
<1>1. p \in Pid /\ 0 \in 0..MaxPid
  BY RecibirPcbBien, MaxPidAssumption
<1>2. Bien(l)
  BY <1>1, CampoBien
<1>3. Ajeno(k, l, p) /\ (k.modo[c] # "abortando" => Ajeno(k, l, 0))
  BY SinPcbAjeno
<1>4. m = ReemplazarPcbEnEjecutando(l, p)
  BY DEF RecibirPcb
<1>. HIDE DEF p, l, m
<1>5. Ajeno(l, m, 0)
  BY <1>1, <1>2, <1>4, EscribirAjeno
<1>6. Ajeno(k, m, p) /\ (k.modo[c] # "abortando" => Ajeno(k, m, 0))
  BY <1>3, <1>5, AjenoTransitiva
<1> QED
  BY <1>6 DEF p, m

\* EXECUTE: the process that gets the CPU was ready.
LEMMA EjecutarSiguienteAjeno ==
    ASSUME NEW k, Bien(k), k.activa, NEW c \in Cpus
    PROVE  Ajeno(k, EjecutarSiguientePcbEnCpu(k, c), 0)
<1>. DEFINE p == Head(k.cola["LISTO"])
            l == ListosAEjecutando(k, p)
            m == EjecutarSiguientePcbEnCpu(k, c)
<1>1. CASE ~HayListos(k)
  BY <1>1, AjenoIgual DEF EjecutarSiguientePcbEnCpu
<1>2. CASE HayListos(k)
  <2>1. k.cola["LISTO"] \in Seq(Pid) /\ k.cola["LISTO"] # <<>>
    BY <1>2 DEF HayListos, Bien, Sistema, Estado
  <2>2. p \in Pid
    BY <2>1, HeadTailProperties
  <2>3. EnCola(k, p, "LISTO")
    BY <2>1, <2>2, Pertenencia DEF EnCola
  <2>4. Bien(l)
    BY <2>2, PasosBien
  <2>5. Traslado(k, l, p, "EJECUTANDO")
    BY <2>2, <2>3, PasosTrasladan DEF ListosAEjecutando, Mueve, EnSistema
  <2>6. Ajeno(k, l, 0)
    <3>1. "NO_SE_PUDO_ASIGNAR_RECURSO" \in ExitCode
      BY DEF ExitCode
    <3> QED
      BY <2>2, <3>1, PasosAjenos
  <2>7. ~Fin(l, p)
    BY <2>2, <2>5 DEF Traslado, Fin, Estado
  <2>8. /\ m.activa = l.activa /\ m.cola = l.cola /\ m.maxPID = l.maxPID
        /\ m.ec = l.ec /\ m.consolas = l.consolas /\ m.paginas = l.paginas
        /\ m.avisos = l.avisos
        /\ m.enCpu = [l.enCpu EXCEPT ![c] = IF EsperaPcb(k, c) THEN p ELSE @]
        /\ m.modo = [l.modo EXCEPT ![c] =
                        IF @ = "saludando" THEN "rechazada" ELSE @]
    <3>1. m = [l EXCEPT !.pidEn[c] = p, !.ecCopia[p] = k.ec[p],
                !.enCpu[c] = IF EsperaPcb(k, c) THEN p ELSE @,
                !.modo[c] = IF @ = "saludando" THEN "rechazada" ELSE @,
                !.vivo = IF EsperaOtraCosa(k, c)
                         THEN "desincronizado" ELSE @]
      BY <1>2 DEF EjecutarSiguientePcbEnCpu
    <3>. HIDE DEF m, l, p
    <3> QED
      BY <2>4, <3>1 DEF Bien, Sistema
  <2>9. l.enCpu = k.enCpu /\ l.modo = k.modo
    BY <2>5 DEF Traslado, MismoResto
  <2>10. /\ l.enCpu \in [Cpus -> 0..MaxPid]
         /\ l.modo \in [Cpus -> ModoCpu]
    BY <2>4 DEF Bien, Sistema
  <2>. HIDE DEF m, l, p
  <2>11. \A d \in Cpus : /\ d # c => m.enCpu[d] = l.enCpu[d] /\ m.modo[d] = l.modo[d]
                         /\ m.enCpu[d] = l.enCpu[d] \/ m.enCpu[d] = p
    BY <2>8, <2>10
  <2>12. l.modo[c] = "abortando" <=> m.modo[c] = "abortando"
    BY <2>8, <2>10
  <2>13. l.modo[c] = "abortando" => m.enCpu[c] = l.enCpu[c]
    BY <2>8, <2>9, <2>10 DEF EsperaPcb
  <2>14. \A q, e : EnCola(m, q, e) <=> EnCola(l, q, e)
    BY <2>8 DEF EnCola
  <2>15. ASSUME NEW q \in Pid
         PROVE  Intacto(l, m, q)
    <3>1. EnAborto(l, q) => EnAborto(m, q)
      BY <2>11, <2>12, <2>13 DEF EnAborto
    <3>2. Fin(l, q) /\ Tiene(m, q) => Tiene(l, q)
      BY <2>7, <2>11 DEF Tiene
    <3> QED
      BY <2>8, <2>14, <3>1, <3>2 DEF Intacto, Fin
  <2>16. Ajeno(l, m, 0)
    BY <2>8, <2>11, <2>12, <2>15 DEF Ajeno
  <2>17. Ajeno(k, m, 0)
    BY <2>6, <2>16, AjenoTransitiva
  <2> QED
    BY <2>17 DEF m
<1> QED
  BY <1>1, <1>2

\* planificar(NULL).
LEMMA PlanificarLibreAjeno ==
    ASSUME NEW k, Bien(k)
    PROVE  /\ Ajeno(k, PlanificarLibre(k), 0)
           /\ Ajeno(k, PlanificarSiHayListos(k), 0)
<1>. DEFINE c == Head(k.libres)
            t == Tail(k.libres)
            a == Append(k.ocupadas, c)
            q == IF Algoritmo = "RR" THEN k.quantum[c] + 1 ELSE k.quantum[c]
            l == [k EXCEPT !.libres = t, !.ocupadas = a]
            m == [k EXCEPT !.libres = t, !.ocupadas = a, !.quantum[c] = q]
<1>1. CASE ~k.activa \/ k.libres = <<>>
  BY <1>1, AjenoIgual DEF PlanificarLibre, PlanificarSiHayListos
<1>2. CASE k.activa /\ k.libres # <<>>
  <2>1. k.libres \in Seq(Cpus) /\ k.ocupadas \in Seq(Cpus)
    BY DEF Bien, Sistema
  <2>2. c \in Cpus /\ t \in Seq(Cpus)
    BY <1>2, <2>1, HeadTailProperties
  <2>. HIDE DEF c, t
  <2>3. a \in Seq(Cpus)
    BY <2>1, <2>2, AppendProperties
  <2>4. q \in Nat
    BY <2>2 DEF Bien, Sistema
  <2>5. PlanificarLibre(k) = EjecutarSiguientePcbEnCpu(m, c)
    <3>1. PlanificarLibre(k) = EjecutarSiguientePcbEnCpu(
            [k EXCEPT !.libres = Tail(@), !.ocupadas = Append(@, c),
                !.quantum[c] = IF Algoritmo = "RR" THEN @ + 1 ELSE @], c)
      BY <1>2 DEF PlanificarLibre, c
    <3>2. [k EXCEPT !.libres = Tail(@), !.ocupadas = Append(@, c),
                !.quantum[c] = IF Algoritmo = "RR" THEN @ + 1 ELSE @] = m
      BY DEF Bien, Sistema, t
    <3> QED
      BY <3>1, <3>2, Zenon
  <2>. HIDE DEF a, q
  <2>6. m \in Sistema
    BY <2>2, <2>3, <2>4 DEF Bien, Sistema
  <2>7. /\ m.cola = k.cola /\ m.cantidad = k.cantidad /\ m.maxPID = k.maxPID
        /\ m.activa = k.activa /\ m.enCpu = k.enCpu /\ m.modo = k.modo
        /\ m.ec = k.ec /\ m.consolas = k.consolas /\ m.paginas = k.paginas
        /\ m.avisos = k.avisos
    BY DEF Bien, Sistema
  <2>. HIDE DEF m
  <2>9. Bien(m)
    BY <2>6, <2>7, MismasColas
  <2>10. Ajeno(k, m, 0) /\ m.activa
    BY <1>2, <2>7, MismoAjeno
  <2>11. Ajeno(m, EjecutarSiguientePcbEnCpu(m, c), 0)
    BY <2>2, <2>9, <2>10, EjecutarSiguienteAjeno
  <2>12. Ajeno(k, PlanificarLibre(k), 0)
    BY <2>5, <2>10, <2>11, AjenoTransitiva
  <2> QED
    BY <2>12, AjenoIgual DEF PlanificarSiHayListos
<1> QED
  BY <1>1, <1>2

\* AdmitirNuevo: the process is ready, or nobody has it.
LEMMA AdmitirNuevoCuadra ==
    ASSUME NEW k, Bien(k), NEW p \in Pid, p <= k.maxPID, NEW x,
           \A e \in Estado : ~Contains(k.cola[e], p)
    PROVE  Cuadra(k, AdmitirNuevo(k, p, x), x)
<1>. DEFINE m == [k EXCEPT !.paginas = @ \cup {p}]
            l == NuevoAListos(m, p)
            code == "NO_SE_PUDO_ASIGNAR_RECURSO"
            r == SinMemoria(k, p)
            i == InformarAConsola(r, p, code)
<1>1. k.maxPID \in Nat /\ "NUEVO" \in Estado /\ "TERMINADO" \in Estado
  BY DEF Bien, Sistema, Estado
<1>2. ~EnCola(k, p, "NUEVO") /\ ~Fin(k, p)
  BY <1>1 DEF EnCola, Fin
<1>3. CASE x.memoria
  <2>0. m \in Sistema
    BY DEF Bien, Sistema
  <2>1. /\ m.cola = k.cola /\ m.maxPID = k.maxPID /\ m.activa = k.activa
        /\ m.cantidad = k.cantidad
        /\ m.enCpu = k.enCpu /\ m.modo = k.modo /\ m.ec = k.ec
        /\ m.consolas = k.consolas /\ m.avisos = k.avisos
        /\ m.paginas = k.paginas \cup {p}
    BY DEF Bien, Sistema
  <2>. HIDE DEF m
  <2>2. Bien(m)
    BY <2>0, <2>1, MismasColas
  <2>3. Ajeno(k, m, p)
    BY <1>1, <2>1, QuietoAjeno
  <2>4. Bien(l)
    BY <2>1, <2>2, NuevoAListosBien
  <2>5. l.ec = m.ec /\ IF m.activa THEN Traslado(m, l, p, "LISTO") ELSE l = m
    BY <2>1, <2>2, NuevoAListosTraslada
  <2>. HIDE DEF l
  <2>6. Ajeno(m, l, p)
    BY <2>2, <2>5, TrasladoAjeno, AjenoIgual DEF Estado
  <2>7. Ajeno(k, l, p)
    BY <2>3, <2>6, AjenoTransitiva
  <2>8. ~EnCola(l, p, "NUEVO") /\ ~Fin(l, p)
    <3>1. ~EnCola(m, p, "NUEVO") /\ ~Fin(m, p)
      BY <1>2, <2>1 DEF EnCola, Fin
    <3> QED
      BY <1>1, <2>5, <3>1 DEF Traslado, Fin
  <2>9. l.avisos = k.avisos /\ l.maxPID = k.maxPID
    BY <2>1, <2>5 DEF Traslado, MismoResto
  <2>10. /\ SinPaginas(l, p) /\ Enterado(l, p)
         /\ TodosVeraces(k) => Veraz(l, p)
    <3>1. SinPaginas(l, p) /\ Enterado(l, p)
      BY <2>8, <2>9 DEF SinPaginas, Enterado
    <3>2. Veraz(k, p) => Veraz(l, p)
      BY <1>2, <2>8, <2>9 DEF Veraz
    <3> QED
      BY <3>1, <3>2 DEF TodosVeraces
  <2>11. Cuadra(k, l, x)
    BY <2>7, <2>10, AjenoCuadra
  <2>12. Cuadra(l, PlanificarLibre(l), x)
    BY <2>4, PlanificarLibreAjeno, AjenoCuadra
  <2>13. Cuadra(k, PlanificarLibre(l), x)
    BY <2>11, <2>12, CuadraTransitiva
  <2> QED
    BY <1>3, <2>11, <2>13, Zenon DEF AdmitirNuevo, l, m
<1>4. CASE ~x.memoria
  <2>1. Bien(r) /\ r.cola = k.cola /\ r.maxPID = k.maxPID /\ Ajeno(k, r, p)
    BY SinMemoriaBien, EscribirAjeno DEF SinMemoria, Bien, Sistema
  <2>2. AdmitirNuevo(k, p, x) = i
    BY <1>4, AdmitirRechaza, Zenon DEF i, r, code
  <2>. HIDE DEF r
  <2>3. Ajeno(k, i, p) /\ i.cola = k.cola /\ i.maxPID = k.maxPID
    <3>1. Ajeno(r, i, p)
      BY <2>1, EscribirAjeno
    <3>2. Ajeno(k, i, p)
      BY <2>1, <3>1, AjenoTransitiva
    <3>3. i.cola = k.cola /\ i.maxPID = k.maxPID
      BY <2>1 DEF InformarAConsola, EliminarPidProgramaSocket, Bien, Sistema
    <3> QED
      BY <3>2, <3>3
  <2>. HIDE DEF i
  <2>4. SinPaginas(i, p) /\ Enterado(i, p)
    BY <1>2, <2>3 DEF SinPaginas, Enterado, EnCola, Fin
  <2>5. Cuadra(k, i, x)
    BY <1>4, <2>3, <2>4, AjenoCuadra
  <2> QED
    BY <2>2, <2>5
<1> QED
  BY <1>3, <1>4

\* PasarProximoProcDeNewAReady, on each of its ways out.
LEMMA PasarProximoCuadra ==
    ASSUME NEW k, Bien(k), NEW x
    PROVE  Cuadra(k, PasarProximoProcDeNewAReady(k, x), x)
<1>. DEFINE p == Head(k.cola["NUEVO"])
            m == [k EXCEPT !.cola["NUEVO"] = Tail(@)]
<1>1. CASE ~k.activa \/ k.cola["NUEVO"] = <<>>
  BY <1>1, CuadraIgual DEF PasarProximoProcDeNewAReady
<1>2. CASE ~(~k.activa \/ k.cola["NUEVO"] = <<>>)
  <2>1. /\ Bien(m) /\ p \in Pid /\ p <= m.maxPID
        /\ \A e \in Estado : ~Contains(m.cola[e], p)
    BY <1>2, QuitadoBien
  <2>2. /\ MismoResto(k, m) /\ m.ec = k.ec /\ EnCola(k, p, "NUEVO")
        /\ \A q \in Pid, f \in Estado :
              EnCola(m, q, f) <=> EnCola(k, q, f) /\ q # p
    BY <1>2, QuitadoDonde
  <2>3. PasarProximoProcDeNewAReady(k, x) =
          CASE p \notin k.consolas -> [m EXCEPT !.vivo = "caido"]
            [] p \in k.consolas /\ k.consola[p] = "finalizando" ->
                 [m EXCEPT !.vivo = "colgado"]
            [] p \in k.consolas /\ k.consola[p] = "cerrando" /\ x.basura ->
                 [m EXCEPT !.vivo = "caido"]
            [] OTHER -> AdmitirNuevo(m, p, x)
    BY <1>2 DEF PasarProximoProcDeNewAReady
  <2>. HIDE DEF p, m
  <2>4. "NUEVO" \in Estado /\ "TERMINADO" \in Estado /\ k.maxPID \in Nat
    BY DEF Estado, Bien, Sistema
  <2>5. ~Fin(k, p)
    BY <2>2, <2>4, UnaCola DEF Fin
  <2>6. \A q \in Pid : /\ EnCola(m, q, "NUEVO") => EnCola(k, q, "NUEVO")
                       /\ Fin(m, q) <=> Fin(k, q)
    BY <2>2, <2>4, <2>5 DEF Fin
  <2>7. Ajeno(k, m, 0)
    BY <2>2, <2>6 DEF Ajeno, Intacto, MismoResto, EnAborto, Tiene
  <2>8. Cuadra(k, m, x)
    BY <2>7, AjenoCuadra
  <2>9. ASSUME NEW v PROVE Cuadra(m, [m EXCEPT !.vivo = v], x)
    <3>1. Ajeno(m, [m EXCEPT !.vivo = v], 0)
      <4>. DEFINE n == [m EXCEPT !.vivo = v]
      <4>2. /\ n.maxPID = m.maxPID /\ n.activa = m.activa /\ n.cola = m.cola
            /\ n.enCpu = m.enCpu /\ n.modo = m.modo /\ n.ec = m.ec
            /\ n.consolas = m.consolas /\ n.paginas = m.paginas
            /\ n.avisos = m.avisos
        BY <2>1 DEF Bien, Sistema
      <4>. HIDE DEF n
      <4>3. Ajeno(m, n, 0)
        BY <2>1, <4>2, MismoAjeno
      <4> QED
        BY <4>3 DEF n
    <3> QED
      BY <3>1, AjenoCuadra
  <2>10. Cuadra(m, AdmitirNuevo(m, p, x), x)
    BY <2>1, AdmitirNuevoCuadra
  <2>11. Cuadra(m, PasarProximoProcDeNewAReady(k, x), x)
    BY <2>3, <2>9, <2>10
  <2> QED
    BY <2>8, <2>11, CuadraTransitiva
<1> QED
  BY <1>1, <1>2

\* A console is told the exit code the PCB keeps, once.
LEMMA CierreVeraz ==
    ASSUME NEW k, NEW a, NEW p, NEW code, Veraz(k, p),
           k.avisos[p] \in Seq(ExitCode), code \in ExitCode,
           Fin(a, p), p \notin a.consolas,
           a.avisos[p] = IF p \in k.consolas THEN Append(k.avisos[p], code)
                         ELSE k.avisos[p],
           \/ ~Fin(k, p) /\ a.ec[p] = code
           \/ Fin(k, p) /\ Tiene(k, p) /\ a.ec[p] = k.ec[p]
    PROVE  Veraz(a, p)
<1>1. CASE p \in k.consolas
  <2>1. ~Fin(k, p)
    BY <1>1 DEF Veraz
  <2>2. a.avisos[p] = Append(k.avisos[p], code) /\ a.ec[p] = code
    BY <1>1, <2>1
  <2>3. /\ Len(Append(k.avisos[p], code)) = Len(k.avisos[p]) + 1
        /\ Append(k.avisos[p], code)[Len(k.avisos[p]) + 1] = code
    BY AppendProperties
  <2>4. Last(a.avisos[p]) = code
    BY <2>2, <2>3 DEF Last
  <2> QED
    BY <2>2, <2>4 DEF Veraz
<1>2. CASE p \notin k.consolas
  BY <1>2 DEF Veraz
<1> QED
  BY <1>1, <1>2

\* Memory frees the pages of a process that ended and its console is told.
LEMMA AvisarAjeno ==
    ASSUME NEW k, Bien(k), NEW p \in Pid, NEW code
    PROVE  LET m == InformarAConsola(PedirAMemoriaFinalizarProceso(k, p), p,
                                     code) IN
           /\ Ajeno(k, m, p)
           /\ p \notin m.paginas /\ p \notin m.consolas
           /\ m.cola = k.cola /\ m.ec = k.ec /\ m.activa = k.activa
           /\ m.maxPID = k.maxPID
           /\ m.avisos[p] = IF p \in k.consolas THEN Append(k.avisos[p], code)
                            ELSE k.avisos[p]
<1>. DEFINE l == PedirAMemoriaFinalizarProceso(k, p)
            m == InformarAConsola(l, p, code)
<1>1. Bien(l)
  BY CambioBien DEF ExitCode
<1>2. Ajeno(k, l, 0)
  BY EscribirAjeno
<1>3. /\ l.cola = k.cola /\ l.ec = k.ec /\ l.avisos = k.avisos
      /\ l.consolas = k.consolas /\ l.activa = k.activa
      /\ l.maxPID = k.maxPID /\ p \notin l.paginas
  BY DEF PedirAMemoriaFinalizarProceso, Bien, Sistema
<1>. HIDE DEF l
<1>4. Ajeno(l, m, p)
  BY <1>1, EscribirAjeno
<1>5. /\ m.cola = l.cola /\ m.ec = l.ec /\ m.activa = l.activa
      /\ m.maxPID = l.maxPID /\ m.paginas = l.paginas /\ p \notin m.consolas
      /\ m.avisos[p] = IF p \in l.consolas THEN Append(l.avisos[p], code)
                       ELSE l.avisos[p]
  BY <1>1 DEF InformarAConsola, EliminarPidProgramaSocket, Bien, Sistema
<1>. HIDE DEF m
<1>6. Ajeno(k, m, p)
  BY <1>2, <1>4, AjenoTransitiva
<1> QED
  BY <1>3, <1>5, <1>6 DEF m, l

\* A handler whose process ended tells memory and the console.
LEMMA AvisadoCuadra ==
    ASSUME NEW k, Bien(k), NEW l, Bien(l), NEW p \in Pid, NEW code \in ExitCode,
           NEW x, Ajeno(k, l, p),
           l.avisos = k.avisos, l.consolas = k.consolas,
           k.activa => /\ Fin(l, p)
                       /\ \/ ~Fin(k, p) /\ l.ec[p] = code
                          \/ Fin(k, p) /\ Tiene(k, p) /\ l.ec[p] = k.ec[p]
    PROVE  Cuadra(k, InformarAConsola(PedirAMemoriaFinalizarProceso(l, p), p,
                                      code), x)
<1>. DEFINE m == InformarAConsola(PedirAMemoriaFinalizarProceso(l, p), p, code)
<1>1. /\ Ajeno(l, m, p)
      /\ p \notin m.paginas /\ p \notin m.consolas
      /\ m.cola = l.cola /\ m.ec = l.ec
      /\ m.avisos[p] = IF p \in l.consolas THEN Append(l.avisos[p], code)
                       ELSE l.avisos[p]
  BY AvisarAjeno
<1>. HIDE DEF m
<1>2. Ajeno(k, m, p)
  BY <1>1, AjenoTransitiva
<1>3. SinPaginas(m, p) /\ Enterado(m, p)
  BY <1>1 DEF SinPaginas, Enterado
<1>4. ASSUME k.activa, Veraz(k, p)
      PROVE  Veraz(m, p)
  <2>1. Fin(m, p)
    BY <1>1, <1>4 DEF Fin, EnCola
  <2>2. k.avisos[p] \in Seq(ExitCode)
    BY DEF Bien, Sistema
  <2>3. m.avisos[p] = IF p \in k.consolas THEN Append(k.avisos[p], code)
                      ELSE k.avisos[p]
    BY <1>1
  <2>4. \/ ~Fin(k, p) /\ m.ec[p] = code
        \/ Fin(k, p) /\ Tiene(k, p) /\ m.ec[p] = k.ec[p]
    BY <1>1, <1>4
  <2> QED
    BY <1>1, <1>4, <2>1, <2>2, <2>3, <2>4, CierreVeraz
<1>5. Cuadra(k, m, x)
  BY <1>2, <1>3, <1>4, AjenoCuadra DEF TodosVeraces
<1> QED
  BY <1>5 DEF m

\* What RecibirPcb does to the PCB.
LEMMA RecibirHace ==
    ASSUME NEW k, Bien(k), NEW c \in Cpus, k.enCpu[c] # 0
    PROVE  LET p == k.enCpu[c]
               m == RecibirPcb(k, c)
           IN  /\ m.cola = k.cola /\ m.activa = k.activa
               /\ m.avisos = k.avisos /\ m.consolas = k.consolas
               /\ m.ec[p] = IF EnCola(k, p, "EJECUTANDO") THEN k.ecCopia[p]
                            ELSE k.ec[p]
<1>. DEFINE p == k.enCpu[c]
            l == [k EXCEPT !.enCpu[c] = 0]
            m == RecibirPcb(k, c)
<1>1. p \in Pid /\ 0 \in 0..MaxPid
  BY RecibirPcbBien, MaxPidAssumption
<1>2. Bien(l)
  BY <1>1, CampoBien
<1>3. /\ l.cola = k.cola /\ l.activa = k.activa /\ l.avisos = k.avisos
      /\ l.consolas = k.consolas /\ l.ec = k.ec /\ l.ecCopia = k.ecCopia
  BY DEF Bien, Sistema
<1>4. m = ReemplazarPcbEnEjecutando(l, p)
  BY DEF RecibirPcb
<1>. HIDE DEF p, l, m
<1>5. /\ m.cola = l.cola /\ m.activa = l.activa
      /\ m.avisos = l.avisos /\ m.consolas = l.consolas
      /\ m.ec = [l.ec EXCEPT ![p] = IF EnCola(l, p, "EJECUTANDO")
                                    THEN l.ecCopia[p] ELSE @]
  BY <1>2, <1>4 DEF ReemplazarPcbEnEjecutando, Bien, Sistema
<1>6. m.ec[p] = IF EnCola(l, p, "EJECUTANDO") THEN l.ecCopia[p] ELSE l.ec[p]
  BY <1>1, <1>2, <1>5 DEF Bien, Sistema
<1>7. m.ec[p] = IF EnCola(k, p, "EJECUTANDO") THEN k.ecCopia[p] ELSE k.ec[p]
  BY <1>3, <1>6 DEF EnCola
<1> QED
  BY <1>3, <1>5, <1>7 DEF m, p

\* The CPU gives its process back and the process is finished.
LEMMA DevueltoFinalizado ==
    ASSUME NEW k, Bien(k), NEW c \in Cpus, k.enCpu[c] # 0,
           Adentro(k, k.enCpu[c])
    PROVE  LET p == k.enCpu[c]
               f == EjecutandoAFinalizados(RecibirPcb(k, c), p)
           IN  /\ Ajeno(k, f, p)
               /\ f.avisos = k.avisos /\ f.consolas = k.consolas
               /\ k.activa =>
                    /\ Fin(f, p)
                    /\ \/ ~Fin(k, p) /\ f.ec[p] = k.ecCopia[p]
                       \/ Fin(k, p) /\ Tiene(k, p) /\ f.ec[p] = k.ec[p]
<1>. DEFINE p == k.enCpu[c]
            r == RecibirPcb(k, c)
            f == EjecutandoAFinalizados(r, p)
<1>1. p \in Pid /\ Bien(r) /\ Ajeno(k, r, p) /\ Tiene(k, p)
  BY RecibirPcbBien, RecibirAjeno DEF Tiene
<1>2. /\ r.cola = k.cola /\ r.activa = k.activa
      /\ r.avisos = k.avisos /\ r.consolas = k.consolas
      /\ r.ec[p] = IF EnCola(k, p, "EJECUTANDO") THEN k.ecCopia[p]
                   ELSE k.ec[p]
  BY RecibirHace
<1>. HIDE DEF p, r
<1>3. EnCola(k, p, "EJECUTANDO") \/ Fin(k, p)
  BY DEF Adentro, Fin, p
<1>4. EnCola(k, p, "EJECUTANDO") => ~Fin(k, p)
  BY UnaCola DEF Fin, Estado
<1>5. "TERMINADO" \in Estado /\ "ERROR_DE_EJECUCION" \in ExitCode
  BY DEF Estado, ExitCode
<1>6. Ajeno(r, f, p)
  BY <1>1, <1>5, PasosAjenos
<1>7. /\ f.ec = r.ec
      /\ IF Mueve(r, p, "EJECUTANDO") THEN Traslado(r, f, p, "TERMINADO")
         ELSE f = r
  BY <1>1, <1>5, FinalizarTraslada
<1>. HIDE DEF f
<1>8. f.avisos = r.avisos /\ f.consolas = r.consolas
  BY <1>7 DEF Traslado, MismoResto
<1>9. ASSUME k.activa
      PROVE  Fin(f, p)
  <2>1. CASE EnCola(k, p, "EJECUTANDO")
    BY <1>1, <1>2, <1>5, <1>7, <1>9, <2>1 DEF Mueve, EnCola, Traslado, Fin
  <2>2. CASE ~EnCola(k, p, "EJECUTANDO")
    BY <1>2, <1>3, <1>7, <2>2 DEF Mueve, EnCola, Fin
  <2> QED
    BY <2>1, <2>2
<1>10. Ajeno(k, f, p)
  BY <1>1, <1>6, AjenoTransitiva
<1>11. \/ ~Fin(k, p) /\ f.ec[p] = k.ecCopia[p]
       \/ Fin(k, p) /\ Tiene(k, p) /\ f.ec[p] = k.ec[p]
  BY <1>1, <1>2, <1>3, <1>4, <1>7
<1> QED
  BY <1>2, <1>8, <1>9, <1>10, <1>11 DEF f, r, p

\* A process with a kill flag is finished by the CPU that runs it.
LEMMA MatarEnCpuCuadra ==
    ASSUME NEW k, Bien(k), k.activa, NEW c \in Cpus, k.enCpu[c] # 0, NEW x,
           Adentro(k, k.enCpu[c])
    PROVE  Cuadra(k, MatarEnCpu(k, c, x), x)
<1>. DEFINE p == k.enCpu[c]
            f == EjecutandoAFinalizados(RecibirPcb(k, c), p)
            e == k.ecCopia[p]
            a == InformarAConsola(PedirAMemoriaFinalizarProceso(f, p), p, e)
            n == PasarProximoProcDeNewAReady(a, x)
            l == LiberarCpu(n, c)
<1>1. Bien(RecibirPcb(k, c)) /\ p \in Pid
  BY RecibirPcbBien
<1>2. e \in ExitCode
  BY <1>1 DEF Bien, Sistema
<1>3. /\ Ajeno(k, f, p) /\ f.avisos = k.avisos /\ f.consolas = k.consolas
      /\ Fin(f, p)
      /\ \/ ~Fin(k, p) /\ f.ec[p] = e
         \/ Fin(k, p) /\ Tiene(k, p) /\ f.ec[p] = k.ec[p]
  BY DevueltoFinalizado
<1>. HIDE DEF p, e
<1>4. Bien(f)
  BY <1>1, <1>2, FinalizarBien
<1>. HIDE DEF f
<1>5. Bien(a) /\ Cuadra(k, a, x)
  BY <1>1, <1>2, <1>3, <1>4, AvisarBien, AvisadoCuadra
<1>. HIDE DEF a
<1>6. Bien(n) /\ Cuadra(a, n, x)
  BY <1>5, PasarProximoBien, PasarProximoCuadra
<1>. HIDE DEF n
<1>7. Bien(l) /\ Cuadra(n, l, x)
  BY <1>6, LiberarCpuBien, CpuAjena, AjenoCuadra
<1>. HIDE DEF l
<1>8. Cuadra(k, l, x)
  BY <1>5, <1>6, <1>7, CuadraTransitiva
<1>9. l.activa
  BY <1>8 DEF Cuadra
<1>10. Cuadra(l, EjecutarSiguientePcbEnCpu(l, c), x)
  BY <1>7, <1>9, EjecutarSiguienteAjeno, AjenoCuadra
<1>11. Cuadra(k, EjecutarSiguientePcbEnCpu(l, c), x)
  BY <1>8, <1>10, CuadraTransitiva
<1> QED
  BY <1>11, Zenon DEF MatarEnCpu, l, n, a, f, e, p

\* The kill flag that was found is dropped.
LEMMA QuitarFlagAjeno ==
    ASSUME NEW k, Bien(k), NEW p, NEW x
    PROVE  Ajeno(k, QuitarFlag(k, p, x), 0)
<1>. DEFINE m == QuitarFlag(k, p, x)
<1>1. /\ m.maxPID = k.maxPID /\ m.activa = k.activa /\ m.cola = k.cola
      /\ m.enCpu = k.enCpu /\ m.modo = k.modo /\ m.ec = k.ec
      /\ m.consolas = k.consolas /\ m.paginas = k.paginas
      /\ m.avisos = k.avisos
  BY DEF QuitarFlag, Bien, Sistema
<1>. HIDE DEF m
<1>2. Ajeno(k, m, 0)
  BY <1>1, MismoAjeno
<1> QED
  BY <1>2 DEF m

\* The quantum of a CPU is over, or not yet: nobody ends.
LEMMA RoundRobinAjeno ==
    ASSUME NEW k, Bien(k), k.activa, NEW c \in Cpus, k.enCpu[c] # 0,
           NEW x \in Exterior, k.modo[c] # "abortando"
    PROVE  Ajeno(k, RoundRobin(k, c, x), 0)
<1>. DEFINE cpu == CpuDelQuantum(k, c, x)
            p == k.enCpu[c]
            r == RecibirPcb(k, c)
            l == EjecutandoAListos(r, p)
            m == [l EXCEPT !.quantum[cpu] = 1]
            n == [k EXCEPT !.quantum[cpu] = @ + 1]
<1>1. cpu \in Cpus \cup {NoCpu}
  BY CpuDelQuantumTipo
<1>2. Bien(r) /\ p \in Pid /\ Ajeno(k, r, 0)
  BY RecibirPcbBien, RecibirAjeno
<1>. HIDE DEF cpu, p, r
<1>3. Bien(l) /\ Ajeno(r, l, 0)
  <2>1. "NO_SE_PUDO_ASIGNAR_RECURSO" \in ExitCode
    BY DEF ExitCode
  <2> QED
    BY <1>2, <2>1, PasosBien, PasosAjenos
<1>. HIDE DEF l
<1>4. CASE cpu = NoCpu
  <2>1. Ajeno(k, [k EXCEPT !.vivo = "caido"], 0)
    BY CpuAjena
  <2>2. RoundRobin(k, c, x) = [k EXCEPT !.vivo = "caido"]
    BY <1>4 DEF RoundRobin, cpu
  <2> QED
    BY <2>1, <2>2
<1>5. CASE cpu # NoCpu
  <2>1. cpu \in Cpus
    BY <1>1, <1>5
  <2>2. Bien(m) /\ Ajeno(l, m, 0)
    BY <1>3, <2>1, CampoBien, CpuAjena
  <2>3. m.activa
    BY <1>2, <1>3, <2>2 DEF Ajeno
  <2>4. Ajeno(m, EjecutarSiguientePcbEnCpu(m, cpu), 0)
    BY <2>1, <2>2, <2>3, EjecutarSiguienteAjeno
  <2>5. Ajeno(k, EjecutarSiguientePcbEnCpu(m, cpu), 0)
    <3>1. Ajeno(k, m, 0)
      BY <1>2, <1>3, <2>2, AjenoTransitiva
    <3> QED
      BY <2>4, <3>1, AjenoTransitiva
  <2>6. Ajeno(k, n, 0)
    <3>1. n = [k EXCEPT !.quantum[cpu] = k.quantum[cpu] + 1]
      BY DEF Bien, Sistema
    <3> QED
      BY <2>1, <3>1, CpuAjena
  <2>7. RoundRobin(k, c, x) =
          IF k.quantum[cpu] >= Quantum
          THEN EjecutarSiguientePcbEnCpu(m, cpu) ELSE n
    BY <1>5 DEF RoundRobin, cpu, p, l, r
  <2>. HIDE DEF m, n
  <2> QED
    BY <2>5, <2>6, <2>7
<1> QED
  BY <1>4, <1>5

\* planificar(cpuSocket).
LEMMA PlanificarCpuCuadra ==
    ASSUME NEW k, Bien(k), NEW c \in Cpus, k.enCpu[c] # 0,
           NEW x \in Exterior, Adentro(k, k.enCpu[c]),
           k.modo[c] # "abortando"
    PROVE  Cuadra(k, PlanificarCpu(k, c, x), x)
<1>. DEFINE s == [k EXCEPT !.modo[c] = "activa"]
            f == QuitarFlag(s, k.pidEn[c], x)
<1>1. Cuadra(k, [k EXCEPT !.modo[c] = "esperando"], x)
  BY ModoAjeno, AjenoCuadra DEF ModoCpu
<1>2. Bien(s) /\ Ajeno(k, s, 0)
  BY CampoBien, ModoAjeno DEF ModoCpu
<1>3. /\ s.enCpu = k.enCpu /\ s.cola = k.cola /\ s.activa = k.activa
      /\ s.modo[c] # "abortando"
  BY DEF Bien, Sistema
<1>. HIDE DEF s
<1>5. Bien(f) /\ Ajeno(s, f, 0)
  BY <1>2, QuitarFlagBien, QuitarFlagAjeno
<1>6. f.enCpu = s.enCpu /\ f.activa = s.activa /\ f.cola = s.cola
  BY <1>2 DEF QuitarFlag, Bien, Sistema
<1>. HIDE DEF f
<1>7. CASE ~k.activa
  <2>1. PlanificarCpu(k, c, x) = [k EXCEPT !.modo[c] = "esperando"]
    BY <1>7 DEF PlanificarCpu
  <2> QED
    BY <1>1, <2>1
<1>8. CASE k.activa
  <2>1. PlanificarCpu(k, c, x) =
          CASE TengoQueMatar(k, k.pidEn[c], x) -> MatarEnCpu(f, c, x)
            [] ~TengoQueMatar(k, k.pidEn[c], x) /\ Algoritmo = "RR" ->
                 RoundRobin(s, c, x)
            [] OTHER -> s
    BY <1>8 DEF PlanificarCpu, f, s
  <2>2. Cuadra(k, s, x) /\ Cuadra(s, f, x)
    BY <1>2, <1>5, AjenoCuadra
  <2>3. Adentro(f, f.enCpu[c])
    BY <1>3, <1>6 DEF Adentro, EnCola
  <2>4. Cuadra(f, MatarEnCpu(f, c, x), x)
    BY <1>3, <1>5, <1>6, <1>8, <2>3, MatarEnCpuCuadra
  <2>5. Cuadra(k, MatarEnCpu(f, c, x), x)
    BY <2>2, <2>4, CuadraTransitiva
  <2>6. Cuadra(s, RoundRobin(s, c, x), x)
    BY <1>2, <1>3, <1>8, RoundRobinAjeno, AjenoCuadra
  <2>7. Cuadra(k, RoundRobin(s, c, x), x)
    BY <2>2, <2>6, CuadraTransitiva
  <2> QED
    BY <2>1, <2>2, <2>5, <2>7
<1> QED
  BY <1>7, <1>8

\* The CPU gives back a process that ended or that it aborted; k is the
\* state before the CPU's mode changed.
LEMMA DevueltoCuadra ==
    ASSUME NEW k, Bien(k), NEW c \in Cpus, k.enCpu[c] # 0,
           Adentro(k, k.enCpu[c]), NEW code \in ExitCode, NEW x,
           NEW k1, Bien(k1), Ajeno(k, k1, k.enCpu[c]),
           k1.enCpu = k.enCpu, k1.cola = k.cola, k1.ec = k.ec,
           k1.avisos = k.avisos, k1.consolas = k.consolas
    PROVE  LET p == k1.enCpu[c]
               r == RecibirPcb([k1 EXCEPT !.ecCopia[p] = code], c)
               l == LiberarCpu([EjecutandoAFinalizados(r, p) EXCEPT
                                   !.pidEn[c] = 0, !.quantum[c] = 0], c)
           IN  Cuadra(k, InformarAConsola(
                   PedirAMemoriaFinalizarProceso(l, p), p, code), x)
<1>. DEFINE p == k1.enCpu[c]
            m == [k1 EXCEPT !.ecCopia[p] = code]
            r == RecibirPcb(m, c)
            f == EjecutandoAFinalizados(r, p)
            g == [f EXCEPT !.pidEn[c] = 0, !.quantum[c] = 0]
            l == LiberarCpu(g, c)
            a == InformarAConsola(PedirAMemoriaFinalizarProceso(l, p), p, code)
<1>1. p \in Pid /\ p = k.enCpu[c]
  BY RecibirPcbBien
<1>2. /\ m.enCpu = k.enCpu /\ m.cola = k.cola /\ m.ec = k.ec
      /\ m.avisos = k.avisos /\ m.consolas = k.consolas
      /\ m.activa = k1.activa
      /\ m.ecCopia = [k1.ecCopia EXCEPT ![p] = code]
  BY DEF Bien, Sistema
<1>2a. m.ecCopia[p] = code /\ k1.activa = k.activa
  BY <1>1, <1>2 DEF Bien, Sistema, Ajeno
<1>. HIDE DEF p
<1>3. Bien(m) /\ Ajeno(k1, m, 0)
  BY <1>1, CambioBien, EscribirAjeno
<1>. HIDE DEF m
<1>4. Bien(r)
  BY <1>1, <1>2, <1>3, RecibirPcbBien
<1>5. Bien(f)
  BY <1>1, <1>4, FinalizarBien
<1>6. /\ Ajeno(m, f, p)
      /\ f.avisos = m.avisos /\ f.consolas = m.consolas
      /\ m.activa =>
           /\ Fin(f, p)
           /\ \/ ~Fin(m, p) /\ f.ec[p] = m.ecCopia[p]
              \/ Fin(m, p) /\ Tiene(m, p) /\ f.ec[p] = m.ec[p]
  <2>1. m.enCpu[c] = p /\ m.enCpu[c] # 0
    BY <1>1, <1>2
  <2>2. Adentro(m, m.enCpu[c])
    BY <1>1, <1>2 DEF Adentro, EnCola
  <2> QED
    BY <1>3, <2>1, <2>2, DevueltoFinalizado DEF f, r
<1>. HIDE DEF f, r
<1>7. Bien(g) /\ Ajeno(f, g, 0)
  <2>1. 0 \in 0..MaxPid /\ 0 \in Nat
    BY MaxPidAssumption
  <2> QED
    BY <1>5, <2>1, CampoBien, CpuAjena
<1>8. /\ g.cola = f.cola /\ g.ec = f.ec /\ g.avisos = f.avisos
      /\ g.consolas = f.consolas
  BY <1>5 DEF Bien, Sistema
<1>. HIDE DEF g
<1>9. Bien(l) /\ Ajeno(g, l, 0)
  BY <1>7, LiberarCpuBien, CpuAjena
<1>10. /\ l.cola = g.cola /\ l.ec = g.ec /\ l.avisos = g.avisos
       /\ l.consolas = g.consolas
  BY <1>7 DEF LiberarCpu, Bien, Sistema
<1>. HIDE DEF l
<1>11. Ajeno(k, l, p)
  <2>1. Ajeno(k, m, p)
    BY <1>1, <1>3, AjenoTransitiva
  <2>2. Ajeno(k, f, p)
    BY <1>6, <2>1, AjenoTransitiva
  <2>3. Ajeno(k, g, p)
    BY <1>7, <2>2, AjenoTransitiva
  <2> QED
    BY <1>9, <2>3, AjenoTransitiva
<1>12. l.avisos = k.avisos /\ l.consolas = k.consolas
  BY <1>2, <1>6, <1>8, <1>10
<1>13. k.activa => /\ Fin(l, p)
                   /\ \/ ~Fin(k, p) /\ l.ec[p] = code
                      \/ Fin(k, p) /\ Tiene(k, p) /\ l.ec[p] = k.ec[p]
  <2>1. Fin(l, p) <=> Fin(f, p)
    BY <1>8, <1>10 DEF Fin, EnCola
  <2>2. (Fin(m, p) <=> Fin(k, p)) /\ (Tiene(m, p) <=> Tiene(k, p))
    BY <1>2 DEF Fin, EnCola, Tiene
  <2> QED
    BY <1>2, <1>2a, <1>6, <1>8, <1>10, <2>1, <2>2
<1>14. Cuadra(k, a, x)
  BY <1>1, <1>9, <1>11, <1>12, <1>13, AvisadoCuadra
<1> QED
  BY <1>14, Zenon DEF a, l, g, f, r, m, p

\* A program ends.
LEMMA ProgramaTerminadoCuadra ==
    ASSUME NEW k, Bien(k), NEW c \in Cpus, k.enCpu[c] # 0,
           Adentro(k, k.enCpu[c]), NEW x
    PROVE  Cuadra(k, ProgramaTerminado(k, c, x), x)
<1>. DEFINE p == k.enCpu[c]
            code == "FINALIZADO_CORRECTAMENTE"
            r == RecibirPcb([k EXCEPT !.ecCopia[p] = code], c)
            l == LiberarCpu([EjecutandoAFinalizados(r, p) EXCEPT
                                !.pidEn[c] = 0, !.quantum[c] = 0], c)
            a == InformarAConsola(PedirAMemoriaFinalizarProceso(l, p), p, code)
            n == PasarProximoProcDeNewAReady(a, x)
<1>1. code \in ExitCode /\ Ajeno(k, k, p)
  BY AjenoIgual DEF ExitCode
<1>2. Bien(a) /\ Cuadra(k, a, x)
  BY <1>1, DevueltoBien, DevueltoCuadra
<1>3. ProgramaTerminado(k, c, x) = PlanificarSiHayListos(n)
  BY Zenon DEF ProgramaTerminado
<1>. HIDE DEF a
<1>4. Bien(n) /\ Cuadra(a, n, x)
  BY <1>2, PasarProximoBien, PasarProximoCuadra
<1>. HIDE DEF n
<1>5. Cuadra(n, PlanificarSiHayListos(n), x)
  BY <1>4, PlanificarLibreAjeno, AjenoCuadra
<1>6. Cuadra(k, n, x)
  BY <1>2, <1>4, CuadraTransitiva
<1> QED
  BY <1>3, <1>5, <1>6, CuadraTransitiva

\* A CPU aborts its program, and goes on or closes its socket.
LEMMA AbortarDeCpuCuadra ==
    ASSUME NEW k, Bien(k), NEW c \in Cpus, k.enCpu[c] # 0,
           Adentro(k, k.enCpu[c]), NEW code \in ExitCode, NEW x,
           NEW o \in ModoCpu \ {"abortando"}
    PROVE  Cuadra(k, AbortarDeCpu([k EXCEPT !.modo[c] = o], c, code, x), x)
<1>. DEFINE m == [k EXCEPT !.modo[c] = o]
            p == m.enCpu[c]
            r == RecibirPcb([m EXCEPT !.ecCopia[p] = code], c)
            l == LiberarCpu([EjecutandoAFinalizados(r, p) EXCEPT
                                !.pidEn[c] = 0, !.quantum[c] = 0], c)
            a == InformarAConsola(PedirAMemoriaFinalizarProceso(l, p), p, code)
<1>1. k.enCpu[c] \in Pid
  BY RecibirPcbBien
<1>2. Bien(m) /\ Ajeno(k, m, k.enCpu[c])
  BY <1>1, CampoBien, ModoAjeno
<1>3. /\ m.enCpu = k.enCpu /\ m.cola = k.cola /\ m.ec = k.ec
      /\ m.avisos = k.avisos /\ m.consolas = k.consolas /\ m.enCpu[c] # 0
  BY DEF Bien, Sistema
<1>. HIDE DEF m
<1>4. Bien(a) /\ Cuadra(k, a, x)
  BY <1>2, <1>3, DevueltoBien, DevueltoCuadra
<1>5. AbortarDeCpu(m, c, code, x) = PasarProximoProcDeNewAReady(a, x)
  BY Zenon DEF AbortarDeCpu
<1>. HIDE DEF a
<1>6. Cuadra(a, PasarProximoProcDeNewAReady(a, x), x)
  BY <1>4, PasarProximoCuadra
<1>7. Cuadra(k, AbortarDeCpu(m, c, code, x), x)
  BY <1>4, <1>5, <1>6, CuadraTransitiva
<1> QED
  BY <1>7 DEF m

\* A WAIT on a process with a kill flag.
LEMMA WaitMataCuadra ==
    ASSUME NEW k, Bien(k), NEW c \in Cpus, k.enCpu[c] # 0,
           Adentro(k, k.enCpu[c]), NEW s \in Sems, NEW x
    PROVE  Cuadra(k, WaitMata(k, c, s, x), x)
<1>. DEFINE p == k.enCpu[c]
            r == RecibirPcb(k, c)
            f == EjecutandoAFinalizados(r, p)
            e == k.ecCopia[p]
            a == InformarAConsola(PedirAMemoriaFinalizarProceso(f, p), p, e)
            n == PasarProximoProcDeNewAReady(a, x)
            l == LiberarCpu(n, c)
<1>1. Bien(r) /\ p \in Pid
  BY RecibirPcbBien
<1>2. e \in ExitCode
  BY <1>1 DEF Bien, Sistema
<1>3. /\ Ajeno(k, f, p) /\ f.avisos = k.avisos /\ f.consolas = k.consolas
      /\ k.activa => /\ Fin(f, p)
                     /\ \/ ~Fin(k, p) /\ f.ec[p] = e
                        \/ Fin(k, p) /\ Tiene(k, p) /\ f.ec[p] = k.ec[p]
  BY DevueltoFinalizado
<1>4. AFinalizados(r, p, "EJECUTANDO") = f
  BY DEF AFinalizados, EjecutandoAFinalizados
<1>. HIDE DEF p, e, r
<1>5. Bien(f)
  BY <1>1, <1>2, FinalizarBien
<1>. HIDE DEF f
<1>6. Bien(a) /\ Cuadra(k, a, x)
  BY <1>1, <1>2, <1>3, <1>5, AvisarBien, AvisadoCuadra
<1>. HIDE DEF a
<1>7. Bien(n) /\ Cuadra(a, n, x)
  BY <1>6, PasarProximoBien, PasarProximoCuadra
<1>. HIDE DEF n
<1>8. Bien(l) /\ Cuadra(n, l, x)
  BY <1>7, LiberarCpuBien, CpuAjena, AjenoCuadra
<1>9. WaitMata(k, c, s, x) = [l EXCEPT !.valor[s] = @ + 1]
  BY <1>4, Zenon DEF WaitMata, l, n, a, r, e, p
<1>. HIDE DEF l
<1>10. [l EXCEPT !.valor[s] = @ + 1] = [l EXCEPT !.valor[s] = l.valor[s] + 1]
  BY <1>8, Zenon
<1>11. Cuadra(l, [l EXCEPT !.valor[s] = l.valor[s] + 1], x)
  BY <1>8, CpuAjena, AjenoCuadra
<1>12. Cuadra(k, l, x)
  BY <1>6, <1>7, <1>8, CuadraTransitiva
<1>13. Cuadra(k, [l EXCEPT !.valor[s] = l.valor[s] + 1], x)
  BY <1>11, <1>12, CuadraTransitiva
<1> QED
  BY <1>9, <1>10, <1>13

\* A WAIT that blocks its process.
LEMMA WaitBloqueaAjeno ==
    ASSUME NEW k, Bien(k), NEW c \in Cpus, k.enCpu[c] # 0, NEW s \in Sems,
           k.modo[c] # "abortando"
    PROVE  Ajeno(k, WaitBloquea(k, c, s), 0)
<1>. DEFINE p == k.enCpu[c]
            m == [k EXCEPT !.espera[p] = s]
            l == LiberarCpu(m, c)
            r == RecibirPcb(l, c)
            b == EjecutandoABloqueados(r, p)
<1>1. p \in Pid
  BY RecibirPcbBien
<1>2. l.enCpu[c] # 0 /\ l.modo[c] # "abortando"
  BY DEF LiberarCpu, Bien, Sistema
<1>. HIDE DEF p
<1>3. Bien(m) /\ Ajeno(k, m, 0)
  BY <1>1, CampoBien, CpuAjena
<1>. HIDE DEF m
<1>4. Bien(l) /\ Ajeno(m, l, 0)
  BY <1>3, LiberarCpuBien, CpuAjena
<1>. HIDE DEF l
<1>5. Bien(r) /\ Ajeno(l, r, 0)
  BY <1>2, <1>4, RecibirPcbBien, RecibirAjeno
<1>. HIDE DEF r
<1>6. Ajeno(r, b, 0)
  <2>1. "NO_SE_PUDO_ASIGNAR_RECURSO" \in ExitCode
    BY DEF ExitCode
  <2> QED
    BY <1>1, <1>5, <2>1, PasosAjenos
<1>. HIDE DEF b
<1>7. Ajeno(k, l, 0)
  BY <1>3, <1>4, AjenoTransitiva
<1>8. Ajeno(k, r, 0)
  BY <1>5, <1>7, AjenoTransitiva
<1>9. Ajeno(k, b, 0)
  BY <1>6, <1>8, AjenoTransitiva
<1> QED
  BY <1>9, Zenon DEF WaitBloquea, b, r, l, m, p

\* A WAIT.
LEMMA WaitCuadra ==
    ASSUME NEW k, Bien(k), NEW c \in Cpus, k.enCpu[c] # 0,
           Adentro(k, k.enCpu[c]), k.modo[c] # "abortando",
           NEW s \in Sems, NEW x
    PROVE  Cuadra(k, Wait(k, c, s, x), x)
<1>. DEFINE p == k.enCpu[c]
            v == k.valor[s] - 1
            t == [k EXCEPT !.valor[s] = v]
            f == QuitarFlag(t, p, x)
            w == WaitMata(f, c, s, x)
            b == WaitBloquea(t, c, s)
<1>1. v \in Int /\ t = [k EXCEPT !.valor[s] = @ - 1]
  BY DEF Bien, Sistema
<1>. HIDE DEF v
<1>2. Bien(t) /\ Ajeno(k, t, 0)
  BY <1>1, CampoBien, CpuAjena
<1>3. t.enCpu = k.enCpu /\ t.modo = k.modo /\ t.cola = k.cola
  BY DEF Bien, Sistema
<1>4. Wait(k, c, s, x) =
        CASE k.valor[s] > 0 -> t
          [] k.valor[s] <= 0 /\ TengoQueMatar(k, p, x) ->
                PlanificarSiHayListos(w)
          [] OTHER -> PlanificarSiHayListos(b)
  <2>1. [k EXCEPT !.valor[s] = @ - 1] = t
    BY <1>1
  <2>. HIDE DEF t
  <2> QED
    BY <2>1 DEF Wait, p, f
<1>. HIDE DEF t
<1>5. Bien(f) /\ Ajeno(t, f, 0)
  BY <1>2, QuitarFlagBien, QuitarFlagAjeno
<1>6. f.enCpu = t.enCpu /\ f.cola = t.cola
  BY <1>2 DEF QuitarFlag, Bien, Sistema
<1>7. k.valor[s] \in Int
  BY DEF Bien, Sistema
<1>. HIDE DEF f
<1>8. f.enCpu[c] # 0 /\ Adentro(f, f.enCpu[c])
  BY <1>3, <1>6 DEF Adentro, EnCola
<1>9. Cuadra(k, t, x) /\ Cuadra(t, f, x)
  BY <1>2, <1>5, AjenoCuadra
<1>10. Cuadra(k, PlanificarSiHayListos(w), x)
  <2>1. Bien(w) /\ Cuadra(f, w, x)
    BY <1>5, <1>8, WaitMataBien, WaitMataCuadra
  <2>. HIDE DEF w
  <2>2. Cuadra(w, PlanificarSiHayListos(w), x)
    BY <2>1, PlanificarLibreAjeno, AjenoCuadra
  <2> QED
    BY <1>9, <2>1, <2>2, CuadraTransitiva
<1>11. Cuadra(k, PlanificarSiHayListos(b), x)
  <2>1. Bien(b) /\ Ajeno(t, b, 0)
    BY <1>2, <1>3, WaitBloqueaBien, WaitBloqueaAjeno
  <2>. HIDE DEF b
  <2>2. Cuadra(b, PlanificarSiHayListos(b), x)
    BY <2>1, PlanificarLibreAjeno, AjenoCuadra
  <2>3. Cuadra(t, b, x)
    BY <2>1, AjenoCuadra
  <2> QED
    BY <1>9, <2>2, <2>3, CuadraTransitiva
<1>. HIDE DEF p, w, b
<1> QED
  BY <1>4, <1>7, <1>9, <1>10, <1>11

\* A SIGNAL.
LEMMA SignalAjeno ==
    ASSUME NEW k, Bien(k), NEW c \in Cpus, k.modo[c] # "abortando",
           NEW s \in Sems
    PROVE  Ajeno(k, Signal(k, c, s), 0)
<1>. DEFINE v == k.valor[s] + 1
            t == [k EXCEPT !.valor[s] = v]
            m == [t EXCEPT !.modo[c] = "sentencia"]
            q == k.cola["BLOQUEADO"]
            I == {j \in 1..Len(q) : k.espera[q[j]] = s}
            i == IF I # {} THEN Min(I) ELSE 0
            p == q[i]
            b == BloqueadoAListo(m, p)
            l == [b EXCEPT !.espera[p] = NoSem]
<1>1. v \in Int
      /\ m = [k EXCEPT !.valor[s] = @ + 1, !.modo[c] = "sentencia"]
  BY DEF Bien, Sistema
<1>2. Signal(k, c, s) =
        IF i = 0 THEN m
        ELSE IF k.libres # <<>> THEN PlanificarLibre(l) ELSE l
  BY <1>1, Zenon DEF Signal, SelectInSeq
<1>. HIDE DEF v
<1>3. Bien(t) /\ Ajeno(k, t, 0) /\ t.modo = k.modo
  <2>1. t.modo = k.modo
    BY DEF Bien, Sistema
  <2> QED
    BY <1>1, <2>1, CampoBien, CpuAjena
<1>. HIDE DEF t
<1>4. Bien(m) /\ Ajeno(t, m, 0)
  BY <1>3, CampoBien, ModoAjeno DEF ModoCpu
<1>5. Ajeno(k, m, 0)
  BY <1>3, <1>4, AjenoTransitiva
<1>6. q \in Seq(Pid)
  BY DEF Bien, Sistema, Estado
<1>. HIDE DEF m, q
<1>7. CASE I = {}
  BY <1>2, <1>5, <1>7
<1>8. CASE I # {}
  <2>1. I \subseteq Nat
    OBVIOUS
  <2>2. Min(I) \in I
    BY <1>8, <2>1, MinimoExiste
  <2>3. i \in 1..Len(q)
    BY <1>8, <2>2
  <2>. HIDE DEF i
  <2>4. p \in Pid
    BY <1>6, <2>3, ElementOfSeq
  <2>. HIDE DEF p
  <2>5. Bien(b) /\ Ajeno(m, b, 0)
    <3>1. "NO_SE_PUDO_ASIGNAR_RECURSO" \in ExitCode
      BY DEF ExitCode
    <3> QED
      BY <1>4, <2>4, <3>1, PasosBien, PasosAjenos
  <2>. HIDE DEF b
  <2>6. Bien(l) /\ Ajeno(b, l, 0)
    BY <2>4, <2>5, CampoBien, CpuAjena
  <2>. HIDE DEF l
  <2>7. Ajeno(l, PlanificarLibre(l), 0)
    BY <2>6, PlanificarLibreAjeno
  <2>8. Ajeno(k, b, 0)
    BY <1>5, <2>5, AjenoTransitiva
  <2>9. Ajeno(k, l, 0)
    BY <2>6, <2>8, AjenoTransitiva
  <2>10. Ajeno(k, PlanificarLibre(l), 0)
    BY <2>7, <2>9, AjenoTransitiva
  <2> QED
    BY <1>2, <1>5, <2>9, <2>10
<1> QED
  BY <1>7, <1>8

\* A request for more memory than a page: its CPU is told to abort the
\* process that was finished.
LEMMA PedidoBloqueGrandeDeja ==
    ASSUME NEW k, Bien(k), NEW c \in Cpus, k.enCpu[c] # 0,
           k.pidEn[c] = k.enCpu[c]
    PROVE  LET m == PedidoBloqueGrande(k, c) IN
           /\ TodosSinPaginas(k) => TodosSinPaginas(m)
           /\ TodosEnterados(k) => TodosEnterados(m)
<1>. DEFINE p == k.pidEn[c]
            code == "MALLOC_MAYOR_A_PAGESIZE"
            e == [k EXCEPT !.ec[p] = code]
            f == EjecutandoAFinalizados(e, p)
            a == IF p \in k.consolas THEN Append(f.avisos[p], code)
                 ELSE f.avisos[p]
            m == [f EXCEPT !.avisos[p] = a, !.modo[c] = "abortando"]
<1>1. CASE ~BuscarPcb(k, p)
  <2>1. Ajeno(k, [k EXCEPT !.vivo = "caido"], 0)
    BY CpuAjena
  <2>2. Cuadra(k, [k EXCEPT !.vivo = "caido"], 0)
    BY <2>1, AjenoCuadra
  <2> QED
    BY <1>1, <2>2 DEF PedidoBloqueGrande, Cuadra
<1>2. CASE BuscarPcb(k, p)
  <2>1. p \in Pid /\ k.enCpu[c] = p /\ code \in ExitCode
    BY RecibirPcbBien DEF ExitCode
  <2>2. PedidoBloqueGrande(k, c) = m
    <3>1. PedidoBloqueGrande(k, c) =
            [f EXCEPT !.modo[c] = "abortando",
                !.avisos[p] = IF p \in k.consolas THEN Append(@, code) ELSE @]
      BY <1>2 DEF PedidoBloqueGrande
    <3>. HIDE DEF p, code, f
    <3> QED
      BY <3>1
  <2>3. Bien(e) /\ Ajeno(k, e, p)
    BY <2>1, CambioBien, EscribirAjeno
  <2>. HIDE DEF p, code
  <2>4. e.enCpu = k.enCpu /\ e.modo = k.modo /\ e.paginas = k.paginas
        /\ e.maxPID = k.maxPID
    BY DEF Bien, Sistema
  <2>. HIDE DEF e
  <2>5. Bien(f) /\ Ajeno(e, f, p)
    BY <2>1, <2>3, FinalizarBien, PasosAjenos
  <2>6. /\ f.enCpu = e.enCpu /\ f.modo = e.modo /\ f.paginas = e.paginas
        /\ f.maxPID = e.maxPID
    BY <2>1, <2>3, FinalizarTraslada DEF Traslado, MismoResto
  <2>. HIDE DEF f
  <2>7. Ajeno(k, f, p)
    BY <2>3, <2>5, AjenoTransitiva
  <2>. HIDE DEF a
  <2>8. /\ m.maxPID = f.maxPID /\ m.cola = f.cola /\ m.enCpu = f.enCpu
        /\ m.ec = f.ec /\ m.consolas = f.consolas /\ m.paginas = f.paginas
        /\ m.avisos = [f.avisos EXCEPT ![p] = a]
        /\ m.modo = [f.modo EXCEPT ![c] = "abortando"]
    BY <2>5 DEF Bien, Sistema
  <2>9. /\ f.avisos \in [Pid -> Seq(ExitCode)]
        /\ f.modo \in [Cpus -> ModoCpu]
    BY <2>5 DEF Bien, Sistema
  <2>. HIDE DEF m
  <2>10. \A d \in Cpus : m.modo[d] = IF d = c THEN "abortando" ELSE f.modo[d]
    BY <2>8, <2>9
  <2>11. \A q, g : EnCola(m, q, g) <=> EnCola(f, q, g)
    BY <2>8 DEF EnCola
  <2>12. ASSUME NEW q \in Pid \ {p}
         PROVE  Intacto(k, m, q)
    <3>1. EnAborto(f, q) => EnAborto(m, q)
      BY <2>8, <2>10 DEF EnAborto
    <3>2. Intacto(f, m, q)
      BY <2>8, <2>9, <2>11, <3>1 DEF Intacto, Fin, Tiene
    <3>3. Intacto(k, f, q)
      BY <2>7 DEF Ajeno
    <3> QED
      BY <3>2, <3>3 DEF Intacto
  <2>13. EnAborto(m, p)
    BY <2>1, <2>4, <2>6, <2>8, <2>10 DEF EnAborto
  <2>14. SinPaginas(k, p) => SinPaginas(m, p)
    BY <2>4, <2>6, <2>8, <2>13 DEF SinPaginas
  <2>15. Enterado(m, p)
    BY <2>13 DEF Enterado
  <2>16. TodosSinPaginas(k) => TodosSinPaginas(m)
    BY <2>1, <2>12, <2>14, IntactoSigue DEF TodosSinPaginas
  <2>17. TodosEnterados(k) => TodosEnterados(m)
    BY <2>12, <2>15, IntactoSigue DEF TodosEnterados
  <2> QED
    BY <2>2, <2>16, <2>17
<1> QED
  BY <1>1, <1>2

\* A CPU is gone: the process the kernel believes on it is finished.
LEMMA TerminarProcesoCuadra ==
    ASSUME NEW k, Bien(k), NEW c \in Cpus, NEW x
    PROVE  Cuadra(k, TerminarProcesoEjecutandoEnCpu(k, c, x), x)
<1>. DEFINE p == k.pidEn[c]
            code == "DESCONEXION_CPU"
            e == [k EXCEPT !.ec[p] = code]
            a == InformarAConsola(PedirAMemoriaFinalizarProceso(e, p), p, code)
            f == EjecutandoAFinalizados(a, p)
<1>1. CASE ~EnCola(k, p, "EJECUTANDO")
  BY <1>1, CuadraIgual DEF TerminarProcesoEjecutandoEnCpu
<1>2. CASE EnCola(k, p, "EJECUTANDO")
  <2>1. p \in Pid
    <3>1. k.cola["EJECUTANDO"] \in Seq(Pid)
      BY DEF Bien, Sistema, Estado
    <3> QED
      BY <1>2, <3>1, ElementOfSeq DEF EnCola, Contains
  <2>2. TerminarProcesoEjecutandoEnCpu(k, c, x) =
          PasarProximoProcDeNewAReady(f, x)
    BY <1>2, Zenon DEF TerminarProcesoEjecutandoEnCpu
  <2>3. code \in ExitCode /\ "TERMINADO" \in Estado
    BY DEF ExitCode, Estado
  <2>4. ~Fin(k, p)
    BY <1>2, UnaCola DEF Fin, Estado
  <2>. HIDE DEF p, code
  <2>5. Bien(e) /\ Ajeno(k, e, p)
    BY <2>1, <2>3, CambioBien, EscribirAjeno
  <2>6. /\ e.cola = k.cola /\ e.activa = k.activa /\ e.ec[p] = code
        /\ e.avisos = k.avisos /\ e.consolas = k.consolas
    BY <2>1 DEF Bien, Sistema
  <2>. HIDE DEF e
  <2>7. Bien(a)
    BY <2>1, <2>3, <2>5, AvisarBien
  <2>8. /\ Ajeno(e, a, p)
        /\ p \notin a.paginas /\ p \notin a.consolas
        /\ a.cola = e.cola /\ a.ec = e.ec /\ a.activa = e.activa
        /\ a.avisos[p] = IF p \in e.consolas THEN Append(e.avisos[p], code)
                         ELSE e.avisos[p]
    BY <2>1, <2>5, AvisarAjeno
  <2>. HIDE DEF a
  <2>9. Bien(f) /\ Ajeno(a, f, p)
    BY <2>1, <2>3, <2>7, FinalizarBien, PasosAjenos
  <2>10. /\ f.ec = a.ec
         /\ IF Mueve(a, p, "EJECUTANDO") THEN Traslado(a, f, p, "TERMINADO")
            ELSE f = a
    BY <2>1, <2>3, <2>7, FinalizarTraslada
  <2>. HIDE DEF f
  <2>11. /\ p \notin f.paginas /\ p \notin f.consolas
         /\ f.avisos = a.avisos
    BY <2>8, <2>10 DEF Traslado, MismoResto
  <2>12. k.activa => Fin(f, p)
    BY <1>2, <2>1, <2>3, <2>6, <2>8, <2>10 DEF Mueve, EnCola, Traslado, Fin, p
  <2>13. Ajeno(k, f, p)
    <3>1. Ajeno(k, a, p)
      BY <2>5, <2>8, AjenoTransitiva
    <3> QED
      BY <2>9, <3>1, AjenoTransitiva
  <2>14. SinPaginas(f, p) /\ Enterado(f, p)
    BY <2>11 DEF SinPaginas, Enterado
  <2>15. ASSUME k.activa, Veraz(k, p)
         PROVE  Veraz(f, p)
    <3>1. k.avisos[p] \in Seq(ExitCode)
      BY <2>1 DEF Bien, Sistema
    <3>2. f.avisos[p] = IF p \in k.consolas THEN Append(k.avisos[p], code)
                        ELSE k.avisos[p]
      BY <2>6, <2>8, <2>11
    <3>3. ~Fin(k, p) /\ f.ec[p] = code
      BY <2>4, <2>6, <2>8, <2>10
    <3> QED
      BY <2>3, <2>11, <2>12, <2>15, <3>1, <3>2, <3>3, CierreVeraz
  <2>16. Cuadra(k, f, x)
    BY <2>1, <2>13, <2>14, <2>15, AjenoCuadra DEF TodosVeraces
  <2>17. Cuadra(f, PasarProximoProcDeNewAReady(f, x), x)
    BY <2>9, PasarProximoCuadra
  <2> QED
    BY <2>2, <2>16, <2>17, CuadraTransitiva
<1> QED
  BY <1>1, <1>2

\* A CPU that is given nothing, or loses what it had.
LEMMA SueltaAjeno ==
    ASSUME NEW k, Bien(k), NEW c \in Cpus, NEW m,
           NEW o \in ModoCpu \ {"abortando"},
           k.modo[c] # "abortando" \/ k.enCpu[c] = 0,
           m.maxPID = k.maxPID, m.activa = k.activa, m.cola = k.cola,
           m.ec = k.ec, m.consolas = k.consolas, m.paginas = k.paginas,
           m.avisos = k.avisos,
           m.modo = [k.modo EXCEPT ![c] = o],
           m.enCpu = [k.enCpu EXCEPT ![c] = 0]
    PROVE  Ajeno(k, m, 0)
<1>1. k.modo \in [Cpus -> ModoCpu] /\ k.enCpu \in [Cpus -> 0..MaxPid]
  BY DEF Bien, Sistema
<1>2. \A d \in Cpus : /\ m.modo[d] = IF d = c THEN o ELSE k.modo[d]
                      /\ m.enCpu[d] = IF d = c THEN 0 ELSE k.enCpu[d]
  BY <1>1
<1>3. \A q, e : EnCola(m, q, e) <=> EnCola(k, q, e)
  BY DEF EnCola
<1>4. 0 \notin Pid /\ k.maxPID \in Nat
  BY DEF Pid, Bien, Sistema
<1>5. ASSUME NEW q \in Pid
      PROVE  Intacto(k, m, q)
  <2>1. EnAborto(k, q) => EnAborto(m, q)
    BY <1>2, <1>4 DEF EnAborto
  <2>2. Tiene(m, q) => Tiene(k, q)
    BY <1>2, <1>4 DEF Tiene
  <2> QED
    BY <1>3, <2>1, <2>2 DEF Intacto, Fin
<1> QED
  BY <1>2, <1>5 DEF Ajeno

\* Its entry leaves the kernel's lists.
LEMMA RemoverCpuAjeno ==
    ASSUME NEW k, Bien(k), NEW c \in Cpus, k.enCpu[c] = 0, NEW basura
    PROVE  Ajeno(k, RemoverCpuDeLaLista(k, c, basura), 0)
<1>. DEFINE m == RemoverCpuDeLaLista(k, c, basura)
<1>1. /\ m.maxPID = k.maxPID /\ m.activa = k.activa /\ m.cola = k.cola
      /\ m.ec = k.ec /\ m.consolas = k.consolas /\ m.paginas = k.paginas
      /\ m.avisos = k.avisos /\ m.enCpu = k.enCpu
      /\ m.modo = [k.modo EXCEPT ![c] = "fuera"]
  BY DEF RemoverCpuDeLaLista, Bien, Sistema
<1>2. k.enCpu = [k.enCpu EXCEPT ![c] = 0]
  BY DEF Bien, Sistema
<1>. HIDE DEF m
<1>3. "fuera" \in ModoCpu \ {"abortando"}
  BY DEF ModoCpu
<1>4. Ajeno(k, m, 0)
  BY <1>1, <1>2, <1>3, SueltaAjeno
<1> QED
  BY <1>4 DEF m

\* A PID is new.
LEMMA CrearAjeno ==
    ASSUME NEW k, Bien(k), k.maxPID < MaxPid
    PROVE  LET p == k.maxPID + 1
               m == CrearPcb(k)
           IN  /\ Ajeno(k, m, p)
               /\ m.maxPID = p /\ m.cola = k.cola
               /\ m.paginas = k.paginas /\ m.avisos = k.avisos
               /\ p \in Pid /\ ~(p <= k.maxPID)
               /\ \A e \in Estado : ~EnCola(k, p, e)
<1>. DEFINE p == k.maxPID + 1
            m == CrearPcb(k)
            code == "FINALIZADO_POR_COMANDO"
<1>1. /\ p \in Pid /\ m.maxPID = p /\ m.cola = k.cola
      /\ \A e \in Estado : ~Contains(m.cola[e], p)
  BY CrearBien
<1>2. k.maxPID \in Nat
  BY DEF Bien, Sistema
<1>3. ~(p <= k.maxPID) /\ p >= k.maxPID /\ p \in Nat
  BY <1>2
<1>. HIDE DEF p
<1>4. /\ m.activa = k.activa /\ m.enCpu = k.enCpu /\ m.modo = k.modo
      /\ m.consolas = k.consolas /\ m.paginas = k.paginas
      /\ m.avisos = k.avisos /\ m.ec = [k.ec EXCEPT ![p] = code]
  BY DEF CrearPcb, Bien, Sistema, p
<1>5. \A q \in Pid \ {p} : m.ec[q] = k.ec[q]
  BY <1>4 DEF Bien, Sistema
<1>6. \A e \in Estado : ~EnCola(k, p, e)
  BY <1>1 DEF EnCola
<1>. HIDE DEF m
<1>7. Ajeno(k, m, p)
  BY <1>1, <1>2, <1>3, <1>4, <1>5, QuietoAjeno
<1> QED
  BY <1>1, <1>3, <1>4, <1>6, <1>7 DEF m, p

\* A program that starts while the level has room.
LEMMA IniciarListoCuadra ==
    ASSUME NEW k, Bien(k), k.maxPID < MaxPid, NEW x
    PROVE  Cuadra(k, IniciarListo(k, k.maxPID + 1, x), x)
<1>. DEFINE p == k.maxPID + 1
            code == "NO_SE_PUDO_ASIGNAR_RECURSO"
            b == CrearPcb(k)
            n == NuevoAListos(b, p)
            m == [n EXCEPT !.consolas = @ \cup {p}, !.consola[p] = "conectada"]
            e == [m EXCEPT !.ec[p] = code]
            f == ListoAFinalizados(e, p)
            g == [m EXCEPT !.paginas = @ \cup {p}]
            i == InformarAConsola(f, p, code)
<1>1. /\ Bien(b) /\ p \in Pid
      /\ b.maxPID = p
      /\ \A q \in Estado : ~Contains(b.cola[q], p)
  BY CrearBien
<1>2. /\ Ajeno(k, b, p) /\ b.cola = k.cola
      /\ b.paginas = k.paginas /\ b.avisos = k.avisos
      /\ ~(p <= k.maxPID) /\ \A q \in Estado : ~EnCola(k, p, q)
  BY CrearAjeno
<1>3. code \in ExitCode /\ "TERMINADO" \in Estado /\ "NUEVO" \in Estado
  BY DEF ExitCode, Estado
<1>4. IniciarListo(k, p, x) = IF x.memoria THEN g ELSE i
  BY Zenon DEF IniciarListo
<1>. HIDE DEF p, b, code
<1>5. Bien(n)
  BY <1>1, NuevoAListosBien, MaxPidAssumption DEF Pid
<1>6. /\ n.ec = b.ec
      /\ IF b.activa THEN Traslado(b, n, p, "LISTO") ELSE n = b
  BY <1>1, NuevoAListosTraslada
<1>. HIDE DEF n
<1>7. Ajeno(b, n, p)
  <2>1. "LISTO" \in Estado
    BY DEF Estado
  <2> QED
    BY <1>1, <1>6, <2>1, TrasladoAjeno, AjenoIgual
<1>8. /\ n.maxPID = p /\ n.paginas = k.paginas /\ n.avisos = k.avisos
      /\ ~Fin(n, p) /\ ~EnCola(n, p, "NUEVO")
  BY <1>1, <1>2, <1>3, <1>6 DEF Traslado, MismoResto, Fin, EnCola
<1>9. Bien(m)
  BY <1>1, <1>5, ConectarBien
<1>10. /\ m.activa = n.activa /\ m.cola = n.cola /\ m.maxPID = n.maxPID
       /\ m.enCpu = n.enCpu /\ m.modo = n.modo /\ m.paginas = n.paginas
       /\ m.avisos = n.avisos /\ m.ec = n.ec
       /\ m.consolas = n.consolas \cup {p}
  BY <1>5 DEF Bien, Sistema
<1>10a. p \in Nat /\ p >= p
  BY <1>1 DEF Pid
<1>. HIDE DEF m
<1>11. Ajeno(n, m, p)
  BY <1>8, <1>10, <1>10a, QuietoAjeno
<1>12. Ajeno(k, m, p)
  <2>1. Ajeno(k, n, p)
    BY <1>2, <1>7, AjenoTransitiva
  <2> QED
    BY <1>11, <2>1, AjenoTransitiva
<1>13. /\ m.maxPID = p /\ m.paginas = k.paginas /\ m.avisos = k.avisos
       /\ ~Fin(m, p) /\ ~EnCola(m, p, "NUEVO")
  BY <1>8, <1>10 DEF Fin, EnCola
<1>14. TodosVeraces(k) => k.avisos[p] = <<>>
  BY <1>1, <1>2, <1>3 DEF TodosVeraces, Veraz, Fin
<1>15. TodosSinPaginas(k) => p \notin k.paginas
  BY <1>1, <1>2 DEF TodosSinPaginas, SinPaginas
<1>16. CASE x.memoria
  <2>1. /\ g.activa = m.activa /\ g.cola = m.cola /\ g.maxPID = m.maxPID
        /\ g.enCpu = m.enCpu /\ g.modo = m.modo /\ g.ec = m.ec
        /\ g.avisos = m.avisos /\ g.consolas = m.consolas
        /\ g.paginas = m.paginas \cup {p}
    BY <1>9 DEF Bien, Sistema
  <2>. HIDE DEF g
  <2>2. Ajeno(m, g, p)
    BY <1>10a, <1>13, <2>1, QuietoAjeno
  <2>3. Ajeno(k, g, p)
    BY <1>12, <2>2, AjenoTransitiva
  <2>4. ~Fin(g, p) /\ ~EnCola(g, p, "NUEVO") /\ p <= g.maxPID
    BY <1>10a, <1>13, <2>1 DEF Fin, EnCola
  <2>5. SinPaginas(g, p) /\ Enterado(g, p)
    BY <2>4 DEF SinPaginas, Enterado
  <2>6. TodosVeraces(k) => Veraz(g, p)
    BY <1>13, <1>14, <2>1, <2>4 DEF Veraz
  <2>7. Cuadra(k, g, x)
    BY <1>1, <2>3, <2>5, <2>6, AjenoCuadra
  <2> QED
    BY <1>4, <1>16, <2>7 DEF p
<1>17. CASE ~x.memoria
  <2>1. Bien(e) /\ Ajeno(m, e, p)
    BY <1>1, <1>3, <1>9, CambioBien, EscribirAjeno
  <2>2. e.paginas = m.paginas
    BY <1>9 DEF Bien, Sistema
  <2>. HIDE DEF e
  <2>3. Bien(f) /\ Ajeno(e, f, p)
    BY <1>1, <1>3, <2>1, PasosBien, PasosAjenos
  <2>4. f.paginas = e.paginas
    <3>1. \/ f = e
          \/ Traslado(e, f, p, "TERMINADO")
      BY <1>1, <2>1, PasosTrasladan DEF ListoAFinalizados, EnSistema
    <3> QED
      BY <3>1 DEF Traslado, MismoResto
  <2>. HIDE DEF f
  <2>5. Ajeno(f, i, p)
    BY <1>1, <2>3, EscribirAjeno
  <2>6. i.paginas = f.paginas /\ p \notin i.consolas
    BY <2>3 DEF InformarAConsola, EliminarPidProgramaSocket, Bien, Sistema
  <2>. HIDE DEF i
  <2>7. Ajeno(k, i, p)
    <3>1. Ajeno(k, e, p)
      BY <1>12, <2>1, AjenoTransitiva
    <3>2. Ajeno(k, f, p)
      BY <2>3, <3>1, AjenoTransitiva
    <3> QED
      BY <2>5, <3>2, AjenoTransitiva
  <2>8. TodosSinPaginas(k) => SinPaginas(i, p)
    BY <1>13, <1>15, <2>2, <2>4, <2>6 DEF SinPaginas
  <2>9. Enterado(i, p)
    BY <2>6 DEF Enterado
  <2>10. Cuadra(k, i, x)
    BY <1>1, <1>17, <2>7, <2>8, <2>9, AjenoCuadra
  <2> QED
    BY <1>4, <1>17, <2>10 DEF p
<1> QED
  BY <1>16, <1>17

\* A program that starts when the level is full.
LEMMA IniciarNuevoCuadra ==
    ASSUME NEW k, Bien(k), k.maxPID < MaxPid, NEW x
    PROVE  Cuadra(k, IniciarNuevo(k, k.maxPID + 1), x)
<1>. DEFINE p == k.maxPID + 1
            b == CrearPcb(k)
            m == IniciarNuevo(k, p)
<1>1. Bien(b) /\ p \in Pid /\ b.maxPID = p
  BY CrearBien
<1>2. /\ Ajeno(k, b, p) /\ b.cola = k.cola
      /\ b.paginas = k.paginas /\ b.avisos = k.avisos
      /\ ~(p <= k.maxPID) /\ \A q \in Estado : ~EnCola(k, p, q)
  BY CrearAjeno
<1>. HIDE DEF p, b
<1>3. /\ m.activa = b.activa /\ m.maxPID = b.maxPID
      /\ m.enCpu = b.enCpu /\ m.modo = b.modo /\ m.paginas = b.paginas
      /\ m.avisos = b.avisos /\ m.ec = b.ec
      /\ m.consolas = b.consolas \cup {p}
      /\ m.cola = [b.cola EXCEPT !["NUEVO"] = Append(@, p)]
  BY <1>1 DEF IniciarNuevo, Bien, Sistema, b
<1>4. b.cola \in [Estado -> Seq(Pid)] /\ "NUEVO" \in Estado
      /\ "TERMINADO" \in Estado
  BY <1>1 DEF Bien, Sistema, Estado
<1>. HIDE DEF m
<1>5. \A q \in Pid \ {p} : EnCola(m, q, "NUEVO") <=> EnCola(b, q, "NUEVO")
  <2>1. m.cola["NUEVO"] = Append(b.cola["NUEVO"], p)
    BY <1>3, <1>4
  <2>2. b.cola["NUEVO"] \in Seq(Pid)
    BY <1>4
  <2> QED
    BY <1>1, <2>1, <2>2, Pertenencia DEF EnCola
<1>6. \A q : Fin(m, q) <=> Fin(b, q)
  BY <1>3, <1>4 DEF Fin, EnCola
<1>7. p \in Nat /\ p <= p
  BY <1>1 DEF Pid
<1>8. ASSUME NEW q \in Pid \ {p}
      PROVE  Intacto(b, m, q)
  BY <1>3, <1>5, <1>6, <1>8 DEF Intacto, Tiene, EnAborto
<1>9. Ajeno(b, m, p)
  BY <1>3, <1>8 DEF Ajeno
<1>10. Ajeno(k, m, p)
  BY <1>2, <1>9, AjenoTransitiva
<1>11. ~Fin(m, p)
  BY <1>2, <1>4, <1>6 DEF Fin, EnCola
<1>12. TodosSinPaginas(k) => SinPaginas(m, p)
  BY <1>1, <1>2, <1>3 DEF TodosSinPaginas, SinPaginas
<1>13. Enterado(m, p)
  BY <1>11 DEF Enterado
<1>14. TodosVeraces(k) => Veraz(m, p)
  BY <1>1, <1>2, <1>3, <1>4, <1>11 DEF TodosVeraces, Veraz, Fin
<1>15. Cuadra(k, m, x)
  BY <1>1, <1>10, <1>12, <1>13, <1>14, AjenoCuadra
<1> QED
  BY <1>15 DEF m, p

\* A console starts a program.
LEMMA IniciarProcesoCuadra ==
    ASSUME NEW k, Bien(k), k.maxPID < MaxPid, NEW x
    PROVE  Cuadra(k, IniciarProceso(k, x), x)
<1>. DEFINE m == IF CheckNivelMultiprogramacion(k)
                 THEN IniciarListo(k, k.maxPID + 1, x)
                 ELSE IniciarNuevo(k, k.maxPID + 1)
<1>1. Bien(m) /\ Cuadra(k, m, x)
  BY IniciarListoBien, IniciarNuevoBien, IniciarListoCuadra, IniciarNuevoCuadra
<1>2. IniciarProceso(k, x) = PlanificarSiHayListos(m)
  BY DEF IniciarProceso
<1>. HIDE DEF m
<1>3. Cuadra(m, PlanificarSiHayListos(m), x)
  BY <1>1, PlanificarLibreAjeno, AjenoCuadra
<1> QED
  BY <1>1, <1>2, <1>3, CuadraTransitiva

\* A console asks to end its program, or is gone.
LEMMA PedidoAbortarCuadra ==
    ASSUME NEW k, Bien(k), NEW p \in Pid, NEW code \in ExitCode, NEW x
    PROVE  Cuadra(k, PedidoAbortarProgramaDeConsola(k, p, code), x)
<1>. DEFINE s == EliminarPidProgramaSocket(k, p)
            b == [s EXCEPT !.ec[p] = code]
            e == CHOOSE f \in Estado : EnCola(k, p, f)
            d == [b EXCEPT !.destruir = @ \cup {p}]
            t == AFinalizados(b, p, e)
            a == PedirAMemoriaFinalizarProceso(t, p)
<1>1. Bien(s) /\ Ajeno(k, s, 0)
  BY CambioBien, EscribirAjeno
<1>2. PedidoAbortarProgramaDeConsola(k, p, code) =
        CASE p \notin k.consolas -> k
          [] p \in k.consolas /\ ~BuscarPcb(k, p) -> s
          [] p \in k.consolas /\ EnCola(k, p, "EJECUTANDO") -> d
          [] OTHER -> a
  BY Zenon DEF PedidoAbortarProgramaDeConsola
<1>3. /\ s.cola = k.cola /\ s.activa = k.activa /\ s.avisos = k.avisos
      /\ p \notin s.consolas
  BY DEF EliminarPidProgramaSocket, Bien, Sistema
<1>. HIDE DEF s
<1>4. Bien(b) /\ Ajeno(s, b, p) /\ (~Fin(s, p) => Ajeno(s, b, 0))
  BY <1>1, CambioBien, EscribirAjeno
<1>5. /\ b.cola = s.cola /\ b.activa = s.activa /\ b.avisos = s.avisos
      /\ b.consolas = s.consolas
  BY <1>1 DEF Bien, Sistema
<1>. HIDE DEF b
<1>6. EnCola(k, p, "EJECUTANDO") => Cuadra(k, d, x)
  <2>1. SUFFICES ASSUME EnCola(k, p, "EJECUTANDO") PROVE Cuadra(k, d, x)
    OBVIOUS
  <2>2. ~Fin(s, p)
    <3>1. ~Fin(k, p)
      BY <2>1, UnaCola DEF Fin, Estado
    <3> QED
      BY <1>3, <3>1 DEF Fin, EnCola
  <2>3. Ajeno(k, b, 0)
    BY <1>1, <1>4, <2>2, AjenoTransitiva
  <2>4. /\ d.maxPID = b.maxPID /\ d.activa = b.activa /\ d.cola = b.cola
        /\ d.enCpu = b.enCpu /\ d.modo = b.modo /\ d.ec = b.ec
        /\ d.consolas = b.consolas /\ d.paginas = b.paginas
        /\ d.avisos = b.avisos
    BY <1>4 DEF Bien, Sistema
  <2>. HIDE DEF d
  <2>5. Ajeno(b, d, 0)
    BY <1>4, <2>4, MismoAjeno
  <2>6. Ajeno(k, d, 0)
    BY <2>3, <2>5, AjenoTransitiva
  <2> QED
    BY <2>6, AjenoCuadra
<1>. HIDE DEF d
<1>7. BuscarPcb(k, p) => Cuadra(k, a, x)
  <2>1. SUFFICES ASSUME BuscarPcb(k, p) PROVE Cuadra(k, a, x)
    OBVIOUS
  <2>2. PICK f \in Estado \ {"TERMINADO"} : EnCola(k, p, f)
    BY <2>1 DEF BuscarPcb, Estado
  <2>3. e \in Estado /\ EnCola(k, p, e)
    BY <2>2
  <2>. HIDE DEF e
  <2>4. e = f
    BY <2>2, <2>3, UnaCola
  <2>5. Bien(t) /\ Ajeno(b, t, p)
    BY <1>4, <2>4, FinalizarBien, PasosAjenos
  <2>6. IF Mueve(b, p, e) THEN Traslado(b, t, p, "TERMINADO") ELSE t = b
    BY <1>4, <2>4, FinalizarTraslada
  <2>. HIDE DEF t
  <2>7. /\ p \notin t.consolas /\ t.avisos = k.avisos
    BY <1>3, <1>5, <2>6 DEF Traslado, MismoResto
  <2>8. k.activa => Fin(t, p)
    BY <1>3, <1>5, <2>2, <2>4, <2>6 DEF Mueve, EnCola, Traslado, Fin, Estado
  <2>9. Ajeno(t, a, 0)
    BY <2>5, EscribirAjeno
  <2>10. /\ a.cola = t.cola /\ a.consolas = t.consolas /\ a.avisos = t.avisos
         /\ p \notin a.paginas
    BY <2>5 DEF PedirAMemoriaFinalizarProceso, Bien, Sistema
  <2>. HIDE DEF a
  <2>11. Ajeno(k, a, p)
    <3>1. Ajeno(k, b, p)
      BY <1>1, <1>4, AjenoTransitiva
    <3>2. Ajeno(k, t, p)
      BY <2>5, <3>1, AjenoTransitiva
    <3> QED
      BY <2>9, <3>2, AjenoTransitiva
  <2>12. SinPaginas(a, p) /\ Enterado(a, p)
    BY <2>7, <2>10 DEF SinPaginas, Enterado
  <2>13. ~Fin(k, p)
    BY <2>2, UnaCola DEF Fin, Estado
  <2>14. k.activa /\ Veraz(k, p) => Veraz(a, p)
    BY <2>7, <2>10, <2>13 DEF Veraz
  <2> QED
    BY <2>11, <2>12, <2>14, AjenoCuadra DEF TodosVeraces
<1>. HIDE DEF a
<1>8. Cuadra(k, s, x) /\ Cuadra(k, k, x)
  BY <1>1, AjenoCuadra, CuadraIgual
<1> QED
  BY <1>2, <1>6, <1>7, <1>8

\* What the operator's kill leaves: of a NEW process, its entry in the list
\* of the consoles.
LEMMA MatarProcesoDeja ==
    ASSUME NEW k, Bien(k), NEW p \in Pid, Sostenidos(k, Cpus)
    PROVE  LET m == MatarProceso(k, p) IN
           /\ m.activa = k.activa
           /\ SinAbortos(k) => SinAbortos(m)
           /\ TodosSinPaginas(k) => TodosSinPaginas(m)
           /\ k.activa /\ TodosVeraces(k) => TodosVeraces(m)
<1>. DEFINE code == "FINALIZADO_POR_COMANDO"
            d == [k EXCEPT !.colgados = @ + 1]
            n == NuevoAFinalizados(k, p, code)
            e == [k EXCEPT !.ec[p] = code]
            l == ListoAFinalizados(e, p)
            b == BloqueadoAFinalizados(k, p, code)
            sinPaginas(m) == InformarAConsola(
                PedirAMemoriaFinalizarProceso(m, p), p, m.ec[p])
            x == [memoria |-> TRUE]
            Deja(m) == /\ m.activa = k.activa
                       /\ SinAbortos(k) => SinAbortos(m)
                       /\ TodosSinPaginas(k) => TodosSinPaginas(m)
                       /\ k.activa /\ TodosVeraces(k) => TodosVeraces(m)
<1>1. code \in ExitCode /\ x.memoria
  BY DEF ExitCode
<1>2. "LISTO" \in Estado /\ "BLOQUEADO" \in Estado /\ "NUEVO" \in Estado
      /\ "TERMINADO" \in Estado /\ "EJECUTANDO" \in Estado
  BY DEF Estado
<1>3. MatarProceso(k, p) =
        CASE EstaElProcesoEnEjecucion(k, p) -> d
          [] ~EstaElProcesoEnEjecucion(k, p) /\ EnCola(k, p, "NUEVO") -> n
          [] ~EstaElProcesoEnEjecucion(k, p) /\ EnCola(k, p, "LISTO") ->
                sinPaginas(l)
          [] ~EstaElProcesoEnEjecucion(k, p) /\ EnCola(k, p, "BLOQUEADO") ->
                sinPaginas(b)
          [] OTHER -> k
  BY Zenon DEF MatarProceso
<1>. HIDE DEF x
<1>4. ASSUME NEW m, Cuadra(k, m, x)
      PROVE  Deja(m)
  BY <1>1, <1>4 DEF Cuadra
<1>5. Deja(d)
  <2>1. /\ d.maxPID = k.maxPID /\ d.activa = k.activa /\ d.cola = k.cola
        /\ d.enCpu = k.enCpu /\ d.modo = k.modo /\ d.ec = k.ec
        /\ d.consolas = k.consolas /\ d.paginas = k.paginas
        /\ d.avisos = k.avisos
    BY DEF Bien, Sistema
  <2>. HIDE DEF d
  <2>2. Ajeno(k, d, 0)
    BY <2>1, MismoAjeno
  <2> QED
    BY <1>4, <2>2, AjenoCuadra
<1>6. Deja(k)
  OBVIOUS
<1>. HIDE DEF code, d
<1>7. ASSUME EnCola(k, p, "NUEVO")
      PROVE  Deja(n)
  <2>1. Ajeno(k, n, p)
    BY <1>1, PasosAjenos
  <2>2. IF k.activa
        THEN Traslado(k, n, p, "TERMINADO") /\ n.ec = [k.ec EXCEPT ![p] = code]
        ELSE n = k
    BY <1>1, <1>7, FinalizarTraslada DEF Mueve
  <2>. HIDE DEF n
  <2>3. ~Fin(k, p) /\ ~Adentro(k, p)
    BY <1>2, <1>7, UnaCola DEF Fin, Adentro
  <2>4. ~Tiene(k, p)
    <3>1. 0 \notin Pid
      BY DEF Pid
    <3> QED
      BY <2>3, <3>1 DEF Sostenidos, Tiene
  <2>5. /\ n.maxPID = k.maxPID /\ n.paginas = k.paginas /\ n.enCpu = k.enCpu
        /\ n.modo = k.modo /\ n.avisos = k.avisos /\ n.activa = k.activa
    BY <2>2 DEF Traslado, MismoResto
  <2>6. SinPaginas(k, p) => SinPaginas(n, p)
    BY <1>7, <2>5 DEF SinPaginas, EnAborto
  <2>7. ASSUME k.activa, Veraz(k, p) PROVE Veraz(n, p)
    BY <2>3, <2>4, <2>5, <2>7 DEF Veraz, Tiene
  <2>8. \A q \in Pid \ {p} : Intacto(k, n, q)
    BY <2>1 DEF Ajeno
  <2>9. TodosSinPaginas(k) => TodosSinPaginas(n)
    BY <2>6, <2>8, IntactoSigue DEF TodosSinPaginas
  <2>10. k.activa /\ TodosVeraces(k) => TodosVeraces(n)
    BY <2>7, <2>8, IntactoSigue DEF TodosVeraces
  <2>11. SinAbortos(k) => SinAbortos(n)
    BY <2>5 DEF SinAbortos
  <2> QED
    BY <2>5, <2>9, <2>10, <2>11
<1>8. ASSUME NEW m, Bien(m), Ajeno(k, m, p),
             m.avisos = k.avisos, m.consolas = k.consolas,
             k.activa => Fin(m, p), ~Fin(k, p)
      PROVE  Deja(sinPaginas(m))
  <2>1. m.ec[p] \in ExitCode
    BY <1>8 DEF Bien, Sistema
  <2>2. Cuadra(k, sinPaginas(m), x)
    BY <1>8, <2>1, AvisadoCuadra
  <2>. HIDE DEF sinPaginas
  <2> QED
    BY <1>4, <2>2
<1>9. ASSUME EnCola(k, p, "LISTO")
      PROVE  Deja(sinPaginas(l))
  <2>1. Bien(e) /\ Ajeno(k, e, p)
    BY <1>1, CambioBien, EscribirAjeno
  <2>2. /\ e.cola = k.cola /\ e.activa = k.activa /\ e.avisos = k.avisos
        /\ e.consolas = k.consolas
    BY DEF Bien, Sistema
  <2>. HIDE DEF e
  <2>3. Bien(l) /\ Ajeno(e, l, p)
    BY <1>1, <2>1, PasosBien, PasosAjenos
  <2>4. IF Mueve(e, p, "LISTO") THEN Traslado(e, l, p, "TERMINADO") ELSE l = e
    BY <2>1, PasosTrasladan DEF ListoAFinalizados, EnSistema
  <2>. HIDE DEF l
  <2>5. Ajeno(k, l, p)
    BY <2>1, <2>3, AjenoTransitiva
  <2>6. l.avisos = k.avisos /\ l.consolas = k.consolas
    BY <2>2, <2>4 DEF Traslado, MismoResto
  <2>7. k.activa => Fin(l, p)
    BY <1>2, <1>9, <2>2, <2>4 DEF Mueve, EnCola, Traslado, Fin
  <2>8. ~Fin(k, p)
    BY <1>2, <1>9, UnaCola DEF Fin
  <2> QED
    BY <1>8, <2>3, <2>5, <2>6, <2>7, <2>8
<1>10. ASSUME EnCola(k, p, "BLOQUEADO")
       PROVE  Deja(sinPaginas(b))
  <2>1. Bien(b) /\ Ajeno(k, b, p)
    BY <1>1, FinalizarBien, PasosAjenos
  <2>2. IF Mueve(k, p, "BLOQUEADO") THEN Traslado(k, b, p, "TERMINADO")
        ELSE b = k
    BY <1>1, FinalizarTraslada
  <2>. HIDE DEF b
  <2>3. b.avisos = k.avisos /\ b.consolas = k.consolas
    BY <2>2 DEF Traslado, MismoResto
  <2>4. k.activa => Fin(b, p)
    BY <1>2, <1>10, <2>2 DEF Mueve, Traslado, Fin
  <2>5. ~Fin(k, p)
    BY <1>2, <1>10, UnaCola DEF Fin
  <2> QED
    BY <1>8, <2>1, <2>3, <2>4, <2>5
<1>11. Deja(MatarProceso(k, p))
  <2>. HIDE DEF Deja, sinPaginas, n, l, b
  <2> QED
    BY <1>3, <1>5, <1>6, <1>7, <1>9, <1>10
<1> QED
  BY <1>11

\* The operator's level and its admission loop.
LEMMA NivelCuadra ==
    ASSUME NEW k, Bien(k), NEW x
    PROVE  /\ \A n : Cuadra(k, Multiprogramacion(k, n), x)
           /\ Cuadra(k, RondaDeMultiprogramacion(k, x), x)
<1>1. ASSUME NEW n
      PROVE  Cuadra(k, Multiprogramacion(k, n), x)
  <2>. DEFINE m == Multiprogramacion(k, n)
  <2>1. /\ m.maxPID = k.maxPID /\ m.activa = k.activa /\ m.cola = k.cola
        /\ m.enCpu = k.enCpu /\ m.modo = k.modo /\ m.ec = k.ec
        /\ m.consolas = k.consolas /\ m.paginas = k.paginas
        /\ m.avisos = k.avisos
    BY DEF Multiprogramacion, Bien, Sistema
  <2>. HIDE DEF m
  <2>2. Ajeno(k, m, 0)
    BY <2>1, MismoAjeno
  <2>3. Cuadra(k, m, x)
    BY <2>2, AjenoCuadra
  <2> QED
    BY <2>3 DEF m
<1>2. ASSUME NEW l, Bien(l), NEW i
      PROVE  Cuadra(l, [l EXCEPT !.iteraciones = i], x)
  <2>. DEFINE m == [l EXCEPT !.iteraciones = i]
  <2>1. /\ m.maxPID = l.maxPID /\ m.activa = l.activa /\ m.cola = l.cola
        /\ m.enCpu = l.enCpu /\ m.modo = l.modo /\ m.ec = l.ec
        /\ m.consolas = l.consolas /\ m.paginas = l.paginas
        /\ m.avisos = l.avisos
    BY <1>2 DEF Bien, Sistema
  <2>. HIDE DEF m
  <2>2. Ajeno(l, m, 0)
    BY <1>2, <2>1, MismoAjeno
  <2>3. Cuadra(l, m, x)
    BY <2>2, AjenoCuadra
  <2> QED
    BY <2>3 DEF m
<1>3. Cuadra(k, RondaDeMultiprogramacion(k, x), x)
  <2>. DEFINE a == PasarProximoProcDeNewAReady(k, x)
  <2>1. Bien(a) /\ Cuadra(k, a, x)
    BY PasarProximoBien, PasarProximoCuadra
  <2>. HIDE DEF a
  <2>2. /\ Cuadra(k, [a EXCEPT !.iteraciones = k.iteraciones - 1], x)
        /\ Cuadra(k, [k EXCEPT !.iteraciones = 0], x)
    BY <1>2, <2>1, CuadraTransitiva
  <2> QED
    BY <2>2, Zenon DEF RondaDeMultiprogramacion, a
<1> QED
  BY <1>1, <1>3

=============================================================================

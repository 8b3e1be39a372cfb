SPECIFICATION Spec
CONSTANTS
    Cpus = {c1, c2, c3}
    NoCpu = NoCpu
    MaxPid = 3
    Sems = {s}
    NoSem = NoSem
    UnidadesIniciales = 0
    InicioSem <- MCInicioSem
    Algoritmo = "RR"
    Quantum = 1
    Grados = {1, 2}
    PidSinInicializar = {0}
    MaxSentencias = 1
    MaxKills = 0
    Eventos = {"abortar", "desconecta", "saludoLento"}
SYMMETRY SimetriaCpus
INVARIANTS
    CpuYProcesoConcuerdan
    NingunPcbPerdido
    TerminadoFueraDeCpu
PROPERTIES
    AdmiteSegunNivel
\* A program runs a bounded number of sentences and then nothing happens.
CHECK_DEADLOCK FALSE

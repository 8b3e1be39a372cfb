SPECIFICATION Spec
CONSTANTS
    Cpus = {c1, c2, c3}
    NoCpu = NoCpu
    MaxPid = 3
    Sems = {s}
    NoSem = NoSem
    UnidadesIniciales = 0
    InicioSem <- MCInicioSem
    Algoritmo = "RR"
    Quantum = 2
    Grados = {1, 3}
    PidSinInicializar = {0}
    MaxSentencias = 2
    MaxKills = 0
    Eventos = {"multiprog"}
SYMMETRY SimetriaCpus
INVARIANTS
    TrabajoConservado
    AdmisionConservada
    KernelSano
\* A program runs a bounded number of sentences and then nothing happens.
CHECK_DEADLOCK FALSE

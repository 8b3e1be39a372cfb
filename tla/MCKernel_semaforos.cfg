SPECIFICATION Spec
CONSTANTS
    Cpus = {c1, c2}
    NoCpu = NoCpu
    MaxPid = 3
    Sems = {s}
    NoSem = NoSem
    UnidadesIniciales = 0
    InicioSem <- MCInicioSem
    Algoritmo = "FIFO"
    Quantum = 0
    Grados = {2}
    PidSinInicializar = {0}
    MaxSentencias = 2
    MaxKills = 1
    Eventos = {"abortar", "malloc", "kill"}
SYMMETRY SimetriaCpus
INVARIANTS
    SemaforoCuentaBloqueados
\* A program runs a bounded number of sentences and then nothing happens.
CHECK_DEADLOCK FALSE

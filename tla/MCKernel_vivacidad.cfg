SPECIFICATION SpecJusta
CONSTANTS
    Cpus = {c1, c2}
    NoCpu = NoCpu
    MaxPid = 3
    Sems = {}
    NoSem = NoSem
    UnidadesIniciales = 0
    InicioSem <- MCInicioSem
    Algoritmo = "RR"
    Quantum = 1
    Grados = {1, 2}
    PidSinInicializar = {0}
    MaxSentencias = 1
    MaxKills = 0
    Eventos = {"multiprog"}
PROPERTIES
    TodosTerminan
\* A program runs a bounded number of sentences and then nothing happens.
CHECK_DEADLOCK FALSE

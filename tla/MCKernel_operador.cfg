SPECIFICATION Spec
CONSTANTS
    Cpus = {c1, c2}
    NoCpu = NoCpu
    MaxPid = 2
    Sems = {s}
    NoSem = NoSem
    UnidadesIniciales = 0
    InicioSem <- MCInicioSem
    Algoritmo = "RR"
    Quantum = 1
    Grados = {2}
    PidSinInicializar = {0, 1}
    MaxSentencias = 1
    MaxKills = 1
    Eventos = {"sinMemoria", "finalizar", "stop", "caidaCpu", "saludoLento"}
SYMMETRY SimetriaCpus
INVARIANTS
    TypeOK
    CantidadCoherente
    PcbEnUnaSolaCola
    UnaCpuPorProceso
PROPERTIES
    MarcadoNoVuelve
\* A program runs a bounded number of sentences and then nothing happens.
CHECK_DEADLOCK FALSE

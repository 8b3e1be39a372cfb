SPECIFICATION SpecJusta
CONSTANTS
    Procesos = {1, 2}
    Cpus = {c1, c2}
    Kernel = k
    Nadie = Nadie
    Marcos = 3
    Reservados = 1
    EntradasCache = 1
    CacheXProc = 1
    Valores = {a}
    MaxPagina = 1
    MaxIniciales = 1
    MaxPedidas = 1
    Eventos = {"flush"}
PROPERTIES
    PedidoAtendido
    TareaTermina
\* A program that ended does not start again, and memory may die.
CHECK_DEADLOCK FALSE

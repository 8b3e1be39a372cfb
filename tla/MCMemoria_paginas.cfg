SPECIFICATION Spec
CONSTANTS
    Procesos = {1, 2}
    Cpus = {c1, c2}
    Kernel = k
    Nadie = Nadie
    Marcos = 3
    Reservados = 1
    EntradasCache = 2
    CacheXProc = 1
    Valores = {a, b}
    MaxPagina = 2
    MaxIniciales = 2
    MaxPedidas = 2
    Eventos = {}
SYMMETRY Simetria
INVARIANTS
    MarcoSigueSiendoSuyo
    CacheCoherente
    CuentasDeCache
    SoloCaePorEntradasPerdidas
PROPERTY Promesa
\* A program that ended does not start again, and memory may die.
CHECK_DEADLOCK FALSE

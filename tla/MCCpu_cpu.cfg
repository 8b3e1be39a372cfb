SPECIFICATION SpecJusta
CONSTANTS
    TamanioPagina = 8
    Programas <- MCProgramas
    Cpus = {c, d}
    PaginaDePila = 9
    PaginasTotales = 10
    Eventos = {"stop", "variablePartida"}
INVARIANTS
    SinDesfase
    NadieEsperaANadie
    AccesoExacto
    VariableEntera
    VariablesSinSolaparse
PROPERTIES
    PromesaDePrograma
    VuelveElPcb
\* A program ends.
CHECK_DEADLOCK FALSE

SPECIFICATION Spec
CONSTANTS
    Procesos = {1, 3}
    TamanioPagina = 21
    TamMetadata = 5
    PaginasFijas <- MCPaginasFijas
    Marcos = 2
    Pedidos = {1, 3, 12}
    MaxPagina = 5
    Eventos = {}
INVARIANTS
    BloquesEnMosaico
    SinVecinosLibres
    SinPaginasOciosas
    MismasPaginas
PROPERTY PromesaDeReservas
\* The programs end.
CHECK_DEADLOCK FALSE

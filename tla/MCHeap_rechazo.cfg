SPECIFICATION Spec
CONSTANTS
    Procesos = {1}
    TamanioPagina = 21
    TamMetadata = 5
    PaginasFijas <- MCMismasFijas
    Marcos = 3
    Pedidos = {1, 3, 11, 12}
    MaxPagina = 5
    Eventos = {"hueco"}
INVARIANTS
    RechazoSoloSinMemoria
\* The programs end.
CHECK_DEADLOCK FALSE

SPECIFICATION Spec
CONSTANTS
    Nombres = {n, m}
    CantBloques = 2
    TamanioBloque = 2
    Valores = {a, b}
    Basura = Basura
    MaxTamanio = 3
    Procesos = {p, q}
    Permisos <- MCPermisos
    Escrituras <- MCEscrituras
    Posiciones = {0, 1}
    Lecturas = {2}
    MaxAbiertos = 1
    MaxReinicios = 1
    Eventos = {"caidaGuardar"}
SYMMETRY Simetria
INVARIANTS
    DescriptorFiel
    AbiertosCuenta
    BloquesSinCompartir
PROPERTY PromesaDeArchivos
\* After the last restart a crash stops everything.
CHECK_DEADLOCK FALSE

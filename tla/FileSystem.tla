---------------------------- MODULE FileSystem ------------------------------
(***************************************************************************)
(* The file system process: the bitmap, the metadata files, the blocks,    *)
(* and the requests of the kernel, one at a time, split at every write     *)
(* that reaches the disk so that the process may die between two of them.  *)
(***************************************************************************)
EXTENDS Integers, Sequences, FiniteSets

CONSTANTS
    Nombres,        \* paths of files
    CantBloques,    \* CANTIDAD_BLOQUES, a multiple of 8 in the bitmap file
    TamanioBloque,  \* TAMANIO_BLOQUES
    Valores,        \* the bytes programs write, none of them 0
    Basura,         \* a byte of a block nobody wrote
    MaxTamanio,     \* bound: where the last byte a request names is
    Eventos         \* the disturbances this instance lets happen

Bloques == 0..(CantBloques - 1)
Celdas == 0..(TamanioBloque - 1)
Disturbios == {"caidaGuardar", "caidaCrear", "caidaBorrar", "cierreIntermedio",
               "finConVarios", "usoTrasBorrar"}

ASSUME BloquesAssumption == CantBloques \in Nat \ {0} /\ TamanioBloque \in Nat \ {0}
ASSUME ValoresAssumption == Basura \notin Valores
ASSUME MaxTamanioAssumption == MaxTamanio \in Nat
ASSUME DisturbiosAssumption == Eventos \subseteq Disturbios

VARIABLES
    usados,     \* BIT_MAP: the blocks whose bit is 1
    existe,     \* the metadata files there are
    bloquesDe,  \* BLOQUES of each; <<>> between fopen "w" and fclose
    bloque,     \* contents of the block files
    libres,     \* cantidadBloquesLibres
    orden,      \* the request being served, and how far it got; antes is
                \* auxiliary: what its file held when it was asked
    respuestaFs,\* the answer on its way to the kernel
    fsVivo      \* the process is running

disco == <<usados, existe, bloquesDe, bloque>>
fsVars == <<disco, libres, orden, respuestaFs, fsVivo>>

SinOrden == [tipo |-> "nada"]
SinRespuesta == [que |-> "nada"]
Dice(q) == [que |-> q]

FsInit ==
    /\ usados = {} /\ existe = {}
    /\ bloquesDe = [n \in Nombres |-> <<>>]
    /\ bloque = [b \in Bloques |-> [c \in Celdas |-> Basura]]
    /\ libres = CantBloques
    /\ orden = SinOrden
    /\ respuestaFs = SinRespuesta
    /\ fsVivo = TRUE

-----------------------------------------------------------------------------
(* Helpers.                                                                *)

\* actualizarBloquesLibres
BloquesLibres == CantBloques - Cardinality(usados)

\* buscarPrimerBloqueLibre, -1 when every bit is 1
PrimerBloqueLibre ==
    IF Bloques \subseteq usados THEN -1
    ELSE CHOOSE b \in Bloques \ usados : \A d \in Bloques \ usados : b <= d

redondearDivisionPaArriba(n, d) == (n + d - 1) \div d

Tamanio(n) == TamanioBloque * Len(bloquesDe[n])

\* Byte k of a file is byte k % TamanioBloque of its block k \div TamanioBloque.
Byte(n, k) == bloque[bloquesDe[n][(k \div TamanioBloque) + 1]][k % TamanioBloque]

\* What the file holds; readable metadata only.
Contenido(n) == [k \in 1..Tamanio(n) |-> Byte(n, k - 1)]

\* leerArchivoFs works on C strings: it gives the bytes before the first one
\* nobody wrote, and nothing certain after.
Leido(s, offset, tam) ==
    LET r == SubSeq(s, offset + 1, offset + tam)
        malos == {i \in 1..tam : r[i] = Basura}
    IN IF malos = {} THEN r
       ELSE SubSeq(r, 1, (CHOOSE i \in malos : \A j \in malos : i <= j) - 1)

Legible(n) == n \in existe /\ bloquesDe[n] # <<>>

Ausente == <<"ausente">>
Roto == <<"roto">>
EnDisco(n) ==
    IF n \notin existe THEN Ausente
    ELSE IF bloquesDe[n] = <<>> THEN Roto ELSE Contenido(n)

-----------------------------------------------------------------------------
(* Serving a request.                                                      *)

Sirviendo(tipo, fase) == fsVivo /\ orden.tipo = tipo /\ orden.fase = fase
Responder(r) == respuestaFs' = r /\ orden' = [orden EXCEPT !.fase = "contestada"]
Seguir(fase) == orden' = [orden EXCEPT !.fase = fase] /\ UNCHANGED respuestaFs

\* leerArchivoMetadata of a file that is not there, or whose metadata was
\* cut by a crash, dereferences NULL.
LeerMetadataInexistente ==
    /\ fsVivo /\ orden # SinOrden /\ orden.fase = "recibida"
    /\ orden.tipo \in {"OBTENER_DATOS", "GUARDAR_DATOS", "BORRAR_ARCHIVO"}
    /\ ~Legible(orden.nombre)
    /\ fsVivo' = FALSE
    /\ orden' = SinOrden
    /\ UNCHANGED <<disco, libres, respuestaFs>>

validarArchivo ==
    /\ Sirviendo("VALIDAR_ARCHIVO", "recibida")
    /\ Responder(Dice(IF orden.nombre \in existe THEN "EXISTE_ARCHIVO"
                                                 ELSE "NO_EXISTE_ARCHIVO"))
    /\ UNCHANGED <<disco, libres, fsVivo>>

\* crearArchivo: cantidadBloquesLibres is the count of the last write or start.
CrearSePuede == orden.nombre \notin existe /\ libres >= 1 /\ PrimerBloqueLibre >= 0
CrearFalla ==
    /\ Sirviendo("CREAR_ARCHIVO", "recibida") /\ ~CrearSePuede
    /\ Responder(Dice("FALLO_EN_LA_CREACION_DE_ARCHIVO"))
    /\ UNCHANGED <<disco, libres, fsVivo>>

CrearAbreMetadata ==
    /\ Sirviendo("CREAR_ARCHIVO", "recibida") /\ CrearSePuede
    /\ existe' = existe \cup {orden.nombre}
    /\ bloquesDe' = [bloquesDe EXCEPT ![orden.nombre] = <<>>]
    /\ Seguir("metadata")
    /\ UNCHANGED <<usados, bloque, libres, fsVivo>>

CrearEscribeMetadata ==
    /\ Sirviendo("CREAR_ARCHIVO", "metadata")
    /\ bloquesDe' = [bloquesDe EXCEPT ![orden.nombre] = <<PrimerBloqueLibre>>]
    /\ Seguir("bitmap")
    /\ UNCHANGED <<usados, existe, bloque, libres, fsVivo>>

CrearMarcaBloque ==
    /\ Sirviendo("CREAR_ARCHIVO", "bitmap")
    /\ usados' = usados \cup {bloquesDe[orden.nombre][1]}
    /\ Responder(Dice("ARCHIVO_CREADO_CON_EXITO"))
    /\ UNCHANGED <<existe, bloquesDe, bloque, libres, fsVivo>>

\* borrarArchivo: the bits first, one by one, then the metadata file.
BorrarLiberaBloque ==
    /\ Sirviendo("BORRAR_ARCHIVO", "recibida") /\ Legible(orden.nombre)
    /\ orden.hecho < Len(bloquesDe[orden.nombre])
    /\ usados' = usados \ {bloquesDe[orden.nombre][orden.hecho + 1]}
    /\ orden' = [orden EXCEPT !.hecho = @ + 1]
    /\ UNCHANGED <<existe, bloquesDe, bloque, libres, respuestaFs, fsVivo>>

BorrarMetadata ==
    /\ Sirviendo("BORRAR_ARCHIVO", "recibida") /\ Legible(orden.nombre)
    /\ orden.hecho = Len(bloquesDe[orden.nombre])
    /\ existe' = existe \ {orden.nombre}
    /\ bloquesDe' = [bloquesDe EXCEPT ![orden.nombre] = <<>>]
    /\ Responder(Dice("ARCHIVO_BORRADO_OK"))
    /\ UNCHANGED <<usados, bloque, libres, fsVivo>>

\* obtenerDatos
ObtenerDatos ==
    /\ Sirviendo("OBTENER_DATOS", "recibida") /\ Legible(orden.nombre)
    /\ Responder(
         IF orden.offset + orden.tam <= Tamanio(orden.nombre)
         THEN [que |-> "ENVIO_DATOS",
               datos |-> Leido(Contenido(orden.nombre), orden.offset, orden.tam)]
         ELSE Dice("FALLO_DATOS"))
    /\ UNCHANGED <<disco, libres, fsVivo>>

\* guardarDatos -> escribirDatos: how many blocks the file lacks.
BloquesQueFaltan ==
    redondearDivisionPaArriba(orden.offset + Len(orden.datos), TamanioBloque)
        - Len(bloquesDe[orden.nombre])

GuardarFalla ==
    /\ Sirviendo("GUARDAR_DATOS", "recibida") /\ Legible(orden.nombre)
    /\ libres' = BloquesLibres
    /\ BloquesLibres < BloquesQueFaltan
    /\ Responder(Dice("ESCRIBIR_FALLO"))
    /\ UNCHANGED <<disco, fsVivo>>

GuardarEmpieza ==
    /\ Sirviendo("GUARDAR_DATOS", "recibida") /\ Legible(orden.nombre)
    /\ libres' = BloquesLibres
    /\ BloquesLibres >= BloquesQueFaltan
    /\ orden' = [orden EXCEPT
            !.fase = IF BloquesQueFaltan > 0 THEN "bloques" ELSE "datos",
            !.nuevos = bloquesDe[orden.nombre]]
    /\ UNCHANGED <<disco, respuestaFs, fsVivo>>

\* asignar_nuevos_bloques: a bit per new block, then the metadata anew.
FaltanBloques ==
    TamanioBloque * Len(orden.nuevos) < orden.offset + Len(orden.datos)

\* Mutant: the bit of a new block stays 0.
DefectoGuardarMarcaBloque ==
    /\ Sirviendo("GUARDAR_DATOS", "bloques") /\ FaltanBloques
    /\ orden' = [orden EXCEPT !.nuevos = Append(@, PrimerBloqueLibre)]
    /\ UNCHANGED <<disco, libres, respuestaFs, fsVivo>>

GuardarMarcaBloque ==
    /\ Sirviendo("GUARDAR_DATOS", "bloques") /\ FaltanBloques
    /\ usados' = usados \cup {PrimerBloqueLibre}
    /\ orden' = [orden EXCEPT !.nuevos = Append(@, PrimerBloqueLibre)]
    /\ UNCHANGED <<existe, bloquesDe, bloque, libres, respuestaFs, fsVivo>>

GuardarAbreMetadata ==
    /\ Sirviendo("GUARDAR_DATOS", "bloques") /\ ~FaltanBloques
    /\ bloquesDe' = [bloquesDe EXCEPT ![orden.nombre] = <<>>]
    /\ Seguir("metadata")
    /\ UNCHANGED <<usados, existe, bloque, libres, fsVivo>>

GuardarEscribeMetadata ==
    /\ Sirviendo("GUARDAR_DATOS", "metadata")
    /\ bloquesDe' = [bloquesDe EXCEPT ![orden.nombre] = orden.nuevos]
    /\ Seguir("datos")
    /\ UNCHANGED <<usados, existe, bloque, libres, fsVivo>>

\* escribirDatosEnBloques: one block per step.
GuardarEscribeBloque ==
    LET desde == orden.offset + orden.hecho
        tope == redondearDivisionPaArriba(desde + 1, TamanioBloque) * TamanioBloque
        fin == orden.offset + Len(orden.datos)
        hasta == IF fin < tope THEN fin ELSE tope
        b == bloquesDe[orden.nombre][(desde \div TamanioBloque) + 1]
    IN /\ Sirviendo("GUARDAR_DATOS", "datos") /\ orden.hecho < Len(orden.datos)
       /\ bloque' = [bloque EXCEPT ![b] =
            [c \in Celdas |->
                LET k == (desde \div TamanioBloque) * TamanioBloque + c IN
                IF k >= desde /\ k < hasta THEN orden.datos[k - orden.offset + 1]
                                           ELSE @[c]]]
       /\ orden' = [orden EXCEPT !.hecho = hasta - orden.offset]
       /\ UNCHANGED <<usados, existe, bloquesDe, libres, respuestaFs, fsVivo>>

GuardarTermina ==
    /\ Sirviendo("GUARDAR_DATOS", "datos") /\ orden.hecho = Len(orden.datos)
    /\ Responder(Dice("ESCRIBIR_OK"))
    /\ UNCHANGED <<disco, libres, fsVivo>>

\* The process dies in the middle of a request that writes.
EventoDe == [GUARDAR_DATOS |-> "caidaGuardar", CREAR_ARCHIVO |-> "caidaCrear",
             BORRAR_ARCHIVO |-> "caidaBorrar"]
Caer ==
    /\ fsVivo /\ orden.tipo \in DOMAIN EventoDe
    /\ EventoDe[orden.tipo] \in Eventos
    /\ fsVivo' = FALSE
    /\ orden' = SinOrden
    /\ UNCHANGED <<disco, libres, respuestaFs>>

\* iniciarFilesystem: mapBitMap and actualizarBloquesLibres.
FsReiniciar ==
    /\ fsVivo' = TRUE
    /\ libres' = BloquesLibres
    /\ orden' = SinOrden
    /\ respuestaFs' = SinRespuesta
    /\ UNCHANGED disco

FsPaso ==
    \/ LeerMetadataInexistente \/ validarArchivo
    \/ CrearFalla \/ CrearAbreMetadata \/ CrearEscribeMetadata \/ CrearMarcaBloque
    \/ BorrarLiberaBloque \/ BorrarMetadata
    \/ ObtenerDatos
    \/ GuardarFalla \/ GuardarEmpieza \/ GuardarMarcaBloque \/ GuardarAbreMetadata
    \/ GuardarEscribeMetadata \/ GuardarEscribeBloque \/ GuardarTermina
    \/ Caer

-----------------------------------------------------------------------------
(* Properties of the disk.                                                 *)

BloquesEn(n) == {bloquesDe[n][i] : i \in 1..Len(bloquesDe[n])}

FsTypeOK ==
    /\ usados \subseteq Bloques
    /\ existe \subseteq Nombres
    /\ bloquesDe \in [Nombres -> Seq(Bloques)]
    /\ bloque \in [Bloques -> [Celdas -> Valores \cup {Basura}]]
    /\ libres \in Int
    /\ fsVivo \in BOOLEAN

\* No block belongs to two files, nor twice to one: what a file is given is
\* never what another one holds.  Between two requests the bits of the blocks
\* of every file are 1.
BloquesSinCompartir ==
    /\ orden = SinOrden => \A n \in Nombres : BloquesEn(n) \subseteq usados
    /\ \A n, m \in Nombres : n # m => BloquesEn(n) \cap BloquesEn(m) = {}
    /\ \A n \in Nombres : \A i, j \in 1..Len(bloquesDe[n]) :
         bloquesDe[n][i] = bloquesDe[n][j] => i = j
=============================================================================

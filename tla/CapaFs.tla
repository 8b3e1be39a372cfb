------------------------------- MODULE CapaFs -------------------------------
(***************************************************************************)
(* The kernel's file layer over the file system: the global file table,    *)
(* one table per process, and the syscalls about files.  The kernel has    *)
(* one thread and blocks in recv until the file system answers, so only a  *)
(* crash gets between the parts of a syscall.                              *)
(***************************************************************************)
EXTENDS FileSystem, Functions, SequencesExt

CONSTANTS
    Procesos,       \* PIDs
    Permisos,       \* the flags programs open files with, sets of "c" "w" "r"
    Escrituras,     \* what they write, non-empty sequences of Valores
    Posiciones,     \* where they move the cursor
    Lecturas,       \* how much they read
    MaxAbiertos,    \* bound: files a process has open
    MaxReinicios    \* bound: restarts after a crash

VARIABLES
    gft,        \* globalFileTable: name and times open; gfd is the index
    pft,        \* dicPID_PFT without the three first entries: the entry of
                \* descriptor d is at d - 2
    llamada,    \* the syscall that waits for the file system
    contestado, \* the last answer to a CPU
    kernelVivo, \* the kernel did not dereference NULL
    reinicios,  \* bound counter
    programa    \* auxiliary: the file each descriptor was opened for

kernelVars == <<gft, pft, llamada, contestado, kernelVivo, reinicios, programa>>
tablas == <<gft, pft, programa>>
vars == <<fsVars, kernelVars>>

ASSUME ProcesosAssumption == IsFiniteSet(Procesos)
ASSUME MaxAbiertosAssumption == MaxAbiertos \in Nat
ASSUME PermisosAssumption == Permisos \subseteq SUBSET {"c", "w", "r"}
ASSUME PosicionesAssumption == Posiciones \subseteq 0..MaxTamanio
ASSUME LecturasAssumption == Lecturas \subseteq 1..MaxTamanio
ASSUME EscriturasAssumption == Escrituras \subseteq Seq(Valores) \ {<<>>}

SinLlamada == [que |-> "nada"]
SinContestar == [que |-> "nada"]
Descriptores == 1..MaxAbiertos

Init ==
    /\ FsInit
    /\ gft = <<>>
    /\ pft = [p \in Procesos |-> <<>>]
    /\ llamada = SinLlamada
    /\ contestado = SinContestar
    /\ kernelVivo = TRUE
    /\ reinicios = 0
    /\ programa = [p \in Procesos |-> <<>>]

-----------------------------------------------------------------------------
(* Helpers of the handlers.                                                *)

KernelLibre == fsVivo /\ kernelVivo /\ llamada = SinLlamada
Contesta(p, q) == contestado' = [pid |-> p, que |-> q] /\ llamada' = SinLlamada
Con(p, q, campo, v) ==
    /\ contestado' = [pid |-> p, que |-> q] @@ (campo :> v)
    /\ llamada' = SinLlamada

\* obtenerFDGlobal, 0 when nobody has the file open
obtenerFDGlobal(n) ==
    LET s == {g \in 1..Len(gft) : gft[g].nombre = n}
    IN IF s = {} THEN 0 ELSE CHOOSE g \in s : \A h \in s : g <= h

\* list_get gives NULL past the end: descriptors and global descriptors that
\* point nowhere.
HayEntrada(p, i) == i <= Len(pft[p])
HayGlobal(p, i) == HayEntrada(p, i) /\ pft[p][i].gfd <= Len(gft)
NombreDe(p, i) == gft[pft[p][i].gfd].nombre

PedirAlFs(o) ==
    /\ orden' = o
    /\ respuestaFs' = SinRespuesta
    /\ UNCHANGED <<disco, libres, fsVivo>>
PedidoSimple(tipo, n) ==
    [tipo |-> tipo, nombre |-> n, fase |-> "recibida", hecho |-> 0, antes |-> EnDisco(n),
     offset |-> 0, tam |-> 0, datos |-> <<>>, nuevos |-> <<>>]
FsQuieto == UNCHANGED fsVars
Consumir ==
    /\ respuestaFs' = SinRespuesta
    /\ orden' = SinOrden
    /\ UNCHANGED <<disco, libres, fsVivo>>
Llega(que, q) ==
    fsVivo /\ kernelVivo /\ llamada.que = que /\ respuestaFs.que = q

\* A dereference of NULL ends the kernel.
KernelCae ==
    /\ kernelVivo' = FALSE
    /\ llamada' = SinLlamada
    /\ contestado' = SinContestar
    /\ FsQuieto
    /\ UNCHANGED <<tablas, reinicios>>

-----------------------------------------------------------------------------
(* pedido_abrir_archivo: abrirArchivo.                                     *)

\* A new entry at the end of the table of the process; its place is the
\* descriptor the program gets.
AgregarALaPft(p, n, f, g) ==
    LET i == Len(pft[p]) + 1 IN
    /\ pft' = [pft EXCEPT ![p] = Append(@, [gfd |-> g, cursor |-> 0, flags |-> f])]
    /\ programa' = [programa EXCEPT ![p] =
         [j \in DOMAIN @ \cup {i} |-> IF j = i THEN n ELSE @[j]]]
    /\ Con(p, "APERTURA_EXITOSA", "fd", i)

AgregarALaGft(p, n, f) ==
    /\ gft' = Append(gft, [nombre |-> n, abiertos |-> 1])
    /\ AgregarALaPft(p, n, f, Len(gft) + 1)

\* Mutant: who opens it is not counted.
DefectoAbrirAbierto(p, n, f) ==
    LET g == obtenerFDGlobal(n) IN
    /\ KernelLibre /\ Len(pft[p]) < MaxAbiertos
    /\ g # 0
    /\ AgregarALaPft(p, n, f, g)
    /\ FsQuieto
    /\ UNCHANGED <<gft, kernelVivo, reinicios>>

AbrirAbierto(p, n, f) ==
    LET g == obtenerFDGlobal(n) IN
    /\ KernelLibre /\ Len(pft[p]) < MaxAbiertos
    /\ g # 0
    /\ gft' = [gft EXCEPT ![g].abiertos = @ + 1]
    /\ AgregarALaPft(p, n, f, g)
    /\ FsQuieto
    /\ UNCHANGED <<kernelVivo, reinicios>>

AbrirConsulta(p, n, f) ==
    /\ KernelLibre /\ Len(pft[p]) < MaxAbiertos
    /\ obtenerFDGlobal(n) = 0
    /\ llamada' = [que |-> "existe", pid |-> p, nombre |-> n, flags |-> f]
    /\ contestado' = SinContestar
    /\ PedirAlFs(PedidoSimple("VALIDAR_ARCHIVO", n))
    /\ UNCHANGED <<tablas, kernelVivo, reinicios>>

AbrirExiste ==
    /\ Llega("existe", "EXISTE_ARCHIVO")
    /\ AgregarALaGft(llamada.pid, llamada.nombre, llamada.flags)
    /\ Consumir
    /\ UNCHANGED <<kernelVivo, reinicios>>

AbrirNoExiste ==
    /\ Llega("existe", "NO_EXISTE_ARCHIVO")
    /\ IF "c" \in llamada.flags
       THEN /\ llamada' = [llamada EXCEPT !.que = "crear"]
            /\ PedirAlFs(PedidoSimple("CREAR_ARCHIVO", llamada.nombre))
            /\ UNCHANGED contestado
       ELSE Contesta(llamada.pid, "ARCHIVO_INVALIDO") /\ Consumir
    /\ UNCHANGED <<tablas, kernelVivo, reinicios>>

AbrirCreado ==
    /\ Llega("crear", "ARCHIVO_CREADO_CON_EXITO")
    /\ AgregarALaGft(llamada.pid, llamada.nombre, llamada.flags)
    /\ Consumir
    /\ UNCHANGED <<kernelVivo, reinicios>>

AbrirNoCreado ==
    /\ Llega("crear", "FALLO_EN_LA_CREACION_DE_ARCHIVO")
    /\ Contesta(llamada.pid, "ESPACIO_INSUFICIENTE_EN_FS")
    /\ Consumir
    /\ UNCHANGED <<tablas, kernelVivo, reinicios>>

-----------------------------------------------------------------------------
(* pedido_borrar_archivo: the tables keep the entries of the file.         *)

BorrarRechazado(p, i) ==
    /\ KernelLibre
    /\ ~HayEntrada(p, i) \/ (HayGlobal(p, i) /\ gft[pft[p][i].gfd].abiertos # 1)
    /\ Contesta(p, "BORRADO_ERRONEO")
    /\ FsQuieto
    /\ UNCHANGED <<tablas, kernelVivo, reinicios>>

Borrar(p, i) ==
    /\ KernelLibre /\ HayEntrada(p, i) /\ HayGlobal(p, i)
    /\ gft[pft[p][i].gfd].abiertos = 1
    /\ NombreDe(p, i) \in existe \/ "usoTrasBorrar" \in Eventos
    /\ llamada' = [que |-> "borrar", pid |-> p, fd |-> i]
    /\ contestado' = SinContestar
    /\ PedirAlFs(PedidoSimple("BORRAR_ARCHIVO", NombreDe(p, i)))
    /\ UNCHANGED <<tablas, kernelVivo, reinicios>>

Borrado ==
    /\ Llega("borrar", "ARCHIVO_BORRADO_OK")
    /\ Contesta(llamada.pid, "BORRADO_EXITOSO")
    /\ Consumir
    /\ UNCHANGED <<tablas, kernelVivo, reinicios>>

-----------------------------------------------------------------------------
(* pedido_cerrar_archivo: list_remove moves every later entry one place.   *)

CerrarInvalido(p, i) ==
    /\ KernelLibre /\ ~HayEntrada(p, i)
    /\ Contesta(p, "ARCHIVO_INVALIDO")
    /\ FsQuieto
    /\ UNCHANGED <<tablas, kernelVivo, reinicios>>

\* Mutant: the entry goes away though others have the file open.
DefectoSinUno(t, g) == RemoveAt(t, g)

SinUno(t, g) ==
    IF t[g].abiertos > 1 THEN [t EXCEPT ![g].abiertos = @ - 1] ELSE RemoveAt(t, g)

CerrarEnTablas(p, i) ==
    LET g == pft[p][i].gfd IN
    /\ \/ i = Len(pft[p]) /\ (gft[g].abiertos > 1 \/ g = Len(gft))
       \/ "cierreIntermedio" \in Eventos
    /\ pft' = [pft EXCEPT ![p] = RemoveAt(@, i)]
    /\ gft' = SinUno(gft, g)
    /\ programa' = [programa EXCEPT ![p] = Restrict(@, DOMAIN @ \ {i})]
    /\ Contesta(p, "CERRADO_EXITOSO")
    /\ FsQuieto
    /\ UNCHANGED <<kernelVivo, reinicios>>

\* Nobody looks at the global entry for NULL; borrar, escribir and leer end
\* the kernel in the same way.
Cerrar(p, i) ==
    /\ KernelLibre /\ HayEntrada(p, i)
    /\ IF HayGlobal(p, i) THEN CerrarEnTablas(p, i) ELSE KernelCae

-----------------------------------------------------------------------------
(* pedido_mover_cursor_archivo.                                            *)

MoverCursor(p, i, pos) ==
    /\ KernelLibre
    /\ IF HayEntrada(p, i) /\ HayGlobal(p, i)
       THEN /\ pft' = [pft EXCEPT ![p][i].cursor = pos]
            /\ Contesta(p, "MOVER_CURSOR_EXITOSO")
       ELSE UNCHANGED pft /\ Contesta(p, "ARCHIVO_INVALIDO")
    /\ FsQuieto
    /\ UNCHANGED <<gft, programa, kernelVivo, reinicios>>

-----------------------------------------------------------------------------
(* pedido_escribir_archivo and pedido_leer_archivo, for a file.            *)

Rechazado(p, i, q, permiso) ==
    /\ KernelLibre
    /\ IF HayEntrada(p, i)
       THEN /\ HayGlobal(p, i) /\ permiso \notin pft[p][i].flags
            /\ q = "PERMISO_ARCHIVO_INVALIDO"
       ELSE q = "ARCHIVO_INVALIDO"
    /\ Contesta(p, q)
    /\ FsQuieto
    /\ UNCHANGED <<tablas, kernelVivo, reinicios>>

Usable(p, i) ==
    /\ KernelLibre /\ HayEntrada(p, i) /\ HayGlobal(p, i)
    /\ NombreDe(p, i) \in existe \/ "usoTrasBorrar" \in Eventos

Escribir(p, i, s) ==
    /\ Usable(p, i) /\ "w" \in pft[p][i].flags
    /\ pft[p][i].cursor + Len(s) <= MaxTamanio
    /\ llamada' = [que |-> "escribir", pid |-> p, fd |-> i, tam |-> Len(s)]
    /\ contestado' = SinContestar
    /\ PedirAlFs([PedidoSimple("GUARDAR_DATOS", NombreDe(p, i)) EXCEPT
                    !.offset = pft[p][i].cursor, !.datos = s])
    /\ UNCHANGED <<tablas, kernelVivo, reinicios>>

\* Mutant: the cursor is set to the size, as LeidoOk does.
DefectoEscrito ==
    /\ Llega("escribir", "ESCRIBIR_OK")
    /\ pft' = [pft EXCEPT ![llamada.pid][llamada.fd].cursor = llamada.tam]
    /\ Contesta(llamada.pid, "ESCRITURA_EXITOSA")
    /\ Consumir
    /\ UNCHANGED <<gft, programa, kernelVivo, reinicios>>

Escrito ==
    /\ Llega("escribir", "ESCRIBIR_OK")
    /\ pft' = [pft EXCEPT ![llamada.pid][llamada.fd].cursor = @ + llamada.tam]
    /\ Contesta(llamada.pid, "ESCRITURA_EXITOSA")
    /\ Consumir
    /\ UNCHANGED <<gft, programa, kernelVivo, reinicios>>

NoEscrito ==
    /\ Llega("escribir", "ESCRIBIR_FALLO")
    /\ Contesta(llamada.pid, "ARCHIVO_INVALIDO")
    /\ Consumir
    /\ UNCHANGED <<tablas, kernelVivo, reinicios>>

Leer(p, i, t) ==
    /\ Usable(p, i) /\ "r" \in pft[p][i].flags
    /\ llamada' = [que |-> "leer", pid |-> p, fd |-> i, tam |-> t]
    /\ contestado' = SinContestar
    /\ PedirAlFs([PedidoSimple("OBTENER_DATOS", NombreDe(p, i)) EXCEPT
                    !.offset = pft[p][i].cursor, !.tam = t])
    /\ UNCHANGED <<tablas, kernelVivo, reinicios>>

\* "cursor = +tamanio": the cursor is set to the size read.
LeidoOk ==
    /\ Llega("leer", "ENVIO_DATOS")
    /\ pft' = [pft EXCEPT ![llamada.pid][llamada.fd].cursor = llamada.tam]
    /\ Con(llamada.pid, "LECTURA_EXITOSA", "datos", respuestaFs.datos)
    /\ Consumir
    /\ UNCHANGED <<gft, programa, kernelVivo, reinicios>>

NoLeido ==
    /\ Llega("leer", "FALLO_DATOS")
    /\ Contesta(llamada.pid, "ARCHIVO_INVALIDO")
    /\ Consumir
    /\ UNCHANGED <<tablas, kernelVivo, reinicios>>

-----------------------------------------------------------------------------
(* checkSiDejoArchivosAbiertos, when a process ends: the entries in order, *)
(* each with the global descriptor it was opened with.                     *)

Cierra(e, entrada) ==
    IF ~e.bien \/ entrada.gfd > Len(e.gft) THEN [e EXCEPT !.bien = FALSE]
    ELSE [e EXCEPT !.gft = SinUno(@, entrada.gfd)]
Cierres(p) ==
    LET tras[k \in 0..Len(pft[p])] ==
            IF k = 0 THEN [gft |-> gft, bien |-> TRUE] ELSE Cierra(tras[k - 1], pft[p][k])
    IN tras[Len(pft[p])]

Finalizar(p) ==
    /\ KernelLibre /\ Len(pft[p]) > 0
    /\ \/ Len(pft[p]) = 1 /\ HayGlobal(p, 1)
          /\ (gft[pft[p][1].gfd].abiertos > 1 \/ pft[p][1].gfd = Len(gft))
       \/ "finConVarios" \in Eventos
    /\ IF Cierres(p).bien
       THEN /\ gft' = Cierres(p).gft
            /\ pft' = [pft EXCEPT ![p] = <<>>]
            /\ programa' = [programa EXCEPT ![p] = <<>>]
            /\ Contesta(p, "TERMINADO")
            /\ FsQuieto
            /\ UNCHANGED <<kernelVivo, reinicios>>
       ELSE KernelCae

\* Kernel and file system are started again: one alone is of no use, for the
\* kernel connects once.  What is on disk stays.
Reiniciar ==
    /\ ~fsVivo \/ ~kernelVivo
    /\ reinicios < MaxReinicios
    /\ FsReiniciar
    /\ gft' = <<>>
    /\ pft' = [p \in Procesos |-> <<>>]
    /\ programa' = [p \in Procesos |-> <<>>]
    /\ llamada' = SinLlamada
    /\ contestado' = SinContestar
    /\ kernelVivo' = TRUE
    /\ reinicios' = reinicios + 1

Syscall(p) ==
    \/ \E n \in Nombres, f \in Permisos : AbrirAbierto(p, n, f) \/ AbrirConsulta(p, n, f)
    \/ \E i \in Descriptores :
        \/ BorrarRechazado(p, i) \/ Borrar(p, i)
        \/ CerrarInvalido(p, i) \/ Cerrar(p, i)
        \/ \E pos \in Posiciones : MoverCursor(p, i, pos)
        \/ \E q \in {"ARCHIVO_INVALIDO", "PERMISO_ARCHIVO_INVALIDO"}, a \in {"w", "r"} :
             Rechazado(p, i, q, a)
        \/ \E s \in Escrituras : Escribir(p, i, s)
        \/ \E t \in Lecturas : Leer(p, i, t)
    \/ Finalizar(p)

Respuesta ==
    \/ AbrirExiste \/ AbrirNoExiste \/ AbrirCreado \/ AbrirNoCreado
    \/ Borrado \/ Escrito \/ NoEscrito \/ LeidoOk \/ NoLeido

Next ==
    \/ \E p \in Procesos : Syscall(p)
    \/ FsPaso /\ UNCHANGED kernelVars
    \/ Respuesta
    \/ Reiniciar

Spec == Init /\ [][Next]_vars

-----------------------------------------------------------------------------
(* Properties.                                                             *)

Entrada == [gfd : Nat, cursor : Int, flags : Permisos]
TypeOK ==
    /\ FsTypeOK
    /\ gft \in Seq([nombre : Nombres, abiertos : Nat])
    /\ pft \in [Procesos -> Seq(Entrada)]
    /\ kernelVivo \in BOOLEAN
    /\ \A p \in Procesos : \A i \in DOMAIN programa[p] : programa[p][i] \in Nombres

\* capaFs.c:44: "el descriptor de archivo es la nueva entrada en la PFT".  The
\* descriptor a program got for a file stands for that file until it closes it.
DescriptorFiel ==
    \A p \in Procesos : \A i \in DOMAIN programa[p] :
        HayEntrada(p, i) /\ HayGlobal(p, i) /\ NombreDe(p, i) = programa[p][i]

\* The global table has one entry per file and counts who has it open; every
\* entry of a process is an entry of its own.
AbiertosCuenta ==
    /\ TypeOK
    /\ \A g, h \in 1..Len(gft) : gft[g].nombre = gft[h].nombre => g = h
    /\ \A g \in 1..Len(gft) : gft[g].abiertos =
         Cardinality({pi \in Procesos \X Descriptores :
                        HayEntrada(pi[1], pi[2]) /\ pft[pi[1]][pi[2]].gfd = g})

\* A file is refused for lack of space only when no block is free.
SinEspacioDeVerdad ==
    contestado.que = "ESPACIO_INSUFICIENTE_EN_FS" => Bloques \subseteq usados

\* The promise: a write shows when it is answered or when the process dies.
ContenidoDe(n) ==
    IF orden # SinOrden /\ orden.nombre = n THEN orden.antes ELSE EnDisco(n)
Promesa == INSTANCE Archivos WITH
    contenido <- [n \in Nombres |-> ContenidoDe(n)],
    abiertos <- [p \in Procesos |-> [i \in DOMAIN programa[p] |->
        [nombre |-> NombreDe(p, i), cursor |-> pft[p][i].cursor,
         flags |-> pft[p][i].flags]]],
    arriba <- fsVivo /\ kernelVivo
PromesaDeArchivos == Promesa!Spec
=============================================================================

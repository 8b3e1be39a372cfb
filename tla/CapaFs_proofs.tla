---------------------------- MODULE CapaFs_proofs ----------------------------
(***************************************************************************)
(* The file layer: whatever the kernel asks and wherever a write is cut,   *)
(* the types hold, no block is shared, and the descriptors and the counts  *)
(* of the tables are right.  Three layers, each with its own assumption on *)
(* the disturbances: types and protocol (none), the blocks, the tables.    *)
(***************************************************************************)
EXTENDS CapaFs, Secuencias_proofs, FiniteSetTheorems

-----------------------------------------------------------------------------
(* First layer: types and the protocol of kernel and file system.          *)

TiposDePedido == {"VALIDAR_ARCHIVO", "CREAR_ARCHIVO", "BORRAR_ARCHIVO",
                  "OBTENER_DATOS", "GUARDAR_DATOS"}
Fases == {"recibida", "metadata", "bitmap", "bloques", "datos", "contestada"}
PedidoTras(a) ==
    [tipo : TiposDePedido, nombre : Nombres, fase : Fases, hecho : Nat, antes : {a},
     offset : Nat, tam : Nat, datos : Seq(Valores), nuevos : Seq(Bloques)]
EntradaGlobal == [nombre : Nombres, abiertos : Nat]
EntradaUsable == [gfd : Nat \ {0}, cursor : Nat, flags : Permisos]
Llamadas ==
    [que : {"existe", "crear"}, pid : Procesos, nombre : Nombres, flags : Permisos]
    \cup [que : {"borrar"}, pid : Procesos, fd : Descriptores]
    \cup [que : {"escribir", "leer"}, pid : Procesos, fd : Descriptores, tam : Nat]

En(tipo, fase) == orden # SinOrden /\ orden.tipo = tipo /\ orden.fase = fase

FsTipado == FsTypeOK /\ (orden = SinOrden \/ orden \in PedidoTras(orden.antes))
KernelTipado ==
    /\ gft \in Seq(EntradaGlobal)
    /\ pft \in [Procesos -> Seq(EntradaUsable)]
    /\ kernelVivo \in BOOLEAN
    /\ llamada = SinLlamada \/ llamada \in Llamadas
    /\ llamada # SinLlamada /\ llamada.que \in {"borrar", "escribir", "leer"}
         => llamada.fd <= Len(pft[llamada.pid])

\* Whoever waits for the file system has a request there, and an answer on
\* its way is the answer to it.
Protocolo ==
    /\ llamada = SinLlamada => orden = SinOrden
    /\ respuestaFs # SinRespuesta => orden = SinOrden \/ orden.fase = "contestada"

\* A request that was told there is room finds it, block by block.
HayLugar ==
    /\ En("CREAR_ARCHIVO", "metadata") => ~(Bloques \subseteq usados)
    /\ En("CREAR_ARCHIVO", "bitmap") => Len(bloquesDe[orden.nombre]) = 1
    /\ En("GUARDAR_DATOS", "bloques") =>
         BloquesLibres + Len(orden.nuevos) >=
         redondearDivisionPaArriba(orden.offset + Len(orden.datos), TamanioBloque)

Base == FsTipado /\ KernelTipado /\ Protocolo /\ HayLugar

-----------------------------------------------------------------------------
(* Second layer: the blocks.                                               *)

\* The request in course gave block i of file n before its bit, or took the
\* bit before the file.
EnTramite(n, i) ==
    /\ orden # SinOrden /\ orden.nombre = n
    /\ \/ En("CREAR_ARCHIVO", "bitmap")
       \/ En("BORRAR_ARCHIVO", "recibida") /\ i <= orden.hecho
Marcados ==
    \A n \in Nombres : \A i \in 1..Len(bloquesDe[n]) :
        bloquesDe[n][i] \in usados \/ EnTramite(n, i)
Ajenos ==
    \A n, m \in Nombres : \A i \in 1..Len(bloquesDe[n]), j \in 1..Len(bloquesDe[m]) :
        bloquesDe[n][i] = bloquesDe[m][j] => n = m /\ i = j
Presentes == \A n \in Nombres : bloquesDe[n] # <<>> => n \in existe
Creando == En("CREAR_ARCHIVO", "metadata") =>
    orden.nombre \in existe /\ bloquesDe[orden.nombre] = <<>>

\* The list a write is building: blocks of its own, marked, and no other
\* file's.
Construyendo ==
    En("GUARDAR_DATOS", "bloques") \/ En("GUARDAR_DATOS", "metadata") =>
        /\ orden.nombre \in existe
        /\ \A i \in 1..Len(orden.nuevos) :
             /\ orden.nuevos[i] \in usados
             /\ \A j \in 1..Len(orden.nuevos) : orden.nuevos[i] = orden.nuevos[j] => i = j
             /\ \A m \in Nombres : \A j \in 1..Len(bloquesDe[m]) :
                  orden.nuevos[i] = bloquesDe[m][j] => m = orden.nombre
\* A request is in course only while both processes run.
Vivos == orden # SinOrden => fsVivo /\ kernelVivo
Reparto == Vivos /\ Marcados /\ Ajenos /\ Presentes /\ Creando /\ Construyendo

-----------------------------------------------------------------------------
(* Third layer: the tables.                                                *)

Enlazadas ==
    /\ programa \in [Procesos -> Seq(Nombres)]
    /\ \A p \in Procesos :
        /\ Len(pft[p]) <= MaxAbiertos
        /\ DOMAIN programa[p] = 1..Len(pft[p])
        /\ \A i \in 1..Len(pft[p]) :
             /\ pft[p][i].gfd <= Len(gft)
             /\ programa[p][i] = gft[pft[p][i].gfd].nombre
UnaPorArchivo ==
    \A g, h \in 1..Len(gft) : gft[g].nombre = gft[h].nombre => g = h
QuienLoTiene(g) ==
    {pi \in Procesos \X Descriptores :
        HayEntrada(pi[1], pi[2]) /\ pft[pi[1]][pi[2]].gfd = g}
Contados == \A g \in 1..Len(gft) : gft[g].abiertos = Cardinality(QuienLoTiene(g))
\* Between the question to the file system and its answer nobody else opens.
Reservado ==
    llamada # SinLlamada /\ llamada.que \in {"existe", "crear"} =>
        /\ Len(pft[llamada.pid]) < MaxAbiertos
        /\ \A g \in 1..Len(gft) : gft[g].nombre # llamada.nombre
Tablas == Enlazadas /\ UnaPorArchivo /\ Contados /\ Reservado

-----------------------------------------------------------------------------
(* The operators of the file system.                                       *)

\* Blocks that do not fill n bytes are fewer than the blocks n bytes take.
LEMMA Techo ==
    ASSUME NEW n \in Nat, NEW d \in Nat \ {0}, NEW k \in Nat, d * k < n
    PROVE  k + 1 <= redondearDivisionPaArriba(n, d)
<1>. DEFINE a == n + d - 1
            q == a \div d
<1>1. a \in Nat /\ q \in Int /\ a = d * q + (a % d) /\ a % d < d
  BY SMT
<1>2. d * k < d * q
  <2>. DEFINE m == a % d
  <2>1. m \in Int /\ m < d /\ a = d * q + m /\ q \in Int /\ d * q \in Int /\ d * k \in Int
    BY <1>1
  <2>. HIDE DEF m, q
  <2> QED BY <2>1
<1>3. k < q
  <2>. HIDE DEF q
  <2>1. SUFFICES ASSUME q <= k PROVE FALSE
    BY <1>1
  <2>2. d * q <= d * k
    BY <1>1, <2>1
  <2> QED BY <1>1, <1>2, <2>2
<1> QED
  BY <1>1, <1>3 DEF redondearDivisionPaArriba

\* The bits count blocks: when one is free the search finds it, and there is
\* one while the count says so.
LEMMA BloqueLibre ==
    ASSUME usados \subseteq Bloques
    PROVE  /\ IsFiniteSet(usados)
           /\ BloquesLibres \in Int
           /\ BloquesLibres >= 1 => ~(Bloques \subseteq usados)
           /\ ~(Bloques \subseteq usados) => PrimerBloqueLibre \in Bloques \ usados
<1>. DEFINE I == Bloques \ usados
<1>1. IsFiniteSet(Bloques) /\ Cardinality(Bloques) = CantBloques
  BY FS_Interval, BloquesAssumption DEF Bloques
<1>2. IsFiniteSet(usados) /\ Cardinality(usados) \in Nat
  BY <1>1, FS_Subset, FS_CardinalityType
<1>3. BloquesLibres >= 1 => ~(Bloques \subseteq usados)
  <2>1. SUFFICES ASSUME Bloques \subseteq usados PROVE BloquesLibres = 0
    BY <1>2, BloquesAssumption DEF BloquesLibres
  <2>2. usados = Bloques
    BY <2>1
  <2> QED BY <1>1, <2>2, BloquesAssumption DEF BloquesLibres
<1>4. ASSUME ~(Bloques \subseteq usados)
      PROVE  PrimerBloqueLibre \in Bloques \ usados
  <2>1. I \subseteq Nat /\ I # {}
    BY <1>4, BloquesAssumption DEF Bloques
  <2>2. \E b \in I : \A d \in I : b <= d
    BY <2>1, MinimoExiste
  <2> QED
    BY <1>4, <2>2 DEF PrimerBloqueLibre
<1> QED
  BY <1>2, <1>3, <1>4, BloquesAssumption DEF BloquesLibres

\* One more bit is one block less.
LEMMA UnBloqueMenos ==
    ASSUME usados \subseteq Bloques, NEW b \in Bloques, b \notin usados
    PROVE  CantBloques - Cardinality(usados \cup {b}) = BloquesLibres - 1
<1>1. IsFiniteSet(usados) /\ Cardinality(usados) \in Nat
  BY BloqueLibre, FS_CardinalityType
<1>2. Cardinality(usados \cup {b}) = Cardinality(usados) + 1
  BY <1>1, FS_AddElement
<1> QED
  BY <1>1, <1>2, BloquesAssumption DEF BloquesLibres

-----------------------------------------------------------------------------
(* First layer.                                                            *)

\* Both programs start empty, with no order pending.
LEMMA BaseInicial == Init => Base
<1>. SUFFICES ASSUME Init PROVE Base
  OBVIOUS
<1>1. FsTipado
  BY BloquesAssumption DEF Init, FsInit, FsTipado, FsTypeOK
<1>2. KernelTipado
  BY DEF Init, KernelTipado
<1>3. Protocolo /\ HayLugar
  BY DEF Init, FsInit, Protocolo, HayLugar, En
<1> QED
  BY <1>1, <1>2, <1>3 DEF Base

\* A request keeps its type whatever phase it gets to.
LEMMA OtraFase ==
    ASSUME NEW a, NEW o \in PedidoTras(a), NEW f \in Fases
    PROVE  /\ [o EXCEPT !.fase = f] \in PedidoTras(a)
           /\ [o EXCEPT !.fase = f].tipo = o.tipo
           /\ [o EXCEPT !.fase = f].fase = f
           /\ [o EXCEPT !.fase = f].antes = o.antes
           /\ [o EXCEPT !.fase = f].nombre = o.nombre
           /\ [o EXCEPT !.fase = f].hecho = o.hecho
           /\ [o EXCEPT !.fase = f].offset = o.offset
           /\ [o EXCEPT !.fase = f].datos = o.datos
           /\ [o EXCEPT !.fase = f].nuevos = o.nuevos
           /\ [o EXCEPT !.fase = f] # SinOrden
BY DEF PedidoTras, SinOrden, TiposDePedido
\* A write that lacks blocks finds one.
LEMMA LibreAlMarcar ==
    ASSUME Base, Sirviendo("GUARDAR_DATOS", "bloques"), FaltanBloques
    PROVE  PrimerBloqueLibre \in Bloques /\ PrimerBloqueLibre \notin usados
<1>. DEFINE k == Len(orden.nuevos)
            n == orden.offset + Len(orden.datos)
            t == redondearDivisionPaArriba(n, TamanioBloque)
<1>1. orden # SinOrden /\ orden \in PedidoTras(orden.antes) /\ usados \subseteq Bloques
  BY DEF Sirviendo, SinOrden, Base, FsTipado, FsTypeOK
<1>2. orden.offset \in Nat /\ orden.datos \in Seq(Valores) /\ orden.nuevos \in Seq(Bloques)
  BY <1>1 DEF PedidoTras
<1>3. k \in Nat /\ n \in Nat /\ t \in Int
  <2>1. k \in Nat /\ Len(orden.datos) \in Nat
    BY <1>2, LenProperties
  <2>2. n \in Nat
    BY <1>2, <2>1
  <2>. HIDE DEF n
  <2>3. t = (n + TamanioBloque - 1) \div TamanioBloque
    BY DEF redondearDivisionPaArriba
  <2>4. n + TamanioBloque - 1 \in Int /\ TamanioBloque \in Nat \ {0}
    BY <2>2, BloquesAssumption
  <2>. HIDE DEF t
  <2>5. t \in Int
    BY <2>3, <2>4
  <2> QED BY <2>1, <2>2, <2>5
<1>4. BloquesLibres + k >= t
  BY <1>1 DEF Base, HayLugar, En, Sirviendo
<1>5. TamanioBloque * k < n
  BY DEF FaltanBloques
<1>6. k + 1 <= t
  BY <1>3, <1>5, Techo, BloquesAssumption
<1>7. BloquesLibres \in Int
  BY <1>1, BloqueLibre
<1>. HIDE DEF k, t
<1>8. BloquesLibres >= 1
  BY <1>3, <1>4, <1>6, <1>7
<1> QED BY <1>1, <1>8, BloqueLibre

\* What the file system does with a request leaves the kernel waiting.
LEMMA FsBase ==
    ASSUME Base, FsPaso, UNCHANGED kernelVars
    PROVE  Base'
<1>1. /\ FsTypeOK /\ usados \subseteq Bloques /\ existe \subseteq Nombres
      /\ bloquesDe \in [Nombres -> Seq(Bloques)]
      /\ bloque \in [Bloques -> [Celdas -> Valores \cup {Basura}]]
      /\ libres \in Int /\ fsVivo \in BOOLEAN
  BY DEF Base, FsTipado, FsTypeOK
<1>2. orden # SinOrden
  <2>1. CASE Caer
    BY <2>1 DEF Caer, SinOrden, EventoDe
  <2>2. ASSUME NEW t \in TiposDePedido, NEW f, Sirviendo(t, f) PROVE orden # SinOrden
    BY <2>2 DEF Sirviendo, SinOrden, TiposDePedido
  <2>3. CASE LeerMetadataInexistente
    BY <2>3 DEF LeerMetadataInexistente
  <2>4. CASE validarArchivo \/ CrearFalla \/ CrearAbreMetadata \/ CrearEscribeMetadata
             \/ CrearMarcaBloque \/ BorrarLiberaBloque \/ BorrarMetadata \/ ObtenerDatos
    BY <2>2, <2>4, Zenon DEF validarArchivo, CrearFalla, CrearAbreMetadata,
       CrearEscribeMetadata, CrearMarcaBloque, BorrarLiberaBloque, BorrarMetadata,
       ObtenerDatos, TiposDePedido
  <2>5. CASE GuardarFalla \/ GuardarEmpieza \/ GuardarMarcaBloque \/ GuardarAbreMetadata
             \/ GuardarEscribeMetadata \/ GuardarEscribeBloque \/ GuardarTermina
    BY <2>2, <2>5, Zenon DEF GuardarFalla, GuardarEmpieza, GuardarMarcaBloque,
       GuardarAbreMetadata, GuardarEscribeMetadata, GuardarEscribeBloque,
       GuardarTermina, TiposDePedido
  <2> QED BY <2>1, <2>3, <2>4, <2>5 DEF FsPaso
<1>3. /\ orden \in PedidoTras(orden.antes)
      /\ llamada # SinLlamada
      /\ orden.fase # "contestada" => respuestaFs = SinRespuesta
  BY <1>2 DEF Base, FsTipado, Protocolo
<1>4. /\ orden.nombre \in Nombres /\ orden.hecho \in Nat /\ orden.offset \in Nat
      /\ orden.datos \in Seq(Valores) /\ orden.nuevos \in Seq(Bloques)
      /\ bloquesDe[orden.nombre] \in Seq(Bloques)
  BY <1>1, <1>3 DEF PedidoTras
<1>5. KernelTipado'
  BY DEF Base, KernelTipado, kernelVars
<1>6. BloquesLibres \in Int
  BY <1>1, BloqueLibre
<1>. DEFINE Listo == FsTipado' /\ Protocolo' /\ HayLugar'
\* Three ways of going on: the answer, another phase, the end.
<1>7. ASSUME NEW r, Responder(r), FsTypeOK' PROVE Listo
  <2>1. "contestada" \in Fases
    BY DEF Fases
  <2>2. orden' = [orden EXCEPT !.fase = "contestada"]
    BY <1>7 DEF Responder
  <2>3. orden' \in PedidoTras(orden'.antes) /\ orden'.fase = "contestada"
        /\ orden' # SinOrden
    BY <1>3, <2>1, <2>2, OtraFase
  <2> QED
    BY <1>3, <1>7, <2>3 DEF FsTipado, Protocolo, HayLugar, En, kernelVars
<1>8. ASSUME NEW f \in Fases, Seguir(f), FsTypeOK', orden.fase # "contestada"
      PROVE  /\ FsTipado' /\ Protocolo'
             /\ orden'.tipo = orden.tipo /\ orden'.fase = f
             /\ orden'.nombre = orden.nombre
  <2>1. orden' \in PedidoTras(orden'.antes) /\ orden'.fase = f
        /\ orden' # SinOrden /\ orden'.tipo = orden.tipo /\ orden'.nombre = orden.nombre
    BY <1>3, <1>8, OtraFase DEF Seguir
  <2> QED
    BY <1>3, <1>8, <2>1 DEF FsTipado, Protocolo, Seguir, kernelVars
<1>9. ASSUME orden' = SinOrden, UNCHANGED respuestaFs, FsTypeOK' PROVE Listo
  BY <1>3, <1>9 DEF FsTipado, Protocolo, HayLugar, En
<1>. SUFFICES Listo
  BY <1>5 DEF Base
<1>. HIDE DEF Listo
<1>10. CASE LeerMetadataInexistente \/ Caer
  <2>1. FsTypeOK'
    BY <1>1, <1>10 DEF LeerMetadataInexistente, Caer, FsTypeOK, disco
  <2>2. orden' = SinOrden /\ UNCHANGED respuestaFs
    BY <1>10 DEF LeerMetadataInexistente, Caer
  <2> QED BY <1>9, <2>1, <2>2
<1>11. CASE validarArchivo \/ CrearFalla \/ ObtenerDatos \/ GuardarTermina
  <2>1. FsTypeOK'
    BY <1>1, <1>11
    DEF validarArchivo, CrearFalla, ObtenerDatos, GuardarTermina, FsTypeOK, disco
  <2>2. \E r : Responder(r)
    BY <1>11 DEF validarArchivo, CrearFalla, ObtenerDatos, GuardarTermina
  <2> QED BY <1>7, <2>1, <2>2
<1>12. CASE GuardarFalla
  <2>1. FsTypeOK'
    BY <1>1, <1>6, <1>12 DEF GuardarFalla, FsTypeOK, disco
  <2> QED BY <1>7, <1>12, <2>1 DEF GuardarFalla
<1>13. CASE CrearAbreMetadata
  <2>1. FsTypeOK'
    <3>1. existe' \subseteq Nombres /\ bloquesDe' \in [Nombres -> Seq(Bloques)]
      BY <1>1, <1>4, <1>13 DEF CrearAbreMetadata
    <3> QED BY <1>1, <1>13, <3>1 DEF CrearAbreMetadata, FsTypeOK
  <2>2. FsTipado' /\ Protocolo' /\ orden'.tipo = "CREAR_ARCHIVO"
        /\ orden'.fase = "metadata"
    BY <1>8, <1>13, <2>1 DEF CrearAbreMetadata, Sirviendo, Fases
  <2>3. ~(Bloques \subseteq usados')
    BY <1>13 DEF CrearAbreMetadata, CrearSePuede, PrimerBloqueLibre
  <2> QED BY <2>2, <2>3 DEF Listo, HayLugar, En
<1>14. CASE CrearEscribeMetadata
  <2>1. PrimerBloqueLibre \in Bloques
    BY <1>1, <1>2, <1>14, BloqueLibre
    DEF Base, HayLugar, En, CrearEscribeMetadata, Sirviendo
  <2>2. /\ bloquesDe' \in [Nombres -> Seq(Bloques)]
        /\ bloquesDe'[orden.nombre] = <<PrimerBloqueLibre>>
    BY <1>1, <1>4, <1>14, <2>1 DEF CrearEscribeMetadata
  <2>3. FsTypeOK'
    BY <1>1, <1>14, <2>2 DEF CrearEscribeMetadata, FsTypeOK
  <2>4. FsTipado' /\ Protocolo' /\ orden'.tipo = "CREAR_ARCHIVO"
        /\ orden'.fase = "bitmap" /\ orden'.nombre = orden.nombre
    BY <1>8, <1>14, <2>3 DEF CrearEscribeMetadata, Sirviendo, Fases
  <2>5. Len(bloquesDe'[orden'.nombre]) = 1
    <3>1. bloquesDe'[orden'.nombre] = <<PrimerBloqueLibre>>
      BY <2>2, <2>4
    <3> QED BY ONLY <3>1
  <2> QED BY <2>4, <2>5 DEF Listo, HayLugar, En
<1>15. CASE CrearMarcaBloque
  <2>1. Len(bloquesDe[orden.nombre]) = 1
    BY <1>2, <1>15 DEF Base, HayLugar, En, CrearMarcaBloque, Sirviendo
  <2>2. bloquesDe[orden.nombre][1] \in Bloques
    BY <1>4, <2>1, ElementOfSeq
  <2>3. FsTypeOK'
    BY <1>1, <1>15, <2>2 DEF CrearMarcaBloque, FsTypeOK
  <2> QED BY <1>7, <1>15, <2>3 DEF CrearMarcaBloque
<1>16. CASE BorrarLiberaBloque
  <2>1. FsTypeOK'
    BY <1>1, <1>16 DEF BorrarLiberaBloque, FsTypeOK
  <2>2. orden' \in PedidoTras(orden'.antes) /\ orden' # SinOrden
        /\ orden'.tipo = "BORRAR_ARCHIVO" /\ orden.fase = "recibida"
    <3>1. /\ orden' = [orden EXCEPT !.hecho = @ + 1] /\ orden.hecho + 1 \in Nat
          /\ orden.tipo = "BORRAR_ARCHIVO" /\ orden.fase = "recibida"
      BY <1>4, <1>16 DEF BorrarLiberaBloque, Sirviendo
    <3> QED BY <1>3, <3>1 DEF PedidoTras, SinOrden
  <2> QED
    BY <1>3, <1>16, <2>1, <2>2
    DEF Listo, FsTipado, Protocolo, HayLugar, En, BorrarLiberaBloque, kernelVars
<1>17. CASE BorrarMetadata
  <2>1. existe' \subseteq Nombres /\ bloquesDe' \in [Nombres -> Seq(Bloques)]
    BY <1>1, <1>4, <1>17 DEF BorrarMetadata
  <2>2. FsTypeOK'
    BY <1>1, <1>17, <2>1 DEF BorrarMetadata, FsTypeOK
  <2> QED BY <1>7, <1>17, <2>2 DEF BorrarMetadata
<1>18. CASE GuardarEmpieza
  <2>. DEFINE f == IF BloquesQueFaltan > 0 THEN "bloques" ELSE "datos"
              o1 == [orden EXCEPT !.fase = f]
  <2>1. FsTypeOK'
    BY <1>1, <1>6, <1>18 DEF GuardarEmpieza, FsTypeOK, disco
  <2>2. orden' = [o1 EXCEPT !.nuevos = bloquesDe[orden.nombre]]
    BY <1>3, <1>18 DEF GuardarEmpieza, PedidoTras
  <2>3. /\ o1 \in PedidoTras(orden.antes) /\ o1.tipo = "GUARDAR_DATOS"
        /\ o1.fase \in {"bloques", "datos"} /\ o1.antes = orden.antes
        /\ o1.offset = orden.offset /\ o1.datos = orden.datos
    <3>1. f \in Fases /\ f \in {"bloques", "datos"} /\ orden.tipo = "GUARDAR_DATOS"
      BY <1>18 DEF Fases, GuardarEmpieza, Sirviendo
    <3>. HIDE DEF f
    <3> QED BY <1>3, <3>1, OtraFase
  <2>. HIDE DEF o1, f
  <2>4. /\ orden' \in PedidoTras(orden.antes) /\ orden' # SinOrden
        /\ orden'.antes = orden.antes
        /\ orden'.tipo = "GUARDAR_DATOS" /\ orden'.fase \in {"bloques", "datos"}
        /\ orden'.nuevos = bloquesDe[orden.nombre]
        /\ orden'.offset = orden.offset /\ orden'.datos = orden.datos
    BY <1>4, <2>2, <2>3 DEF PedidoTras, SinOrden
  <2>5. /\ UNCHANGED <<usados, respuestaFs>>
        /\ BloquesLibres >= BloquesQueFaltan /\ orden.fase # "contestada"
    BY <1>18 DEF GuardarEmpieza, disco, Sirviendo
  <2>6. BloquesQueFaltan = redondearDivisionPaArriba(
          orden'.offset + Len(orden'.datos), TamanioBloque) - Len(orden'.nuevos)
    BY <2>4 DEF BloquesQueFaltan
  <2>7. redondearDivisionPaArriba(orden'.offset + Len(orden'.datos), TamanioBloque)
          \in Int /\ Len(orden'.nuevos) \in Nat
    BY <1>4, <2>4, BloquesAssumption, LenProperties DEF redondearDivisionPaArriba
  <2>8. BloquesLibres' = BloquesLibres
    BY <2>5 DEF BloquesLibres
  <2>9. BloquesLibres' + Len(orden'.nuevos) >= redondearDivisionPaArriba(
          orden'.offset + Len(orden'.datos), TamanioBloque)
    BY <1>6, <2>5, <2>6, <2>7, <2>8
  <2>10. FsTipado' /\ Protocolo'
    BY <1>3, <2>1, <2>4, <2>5 DEF FsTipado, Protocolo, kernelVars
  <2>11. HayLugar'
    BY <2>4, <2>9 DEF HayLugar, En
  <2> QED BY <2>10, <2>11 DEF Listo
<1>19. CASE GuardarMarcaBloque
  <2>. DEFINE k == Len(orden.nuevos)
              n == orden.offset + Len(orden.datos)
              b == PrimerBloqueLibre
              t == redondearDivisionPaArriba(n, TamanioBloque)
  <2>1. k \in Nat /\ n \in Nat /\ t \in Int
    BY <1>4, LenProperties, BloquesAssumption DEF redondearDivisionPaArriba
  <2>3. BloquesLibres + k >= t
    BY <1>2, <1>19 DEF Base, HayLugar, En, GuardarMarcaBloque, Sirviendo
  <2>. HIDE DEF t
  <2>5. b \in Bloques /\ b \notin usados
    BY <1>19, LibreAlMarcar DEF GuardarMarcaBloque
  <2>6. BloquesLibres' = BloquesLibres - 1
    BY <1>1, <1>19, <2>5, UnBloqueMenos DEF GuardarMarcaBloque, BloquesLibres
  <2>. DEFINE u == Append(orden.nuevos, b)
  <2>7. u \in Seq(Bloques) /\ Len(u) = k + 1
    BY <1>4, <2>5, AppendProperties
  <2>. HIDE DEF u, b
  <2>8. /\ orden' \in PedidoTras(orden.antes) /\ orden' # SinOrden
        /\ orden'.antes = orden.antes /\ orden'.fase = "bloques"
        /\ orden'.nuevos = u
        /\ orden'.offset = orden.offset /\ orden'.datos = orden.datos
    BY <1>3, <1>19, <2>7 DEF GuardarMarcaBloque, Sirviendo, PedidoTras, SinOrden, u, b
  <2>9. BloquesLibres' + Len(orden'.nuevos) >= redondearDivisionPaArriba(
          orden'.offset + Len(orden'.datos), TamanioBloque)
    BY <1>6, <2>1, <2>3, <2>6, <2>7, <2>8 DEF t
  <2>10. FsTypeOK'
    BY <1>1, <1>19, <2>5 DEF GuardarMarcaBloque, FsTypeOK, b
  <2>11. respuestaFs' = SinRespuesta
    BY <1>3, <1>19 DEF GuardarMarcaBloque, Sirviendo
  <2>12. FsTipado' /\ Protocolo'
    BY <1>3, <2>8, <2>10, <2>11 DEF FsTipado, Protocolo, kernelVars
  <2>13. HayLugar'
    BY <2>8, <2>9 DEF HayLugar, En
  <2> QED BY <2>12, <2>13 DEF Listo
<1>20. CASE GuardarAbreMetadata \/ GuardarEscribeMetadata
  <2>1. bloquesDe' \in [Nombres -> Seq(Bloques)]
    <3>1. \E s \in Seq(Bloques) : bloquesDe' = [bloquesDe EXCEPT ![orden.nombre] = s]
      <4>1. <<>> \in Seq(Bloques)
        OBVIOUS
      <4> QED BY <1>4, <1>20, <4>1 DEF GuardarAbreMetadata, GuardarEscribeMetadata
    <3> QED BY <1>1, <3>1
  <2>2. FsTypeOK'
    BY <1>1, <1>20, <2>1 DEF GuardarAbreMetadata, GuardarEscribeMetadata, FsTypeOK
  <2>3. FsTipado' /\ Protocolo' /\ orden'.tipo = "GUARDAR_DATOS"
        /\ orden'.fase \in {"metadata", "datos"}
    <3>1. CASE GuardarAbreMetadata
      BY <1>8, <2>2, <3>1 DEF GuardarAbreMetadata, Sirviendo, Fases
    <3>2. CASE GuardarEscribeMetadata
      BY <1>8, <2>2, <3>2 DEF GuardarEscribeMetadata, Sirviendo, Fases
    <3> QED BY <1>20, <3>1, <3>2
  <2> QED BY <2>3 DEF Listo, HayLugar, En
<1>21. CASE GuardarEscribeBloque
  <2>. DEFINE desde == orden.offset + orden.hecho
              tope == redondearDivisionPaArriba(desde + 1, TamanioBloque) * TamanioBloque
              fin == orden.offset + Len(orden.datos)
              hasta == IF fin < tope THEN fin ELSE tope
              b == bloquesDe[orden.nombre][(desde \div TamanioBloque) + 1]
              q == desde \div TamanioBloque
              celda(c) == LET k == q * TamanioBloque + c IN
                IF k >= desde /\ k < hasta THEN orden.datos[k - orden.offset + 1]
                                           ELSE bloque[b][c]
  <2>1. desde \in Nat /\ fin \in Nat /\ Len(orden.datos) \in Nat
    BY <1>4, LenProperties
  <2>2. tope \in Int /\ tope >= desde /\ q \in Int
    <3>1. desde + 1 \in Nat /\ (desde + 1) + TamanioBloque - 1 = desde + TamanioBloque
      BY <2>1, BloquesAssumption
    <3>2. tope = ((desde + TamanioBloque) \div TamanioBloque) * TamanioBloque
      BY <3>1 DEF redondearDivisionPaArriba
    <3>3. tope \in Int /\ tope > (desde + TamanioBloque) - TamanioBloque
      <4>. DEFINE m == desde + TamanioBloque
      <4>1. m \in Nat
        BY <2>1, BloquesAssumption
      <4>. HIDE DEF m
      <4>2. m = TamanioBloque * (m \div TamanioBloque) + (m % TamanioBloque)
            /\ m % TamanioBloque < TamanioBloque /\ m % TamanioBloque \in Int
            /\ m \div TamanioBloque \in Int
        BY <4>1, BloquesAssumption, SMT
      <4>3. tope = TamanioBloque * (m \div TamanioBloque)
        BY <3>2, <4>2, BloquesAssumption DEF m
      <4>. HIDE DEF tope
      <4>4. tope \in Int
        BY <4>2, <4>3, BloquesAssumption
      <4> QED BY <4>1, <4>2, <4>3, <4>4, BloquesAssumption DEF m
    <3> QED BY <2>1, <3>3, BloquesAssumption
  <2>. HIDE DEF tope
  <2>3. hasta \in Int /\ hasta >= orden.offset /\ hasta <= fin
    BY <1>4, <2>1, <2>2
  <2>. HIDE DEF hasta
  <2>4. /\ bloque' = [bloque EXCEPT ![b] = [c \in Celdas |-> celda(c)]]
        /\ orden' = [orden EXCEPT !.hecho = hasta - orden.offset]
        /\ orden.tipo = "GUARDAR_DATOS" /\ orden.fase = "datos"
        /\ UNCHANGED <<usados, existe, bloquesDe, libres, respuestaFs, fsVivo>>
    BY <1>21 DEF GuardarEscribeBloque, Sirviendo, hasta, tope
  <2>. HIDE DEF b, q, desde, fin
  <2>5. ASSUME b \in Bloques, NEW c \in Celdas
        PROVE  celda(c) \in Valores \cup {Basura}
    <3>. DEFINE k == q * TamanioBloque + c
    <3>1. k \in Int
      BY <2>2, <2>5, BloquesAssumption DEF Celdas
    <3>. HIDE DEF k
    <3>2. CASE k >= desde /\ k < hasta
      <4>1. k - orden.offset + 1 \in 1..Len(orden.datos)
        BY <1>4, <2>1, <2>3, <3>1, <3>2 DEF desde, fin
      <4>2. orden.datos[k - orden.offset + 1] \in Valores
        BY <1>4, <4>1, ElementOfSeq
      <4> QED BY <3>2, <4>2 DEF k
    <3>3. CASE ~(k >= desde /\ k < hasta)
      <4>1. bloque[b][c] \in Valores \cup {Basura}
        BY <1>1, <2>5
      <4> QED BY <3>3, <4>1 DEF k
    <3> QED BY <3>2, <3>3
  <2>. HIDE DEF celda
  <2>6. bloque' \in [Bloques -> [Celdas -> Valores \cup {Basura}]]
    <3>1. CASE b \in Bloques
      <4>1. [c \in Celdas |-> celda(c)] \in [Celdas -> Valores \cup {Basura}]
        BY <2>5, <3>1
      <4> QED BY <1>1, <2>4, <4>1
    <3>2. CASE b \notin Bloques
      BY <1>1, <2>4, <3>2
    <3> QED BY <3>1, <3>2
  <2>7. FsTypeOK'
    BY <1>1, <2>4, <2>6 DEF FsTypeOK
  <2>8. hasta - orden.offset \in Nat
    BY <1>4, <2>3
  <2>9. orden' \in PedidoTras(orden.antes) /\ orden'.antes = orden.antes
        /\ orden' # SinOrden /\ orden'.fase = "datos"
    BY <1>3, <2>4, <2>8 DEF PedidoTras, SinOrden
  <2>10. FsTipado' /\ Protocolo'
    BY <1>3, <2>4, <2>7, <2>9 DEF FsTipado, Protocolo, kernelVars
  <2> QED BY <2>9, <2>10 DEF Listo, HayLugar, En
<1> QED
  BY <1>10, <1>11, <1>12, <1>13, <1>14, <1>15, <1>16, <1>17, <1>18, <1>19, <1>20,
     <1>21 DEF FsPaso
\* What a syscall asks is typed and new; an answer taken ends the request.
LEMMA FsTrasElKernel ==
    ASSUME Base,
           \/ KernelLibre /\ FsQuieto
           \/ Consumir
           \/ /\ llamada' # SinLlamada
              /\ \E o : PedirAlFs(o) /\ o \in PedidoTras(o.antes) /\ o.fase = "recibida"
    PROVE  FsTipado' /\ Protocolo' /\ HayLugar'
<1>1. CASE KernelLibre /\ FsQuieto
  <2>1. orden = SinOrden
    BY <1>1 DEF Base, Protocolo, KernelLibre
  <2> QED
    BY <1>1, <2>1
    DEF Base, FsTipado, FsTypeOK, Protocolo, HayLugar, En, FsQuieto, fsVars, disco
<1>2. CASE Consumir
  BY <1>2 DEF Base, FsTipado, FsTypeOK, Protocolo, HayLugar, En, Consumir, disco
<1>3. CASE /\ llamada' # SinLlamada
           /\ \E o : PedirAlFs(o) /\ o \in PedidoTras(o.antes) /\ o.fase = "recibida"
  BY <1>3 DEF Base, FsTipado, FsTypeOK, Protocolo, HayLugar, En, PedirAlFs, disco
<1> QED BY <1>1, <1>2, <1>3

\* An order that carries no data is one the file system can receive.
LEMMA PedidoSimpleTipado ==
    ASSUME NEW t \in TiposDePedido, NEW n \in Nombres
    PROVE  LET o == PedidoSimple(t, n) IN
           /\ o \in PedidoTras(o.antes) /\ o.fase = "recibida"
           /\ \A c \in Nat, s \in Seq(Valores) :
                LET e == [o EXCEPT !.offset = c, !.datos = s] IN
                e \in PedidoTras(e.antes) /\ e.fase = "recibida"
           /\ \A c \in Nat, m \in Nat :
                LET e == [o EXCEPT !.offset = c, !.tam = m] IN
                e \in PedidoTras(e.antes) /\ e.fase = "recibida"
<1>. DEFINE o == PedidoSimple(t, n)
<1>1. o \in PedidoTras(o.antes) /\ o.fase = "recibida"
  BY DEF PedidoSimple, PedidoTras, Fases
<1>2. ASSUME NEW c \in Nat, NEW s \in Seq(Valores)
      PROVE  LET e == [o EXCEPT !.offset = c, !.datos = s] IN
             e \in PedidoTras(e.antes) /\ e.fase = "recibida"
  <2>. HIDE DEF o
  <2> QED BY <1>1 DEF PedidoTras
<1>3. ASSUME NEW c \in Nat, NEW m \in Nat
      PROVE  LET e == [o EXCEPT !.offset = c, !.tam = m] IN
             e \in PedidoTras(e.antes) /\ e.fase = "recibida"
  <2>. HIDE DEF o
  <2> QED BY <1>1 DEF PedidoTras
<1> QED BY <1>1, <1>2, <1>3

-----------------------------------------------------------------------------
(* The operators of the tables.                                            *)

\* obtenerFDGlobal returns a position of the file, or 0 when it has none.
LEMMA DescriptorGlobal ==
    ASSUME gft \in Seq(EntradaGlobal), NEW n
    PROVE  /\ obtenerFDGlobal(n) # 0 =>
                /\ obtenerFDGlobal(n) \in 1..Len(gft)
                /\ gft[obtenerFDGlobal(n)].nombre = n
           /\ obtenerFDGlobal(n) = 0 => \A g \in 1..Len(gft) : gft[g].nombre # n
<1>. DEFINE S == {g \in 1..Len(gft) : gft[g].nombre = n}
<1>1. Len(gft) \in Nat
  BY LenProperties
<1>2. CASE S = {}
  BY <1>2 DEF obtenerFDGlobal
<1>3. CASE S # {}
  <2>1. \E g \in S : \A h \in S : g <= h
    <3>1. S \subseteq Nat
      BY <1>1
    <3>. HIDE DEF S
    <3> QED BY <1>3, <3>1, MinimoExiste
  <2>2. obtenerFDGlobal(n) = CHOOSE g \in S : \A h \in S : g <= h
    BY <1>3 DEF obtenerFDGlobal
  <2>. HIDE DEF S
  <2>3. obtenerFDGlobal(n) \in S
    BY <2>1, <2>2
  <2>. USE DEF S
  <2>4. obtenerFDGlobal(n) \in 1..Len(gft) /\ gft[obtenerFDGlobal(n)].nombre = n
    BY <2>3
  <2>5. obtenerFDGlobal(n) # 0
    BY <1>1, <2>4
  <2> QED BY <2>4, <2>5
<1> QED BY <1>2, <1>3

\* Closing an entry once leaves the table typed.
LEMMA SinUnoTipado ==
    ASSUME NEW t \in Seq(EntradaGlobal), NEW g \in 1..Len(t)
    PROVE  SinUno(t, g) \in Seq(EntradaGlobal)
<1>1. t[g] \in EntradaGlobal
  BY ElementOfSeq
<1>2. CASE t[g].abiertos > 1
  <2>1. [t[g] EXCEPT !.abiertos = @ - 1] \in EntradaGlobal
    <3>1. t[g].abiertos - 1 \in Nat
      BY <1>1, <1>2 DEF EntradaGlobal
    <3> QED BY <1>1, <3>1 DEF EntradaGlobal
  <2>2. SinUno(t, g) = [t EXCEPT ![g] = [t[g] EXCEPT !.abiertos = @ - 1]]
    BY <1>2 DEF SinUno
  <2> QED BY <2>1, <2>2, ExceptSeq
<1>3. CASE ~(t[g].abiertos > 1)
  BY <1>3, QuitarUno DEF SinUno
<1> QED BY <1>2, <1>3

\* Moving the cursor of an entry.
LEMMA CursorMovido ==
    ASSUME NEW s \in Seq(EntradaUsable), NEW i \in 1..Len(s), NEW c \in Nat
    PROVE  /\ [s EXCEPT ![i].cursor = c] \in Seq(EntradaUsable)
           /\ Len([s EXCEPT ![i].cursor = c]) = Len(s)
           /\ \A j \in 1..Len(s) :
                /\ [s EXCEPT ![i].cursor = c][j].gfd = s[j].gfd
                /\ j # i => [s EXCEPT ![i].cursor = c][j] = s[j]
<1>1. s[i] \in EntradaUsable
  BY ElementOfSeq
<1>. DEFINE e == [s[i] EXCEPT !.cursor = c]
<1>2. e \in EntradaUsable /\ e.gfd = s[i].gfd
  BY <1>1 DEF EntradaUsable
<1>3. [s EXCEPT ![i].cursor = c] = [s EXCEPT ![i] = e]
  OBVIOUS
<1>. HIDE DEF e
<1>4. /\ [s EXCEPT ![i] = e] \in Seq(EntradaUsable)
      /\ Len([s EXCEPT ![i] = e]) = Len(s)
      /\ \A j \in 1..Len(s) : [s EXCEPT ![i] = e][j] = IF j = i THEN e ELSE s[j]
  BY <1>2, ExceptSeq
<1> QED BY <1>2, <1>3, <1>4

\* The closes of a process that ends, one after the other, leave the table
\* typed however many they are.  tras is the function Cierres recurs on: that
\* it exists, and that what holds at first and after each step holds at every
\* step, is shown on the least number at which it would not.
LEMMA CierresTipados ==
    ASSUME gft \in Seq(EntradaGlobal), NEW p, pft[p] \in Seq(EntradaUsable)
    PROVE  Cierres(p) \in [gft : Seq(EntradaGlobal), bien : BOOLEAN]
<1>. DEFINE s == pft[p]
            T == [gft : Seq(EntradaGlobal), bien : BOOLEAN]
            inicio == [gft |-> gft, bien |-> TRUE]
            Tras(f, n) == f = [k \in 0..n |-> IF k = 0 THEN inicio
                                              ELSE Cierra(f[k - 1], s[k])]
            Malos == {n \in Nat : ~ \E f : Tras(f, n)}
<1>1. Malos = {}
  <2>1. SUFFICES ASSUME Malos # {} PROVE FALSE
    OBVIOUS
  <2>2. PICK m \in Malos : \A n \in Malos : m <= n
    <3>1. Malos \subseteq Nat
      OBVIOUS
    <3>. HIDE DEF Malos
    <3> QED BY <2>1, <3>1, MinimoExiste
  <2>3. CASE m = 0
    <3>. DEFINE f == [k \in 0..0 |-> inicio]
    <3>1. Tras(f, 0)
      OBVIOUS
    <3> QED BY <2>2, <2>3, <3>1
  <2>4. CASE m # 0
    <3>1. m \in Nat /\ m - 1 \in Nat /\ m - 1 \notin Malos
      <4>1. m \in Nat /\ m - 1 \in Nat /\ ~(m <= m - 1)
        BY <2>4
      <4>. HIDE DEF Malos
      <4> QED BY <2>2, <4>1
    <3>2. PICK f : Tras(f, m - 1)
      BY <3>1
    <3>. DEFINE h == [k \in 0..m |-> IF k < m THEN f[k] ELSE Cierra(f[m - 1], s[m])]
    <3>3. ASSUME NEW k \in 0..m
          PROVE  h[k] = IF k = 0 THEN inicio ELSE Cierra(h[k - 1], s[k])
      <4>1. CASE k = m
        <5>1. h[k] = Cierra(f[m - 1], s[m]) /\ h[k - 1] = f[m - 1] /\ k # 0
          BY <2>4, <3>1, <4>1
        <5> QED BY <4>1, <5>1
      <4>2. CASE k # m
        <5>1. k \in 0..(m - 1) /\ k \in Nat
          BY <3>1, <4>2
        <5>2. h[k] = f[k]
          BY <3>1, <5>1
        <5>3. f[k] = IF k = 0 THEN inicio ELSE Cierra(f[k - 1], s[k])
          <6>. HIDE DEF inicio
          <6> QED BY <3>2, <5>1
        <5>4. CASE k = 0
          BY <5>2, <5>3, <5>4
        <5>5. CASE k # 0
          <6>1. h[k - 1] = f[k - 1]
            BY <3>1, <5>1, <5>5
          <6> QED BY <5>2, <5>3, <5>5, <6>1
        <5> QED BY <5>4, <5>5
      <4> QED BY <4>1, <4>2
    <3>4. Tras(h, m)
      <4>1. h = [k \in 0..m |-> h[k]]
        OBVIOUS
      <4>. HIDE DEF h, inicio
      <4> QED BY <3>3, <4>1
    <3>. HIDE DEF Tras
    <3> QED BY <2>2, <3>4
  <2> QED BY <2>3, <2>4
<1>2. Len(s) \in Nat
  BY LenProperties
<1>. DEFINE tras == CHOOSE f : Tras(f, Len(s))
<1>3. Tras(tras, Len(s))
  <2>1. \E f : Tras(f, Len(s))
    BY <1>1, <1>2
  <2>. HIDE DEF Tras
  <2> QED BY <2>1
<1>4. Cierres(p) = tras[Len(s)]
  BY DEF Cierres
<1>. HIDE DEF tras
<1>5. /\ tras[0] = inicio
      /\ \A k \in 1..Len(s) : tras[k] = Cierra(tras[k - 1], s[k])
  <2>1. \A k \in 0..Len(s) : tras[k] = IF k = 0 THEN inicio ELSE Cierra(tras[k - 1], s[k])
    <3>. HIDE DEF inicio, s
    <3> QED BY <1>3
  <2>2. /\ 0 \in 0..Len(s)
        /\ \A k \in 1..Len(s) : k \in 0..Len(s) /\ k # 0
    BY <1>2
  <2>. HIDE DEF inicio, s
  <2> QED BY <2>1, <2>2
<1>6. ASSUME NEW e \in T, NEW k \in 1..Len(s)
      PROVE  Cierra(e, s[k]) \in T
  <2>1. s[k] \in EntradaUsable /\ s[k].gfd \in Nat \ {0}
    <3>1. s[k] \in EntradaUsable
      BY ElementOfSeq
    <3> QED BY <3>1 DEF EntradaUsable
  <2>2. CASE ~e.bien \/ s[k].gfd > Len(e.gft)
    BY <2>2 DEF Cierra
  <2>3. CASE ~(~e.bien \/ s[k].gfd > Len(e.gft))
    <3>1. s[k].gfd \in 1..Len(e.gft)
      BY <2>1, <2>3, LenProperties
    <3>2. SinUno(e.gft, s[k].gfd) \in Seq(EntradaGlobal)
      BY <3>1, SinUnoTipado
    <3> QED BY <2>3, <3>2 DEF Cierra
  <2> QED BY <2>2, <2>3
<1>. DEFINE Peores == {k \in 0..Len(s) : tras[k] \notin T}
<1>7. Peores = {}
  <2>1. SUFFICES ASSUME Peores # {} PROVE FALSE
    OBVIOUS
  <2>2. PICK m \in Peores : \A n \in Peores : m <= n
    <3>1. Peores \subseteq Nat
      BY <1>2
    <3>. HIDE DEF Peores
    <3> QED BY <2>1, <3>1, MinimoExiste
  <2>3. inicio \in T
    OBVIOUS
  <2>. HIDE DEF T, inicio
  <2>4. m # 0
    BY <1>5, <2>2, <2>3
  <2>5. m \in 1..Len(s) /\ m - 1 \in 0..Len(s) /\ ~(m <= m - 1)
    BY <1>2, <2>2, <2>4
  <2>6. tras[m - 1] \in T
    BY <2>2, <2>5
  <2>7. tras[m] \in T
    BY <1>5, <1>6, <2>5, <2>6
  <2> QED BY <2>2, <2>7
<1> QED BY <1>2, <1>4, <1>7
-----------------------------------------------------------------------------
(* First layer, the kernel's steps.                                        *)

\* A new line of a process's table has the right type.
LEMMA AgregarTipado ==
    ASSUME KernelTipado, NEW p \in Procesos, NEW n \in Nombres, NEW f \in Permisos,
           NEW g \in Nat \ {0}, AgregarALaPft(p, n, f, g)
    PROVE  pft' \in [Procesos -> Seq(EntradaUsable)] /\ llamada' = SinLlamada
<1>. DEFINE e == [gfd |-> g, cursor |-> 0, flags |-> f]
<1>1. e \in EntradaUsable
  BY DEF EntradaUsable
<1>2. pft' = [pft EXCEPT ![p] = Append(pft[p], e)] /\ llamada' = SinLlamada
  BY DEF AgregarALaPft, Con, KernelTipado
<1>. HIDE DEF e
<1>3. Append(pft[p], e) \in Seq(EntradaUsable)
  BY <1>1, AppendProperties DEF KernelTipado
<1> QED BY <1>2, <1>3 DEF KernelTipado

\* So have the new entry and the new line of the first opening.
LEMMA AgregarGlobalTipado ==
    ASSUME KernelTipado, NEW p \in Procesos, NEW n \in Nombres, NEW f \in Permisos,
           AgregarALaGft(p, n, f)
    PROVE  /\ gft' \in Seq(EntradaGlobal)
           /\ pft' \in [Procesos -> Seq(EntradaUsable)] /\ llamada' = SinLlamada
<1>1. [nombre |-> n, abiertos |-> 1] \in EntradaGlobal
  BY DEF EntradaGlobal
<1>2. gft' \in Seq(EntradaGlobal)
  BY <1>1, AppendProperties DEF AgregarALaGft, KernelTipado
<1>3. Len(gft) + 1 \in Nat \ {0}
  BY LenProperties DEF KernelTipado
<1> QED BY <1>2, <1>3, AgregarTipado DEF AgregarALaGft

\* The kernel that falls, or answers and touches no table.
LEMMA TablasQuietas ==
    ASSUME KernelTipado, UNCHANGED <<gft, pft>>, llamada' = SinLlamada,
           kernelVivo' \in BOOLEAN
    PROVE  KernelTipado'
BY DEF KernelTipado

\* A syscall that waits for the file system touches no table.
LEMMA TablasEnEspera ==
    ASSUME KernelTipado, UNCHANGED <<gft, pft>>, kernelVivo' \in BOOLEAN,
           llamada' \in Llamadas,
           llamada'.que \in {"borrar", "escribir", "leer"} =>
             llamada'.fd <= Len(pft[llamada'.pid])
    PROVE  KernelTipado' /\ llamada' # SinLlamada
<1>1. llamada' # SinLlamada
  BY DEF Llamadas, SinLlamada
<1> QED BY <1>1 DEF KernelTipado

\* A descriptor in use has a position of both tables behind it.
LEMMA Usada ==
    ASSUME KernelTipado, NEW p \in Procesos, NEW i \in Descriptores, HayEntrada(p, i)
    PROVE  /\ i \in 1..Len(pft[p]) /\ pft[p] \in Seq(EntradaUsable)
           /\ pft[p][i] \in EntradaUsable
           /\ pft[p][i].gfd \in Nat \ {0} /\ pft[p][i].cursor \in Nat
           /\ HayGlobal(p, i) =>
                /\ pft[p][i].gfd \in 1..Len(gft)
                /\ NombreDe(p, i) \in Nombres
<1>1. pft[p] \in Seq(EntradaUsable) /\ Len(pft[p]) \in Nat /\ Len(gft) \in Nat
  BY LenProperties DEF KernelTipado
<1>2. i \in 1..Len(pft[p])
  BY <1>1 DEF Descriptores, HayEntrada
<1>3. pft[p][i] \in EntradaUsable
  BY <1>1, <1>2, ElementOfSeq
<1>4. pft[p][i].gfd \in Nat \ {0} /\ pft[p][i].cursor \in Nat
  BY <1>3 DEF EntradaUsable
<1>5. ASSUME HayGlobal(p, i)
      PROVE  pft[p][i].gfd \in 1..Len(gft) /\ NombreDe(p, i) \in Nombres
  <2>1. pft[p][i].gfd \in 1..Len(gft)
    BY <1>1, <1>4, <1>5 DEF HayGlobal
  <2>2. gft[pft[p][i].gfd] \in EntradaGlobal
    BY <2>1, ElementOfSeq DEF KernelTipado
  <2> QED BY <2>1, <2>2 DEF EntradaGlobal, NombreDe
<1> QED BY <1>1, <1>2, <1>3, <1>4, <1>5

\* Opening a file keeps the first layer.
LEMMA AbrirBase ==
    ASSUME Base, NEW p \in Procesos, NEW n \in Nombres, NEW f \in Permisos,
           AbrirAbierto(p, n, f) \/ AbrirConsulta(p, n, f)
    PROVE  Base'
<1>. USE DEF Base
<1>1. CASE AbrirAbierto(p, n, f)
  <2>. DEFINE g == obtenerFDGlobal(n)
              e == [gft[g] EXCEPT !.abiertos = @ + 1]
  <2>1. g \in 1..Len(gft) /\ gft \in Seq(EntradaGlobal) /\ g \in Nat \ {0}
    BY <1>1, DescriptorGlobal, LenProperties DEF AbrirAbierto, KernelTipado
  <2>2. gft' = [gft EXCEPT ![g] = e] /\ AgregarALaPft(p, n, f, g) /\ FsQuieto
        /\ UNCHANGED kernelVivo /\ KernelLibre
    BY <1>1 DEF AbrirAbierto
  <2>3. e \in EntradaGlobal
    <3>1. gft[g] \in EntradaGlobal
      BY <2>1, ElementOfSeq
    <3> QED BY <3>1 DEF EntradaGlobal
  <2>. HIDE DEF g, e
  <2>4. gft' \in Seq(EntradaGlobal)
    BY <2>1, <2>2, <2>3, ExceptSeq
  <2>5. pft' \in [Procesos -> Seq(EntradaUsable)] /\ llamada' = SinLlamada
    BY <2>1, <2>2, AgregarTipado
  <2>6. KernelTipado'
    BY <2>2, <2>4, <2>5 DEF KernelTipado
  <2> QED BY <2>2, <2>6, FsTrasElKernel
<1>2. CASE AbrirConsulta(p, n, f)
  <2>1. /\ UNCHANGED <<gft, pft, kernelVivo>> /\ KernelLibre
        /\ llamada' = [que |-> "existe", pid |-> p, nombre |-> n, flags |-> f]
        /\ PedirAlFs(PedidoSimple("VALIDAR_ARCHIVO", n))
    BY <1>2 DEF AbrirConsulta, tablas
  <2>2. llamada' \in Llamadas /\ llamada'.que = "existe"
    BY <2>1 DEF Llamadas
  <2>3. KernelTipado' /\ llamada' # SinLlamada
    BY <2>1, <2>2, TablasEnEspera DEF KernelTipado
  <2>4. "VALIDAR_ARCHIVO" \in TiposDePedido
    BY DEF TiposDePedido
  <2> QED BY <2>1, <2>3, <2>4, PedidoSimpleTipado, FsTrasElKernel
<1> QED BY <1>1, <1>2

\* So do deleting and closing one.
LEMMA DescriptorBase ==
    ASSUME Base, NEW p \in Procesos, NEW i \in Descriptores,
           \/ BorrarRechazado(p, i) \/ Borrar(p, i)
           \/ CerrarInvalido(p, i) \/ Cerrar(p, i)
    PROVE  Base'
<1>. USE DEF Base
<1>1. CASE BorrarRechazado(p, i) \/ CerrarInvalido(p, i)
  <2>1. UNCHANGED <<gft, pft, kernelVivo>> /\ KernelLibre /\ FsQuieto
        /\ llamada' = SinLlamada
    BY <1>1 DEF BorrarRechazado, CerrarInvalido, Contesta, tablas
  <2>2. KernelTipado'
    BY <2>1, TablasQuietas DEF KernelTipado
  <2> QED BY <2>1, <2>2, FsTrasElKernel
<1>2. CASE Borrar(p, i)
  <2>1. /\ UNCHANGED <<gft, pft, kernelVivo>> /\ HayEntrada(p, i) /\ HayGlobal(p, i)
        /\ llamada' = [que |-> "borrar", pid |-> p, fd |-> i]
        /\ PedirAlFs(PedidoSimple("BORRAR_ARCHIVO", NombreDe(p, i)))
    BY <1>2 DEF Borrar, tablas
  <2>2. llamada' \in Llamadas /\ llamada'.fd = i /\ llamada'.pid = p
    BY <2>1 DEF Llamadas
  <2>3. KernelTipado' /\ llamada' # SinLlamada
    BY <2>1, <2>2, TablasEnEspera DEF KernelTipado, HayEntrada
  <2>4. "BORRAR_ARCHIVO" \in TiposDePedido
    BY DEF TiposDePedido
  <2>5. NombreDe(p, i) \in Nombres
    BY <2>1, Usada
  <2> QED BY <2>1, <2>3, <2>4, <2>5, PedidoSimpleTipado, FsTrasElKernel
<1>3. CASE Cerrar(p, i)
  <2>1. KernelLibre /\ HayEntrada(p, i)
    BY <1>3 DEF Cerrar
  <2>2. CASE ~HayGlobal(p, i)
    <3>1. UNCHANGED <<gft, pft>> /\ kernelVivo' \in BOOLEAN /\ llamada' = SinLlamada
          /\ FsQuieto
      BY <1>3, <2>2 DEF Cerrar, KernelCae, tablas
    <3>2. KernelTipado'
      BY <3>1, TablasQuietas
    <3> QED BY <2>1, <3>1, <3>2, FsTrasElKernel
  <2>3. CASE HayGlobal(p, i)
    <3>1. /\ pft' = [pft EXCEPT ![p] = RemoveAt(pft[p], i)]
          /\ gft' = SinUno(gft, pft[p][i].gfd)
          /\ llamada' = SinLlamada /\ FsQuieto /\ UNCHANGED kernelVivo
      BY <1>3, <2>3 DEF Cerrar, CerrarEnTablas, Contesta, KernelTipado
    <3>2. RemoveAt(pft[p], i) \in Seq(EntradaUsable)
      BY <2>1, Usada, QuitarUno
    <3>3. SinUno(gft, pft[p][i].gfd) \in Seq(EntradaGlobal)
      BY <2>1, <2>3, Usada, SinUnoTipado DEF KernelTipado
    <3>4. KernelTipado'
      BY <3>1, <3>2, <3>3 DEF KernelTipado
    <3> QED BY <2>1, <3>1, <3>4, FsTrasElKernel
  <2> QED BY <2>2, <2>3
<1> QED BY <1>1, <1>2, <1>3

\* So does moving its cursor.
LEMMA MoverCursorBase ==
    ASSUME Base, NEW p \in Procesos, NEW i \in Descriptores, NEW pos \in Posiciones,
           MoverCursor(p, i, pos)
    PROVE  Base'
<1>. USE DEF Base
<1>1. KernelLibre /\ FsQuieto /\ UNCHANGED <<gft, kernelVivo>> /\ llamada' = SinLlamada
  BY DEF MoverCursor, Contesta
<1>2. pos \in Nat
  BY PosicionesAssumption, MaxTamanioAssumption
<1>3. KernelTipado'
  <2>1. CASE UNCHANGED pft
    BY <1>1, <2>1, TablasQuietas DEF KernelTipado
  <2>2. CASE /\ HayEntrada(p, i)
             /\ pft' = [pft EXCEPT ![p][i].cursor = pos]
    <3>1. [pft[p] EXCEPT ![i].cursor = pos] \in Seq(EntradaUsable)
      BY <1>2, <2>2, Usada, CursorMovido
    <3>2. pft' = [pft EXCEPT ![p] = [pft[p] EXCEPT ![i].cursor = pos]]
      BY <2>2 DEF KernelTipado
    <3>3. pft' \in [Procesos -> Seq(EntradaUsable)]
      BY <3>1, <3>2 DEF KernelTipado
    <3> QED BY <1>1, <3>3 DEF KernelTipado
  <2> QED BY <2>1, <2>2 DEF MoverCursor
<1> QED BY <1>1, <1>3, FsTrasElKernel

\* So does every call the kernel refuses by itself.
LEMMA RechazadoBase ==
    ASSUME Base, NEW p \in Procesos, NEW i \in Descriptores, NEW q, NEW a,
           Rechazado(p, i, q, a)
    PROVE  Base'
<1>1. UNCHANGED <<gft, pft, kernelVivo>> /\ KernelLibre /\ FsQuieto
      /\ llamada' = SinLlamada
  BY DEF Rechazado, Contesta, tablas
<1>2. KernelTipado'
  BY <1>1, TablasQuietas DEF KernelTipado, Base
<1> QED BY <1>1, <1>2, FsTrasElKernel DEF Base

\* So does writing.
LEMMA EscribirBase ==
    ASSUME Base, NEW p \in Procesos, NEW i \in Descriptores, NEW s \in Escrituras,
           Escribir(p, i, s)
    PROVE  Base'
<1>. USE DEF Base
<1>1. s \in Seq(Valores) /\ Len(s) \in Nat
  BY EscriturasAssumption, LenProperties
<1>2. HayEntrada(p, i) /\ HayGlobal(p, i) /\ UNCHANGED <<gft, pft, kernelVivo>>
      /\ llamada' = [que |-> "escribir", pid |-> p, fd |-> i, tam |-> Len(s)]
      /\ PedirAlFs([PedidoSimple("GUARDAR_DATOS", NombreDe(p, i)) EXCEPT
                      !.offset = pft[p][i].cursor, !.datos = s])
  BY DEF Escribir, Usable, tablas
<1>3. llamada' \in Llamadas /\ llamada'.fd = i /\ llamada'.pid = p
  BY <1>1, <1>2 DEF Llamadas
<1>4. KernelTipado' /\ llamada' # SinLlamada
  BY <1>2, <1>3, TablasEnEspera DEF KernelTipado, HayEntrada
<1>5. "GUARDAR_DATOS" \in TiposDePedido
  BY DEF TiposDePedido
<1>6. NombreDe(p, i) \in Nombres /\ pft[p][i].cursor \in Nat
  BY <1>2, Usada
<1>7. \E o : PedirAlFs(o) /\ o \in PedidoTras(o.antes) /\ o.fase = "recibida"
  <2>. DEFINE o == PedidoSimple("GUARDAR_DATOS", NombreDe(p, i))
              e == [o EXCEPT !.offset = pft[p][i].cursor, !.datos = s]
  <2>1. \A c \in Nat, x \in Seq(Valores) :
          LET u == [o EXCEPT !.offset = c, !.datos = x] IN
          u \in PedidoTras(u.antes) /\ u.fase = "recibida"
    BY <1>5, <1>6, PedidoSimpleTipado
  <2>2. e \in PedidoTras(e.antes) /\ e.fase = "recibida"
    <3>. HIDE DEF o
    <3> QED BY <1>1, <1>6, <2>1
  <2> QED BY <1>2, <2>2
<1> QED BY <1>4, <1>7, FsTrasElKernel

\* So does reading.
LEMMA LeerBase ==
    ASSUME Base, NEW p \in Procesos, NEW i \in Descriptores, NEW t \in Lecturas,
           Leer(p, i, t)
    PROVE  Base'
<1>. USE DEF Base
<1>1. t \in Nat
  BY LecturasAssumption, MaxTamanioAssumption
<1>2. HayEntrada(p, i) /\ HayGlobal(p, i) /\ UNCHANGED <<gft, pft, kernelVivo>>
      /\ llamada' = [que |-> "leer", pid |-> p, fd |-> i, tam |-> t]
      /\ PedirAlFs([PedidoSimple("OBTENER_DATOS", NombreDe(p, i)) EXCEPT
                      !.offset = pft[p][i].cursor, !.tam = t])
  BY DEF Leer, Usable, tablas
<1>3. llamada' \in Llamadas /\ llamada'.fd = i /\ llamada'.pid = p
  BY <1>1, <1>2 DEF Llamadas
<1>4. KernelTipado' /\ llamada' # SinLlamada
  BY <1>2, <1>3, TablasEnEspera DEF KernelTipado, HayEntrada
<1>5. "OBTENER_DATOS" \in TiposDePedido
  BY DEF TiposDePedido
<1>6. NombreDe(p, i) \in Nombres /\ pft[p][i].cursor \in Nat
  BY <1>2, Usada
<1>7. \E o : PedirAlFs(o) /\ o \in PedidoTras(o.antes) /\ o.fase = "recibida"
  <2>. DEFINE o == PedidoSimple("OBTENER_DATOS", NombreDe(p, i))
              e == [o EXCEPT !.offset = pft[p][i].cursor, !.tam = t]
  <2>1. \A c \in Nat, x \in Nat :
          LET u == [o EXCEPT !.offset = c, !.tam = x] IN
          u \in PedidoTras(u.antes) /\ u.fase = "recibida"
    BY <1>5, <1>6, PedidoSimpleTipado
  <2>2. e \in PedidoTras(e.antes) /\ e.fase = "recibida"
    <3>. HIDE DEF o
    <3> QED BY <1>1, <1>6, <2>1
  <2> QED BY <1>2, <2>2
<1> QED BY <1>4, <1>7, FsTrasElKernel

\* So does the end of a process, whatever its closings did.
LEMMA FinalizarBase ==
    ASSUME Base, NEW p \in Procesos, Finalizar(p)
    PROVE  Base'
<1>. USE DEF Base
<1>1. KernelLibre
  BY DEF Finalizar
<1>2. CASE Cierres(p).bien
  <2>1. /\ gft' = Cierres(p).gft /\ pft' = [pft EXCEPT ![p] = <<>>]
        /\ llamada' = SinLlamada /\ FsQuieto /\ UNCHANGED kernelVivo
    BY <1>2 DEF Finalizar, Contesta
  <2>2. Cierres(p).gft \in Seq(EntradaGlobal)
    BY CierresTipados DEF KernelTipado
  <2>3. <<>> \in Seq(EntradaUsable)
    OBVIOUS
  <2>4. KernelTipado'
    BY <2>1, <2>2, <2>3 DEF KernelTipado
  <2> QED BY <1>1, <2>1, <2>4, FsTrasElKernel
<1>3. CASE ~Cierres(p).bien
  <2>1. UNCHANGED <<gft, pft>> /\ kernelVivo' \in BOOLEAN /\ llamada' = SinLlamada
        /\ FsQuieto
    BY <1>3 DEF Finalizar, KernelCae, tablas
  <2>2. KernelTipado'
    BY <2>1, TablasQuietas
  <2> QED BY <1>1, <2>1, <2>2, FsTrasElKernel
<1> QED BY <1>2, <1>3

\* The answers of the file system.
LEMMA RespuestaBase ==
    ASSUME Base, Respuesta
    PROVE  Base'
<1>. USE DEF Base
<1>1. /\ llamada # SinLlamada => llamada \in Llamadas
      /\ llamada.que # "nada" => llamada # SinLlamada
  BY DEF KernelTipado, SinLlamada
<1>2. CASE AbrirExiste \/ AbrirCreado
  <2>1. llamada \in Llamadas /\ llamada.que \in {"existe", "crear"}
        /\ AgregarALaGft(llamada.pid, llamada.nombre, llamada.flags)
        /\ Consumir /\ UNCHANGED kernelVivo
    BY <1>1, <1>2 DEF AbrirExiste, AbrirCreado, Llega
  <2>2. llamada.pid \in Procesos /\ llamada.nombre \in Nombres /\ llamada.flags \in Permisos
    BY <2>1 DEF Llamadas
  <2>3. /\ gft' \in Seq(EntradaGlobal)
        /\ pft' \in [Procesos -> Seq(EntradaUsable)] /\ llamada' = SinLlamada
    BY <2>1, <2>2, AgregarGlobalTipado
  <2>4. KernelTipado'
    BY <2>1, <2>3 DEF KernelTipado
  <2> QED BY <2>1, <2>4, FsTrasElKernel
<1>3. CASE AbrirNoExiste
  <2>1. llamada \in Llamadas /\ llamada.que = "existe"
        /\ UNCHANGED <<gft, pft, kernelVivo>>
    BY <1>1, <1>3 DEF AbrirNoExiste, Llega, tablas
  <2>2. CASE "c" \in llamada.flags
    <3>1. /\ llamada' = [llamada EXCEPT !.que = "crear"]
          /\ PedirAlFs(PedidoSimple("CREAR_ARCHIVO", llamada.nombre))
      BY <1>3, <2>2 DEF AbrirNoExiste
    <3>2. llamada' \in Llamadas /\ llamada'.que = "crear" /\ llamada.nombre \in Nombres
      BY <2>1, <3>1 DEF Llamadas
    <3>3. KernelTipado' /\ llamada' # SinLlamada
      BY <2>1, <3>2, TablasEnEspera DEF KernelTipado
    <3>4. "CREAR_ARCHIVO" \in TiposDePedido
      BY DEF TiposDePedido
    <3> QED BY <3>1, <3>2, <3>3, <3>4, PedidoSimpleTipado, FsTrasElKernel
  <2>3. CASE "c" \notin llamada.flags
    <3>1. llamada' = SinLlamada /\ Consumir
      BY <1>3, <2>3 DEF AbrirNoExiste, Contesta
    <3>2. KernelTipado'
      BY <2>1, <3>1, TablasQuietas DEF KernelTipado
    <3> QED BY <3>1, <3>2, FsTrasElKernel
  <2> QED BY <2>2, <2>3
<1>4. CASE AbrirNoCreado \/ Borrado \/ NoEscrito \/ NoLeido
  <2>1. UNCHANGED <<gft, pft, kernelVivo>> /\ llamada' = SinLlamada /\ Consumir
    BY <1>4 DEF AbrirNoCreado, Borrado, NoEscrito, NoLeido, Contesta, tablas
  <2>2. KernelTipado'
    BY <2>1, TablasQuietas DEF KernelTipado
  <2> QED BY <2>1, <2>2, FsTrasElKernel
<1>5. CASE Escrito \/ LeidoOk
  <2>. DEFINE p == llamada.pid
              i == llamada.fd
  <2>1. /\ llamada \in Llamadas /\ llamada.que \in {"escribir", "leer"}
        /\ UNCHANGED <<gft, kernelVivo>> /\ llamada' = SinLlamada /\ Consumir
        /\ \/ pft' = [pft EXCEPT ![p][i].cursor = @ + llamada.tam]
           \/ pft' = [pft EXCEPT ![p][i].cursor = llamada.tam]
    BY <1>1, <1>5 DEF Escrito, LeidoOk, Llega, Contesta, Con
  <2>2. p \in Procesos /\ i \in Descriptores /\ llamada.tam \in Nat
    BY <2>1 DEF Llamadas
  <2>3. HayEntrada(p, i)
    BY <1>1, <2>1 DEF KernelTipado, HayEntrada, SinLlamada
  <2>4. pft[p][i].cursor \in Nat /\ i \in 1..Len(pft[p]) /\ pft[p] \in Seq(EntradaUsable)
    BY <2>2, <2>3, Usada
  <2>. HIDE DEF p, i
  <2>5. \E c \in Nat : pft' = [pft EXCEPT ![p] = [pft[p] EXCEPT ![i].cursor = c]]
    <3>1. CASE pft' = [pft EXCEPT ![p][i].cursor = llamada.tam]
      BY <2>2, <3>1 DEF KernelTipado
    <3>2. CASE pft' = [pft EXCEPT ![p][i].cursor = @ + llamada.tam]
      <4>1. pft' = [pft EXCEPT ![p] =
                     [pft[p] EXCEPT ![i].cursor = pft[p][i].cursor + llamada.tam]]
        BY <2>2, <2>4, <3>2 DEF KernelTipado
      <4>2. pft[p][i].cursor + llamada.tam \in Nat
        BY <2>2, <2>4
      <4> QED BY <4>1, <4>2
    <3> QED BY <2>1, <3>1, <3>2 DEF p, i
  <2>6. pft' \in [Procesos -> Seq(EntradaUsable)]
    <3>1. PICK c \in Nat : pft' = [pft EXCEPT ![p] = [pft[p] EXCEPT ![i].cursor = c]]
      BY <2>5
    <3>2. [pft[p] EXCEPT ![i].cursor = c] \in Seq(EntradaUsable)
      BY <2>4, CursorMovido
    <3> QED BY <3>1, <3>2 DEF KernelTipado
  <2>7. KernelTipado'
    BY <2>1, <2>6 DEF KernelTipado
  <2> QED BY <2>1, <2>7, FsTrasElKernel
<1> QED BY <1>2, <1>3, <1>4, <1>5 DEF Respuesta

\* So does starting both programs again over the same disk.
LEMMA ReiniciarBase ==
    ASSUME Base, Reiniciar
    PROVE  Base'
<1>1. /\ orden' = SinOrden /\ respuestaFs' = SinRespuesta /\ fsVivo' = TRUE
      /\ libres' = BloquesLibres /\ UNCHANGED <<usados, existe, bloquesDe, bloque>>
      /\ gft' = <<>> /\ pft' = [p \in Procesos |-> <<>>] /\ llamada' = SinLlamada
      /\ kernelVivo' = TRUE
  BY DEF Reiniciar, FsReiniciar, disco
<1>2. BloquesLibres \in Int
  BY BloqueLibre DEF Base, FsTipado, FsTypeOK
<1>3. FsTipado'
  BY <1>1, <1>2 DEF Base, FsTipado, FsTypeOK
<1>4. KernelTipado'
  BY <1>1 DEF KernelTipado
<1>5. Protocolo' /\ HayLugar'
  BY <1>1 DEF Protocolo, HayLugar, En
<1> QED BY <1>3, <1>4, <1>5 DEF Base

\* Every step keeps the first layer.
LEMMA BasePaso == Base /\ [Next]_vars => Base'
<1>. SUFFICES ASSUME Base, [Next]_vars PROVE Base'
  OBVIOUS
<1>1. CASE UNCHANGED vars
  BY <1>1 DEF Base, FsTipado, FsTypeOK, KernelTipado, Protocolo, HayLugar, En,
     BloquesLibres, vars, fsVars, kernelVars, disco
<1>2. ASSUME NEW p \in Procesos, Syscall(p) PROVE Base'
  BY <1>2, AbrirBase, DescriptorBase, MoverCursorBase, RechazadoBase, EscribirBase,
     LeerBase, FinalizarBase, Zenon DEF Syscall
<1> QED BY <1>1, <1>2, FsBase, RespuestaBase, ReiniciarBase DEF Next

\* The types of every state, with any disturbance.
THEOREM TiposDeLosArchivos == Spec => []Base
<1>1. Base /\ [Next]_vars => Base'
  BY BasePaso
<1> QED BY <1>1, BaseInicial, PTL DEF Spec
-----------------------------------------------------------------------------
(* Second layer.                                                           *)

SinCaidasAMedias == Eventos \cap {"caidaCrear", "caidaBorrar"} = {}
TodosMarcados ==
    \A n \in Nombres : \A i \in 1..Len(bloquesDe[n]) : bloquesDe[n][i] \in usados

\* No block has an owner at first.
LEMMA RepartoInicial == Init => Reparto
<1>. SUFFICES ASSUME Init PROVE Reparto
  OBVIOUS
<1>1. orden = SinOrden /\ \A n \in Nombres : bloquesDe[n] = <<>>
  BY DEF Init, FsInit
<1>2. Vivos /\ Creando /\ Construyendo /\ Presentes
  BY <1>1 DEF Vivos, Creando, Construyendo, Presentes, En
<1>3. \A n \in Nombres : 1..Len(bloquesDe[n]) = {}
  BY <1>1
<1>4. Marcados /\ Ajenos
  BY <1>3 DEF Marcados, Ajenos
<1> QED BY <1>2, <1>4 DEF Reparto

\* A step that touches neither bits nor metadata, after which no list of
\* blocks is half done.
LEMMA DiscoQuieto ==
    ASSUME Reparto, TodosMarcados, UNCHANGED <<usados, existe, bloquesDe>>,
           orden' = SinOrden \/ orden'.fase \notin {"metadata", "bitmap", "bloques"},
           Vivos'
    PROVE  Reparto'
<1>1. Marcados' /\ Ajenos' /\ Presentes'
  BY DEF Reparto, TodosMarcados, Marcados, Ajenos, Presentes
<1>2. Creando' /\ Construyendo'
  BY DEF Creando, Construyendo, En
<1> QED BY <1>1, <1>2 DEF Reparto

\* Between creations and deletions every block of a file is marked.
LEMMA SinTramite ==
    ASSUME Reparto,
           \/ orden = SinOrden
           \/ orden.tipo \notin {"CREAR_ARCHIVO", "BORRAR_ARCHIVO"}
           \/ orden.tipo = "CREAR_ARCHIVO" /\ orden.fase # "bitmap"
           \/ orden.fase = "contestada"
    PROVE  TodosMarcados
BY DEF Reparto, Marcados, EnTramite, En, TodosMarcados

\* The kernel asks and takes answers between two requests.
LEMMA RepartoTrasElKernel ==
    ASSUME Base, Reparto,
           \/ KernelLibre
           \/ \E c, q : Llega(c, q) /\ q # "nada",
           \/ FsQuieto /\ KernelLibre
           \/ Consumir
           \/ UNCHANGED kernelVivo /\ \E o : PedirAlFs(o) /\ o.fase = "recibida"
    PROVE  Reparto'
<1>1. orden = SinOrden \/ orden.fase = "contestada"
  BY DEF KernelLibre, Llega, Base, Protocolo, SinRespuesta
<1>2. TodosMarcados
  BY <1>1, SinTramite
<1>3. UNCHANGED <<usados, existe, bloquesDe>>
  BY DEF FsQuieto, Consumir, PedirAlFs, fsVars, disco
<1>4. orden' = SinOrden \/ orden'.fase \notin {"metadata", "bitmap", "bloques"}
  BY DEF FsQuieto, Consumir, PedirAlFs, fsVars, KernelLibre, Base, Protocolo
<1>5. Vivos'
  BY DEF FsQuieto, Consumir, PedirAlFs, fsVars, KernelLibre, Llega, Base, Protocolo, Vivos
<1> QED BY <1>2, <1>3, <1>4, <1>5, DiscoQuieto

\* What a program asks moves no block.
LEMMA RepartoSyscall ==
    ASSUME Base, Reparto, NEW p \in Procesos, Syscall(p)
    PROVE  Reparto'
<1>1. ASSUME FsQuieto, KernelLibre PROVE Reparto'
  BY <1>1, RepartoTrasElKernel
<1>2. ASSUME NEW t, NEW n, UNCHANGED kernelVivo, KernelLibre,
             PedirAlFs(PedidoSimple(t, n))
      PROVE  Reparto'
  <2>1. PedidoSimple(t, n).fase = "recibida"
    BY DEF PedidoSimple
  <2> QED BY <1>2, <2>1, RepartoTrasElKernel
<1>3. ASSUME NEW n \in Nombres, NEW f \in Permisos, AbrirAbierto(p, n, f) PROVE Reparto'
  BY <1>1, <1>3 DEF AbrirAbierto
<1>4. ASSUME NEW n \in Nombres, NEW f \in Permisos, AbrirConsulta(p, n, f) PROVE Reparto'
  BY <1>2, <1>4 DEF AbrirConsulta
<1>5. ASSUME NEW i \in Descriptores, BorrarRechazado(p, i) \/ CerrarInvalido(p, i)
      PROVE  Reparto'
  BY <1>1, <1>5 DEF BorrarRechazado, CerrarInvalido
<1>6. ASSUME NEW i \in Descriptores, Borrar(p, i) PROVE Reparto'
  BY <1>2, <1>6 DEF Borrar
<1>7. ASSUME NEW i \in Descriptores, Cerrar(p, i) PROVE Reparto'
  BY <1>1, <1>7 DEF Cerrar, CerrarEnTablas, KernelCae
<1>8. ASSUME NEW i \in Descriptores, NEW pos \in Posiciones, MoverCursor(p, i, pos)
      PROVE  Reparto'
  BY <1>1, <1>8 DEF MoverCursor
<1>9. ASSUME NEW i \in Descriptores, NEW q, NEW a, Rechazado(p, i, q, a) PROVE Reparto'
  BY <1>1, <1>9 DEF Rechazado
<1>10. ASSUME NEW i \in Descriptores, NEW s \in Escrituras, Escribir(p, i, s)
       PROVE  Reparto'
  <2>. DEFINE o == PedidoSimple("GUARDAR_DATOS", NombreDe(p, i))
              e == [o EXCEPT !.offset = pft[p][i].cursor, !.datos = s]
  <2>1. e.fase = "recibida"
    BY DEF PedidoSimple
  <2>2. PedirAlFs(e) /\ UNCHANGED kernelVivo /\ KernelLibre
    BY <1>10 DEF Escribir, Usable
  <2>. HIDE DEF e
  <2> QED BY <2>1, <2>2, RepartoTrasElKernel
<1>11. ASSUME NEW i \in Descriptores, NEW t \in Lecturas, Leer(p, i, t)
       PROVE  Reparto'
  <2>. DEFINE o == PedidoSimple("OBTENER_DATOS", NombreDe(p, i))
              e == [o EXCEPT !.offset = pft[p][i].cursor, !.tam = t]
  <2>1. e.fase = "recibida"
    BY DEF PedidoSimple
  <2>2. PedirAlFs(e) /\ UNCHANGED kernelVivo /\ KernelLibre
    BY <1>11 DEF Leer, Usable
  <2>. HIDE DEF e
  <2> QED BY <2>1, <2>2, RepartoTrasElKernel
<1>12. ASSUME Finalizar(p) PROVE Reparto'
  BY <1>1, <1>12 DEF Finalizar, KernelCae
<1> QED
  BY <1>3, <1>4, <1>5, <1>6, <1>7, <1>8, <1>9, <1>10, <1>11, <1>12, Zenon DEF Syscall

\* What the kernel does with an answer moves no block.
LEMMA RepartoRespuesta ==
    ASSUME Base, Reparto, Respuesta
    PROVE  Reparto'
<1>1. CASE AbrirNoExiste
  <2>1. Llega("existe", "NO_EXISTE_ARCHIVO") /\ UNCHANGED kernelVivo
        /\ (Consumir \/ PedirAlFs(PedidoSimple("CREAR_ARCHIVO", llamada.nombre)))
    BY <1>1 DEF AbrirNoExiste
  <2>2. PedidoSimple("CREAR_ARCHIVO", llamada.nombre).fase = "recibida"
    BY DEF PedidoSimple
  <2>3. \E c, q : Llega(c, q) /\ q # "nada"
    BY <2>1
  <2> QED BY <2>1, <2>2, <2>3, RepartoTrasElKernel
<1>2. CASE ~AbrirNoExiste
  <2>1. Consumir /\ \E c, q : Llega(c, q) /\ q # "nada"
    BY <1>2 DEF Respuesta, AbrirExiste, AbrirCreado, AbrirNoCreado, Borrado, Escrito,
       NoEscrito, LeidoOk, NoLeido
  <2> QED BY <2>1, RepartoTrasElKernel
<1> QED BY <1>1, <1>2

\* A restart finds the same blocks with the same owners.
LEMMA RepartoReiniciar ==
    ASSUME Base, Reparto, Reiniciar
    PROVE  Reparto'
<1>1. orden = SinOrden /\ orden' = SinOrden
  BY DEF Reparto, Vivos, Reiniciar, FsReiniciar
<1>2. UNCHANGED <<usados, existe, bloquesDe>>
  BY DEF Reiniciar, FsReiniciar, disco
<1>3. Vivos'
  BY <1>1 DEF Vivos
<1> QED BY <1>1, <1>2, <1>3, SinTramite, DiscoQuieto

\* Each step of the file system keeps the blocks apart.
LEMMA RepartoFs ==
    ASSUME SinCaidasAMedias, Base, Reparto, FsPaso, UNCHANGED kernelVars
    PROVE  Reparto'
<1>. DEFINE N == orden.nombre
<1>1. /\ usados \subseteq Bloques
      /\ bloquesDe \in [Nombres -> Seq(Bloques)]
      /\ \A n \in Nombres : Len(bloquesDe[n]) \in Nat
  BY LenProperties DEF Base, FsTipado, FsTypeOK
<1>2. /\ Marcados /\ Ajenos /\ Presentes /\ Creando /\ Construyendo
      /\ orden # SinOrden => fsVivo /\ kernelVivo
  BY DEF Reparto, Vivos
<1>3. ASSUME orden # SinOrden
      PROVE  /\ orden \in PedidoTras(orden.antes) /\ N \in Nombres
             /\ orden.hecho \in Nat /\ orden.nuevos \in Seq(Bloques)
             /\ Len(orden.nuevos) \in Nat
             /\ Len(bloquesDe[N]) \in Nat
  <2>1. orden \in PedidoTras(orden.antes)
    BY <1>3 DEF Base, FsTipado
  <2>2. N \in Nombres /\ orden.hecho \in Nat /\ orden.nuevos \in Seq(Bloques)
    BY <2>1 DEF PedidoTras
  <2> QED BY <1>1, <2>1, <2>2, LenProperties
<1>4. ASSUME NEW t, NEW f, Sirviendo(t, f), t \in TiposDePedido
      PROVE  /\ orden # SinOrden /\ orden.tipo = t /\ orden.fase = f
             /\ fsVivo' = fsVivo => Vivos'
  <2>1. orden # SinOrden /\ orden.tipo = t /\ orden.fase = f
    BY <1>4 DEF Sirviendo, SinOrden, TiposDePedido
  <2>2. kernelVivo' = kernelVivo
    BY DEF kernelVars
  <2> QED BY <1>2, <2>1, <2>2, Zenon DEF Vivos
<1>5. ASSUME NEW r, Responder(r), orden # SinOrden
      PROVE  orden'.fase = "contestada"
  <2>1. "contestada" \in Fases
    BY DEF Fases
  <2> QED BY <1>3, <1>5, <2>1, OtraFase DEF Responder
<1>6. ASSUME NEW f \in Fases, Seguir(f), orden # SinOrden
      PROVE  /\ orden'.fase = f /\ orden'.tipo = orden.tipo
             /\ orden'.nombre = N /\ orden'.nuevos = orden.nuevos
             /\ orden'.hecho = orden.hecho /\ orden' # SinOrden
  BY <1>3, <1>6, OtraFase DEF Seguir
<1>. HIDE DEF N
<1>7. CASE LeerMetadataInexistente \/ Caer
  <2>1. orden' = SinOrden /\ UNCHANGED <<usados, existe, bloquesDe>>
    BY <1>7 DEF LeerMetadataInexistente, Caer, disco
  <2>2. TodosMarcados
    <3>1. CASE Caer
      <4>1. orden.tipo = "GUARDAR_DATOS"
        BY <3>1 DEF Caer, EventoDe, SinCaidasAMedias
      <4> QED BY <4>1, SinTramite
    <3>2. CASE LeerMetadataInexistente
      <4>1. orden # SinOrden /\ N \in Nombres /\ ~Legible(N) /\ orden.fase = "recibida"
        BY <1>3, <3>2 DEF LeerMetadataInexistente, N
      <4>2. bloquesDe[N] = <<>>
        BY <1>2, <4>1 DEF Legible, Presentes
      <4>3. 1..Len(bloquesDe[N]) = {}
        BY <4>2
      <4>4. ASSUME NEW n \in Nombres, NEW i \in 1..Len(bloquesDe[n])
            PROVE  bloquesDe[n][i] \in usados
        <5>1. n # N
          BY <4>3
        <5> QED BY <1>2, <5>1 DEF Marcados, EnTramite, N
      <4> QED BY <4>4 DEF TodosMarcados
    <3> QED BY <1>7, <3>1, <3>2
  <2>3. Vivos'
    BY <2>1 DEF Vivos
  <2> QED BY <2>1, <2>2, <2>3, DiscoQuieto
<1>8. CASE validarArchivo \/ CrearFalla \/ ObtenerDatos \/ GuardarTermina \/ GuardarFalla
  <2>1. \E t \in TiposDePedido, f \in Fases : Sirviendo(t, f)
          /\ (t \in {"CREAR_ARCHIVO", "BORRAR_ARCHIVO"} => t = "CREAR_ARCHIVO" /\ f = "recibida")
    <3>1. CASE validarArchivo
      BY <3>1 DEF validarArchivo, TiposDePedido, Fases
    <3>2. CASE CrearFalla
      BY <3>2 DEF CrearFalla, TiposDePedido, Fases
    <3>3. CASE ObtenerDatos
      BY <3>3 DEF ObtenerDatos, TiposDePedido, Fases
    <3>4. CASE GuardarTermina
      BY <3>4 DEF GuardarTermina, TiposDePedido, Fases
    <3>5. CASE GuardarFalla
      BY <3>5 DEF GuardarFalla, TiposDePedido, Fases
    <3> QED BY <1>8, <3>1, <3>2, <3>3, <3>4, <3>5
  <2>2. (\E r : Responder(r)) /\ UNCHANGED <<usados, existe, bloquesDe, fsVivo>>
    BY <1>8 DEF validarArchivo, CrearFalla, ObtenerDatos, GuardarTermina, GuardarFalla,
       disco
  <2>3. orden # SinOrden /\ Vivos' /\ TodosMarcados
    BY <1>4, <2>1, <2>2, SinTramite
  <2>4. orden'.fase = "contestada"
    BY <1>5, <2>2, <2>3
  <2> QED BY <2>2, <2>3, <2>4, DiscoQuieto
<1>9. CASE CrearAbreMetadata
  <2>1. /\ orden # SinOrden /\ orden.tipo = "CREAR_ARCHIVO" /\ orden.fase = "recibida"
        /\ Vivos' /\ N \in Nombres
    BY <1>3, <1>4, <1>9 DEF CrearAbreMetadata, TiposDePedido
  <2>2. TodosMarcados
    BY <2>1, SinTramite
  <2>3. N \notin existe /\ UNCHANGED usados /\ existe' = existe \cup {N}
        /\ bloquesDe' = [bloquesDe EXCEPT ![N] = <<>>] /\ Seguir("metadata")
    BY <1>9 DEF CrearAbreMetadata, CrearSePuede, N
  <2>4. bloquesDe[N] = <<>>
    BY <1>2, <2>1, <2>3 DEF Presentes
  <2>5. bloquesDe' = bloquesDe
    BY <1>1, <2>3, <2>4
  <2>6. orden'.fase = "metadata" /\ orden'.tipo = "CREAR_ARCHIVO" /\ orden'.nombre = N
    BY <1>6, <2>1, <2>3 DEF Fases
  <2>7. Marcados' /\ Ajenos' /\ Presentes'
    BY <1>2, <2>2, <2>3, <2>5 DEF TodosMarcados, Marcados, Ajenos, Presentes
  <2>8. Creando' /\ Construyendo'
    BY <2>3, <2>4, <2>5, <2>6 DEF Creando, Construyendo, En
  <2> QED BY <2>1, <2>7, <2>8 DEF Reparto
<1>10. CASE CrearEscribeMetadata
  <2>. DEFINE b == PrimerBloqueLibre
  <2>1. /\ orden # SinOrden /\ orden.tipo = "CREAR_ARCHIVO" /\ orden.fase = "metadata"
        /\ Vivos' /\ N \in Nombres
    BY <1>3, <1>4, <1>10 DEF CrearEscribeMetadata, TiposDePedido
  <2>2. TodosMarcados /\ N \in existe
    BY <1>2, <2>1, SinTramite DEF Creando, En, N
  <2>3. b \in Bloques /\ b \notin usados
    BY <1>1, <2>1, BloqueLibre DEF Base, HayLugar, En
  <2>4. UNCHANGED <<usados, existe>> /\ Seguir("bitmap")
        /\ bloquesDe' = [bloquesDe EXCEPT ![N] = <<b>>]
    BY <1>10 DEF CrearEscribeMetadata, N
  <2>. HIDE DEF b
  <2>5. /\ bloquesDe'[N] = <<b>> /\ Len(<<b>>) = 1 /\ <<b>>[1] = b
        /\ \A n \in Nombres : n # N => bloquesDe'[n] = bloquesDe[n]
    BY <1>1, <2>1, <2>4
  <2>6. orden'.fase = "bitmap" /\ orden'.tipo = "CREAR_ARCHIVO" /\ orden'.nombre = N
        /\ orden' # SinOrden
    BY <1>6, <2>1, <2>4 DEF Fases
  <2>7. Creando' /\ Construyendo' /\ Presentes'
    BY <1>2, <2>2, <2>4, <2>5, <2>6 DEF Creando, Construyendo, Presentes, En
  <2>8. Marcados'
    BY <2>2, <2>4, <2>5, <2>6 DEF Marcados, EnTramite, En, TodosMarcados
  <2>9. Ajenos'
    <3>1. SUFFICES ASSUME NEW n \in Nombres, NEW m \in Nombres,
                          NEW i \in 1..Len(bloquesDe'[n]), NEW j \in 1..Len(bloquesDe'[m]),
                          bloquesDe'[n][i] = bloquesDe'[m][j]
                   PROVE  n = m /\ i = j
      BY DEF Ajenos
    <3>2. CASE n = N /\ m = N
      <4>1. Len(bloquesDe'[n]) = 1 /\ Len(bloquesDe'[m]) = 1
        BY <2>5, <3>2
      <4>2. i = 1 /\ j = 1
        BY <4>1
      <4> QED BY <3>2, <4>2
    <3>3. CASE n = N /\ m # N
      BY <2>2, <2>3, <2>5, <3>1, <3>3 DEF TodosMarcados
    <3>4. CASE n # N /\ m = N
      BY <2>2, <2>3, <2>5, <3>1, <3>4 DEF TodosMarcados
    <3>5. CASE n # N /\ m # N
      BY <1>2, <2>5, <3>1, <3>5 DEF Ajenos
    <3> QED BY <3>2, <3>3, <3>4, <3>5
  <2> QED BY <2>1, <2>7, <2>8, <2>9 DEF Reparto
<1>11. CASE CrearMarcaBloque
  <2>1. /\ orden # SinOrden /\ orden.tipo = "CREAR_ARCHIVO" /\ orden.fase = "bitmap"
        /\ Vivos' /\ N \in Nombres
    BY <1>3, <1>4, <1>11 DEF CrearMarcaBloque, TiposDePedido
  <2>2. UNCHANGED <<existe, bloquesDe>> /\ usados' = usados \cup {bloquesDe[N][1]}
        /\ \E r : Responder(r)
    BY <1>11 DEF CrearMarcaBloque, N
  <2>3. Len(bloquesDe[N]) = 1
    BY <2>1 DEF Base, HayLugar, En, N
  <2>4. orden'.fase = "contestada"
    BY <1>5, <2>1, <2>2
  <2>5. Marcados'
    <3>1. ASSUME NEW n \in Nombres, NEW i \in 1..Len(bloquesDe[n])
          PROVE  bloquesDe[n][i] \in usados'
      <4>1. CASE n = N
        <5>1. i = 1
          <6>1. Len(bloquesDe[n]) = 1
            BY <2>3, <4>1
          <6> QED BY <6>1
        <5> QED BY <2>2, <4>1, <5>1
      <4>2. CASE n # N
        BY <1>2, <2>2, <4>2 DEF Marcados, EnTramite, N
      <4> QED BY <4>1, <4>2
    <3> QED BY <2>2, <3>1 DEF Marcados
  <2>6. Ajenos' /\ Presentes' /\ Creando' /\ Construyendo'
    BY <1>2, <2>2, <2>4 DEF Ajenos, Presentes, Creando, Construyendo, En
  <2> QED BY <2>1, <2>5, <2>6 DEF Reparto
<1>12. CASE BorrarLiberaBloque
  <2>. DEFINE h == orden.hecho
              b == bloquesDe[N][h + 1]
  <2>1. /\ orden # SinOrden /\ orden.tipo = "BORRAR_ARCHIVO" /\ orden.fase = "recibida"
        /\ Vivos' /\ N \in Nombres /\ h \in Nat
    BY <1>3, <1>4, <1>12 DEF BorrarLiberaBloque, TiposDePedido
  <2>2. /\ UNCHANGED <<existe, bloquesDe>> /\ usados' = usados \ {b}
        /\ h < Len(bloquesDe[N]) /\ orden' = [orden EXCEPT !.hecho = h + 1]
    BY <1>12 DEF BorrarLiberaBloque, N
  <2>3. /\ orden'.fase = "recibida" /\ orden'.tipo = "BORRAR_ARCHIVO"
        /\ orden'.nombre = N /\ orden'.hecho = h + 1 /\ orden' # SinOrden
    BY <1>3, <2>1, <2>2 DEF PedidoTras, N, SinOrden
  <2>4. h + 1 \in 1..Len(bloquesDe[N])
    BY <1>1, <2>1, <2>2
  <2>5. Marcados'
    <3>1. ASSUME NEW n \in Nombres, NEW i \in 1..Len(bloquesDe[n]),
                 ~(n = N /\ i <= h + 1)
          PROVE  bloquesDe[n][i] \in usados'
      <4>1. ~(n = N /\ i <= h)
        BY <1>1, <2>1, <3>1
      <4>2. bloquesDe[n][i] \in usados
        BY <1>2, <2>1, <4>1 DEF Marcados, EnTramite, En, N
      <4>3. bloquesDe[n][i] # b
        <5>1. ~(n = N /\ i = h + 1)
          BY <2>1, <3>1
        <5> QED BY <1>2, <2>1, <2>4, <5>1 DEF Ajenos
      <4> QED BY <2>2, <4>2, <4>3
    <3> QED BY <2>2, <2>3, <3>1 DEF Marcados, EnTramite, En
  <2>6. Ajenos' /\ Presentes' /\ Creando' /\ Construyendo'
    BY <1>2, <2>2, <2>3 DEF Ajenos, Presentes, Creando, Construyendo, En
  <2> QED BY <2>1, <2>5, <2>6 DEF Reparto
<1>13. CASE BorrarMetadata \/ GuardarAbreMetadata
  <2>1. /\ orden # SinOrden /\ Vivos' /\ N \in Nombres
        /\ \/ orden.tipo = "BORRAR_ARCHIVO" /\ orden.fase = "recibida"
              /\ existe' = existe \ {N} /\ \E r : Responder(r)
           \/ orden.tipo = "GUARDAR_DATOS" /\ orden.fase = "bloques"
              /\ existe' = existe /\ Seguir("metadata")
        /\ UNCHANGED usados /\ bloquesDe' = [bloquesDe EXCEPT ![N] = <<>>]
    <3>1. CASE BorrarMetadata
      BY <1>3, <1>4, <3>1 DEF BorrarMetadata, TiposDePedido, N
    <3>2. CASE GuardarAbreMetadata
      BY <1>3, <1>4, <3>2 DEF GuardarAbreMetadata, TiposDePedido, N
    <3> QED BY <1>13, <3>1, <3>2
  <2>2. /\ bloquesDe'[N] = <<>> /\ 1..Len(bloquesDe'[N]) = {}
        /\ \A n \in Nombres : n # N => bloquesDe'[n] = bloquesDe[n]
    <3>1. bloquesDe'[N] = <<>>
      BY <1>1, <2>1
    <3>2. 1..Len(bloquesDe'[N]) = {}
      BY <3>1
    <3> QED BY <1>1, <2>1, <3>1, <3>2
  <2>3. \A n \in Nombres : n # N =>
          \A i \in 1..Len(bloquesDe[n]) : bloquesDe[n][i] \in usados
    BY <1>2 DEF Marcados, EnTramite, N
  <2>4. Marcados'
    BY <2>1, <2>2, <2>3 DEF Marcados
  <2>5. Ajenos'
    BY <1>2, <2>2 DEF Ajenos
  <2>6. Presentes'
    BY <1>2, <2>1, <2>2 DEF Presentes
  <2>7. CASE \E r : Responder(r)
    <3>1. orden'.fase = "contestada"
      BY <1>5, <2>1, <2>7
    <3> QED BY <2>1, <2>4, <2>5, <2>6, <3>1 DEF Reparto, Creando, Construyendo, En
  <2>8. CASE /\ orden.tipo = "GUARDAR_DATOS" /\ orden.fase = "bloques"
             /\ existe' = existe /\ Seguir("metadata")
    <3>1. orden'.fase = "metadata" /\ orden'.tipo = "GUARDAR_DATOS"
          /\ orden'.nombre = N /\ orden'.nuevos = orden.nuevos
      BY <1>6, <2>1, <2>8 DEF Fases
    <3>2. Construyendo'
      BY <1>2, <2>1, <2>2, <2>8, <3>1 DEF Construyendo, En, N
    <3>3. Creando'
      BY <3>1 DEF Creando, En
    <3> QED BY <2>1, <2>4, <2>5, <2>6, <3>2, <3>3 DEF Reparto
  <2> QED BY <2>1, <2>7, <2>8
<1>14. CASE GuardarEmpieza
  <2>1. /\ orden # SinOrden /\ orden.tipo = "GUARDAR_DATOS" /\ orden.fase = "recibida"
        /\ Vivos' /\ N \in Nombres
    BY <1>3, <1>4, <1>14 DEF GuardarEmpieza, TiposDePedido, disco
  <2>2. TodosMarcados
    BY <2>1, SinTramite
  <2>3. UNCHANGED <<usados, existe, bloquesDe>> /\ N \in existe
        /\ \E f \in {"bloques", "datos"} :
             orden' = [orden EXCEPT !.fase = f, !.nuevos = bloquesDe[N]]
    BY <1>14 DEF GuardarEmpieza, disco, Legible, N
  <2>4. /\ orden'.fase \in {"bloques", "datos"} /\ orden'.tipo = "GUARDAR_DATOS"
        /\ orden'.nombre = N /\ orden'.nuevos = bloquesDe[N]
    BY <1>3, <2>1, <2>3 DEF PedidoTras, N
  <2>5. Marcados' /\ Ajenos' /\ Presentes'
    BY <1>2, <2>2, <2>3 DEF TodosMarcados, Marcados, Ajenos, Presentes
  <2>6. Creando'
    BY <2>4 DEF Creando, En
  <2>7. Construyendo'
    BY <1>2, <2>1, <2>2, <2>3, <2>4 DEF Construyendo, Ajenos, TodosMarcados
  <2> QED BY <2>1, <2>5, <2>6, <2>7 DEF Reparto
<1>15. CASE GuardarMarcaBloque
  <2>. DEFINE b == PrimerBloqueLibre
              k == Len(orden.nuevos)
              u == Append(orden.nuevos, b)
  <2>1. /\ orden # SinOrden /\ orden.tipo = "GUARDAR_DATOS" /\ orden.fase = "bloques"
        /\ Vivos' /\ N \in Nombres
    BY <1>3, <1>4, <1>15 DEF GuardarMarcaBloque, TiposDePedido
  <2>2. TodosMarcados
    BY <2>1, SinTramite
  <2>3. /\ usados' = usados \cup {b} /\ UNCHANGED <<existe, bloquesDe>>
        /\ orden' = [orden EXCEPT !.nuevos = u]
    BY <1>15 DEF GuardarMarcaBloque
  <2>4. b \in Bloques /\ b \notin usados
    BY <1>15, LibreAlMarcar DEF GuardarMarcaBloque
  <2>. HIDE DEF b
  <2>5. /\ orden'.fase = "bloques" /\ orden'.tipo = "GUARDAR_DATOS"
        /\ orden'.nombre = N /\ orden'.nuevos = u
    <3>. HIDE DEF u
    <3> QED BY <1>3, <2>1, <2>3 DEF PedidoTras, N
  <2>6. /\ Len(u) = k + 1 /\ u[k + 1] = b /\ k \in Nat
        /\ \A i \in 1..k : u[i] = orden.nuevos[i]
    BY <1>3, <2>1, <2>4, AppendProperties
  <2>. HIDE DEF u, k
  <2>7. Marcados' /\ Ajenos' /\ Presentes' /\ Creando'
    BY <1>2, <2>2, <2>3, <2>5
    DEF TodosMarcados, Marcados, Ajenos, Presentes, Creando, En
  <2>8. /\ N \in existe
        /\ \A i \in 1..k :
             /\ orden.nuevos[i] \in usados
             /\ \A j \in 1..k : orden.nuevos[i] = orden.nuevos[j] => i = j
             /\ \A m \in Nombres : \A j \in 1..Len(bloquesDe[m]) :
                  orden.nuevos[i] = bloquesDe[m][j] => m = N
    BY <1>2, <2>1 DEF Construyendo, En, N, k
  <2>9. ASSUME NEW i \in 1..(k + 1)
        PROVE  /\ u[i] \in usados'
               /\ \A j \in 1..(k + 1) : u[i] = u[j] => i = j
               /\ \A m \in Nombres : \A j \in 1..Len(bloquesDe[m]) :
                    u[i] = bloquesDe[m][j] => m = N
    <3>1. CASE i = k + 1
      <4>1. u[i] = b
        BY <2>6, <3>1
      <4>2. \A j \in 1..(k + 1) : u[i] = u[j] => i = j
        <5>1. SUFFICES ASSUME NEW j \in 1..(k + 1), u[i] = u[j], i # j PROVE FALSE
          OBVIOUS
        <5>2. j \in 1..k
          BY <2>6, <3>1, <5>1
        <5> QED BY <2>4, <2>6, <2>8, <4>1, <5>1, <5>2
      <4> QED BY <2>2, <2>3, <2>4, <4>1, <4>2 DEF TodosMarcados
    <3>2. CASE i # k + 1
      <4>1. i \in 1..k
        BY <2>6, <3>2
      <4>2. \A j \in 1..(k + 1) : u[i] = u[j] => i = j
        <5>1. SUFFICES ASSUME NEW j \in 1..(k + 1), u[i] = u[j] PROVE i = j
          OBVIOUS
        <5>2. CASE j = k + 1
          BY <2>4, <2>6, <2>8, <4>1, <5>1, <5>2
        <5>3. CASE j # k + 1
          <6>1. j \in 1..k
            BY <2>6, <5>3
          <6> QED BY <2>6, <2>8, <4>1, <5>1, <6>1
        <5> QED BY <5>2, <5>3
      <4> QED BY <2>3, <2>6, <2>8, <4>1, <4>2
    <3> QED BY <3>1, <3>2
  <2>10. Construyendo'
    BY <2>3, <2>5, <2>6, <2>8, <2>9 DEF Construyendo, En
  <2> QED BY <2>1, <2>7, <2>10 DEF Reparto
<1>16. CASE GuardarEscribeMetadata
  <2>. DEFINE u == orden.nuevos
  <2>1. /\ orden # SinOrden /\ orden.tipo = "GUARDAR_DATOS" /\ orden.fase = "metadata"
        /\ Vivos' /\ N \in Nombres
    BY <1>3, <1>4, <1>16 DEF GuardarEscribeMetadata, TiposDePedido
  <2>2. TodosMarcados
    BY <2>1, SinTramite
  <2>3. /\ UNCHANGED <<usados, existe>> /\ Seguir("datos")
        /\ bloquesDe' = [bloquesDe EXCEPT ![N] = u]
    BY <1>16 DEF GuardarEscribeMetadata, N
  <2>4. /\ bloquesDe'[N] = u
        /\ \A n \in Nombres : n # N => bloquesDe'[n] = bloquesDe[n]
    BY <1>1, <2>1, <2>3
  <2>5. orden'.fase = "datos"
    BY <1>6, <2>1, <2>3 DEF Fases
  <2>6. /\ N \in existe
        /\ \A i \in 1..Len(u) :
             /\ u[i] \in usados
             /\ \A j \in 1..Len(u) : u[i] = u[j] => i = j
             /\ \A m \in Nombres : \A j \in 1..Len(bloquesDe[m]) :
                  u[i] = bloquesDe[m][j] => m = N
    BY <1>2, <2>1 DEF Construyendo, En, N
  <2>. HIDE DEF u
  <2>7. Marcados' /\ Presentes' /\ Creando' /\ Construyendo'
    BY <1>2, <2>2, <2>3, <2>4, <2>5, <2>6
    DEF TodosMarcados, Marcados, Presentes, Creando, Construyendo, En
  <2>8. Ajenos'
    <3>1. SUFFICES ASSUME NEW n \in Nombres, NEW m \in Nombres,
                          NEW i \in 1..Len(bloquesDe'[n]), NEW j \in 1..Len(bloquesDe'[m]),
                          bloquesDe'[n][i] = bloquesDe'[m][j]
                   PROVE  n = m /\ i = j
      BY DEF Ajenos
    <3>2. CASE n = N /\ m = N
      BY <2>4, <2>6, <3>1, <3>2
    <3>3. CASE n = N /\ m # N
      BY <2>4, <2>6, <3>1, <3>3
    <3>4. CASE n # N /\ m = N
      BY <2>4, <2>6, <3>1, <3>4
    <3>5. CASE n # N /\ m # N
      BY <1>2, <2>4, <3>1, <3>5 DEF Ajenos
    <3> QED BY <3>2, <3>3, <3>4, <3>5
  <2> QED BY <2>1, <2>7, <2>8 DEF Reparto
<1>17. CASE GuardarEscribeBloque
  <2>1. /\ orden # SinOrden /\ orden.tipo = "GUARDAR_DATOS" /\ orden.fase = "datos"
        /\ Vivos'
    BY <1>4, <1>17 DEF GuardarEscribeBloque, TiposDePedido
  <2>2. UNCHANGED <<usados, existe, bloquesDe>> /\ \E h : orden' = [orden EXCEPT !.hecho = h]
    BY <1>17, Zenon DEF GuardarEscribeBloque
  <2>3. orden'.fase = "datos"
    BY <1>3, <2>1, <2>2 DEF PedidoTras
  <2> QED BY <2>1, <2>2, <2>3, SinTramite, DiscoQuieto
<1> QED
  BY <1>7, <1>8, <1>9, <1>10, <1>11, <1>12, <1>13, <1>14, <1>15, <1>16, <1>17 DEF FsPaso

\* Every step keeps the second layer.
LEMMA RepartoPaso ==
    SinCaidasAMedias /\ Base /\ Reparto /\ [Next]_vars => Reparto'
<1>. SUFFICES ASSUME SinCaidasAMedias, Base, Reparto, [Next]_vars PROVE Reparto'
  OBVIOUS
<1>1. CASE UNCHANGED vars
  BY <1>1 DEF Reparto, Marcados, EnTramite, Ajenos, Presentes, Creando, Construyendo,
     Vivos, En, vars, fsVars, kernelVars, disco
<1> QED
  BY <1>1, RepartoSyscall, RepartoFs, RepartoRespuesta, RepartoReiniciar DEF Next

\* No block is shared, whatever is asked and wherever a write is cut, as long
\* as creating and deleting a file are not.
THEOREM BloquesSiempreSinCompartir ==
    ASSUME SinCaidasAMedias
    PROVE  Spec => []BloquesSinCompartir
<1>1. Init => Reparto
  BY RepartoInicial
<1>2. Base /\ Reparto /\ [Next]_vars => Reparto'
  BY RepartoPaso
<1>3. Base /\ Reparto => BloquesSinCompartir
  <2>. SUFFICES ASSUME Base, Reparto PROVE BloquesSinCompartir
    OBVIOUS
  <2>1. orden = SinOrden => \A n \in Nombres : BloquesEn(n) \subseteq usados
    BY SinTramite DEF TodosMarcados, BloquesEn
  <2>2. \A n, m \in Nombres : n # m => BloquesEn(n) \cap BloquesEn(m) = {}
    BY DEF Reparto, Ajenos, BloquesEn
  <2>3. \A n \in Nombres : \A i, j \in 1..Len(bloquesDe[n]) :
          bloquesDe[n][i] = bloquesDe[n][j] => i = j
    BY DEF Reparto, Ajenos
  <2> QED BY <2>1, <2>2, <2>3 DEF BloquesSinCompartir
<1> QED BY <1>1, <1>2, <1>3, TiposDeLosArchivos, PTL DEF Spec
-----------------------------------------------------------------------------
(* Third layer.                                                            *)

SinCierresCruzados == Eventos \cap {"cierreIntermedio", "finConVarios"} = {}

\* What the other conjuncts and Base say of one entry.
LEMMA Enlazada ==
    ASSUME Base, Tablas, NEW p \in Procesos, NEW i \in 1..Len(pft[p])
    PROVE  /\ i \in Descriptores /\ HayEntrada(p, i) /\ HayGlobal(p, i)
           /\ pft[p][i].gfd \in 1..Len(gft)
           /\ programa[p][i] = gft[pft[p][i].gfd].nombre
           /\ Len(pft[p]) \in Nat /\ Len(gft) \in Nat
<1>1. Len(pft[p]) \in Nat /\ Len(gft) \in Nat /\ pft[p] \in Seq(EntradaUsable)
  BY LenProperties DEF Base, KernelTipado
<1>2. /\ Len(pft[p]) <= MaxAbiertos /\ pft[p][i].gfd <= Len(gft)
      /\ programa[p][i] = gft[pft[p][i].gfd].nombre
  BY DEF Tablas, Enlazadas
<1>3. i \in Descriptores
  BY <1>1, <1>2, MaxAbiertosAssumption DEF Descriptores
<1>4. pft[p][i].gfd \in Nat \ {0}
  <2>1. pft[p][i] \in EntradaUsable
    BY <1>1, ElementOfSeq
  <2> QED BY <2>1 DEF EntradaUsable
<1> QED BY <1>1, <1>2, <1>3, <1>4 DEF HayEntrada, HayGlobal

\* The descriptors of a file are finitely many.
LEMMA QuienFinito ==
    ASSUME NEW g
    PROVE  IsFiniteSet(QuienLoTiene(g)) /\ Cardinality(QuienLoTiene(g)) \in Nat
<1>1. IsFiniteSet(Procesos \X Descriptores)
  <2>1. IsFiniteSet(Descriptores)
    BY MaxAbiertosAssumption, FS_Interval DEF Descriptores
  <2> QED BY <2>1, ProcesosAssumption, FS_Product
<1>2. QuienLoTiene(g) \subseteq Procesos \X Descriptores
  BY DEF QuienLoTiene
<1> QED BY <1>1, <1>2, FS_Subset, FS_CardinalityType

\* The tables start empty.
LEMMA TablasInicial == Init => Tablas
<1>. SUFFICES ASSUME Init PROVE Tablas
  OBVIOUS
<1>1. gft = <<>> /\ llamada = SinLlamada
      /\ \A p \in Procesos : pft[p] = <<>> /\ programa[p] = <<>>
  BY DEF Init
<1>2. Enlazadas
  <2>1. <<>> \in Seq(Nombres)
    OBVIOUS
  <2>2. programa \in [Procesos -> Seq(Nombres)]
    BY <2>1 DEF Init
  <2>3. Len(<<>>) = 0 /\ DOMAIN <<>> = 1..0 /\ 1..0 = {}
    OBVIOUS
  <2> QED BY <1>1, <2>2, <2>3, MaxAbiertosAssumption DEF Enlazadas
<1>3. 1..Len(gft) = {}
  BY <1>1
<1> QED BY <1>1, <1>2, <1>3 DEF Tablas, UnaPorArchivo, Contados, Reservado

\* A step that moves no entry and leaves no name asked for.
LEMMA MismasEntradas ==
    ASSUME Tablas, UNCHANGED <<gft, programa>>, llamada' = SinLlamada,
           \A p \in Procesos :
             /\ Len(pft'[p]) = Len(pft[p])
             /\ \A i \in 1..Len(pft[p]) : pft'[p][i].gfd = pft[p][i].gfd,
           \A p \in Procesos : Len(pft[p]) \in Nat
    PROVE  Tablas'
<1>1. Enlazadas' /\ UnaPorArchivo' /\ Reservado'
  BY DEF Tablas, Enlazadas, UnaPorArchivo, Reservado
<1>2. ASSUME NEW g PROVE QuienLoTiene(g)' = QuienLoTiene(g)
  <2>1. ASSUME NEW p \in Procesos, NEW i \in Descriptores
        PROVE  HayEntrada(p, i)' /\ pft'[p][i].gfd = g
               <=> HayEntrada(p, i) /\ pft[p][i].gfd = g
    BY MaxAbiertosAssumption DEF HayEntrada, Descriptores
  <2> QED BY <2>1 DEF QuienLoTiene
<1>3. Contados'
  BY <1>2 DEF Tablas, Contados
<1> QED BY <1>1, <1>3 DEF Tablas

\* An entry more, of process p and for the file of entry g, in a table where
\* g was open or is new.
LEMMA UnaEntradaMas ==
    ASSUME Base, Tablas, NEW p \in Procesos, NEW n \in Nombres, NEW f \in Permisos,
           NEW g \in Nat \ {0},
           Len(pft[p]) < MaxAbiertos,
           AgregarALaPft(p, n, f, g),
           \/ /\ g \in 1..Len(gft) /\ gft[g].nombre = n
              /\ gft' = [gft EXCEPT ![g].abiertos = @ + 1]
           \/ /\ g = Len(gft) + 1
              /\ \A h \in 1..Len(gft) : gft[h].nombre # n
              /\ gft' = Append(gft, [nombre |-> n, abiertos |-> 1])
    PROVE  Tablas'
<1>. DEFINE L == Len(pft[p])
            G == Len(gft)
            e == [gfd |-> g, cursor |-> 0, flags |-> f]
<1>1. /\ gft \in Seq(EntradaGlobal) /\ G \in Nat
      /\ pft \in [Procesos -> Seq(EntradaUsable)] /\ pft[p] \in Seq(EntradaUsable)
      /\ \A q \in Procesos : Len(pft[q]) \in Nat
      /\ L \in Nat
  BY LenProperties DEF Base, KernelTipado
<1>2. /\ pft' = [pft EXCEPT ![p] = Append(pft[p], e)]
      /\ programa' = [programa EXCEPT ![p] =
             [j \in DOMAIN programa[p] \cup {L + 1} |->
                 IF j = L + 1 THEN n ELSE programa[p][j]]]
      /\ llamada' = SinLlamada
  <2>1. programa \in [Procesos -> Seq(Nombres)]
    BY DEF Tablas, Enlazadas
  <2> QED BY <1>1, <2>1 DEF AgregarALaPft, Con
<1>3. programa \in [Procesos -> Seq(Nombres)] /\ DOMAIN programa[p] = 1..L
  BY DEF Tablas, Enlazadas
<1>4. /\ Len(pft'[p]) = L + 1 /\ pft'[p][L + 1].gfd = g
      /\ \A i \in 1..L : pft'[p][i] = pft[p][i]
      /\ \A q \in Procesos : q # p => pft'[q] = pft[q]
  <2>1. e \in EntradaUsable /\ e.gfd = g
    BY DEF EntradaUsable
  <2>. HIDE DEF e
  <2>2. pft'[p] = Append(pft[p], e) /\ \A q \in Procesos : q # p => pft'[q] = pft[q]
    BY <1>1, <1>2
  <2>3. /\ Len(Append(pft[p], e)) = L + 1 /\ Append(pft[p], e)[L + 1] = e
        /\ \A i \in 1..L : Append(pft[p], e)[i] = pft[p][i]
    BY <1>1, <2>1, AppendProperties
  <2> QED BY <2>1, <2>2, <2>3
<1>5. /\ programa' \in [Procesos -> Seq(Nombres)]
      /\ DOMAIN programa'[p] = 1..(L + 1) /\ programa'[p][L + 1] = n
      /\ \A i \in 1..L : programa'[p][i] = programa[p][i]
      /\ \A q \in Procesos : q # p => programa'[q] = programa[q]
  <2>. DEFINE r == [j \in DOMAIN programa[p] \cup {L + 1} |->
                     IF j = L + 1 THEN n ELSE programa[p][j]]
  <2>1. /\ programa[p] \in Seq(Nombres) /\ DOMAIN programa[p] = 1..L
        /\ DOMAIN programa[p] \cup {L + 1} = 1..(L + 1) /\ Len(programa[p]) = L
    <3>1. programa[p] \in Seq(Nombres) /\ DOMAIN programa[p] = 1..L /\ L \in Nat
      BY <1>1, <1>3
    <3>2. DOMAIN programa[p] = 1..Len(programa[p]) /\ Len(programa[p]) \in Nat
      BY <3>1, LenProperties
    <3>. HIDE DEF L
    <3>3. Len(programa[p]) = L
      BY <3>1, <3>2
    <3> QED BY <3>1, <3>3
  <2>2. /\ DOMAIN r = 1..(L + 1)
        /\ \A i \in 1..(L + 1) : r[i] = IF i = L + 1 THEN n ELSE programa[p][i]
    BY <2>1
  <2>3. r = [i \in 1..(L + 1) |-> r[i]]
    BY <2>1
  <2>. HIDE DEF r
  <2>4. /\ L \in Nat /\ L + 1 \in 1..(L + 1)
        /\ \A i \in 1..L : i \in 1..(L + 1) /\ i # L + 1
        /\ \A i \in 1..(L + 1) : i # L + 1 => i \in 1..L
    <3>1. L \in Nat
      BY <1>1
    <3>. HIDE DEF L
    <3> QED BY <3>1
  <2>5. r[L + 1] = n /\ \A i \in 1..L : r[i] = programa[p][i]
    BY <2>2, <2>4
  <2>6. r \in Seq(Nombres)
    <3>. HIDE DEF L
    <3>1. \A j \in 1..(L + 1) : r[j] \in Nombres
      BY <2>1, <2>4, <2>5, ElementOfSeq
    <3>2. r \in [1..(L + 1) -> Nombres] /\ L + 1 \in Nat
      BY <2>3, <2>4, <3>1
    <3> QED BY <3>2, SeqDef
  <2>7. programa' = [programa EXCEPT ![p] = r]
    BY <1>2 DEF r
  <2> QED BY <1>3, <2>2, <2>5, <2>6, <2>7
<1>. HIDE DEF L, G, e
\* The global table: g is there, the others as they were.
<1>6. /\ Len(gft') \in Nat /\ g \in 1..Len(gft') /\ G <= Len(gft')
      /\ Len(gft') = G \/ Len(gft') = G + 1
      /\ \A h \in 1..Len(gft') : h # g => h \in 1..G /\ gft'[h] = gft[h]
      /\ \A h \in 1..G : gft'[h].nombre = gft[h].nombre
      /\ gft'[g].nombre = n
      /\ gft'[g].abiertos = Cardinality(QuienLoTiene(g)) + 1
      /\ \A h \in 1..G : gft[h].nombre = n => h = g
  <2>1. CASE /\ g \in 1..G /\ gft[g].nombre = n
             /\ gft' = [gft EXCEPT ![g].abiertos = @ + 1]
    <3>. DEFINE x == [gft[g] EXCEPT !.abiertos = @ + 1]
    <3>1. gft[g] \in EntradaGlobal
      BY <1>1, <2>1, ElementOfSeq DEF G
    <3>2. x \in EntradaGlobal /\ x.nombre = n /\ x.abiertos = gft[g].abiertos + 1
      BY <2>1, <3>1 DEF EntradaGlobal
    <3>3. gft' = [gft EXCEPT ![g] = x]
      BY <2>1
    <3>. HIDE DEF x
    <3>4. /\ Len(gft') = G
          /\ \A h \in 1..G : gft'[h] = IF h = g THEN x ELSE gft[h]
      BY <1>1, <2>1, <3>2, <3>3, ExceptSeq DEF G
    <3>5. gft[g].abiertos = Cardinality(QuienLoTiene(g))
      BY <2>1 DEF Tablas, Contados, G
    <3>6. \A h \in 1..G : gft[h].nombre = n => h = g
      BY <2>1 DEF Tablas, UnaPorArchivo, G
    <3> QED BY <1>1, <2>1, <3>2, <3>4, <3>5, <3>6
  <2>2. CASE /\ g = G + 1
             /\ \A h \in 1..G : gft[h].nombre # n
             /\ gft' = Append(gft, [nombre |-> n, abiertos |-> 1])
    <3>. DEFINE x == [nombre |-> n, abiertos |-> 1]
    <3>1. x \in EntradaGlobal /\ x.nombre = n /\ x.abiertos = 1
      BY DEF EntradaGlobal
    <3>. HIDE DEF x
    <3>2. gft' = Append(gft, x)
      BY <2>2 DEF x
    <3>3. /\ Len(gft') = G + 1 /\ gft'[G + 1] = x
          /\ \A h \in 1..G : gft'[h] = gft[h]
      BY <1>1, <3>1, <3>2, AppendProperties DEF G
    <3>4. QuienLoTiene(g) = {}
      <4>1. ASSUME NEW q \in Procesos, NEW i \in Descriptores, HayEntrada(q, i),
                   pft[q][i].gfd = g
            PROVE  FALSE
        <5>1. i \in 1..Len(pft[q])
          BY <1>1, <4>1, MaxAbiertosAssumption DEF HayEntrada, Descriptores
        <5>2. pft[q][i].gfd <= G
          BY <5>1 DEF Tablas, Enlazadas, G
        <5> QED BY <1>1, <2>2, <4>1, <5>2
      <4> QED BY <4>1 DEF QuienLoTiene
    <3>5. Cardinality(QuienLoTiene(g)) = 0
      BY <3>4, FS_EmptySet
    <3>6. \A h \in 1..(G + 1) : h # g => h \in 1..G
      BY <1>1, <2>2
    <3> QED BY <1>1, <2>2, <3>1, <3>3, <3>5, <3>6
  <2> QED BY <2>1, <2>2 DEF G
<1>7. Enlazadas'
  <2>1. ASSUME NEW q \in Procesos
        PROVE  /\ Len(pft'[q]) <= MaxAbiertos
               /\ DOMAIN programa'[q] = 1..Len(pft'[q])
               /\ \A i \in 1..Len(pft'[q]) :
                    /\ pft'[q][i].gfd <= Len(gft')
                    /\ programa'[q][i] = gft'[pft'[q][i].gfd].nombre
    <3>1. ASSUME NEW i \in 1..Len(pft[q])
          PROVE  /\ pft[q][i].gfd <= Len(gft')
                 /\ programa[q][i] = gft'[pft[q][i].gfd].nombre
      <4>1. pft[q][i].gfd \in 1..G /\ programa[q][i] = gft[pft[q][i].gfd].nombre
        BY Enlazada DEF G
      <4> QED BY <1>1, <1>6, <4>1
    <3>2. CASE q # p
      <4>1. Len(pft[q]) <= MaxAbiertos /\ DOMAIN programa[q] = 1..Len(pft[q])
        BY DEF Tablas, Enlazadas
      <4> QED BY <1>4, <1>5, <3>1, <3>2, <4>1
    <3>3. CASE q = p
      <4>1. L + 1 <= MaxAbiertos
        BY <1>1, MaxAbiertosAssumption DEF L
      <4>2. ASSUME NEW i \in 1..(L + 1)
            PROVE  /\ pft'[p][i].gfd <= Len(gft')
                   /\ programa'[p][i] = gft'[pft'[p][i].gfd].nombre
        <5>1. CASE i = L + 1
          BY <1>4, <1>5, <1>6, <5>1
        <5>2. CASE i # L + 1
          <6>1. i \in 1..L
            BY <1>1, <5>2
          <6> QED BY <1>4, <1>5, <3>1, <3>3, <6>1 DEF L
        <5> QED BY <5>1, <5>2
      <4> QED BY <1>4, <1>5, <3>3, <4>1, <4>2
    <3> QED BY <3>2, <3>3
  <2> QED BY <1>5, <2>1 DEF Enlazadas
<1>8. UnaPorArchivo'
  <2>1. ASSUME NEW h \in 1..Len(gft'), NEW k \in 1..Len(gft'),
               gft'[h].nombre = gft'[k].nombre
        PROVE  h = k
    <3>1. CASE h = g \/ k = g
      BY <1>6, <2>1, <3>1
    <3>2. CASE h # g /\ k # g
      BY <1>6, <2>1, <3>2 DEF Tablas, UnaPorArchivo, G
    <3> QED BY <3>1, <3>2
  <2> QED BY <2>1 DEF UnaPorArchivo
<1>9. Contados'
  <2>1. ASSUME NEW q \in Procesos, NEW i \in Descriptores, ~(q = p /\ i = L + 1), NEW h
        PROVE  HayEntrada(q, i)' /\ pft'[q][i].gfd = h
               <=> HayEntrada(q, i) /\ pft[q][i].gfd = h
    <3>1. CASE q # p
      BY <1>4, <3>1 DEF HayEntrada
    <3>2. CASE q = p /\ i # L + 1
      <4>1. i \in Nat /\ i >= 1
        BY MaxAbiertosAssumption DEF Descriptores
      <4>2. i <= L <=> i <= L + 1
        BY <1>1, <3>2, <4>1
      <4>3. i <= L => i \in 1..L
        BY <1>1, <4>1
      <4> QED BY <1>4, <3>2, <4>2, <4>3 DEF HayEntrada, L
    <3> QED BY <2>1, <3>1, <3>2
  <2>2. L + 1 \in Descriptores /\ ~HayEntrada(p, L + 1) /\ L + 1 <= Len(pft'[p])
    <3>1. L + 1 \in Descriptores /\ ~(L + 1 <= L) /\ L + 1 <= L + 1
      BY <1>1, MaxAbiertosAssumption DEF Descriptores, L
    <3>2. L + 1 <= Len(pft'[p])
      BY <1>1, <1>4, <3>1
    <3>3. ~HayEntrada(p, L + 1)
      BY <3>1 DEF HayEntrada, L
    <3> QED BY <3>1, <3>2, <3>3
  <2>3. ASSUME NEW h \in 1..Len(gft'), h # g
        PROVE  QuienLoTiene(h)' = QuienLoTiene(h)
    <3>1. pft'[p][L + 1].gfd # h
      BY <1>4, <2>3
    <3>2. ASSUME NEW q \in Procesos, NEW i \in Descriptores
          PROVE  HayEntrada(q, i)' /\ pft'[q][i].gfd = h
                 <=> HayEntrada(q, i) /\ pft[q][i].gfd = h
      <4>1. CASE q = p /\ i = L + 1
        BY <2>2, <3>1, <4>1
      <4>2. CASE ~(q = p /\ i = L + 1)
        BY <2>1, <4>2
      <4> QED BY <4>1, <4>2
    <3> QED BY <3>2 DEF QuienLoTiene
  <2>4. QuienLoTiene(g)' = QuienLoTiene(g) \cup {<<p, L + 1>>}
    <3>1. ASSUME NEW q \in Procesos, NEW i \in Descriptores
          PROVE  HayEntrada(q, i)' /\ pft'[q][i].gfd = g
                 <=> (HayEntrada(q, i) /\ pft[q][i].gfd = g) \/ (q = p /\ i = L + 1)
      <4>1. CASE q = p /\ i = L + 1
        BY <1>4, <2>2, <4>1 DEF HayEntrada
      <4>2. CASE ~(q = p /\ i = L + 1)
        BY <2>1, <4>2
      <4> QED BY <4>1, <4>2
    <3> QED BY <2>2, <3>1 DEF QuienLoTiene
  <2>5. <<p, L + 1>> \notin QuienLoTiene(g)
    BY <2>2 DEF QuienLoTiene
  <2>6. Cardinality(QuienLoTiene(g)') = Cardinality(QuienLoTiene(g)) + 1
    BY <2>4, <2>5, QuienFinito, FS_AddElement
  <2>7. ASSUME NEW h \in 1..Len(gft')
        PROVE  gft'[h].abiertos = Cardinality(QuienLoTiene(h)')
    <3>1. CASE h = g
      BY <1>6, <2>6, <3>1
    <3>2. CASE h # g
      BY <1>6, <2>3, <3>2 DEF Tablas, Contados, G
    <3> QED BY <3>1, <3>2
  <2> QED BY <2>7 DEF Contados
<1>10. Reservado'
  BY <1>2 DEF Reservado
<1> QED BY <1>7, <1>8, <1>9, <1>10 DEF Tablas
\* The last entry of a process goes away, and with it the last entry of the
\* global table when nobody else has the file open.  What was counted says
\* that nobody is left pointing at it.
LEMMA UnaEntradaMenos ==
    ASSUME Base, Tablas, NEW p \in Procesos, NEW i \in 1..Len(pft[p]), i = Len(pft[p]),
           NEW g, g = pft[p][i].gfd,
           gft[g].abiertos > 1 \/ g = Len(gft),
           gft' = SinUno(gft, g), llamada' = SinLlamada,
           programa' \in [Procesos -> Seq(Nombres)],
           \A q \in Procesos : q # p => pft'[q] = pft[q] /\ programa'[q] = programa[q],
           Len(pft'[p]) = i - 1, DOMAIN programa'[p] = 1..(i - 1),
           \A j \in 1..(i - 1) : pft'[p][j] = pft[p][j] /\ programa'[p][j] = programa[p][j]
    PROVE  Tablas'
<1>. DEFINE G == Len(gft)
<1>1. /\ gft \in Seq(EntradaGlobal) /\ G \in Nat /\ i \in Nat /\ i >= 1
      /\ \A q \in Procesos : Len(pft[q]) \in Nat
  BY LenProperties DEF Base, KernelTipado
<1>2. /\ i \in Descriptores /\ HayEntrada(p, i) /\ g \in 1..G
      /\ <<p, i>> \in QuienLoTiene(g)
  BY Enlazada DEF QuienLoTiene
<1>3. /\ gft[g] \in EntradaGlobal /\ gft[g].abiertos \in Nat
      /\ gft[g].abiertos = Cardinality(QuienLoTiene(g))
  <2>1. gft[g] \in EntradaGlobal
    BY <1>1, <1>2, ElementOfSeq
  <2> QED BY <1>2, <2>1 DEF EntradaGlobal, Tablas, Contados
<1>4. IsFiniteSet(QuienLoTiene(g)) /\ Cardinality(QuienLoTiene(g)) \in Nat
      /\ Cardinality(QuienLoTiene(g) \ {<<p, i>>}) = Cardinality(QuienLoTiene(g)) - 1
  BY <1>2, QuienFinito, FS_RemoveElement
\* Who is left, entry by entry.
<1>5. ASSUME NEW q \in Procesos, NEW j \in Descriptores
      PROVE  /\ HayEntrada(q, j)' <=> HayEntrada(q, j) /\ ~(q = p /\ j = i)
             /\ HayEntrada(q, j)' => pft'[q][j] = pft[q][j]
  <2>1. CASE q # p
    BY <2>1 DEF HayEntrada
  <2>2. CASE q = p
    <3>1. j \in Nat /\ j >= 1
      BY MaxAbiertosAssumption DEF Descriptores
    <3>2. /\ j <= i - 1 <=> j <= i /\ j # i
          /\ j <= i - 1 => j \in 1..(i - 1)
      BY <1>1, <3>1
    <3> QED BY <2>2, <3>2 DEF HayEntrada
  <2> QED BY <2>1, <2>2
<1>6. QuienLoTiene(g)' = QuienLoTiene(g) \ {<<p, i>>}
  <2>1. ASSUME NEW q \in Procesos, NEW j \in Descriptores
        PROVE  HayEntrada(q, j)' /\ pft'[q][j].gfd = g
               <=> HayEntrada(q, j) /\ pft[q][j].gfd = g /\ <<q, j>> # <<p, i>>
    <3>1. <<q, j>> # <<p, i>> <=> ~(q = p /\ j = i)
      OBVIOUS
    <3> QED BY <1>5, <3>1
  <2> QED BY <2>1 DEF QuienLoTiene
<1>7. ASSUME NEW h, h # g PROVE QuienLoTiene(h)' = QuienLoTiene(h)
  <2>1. ASSUME NEW q \in Procesos, NEW j \in Descriptores
        PROVE  HayEntrada(q, j)' /\ pft'[q][j].gfd = h
               <=> HayEntrada(q, j) /\ pft[q][j].gfd = h
    <3>1. pft[q][j].gfd = h => ~(q = p /\ j = i)
      BY <1>7
    <3> QED BY <1>5, <3>1
  <2> QED BY <2>1 DEF QuienLoTiene
<1>. HIDE DEF G
\* The global table: what is still pointed at is still there.
<1>8. /\ Len(gft') \in Nat /\ Len(gft') <= G
      /\ \A h \in 1..Len(gft') : gft'[h].nombre = gft[h].nombre
      /\ \A h \in 1..Len(gft') : h # g => gft'[h] = gft[h]
      /\ g \in 1..Len(gft') => gft'[g].abiertos = gft[g].abiertos - 1
      /\ \A q \in Procesos : \A j \in 1..Len(pft[q]) :
           ~(q = p /\ j = i) => pft[q][j].gfd \in 1..Len(gft')
  <2>1. CASE gft[g].abiertos > 1
    <3>. DEFINE x == [gft[g] EXCEPT !.abiertos = @ - 1]
    <3>1. x \in EntradaGlobal /\ x.nombre = gft[g].nombre
          /\ x.abiertos = gft[g].abiertos - 1
      <4>1. gft[g].abiertos - 1 \in Nat
        BY <1>3, <2>1
      <4> QED BY <1>3, <4>1 DEF EntradaGlobal
    <3>2. gft' = [gft EXCEPT ![g] = x]
      BY <2>1 DEF SinUno
    <3>. HIDE DEF x
    <3>3. /\ Len(gft') = G
          /\ \A h \in 1..G : gft'[h] = IF h = g THEN x ELSE gft[h]
      BY <1>1, <1>2, <3>1, <3>2, ExceptSeq DEF G
    <3>4. \A q \in Procesos : \A j \in 1..Len(pft[q]) : pft[q][j].gfd \in 1..G
      BY Enlazada DEF G
    <3>5. \A h \in 1..G : gft'[h].nombre = gft[h].nombre
      BY <3>1, <3>3
    <3>6. \A h \in 1..G : h # g => gft'[h] = gft[h]
      BY <3>3
    <3>7. gft'[g].abiertos = gft[g].abiertos - 1
      BY <1>2, <3>1, <3>3
    <3>8. Len(gft') \in Nat /\ Len(gft') <= G
      BY <1>1, <3>3
    <3>9. Len(gft') = G
      BY <3>3
    <3> QED BY <3>4, <3>5, <3>6, <3>7, <3>8, <3>9
  <2>2. CASE ~(gft[g].abiertos > 1)
    <3>1. g = G /\ gft' = RemoveAt(gft, g)
      BY <2>2 DEF SinUno, G
    <3>2. /\ Len(gft') = G - 1
          /\ \A h \in 1..(G - 1) : gft'[h] = gft[IF h < g THEN h ELSE h + 1]
      <4>1. gft \in Seq(EntradaGlobal) /\ g \in 1..Len(gft)
        BY <1>1, <1>2 DEF G
      <4>2. /\ Len(RemoveAt(gft, g)) = Len(gft) - 1
            /\ \A h \in 1..Len(gft) - 1 :
                 RemoveAt(gft, g)[h] = gft[IF h < g THEN h ELSE h + 1]
        BY <4>1, QuitarUno
      <4>3. gft' = RemoveAt(gft, g)
        BY <3>1
      <4> QED BY <4>2, <4>3 DEF G
    <3>3. \A h \in 1..(G - 1) : h < g /\ h # g
      BY <1>1, <3>1
    <3>4. QuienLoTiene(g) = {<<p, i>>}
      <4>1. QuienLoTiene(g) # {}
        BY <1>2
      <4>2. Cardinality(QuienLoTiene(g)) # 0
        BY <1>4, <4>1, FS_EmptySet
      <4>3. Cardinality(QuienLoTiene(g)) = 1
        BY <1>3, <1>4, <2>2, <4>2
      <4>4. \E x : QuienLoTiene(g) = {x}
        BY <1>4, <4>3, FS_Singleton
      <4> QED BY <1>2, <4>4
    <3>5. ASSUME NEW q \in Procesos, NEW j \in 1..Len(pft[q]), ~(q = p /\ j = i)
          PROVE  pft[q][j].gfd \in 1..(G - 1)
      <4>1. j \in Descriptores /\ HayEntrada(q, j) /\ pft[q][j].gfd \in 1..G
        BY Enlazada DEF G
      <4>2. pft[q][j].gfd # g
        <5>1. SUFFICES ASSUME pft[q][j].gfd = g PROVE FALSE
          OBVIOUS
        <5>2. <<q, j>> \in QuienLoTiene(g)
          BY <4>1, <5>1 DEF QuienLoTiene
        <5>3. <<q, j>> = <<p, i>>
          BY <3>4, <5>2
        <5> QED BY <3>5, <5>3
      <4> QED BY <1>1, <3>1, <4>1, <4>2
    <3>6. g \notin 1..(G - 1) /\ G - 1 \in Nat /\ G - 1 <= G
      BY <1>1, <1>2, <3>1
    <3> QED BY <3>2, <3>3, <3>5, <3>6
  <2> QED BY <2>1, <2>2
<1>9. Enlazadas'
  <2>1. ASSUME NEW q \in Procesos
        PROVE  /\ Len(pft'[q]) <= MaxAbiertos
               /\ DOMAIN programa'[q] = 1..Len(pft'[q])
               /\ \A j \in 1..Len(pft'[q]) :
                    /\ pft'[q][j].gfd <= Len(gft')
                    /\ programa'[q][j] = gft'[pft'[q][j].gfd].nombre
    <3>1. ASSUME NEW j \in 1..Len(pft[q]), ~(q = p /\ j = i)
          PROVE  /\ pft[q][j].gfd <= Len(gft')
                 /\ programa[q][j] = gft'[pft[q][j].gfd].nombre
      <4>1. programa[q][j] = gft[pft[q][j].gfd].nombre
        BY Enlazada
      <4>2. pft[q][j].gfd \in 1..Len(gft')
        BY <1>8, <3>1
      <4> QED BY <1>8, <4>1, <4>2
    <3>2. Len(pft[q]) <= MaxAbiertos /\ DOMAIN programa[q] = 1..Len(pft[q])
      BY DEF Tablas, Enlazadas
    <3>3. CASE q # p
      BY <3>1, <3>2, <3>3
    <3>4. CASE q = p
      <4>1. i - 1 <= MaxAbiertos
        BY <1>1, <3>2, <3>4, MaxAbiertosAssumption
      <4>2. \A j \in 1..(i - 1) : j \in 1..Len(pft[q]) /\ j # i
        BY <1>1, <3>4
      <4>3. Len(pft'[q]) = i - 1 /\ DOMAIN programa'[q] = 1..(i - 1)
        BY <3>4
      <4>4. ASSUME NEW j \in 1..(i - 1)
            PROVE  /\ pft'[q][j].gfd <= Len(gft')
                   /\ programa'[q][j] = gft'[pft'[q][j].gfd].nombre
        <5>1. pft'[q][j] = pft[q][j] /\ programa'[q][j] = programa[q][j]
          BY <3>4, <4>4
        <5>2. /\ pft[q][j].gfd <= Len(gft')
              /\ programa[q][j] = gft'[pft[q][j].gfd].nombre
          BY <3>1, <4>2
        <5> QED BY <5>1, <5>2
      <4> QED BY <4>1, <4>3, <4>4
    <3> QED BY <3>3, <3>4
  <2> QED BY <2>1 DEF Enlazadas
<1>10. \A h \in 1..Len(gft') : h \in 1..G
  BY <1>1, <1>8
<1>11. UnaPorArchivo'
  BY <1>8, <1>10 DEF Tablas, UnaPorArchivo, G
<1>12. Contados'
  <2>1. ASSUME NEW h \in 1..Len(gft')
        PROVE  gft'[h].abiertos = Cardinality(QuienLoTiene(h)')
    <3>1. CASE h = g
      BY <1>3, <1>4, <1>6, <1>8, <3>1
    <3>2. CASE h # g
      BY <1>7, <1>8, <1>10, <3>2 DEF Tablas, Contados, G
    <3> QED BY <3>1, <3>2
  <2> QED BY <2>1 DEF Contados
<1>13. Reservado'
  BY DEF Reservado
<1> QED BY <1>9, <1>11, <1>12, <1>13 DEF Tablas

\* Closing removes a line and counts one opening less.
LEMMA TablasCerrar ==
    ASSUME SinCierresCruzados, Base, Tablas, NEW p \in Procesos, NEW i \in Descriptores,
           Cerrar(p, i)
    PROVE  Tablas'
<1>1. KernelLibre /\ HayEntrada(p, i)
  BY DEF Cerrar
<1>2. i \in 1..Len(pft[p]) /\ Len(pft[p]) \in Nat /\ pft[p] \in Seq(EntradaUsable)
  BY <1>1, Usada, LenProperties DEF Base
<1>3. HayGlobal(p, i) /\ CerrarEnTablas(p, i)
  BY <1>2, Enlazada DEF Cerrar
<1>. DEFINE g == pft[p][i].gfd
<1>4. /\ i = Len(pft[p]) /\ (gft[g].abiertos > 1 \/ g = Len(gft))
      /\ pft' = [pft EXCEPT ![p] = RemoveAt(pft[p], i)] /\ gft' = SinUno(gft, g)
      /\ programa' = [programa EXCEPT ![p] = Restrict(programa[p], DOMAIN programa[p] \ {i})]
      /\ llamada' = SinLlamada
  <2>1. programa \in [Procesos -> Seq(Nombres)] /\ pft \in [Procesos -> Seq(EntradaUsable)]
    BY DEF Base, KernelTipado, Tablas, Enlazadas
  <2> QED BY <1>3, <2>1 DEF CerrarEnTablas, SinCierresCruzados, Contesta
<1>. HIDE DEF g
<1>5. /\ Len(pft'[p]) = i - 1
      /\ \A j \in 1..(i - 1) : pft'[p][j] = pft[p][j]
      /\ \A q \in Procesos : q # p => pft'[q] = pft[q]
  <2>1. /\ Len(RemoveAt(pft[p], i)) = i - 1
        /\ \A j \in 1..(i - 1) :
             RemoveAt(pft[p], i)[j] = pft[p][IF j < i THEN j ELSE j + 1]
    BY <1>2, <1>4, QuitarUno
  <2>2. \A j \in 1..(i - 1) : j < i
    BY <1>2
  <2>3. pft \in [Procesos -> Seq(EntradaUsable)]
    BY DEF Base, KernelTipado
  <2> QED BY <1>4, <2>1, <2>2, <2>3
<1>6. /\ programa' \in [Procesos -> Seq(Nombres)]
      /\ DOMAIN programa'[p] = 1..(i - 1)
      /\ \A j \in 1..(i - 1) : programa'[p][j] = programa[p][j]
      /\ \A q \in Procesos : q # p => programa'[q] = programa[q]
  <2>. DEFINE r == Restrict(programa[p], DOMAIN programa[p] \ {i})
  <2>1. /\ programa \in [Procesos -> Seq(Nombres)] /\ programa[p] \in Seq(Nombres)
        /\ DOMAIN programa[p] = 1..i
    BY <1>4 DEF Tablas, Enlazadas
  <2>2. /\ (1..i) \ {i} = 1..(i - 1) /\ i - 1 \in Nat
        /\ \A j \in 1..(i - 1) : j \in 1..i
    BY <1>2
  <2>3. r = [j \in 1..(i - 1) |-> programa[p][j]]
    BY <2>1, <2>2 DEF Restrict
  <2>4. \A j \in 1..i : programa[p][j] \in Nombres
    <3>1. DOMAIN programa[p] = 1..Len(programa[p])
      BY <2>1, LenProperties
    <3> QED BY <2>1, <3>1, ElementOfSeq
  <2>5. r \in [1..(i - 1) -> Nombres]
    BY <2>2, <2>3, <2>4
  <2>6. r \in Seq(Nombres)
    BY <2>2, <2>5, SeqDef
  <2>7. DOMAIN r = 1..(i - 1) /\ \A j \in 1..(i - 1) : r[j] = programa[p][j]
    BY <2>3
  <2>8. programa' = [programa EXCEPT ![p] = r]
    BY <1>4
  <2>. HIDE DEF r
  <2> QED BY <2>1, <2>6, <2>7, <2>8
<1>7. i \in 1..Len(pft[p]) /\ i = Len(pft[p]) /\ g = pft[p][i].gfd
  BY <1>2, <1>4 DEF g
<1>8. /\ gft[g].abiertos > 1 \/ g = Len(gft)
      /\ gft' = SinUno(gft, g) /\ llamada' = SinLlamada
      /\ programa' \in [Procesos -> Seq(Nombres)]
  BY <1>4, <1>6
<1>9. \A q \in Procesos : q # p => pft'[q] = pft[q] /\ programa'[q] = programa[q]
  BY <1>5, <1>6
<1>10. /\ Len(pft'[p]) = i - 1 /\ DOMAIN programa'[p] = 1..(i - 1)
       /\ \A j \in 1..(i - 1) : pft'[p][j] = pft[p][j] /\ programa'[p][j] = programa[p][j]
  BY <1>5, <1>6
<1> QED BY <1>7, <1>8, <1>9, <1>10, UnaEntradaMenos

\* How the record that Cierra carries is updated.
LEMMA OtraTabla ==
    ASSUME NEW a, NEW b
    PROVE  /\ [gft |-> a, bien |-> b].bien = b /\ [gft |-> a, bien |-> b].gft = a
           /\ \A x : [[gft |-> a, bien |-> b] EXCEPT !.gft = x] = [gft |-> x, bien |-> b]
OBVIOUS

\* What the end of a process with one open file does to the global table.
LEMMA UnSoloCierre ==
    ASSUME NEW p, Len(pft[p]) = 1, HayGlobal(p, 1),
           Len(gft) \in Nat, pft[p][1].gfd \in Nat
    PROVE  Cierres(p) = [gft |-> SinUno(gft, pft[p][1].gfd), bien |-> TRUE]
<1>. DEFINE s == pft[p]
            inicio == [gft |-> gft, bien |-> TRUE]
            Tras(f) == f = [k \in 0..Len(s) |-> IF k = 0 THEN inicio
                                                ELSE Cierra(f[k - 1], s[k])]
            tras == CHOOSE f : Tras(f)
            una == [k \in 0..1 |-> IF k = 0 THEN inicio ELSE Cierra(inicio, s[k])]
<1>1. Cierres(p) = tras[Len(s)]
  BY DEF Cierres
<1>2. Tras(una)
  <2>1. \A k \in 0..1 : k # 0 => k = 1 /\ una[k - 1] = inicio
    OBVIOUS
  <2>. HIDE DEF inicio
  <2> QED BY <2>1
<1>3. Tras(tras)
  <2>. HIDE DEF Tras
  <2> QED BY <1>2
<1>. HIDE DEF tras, una
<1>4. tras[0] = inicio /\ tras[1] = Cierra(tras[0], s[1])
  <2>1. 0 \in 0..Len(s) /\ 1 \in 0..Len(s)
    OBVIOUS
  <2>2. \A k \in 0..Len(s) : tras[k] = IF k = 0 THEN inicio ELSE Cierra(tras[k - 1], s[k])
    <3>. HIDE DEF inicio, s
    <3> QED BY <1>3
  <2>. HIDE DEF inicio, s
  <2> QED BY <2>1, <2>2
<1>5. Cierra(inicio, s[1]) = [gft |-> SinUno(gft, s[1].gfd), bien |-> TRUE]
  <2>1. /\ inicio.bien = TRUE /\ inicio.gft = gft
        /\ \A x : [inicio EXCEPT !.gft = x] = [gft |-> x, bien |-> TRUE]
    BY OtraTabla
  <2>2. ~(s[1].gfd > Len(inicio.gft))
    <3>1. s[1].gfd <= Len(gft)
      BY DEF HayGlobal
    <3>. HIDE DEF Tras, inicio
    <3> QED BY <2>1, <3>1
  <2>. HIDE DEF inicio, s
  <2>3. Cierra(inicio, s[1]) = [inicio EXCEPT !.gft = SinUno(inicio.gft, s[1].gfd)]
    BY <2>1, <2>2 DEF Cierra
  <2> QED BY <2>1, <2>3
<1>6. tras[Len(s)] = Cierra(inicio, s[1])
  BY <1>4
<1> QED BY <1>1, <1>5, <1>6

\* It removes that process's line and counts one opening less.
LEMMA TablasFinalizar ==
    ASSUME SinCierresCruzados, Base, Tablas, NEW p \in Procesos, Finalizar(p)
    PROVE  Tablas'
<1>. DEFINE g == pft[p][1].gfd
<1>1. /\ Len(pft[p]) = 1 /\ HayGlobal(p, 1)
      /\ gft[g].abiertos > 1 \/ g = Len(gft)
  BY DEF Finalizar, SinCierresCruzados
<1>2. Cierres(p) = [gft |-> SinUno(gft, g), bien |-> TRUE]
  <2>1. Len(gft) \in Nat /\ g \in Nat
    <3>1. p \in Procesos /\ gft \in Seq(EntradaGlobal) /\ HayEntrada(p, 1)
      BY <1>1 DEF HayGlobal, Base, KernelTipado
    <3>2. Len(gft) \in Nat /\ 1 \in 1..Len(pft[p])
      BY <1>1, <3>1, LenProperties
    <3>3. g \in 1..Len(gft)
      BY <3>2, Enlazada
    <3> QED BY <3>2, <3>3
  <2> QED BY <1>1, <2>1, UnSoloCierre
<1>3. /\ gft' = SinUno(gft, g) /\ pft' = [pft EXCEPT ![p] = <<>>]
      /\ programa' = [programa EXCEPT ![p] = <<>>] /\ llamada' = SinLlamada
  BY <1>2 DEF Finalizar, Contesta
<1>. HIDE DEF g
<1>4. /\ programa \in [Procesos -> Seq(Nombres)] /\ pft \in [Procesos -> Seq(EntradaUsable)]
  BY DEF Base, KernelTipado, Tablas, Enlazadas
<1>5. <<>> \in Seq(Nombres) /\ Len(<<>>) = 0 /\ DOMAIN <<>> = 1..0 /\ 1..0 = {} /\ 1 - 1 = 0
  OBVIOUS
<1>6. /\ programa' \in [Procesos -> Seq(Nombres)] /\ pft'[p] = <<>> /\ programa'[p] = <<>>
      /\ \A q \in Procesos : q # p => pft'[q] = pft[q] /\ programa'[q] = programa[q]
  BY <1>3, <1>4, <1>5
<1>7. 1 \in 1..Len(pft[p])
  BY <1>1
<1>8. /\ Len(pft'[p]) = 1 - 1 /\ DOMAIN programa'[p] = 1..(1 - 1)
      /\ \A j \in 1..(1 - 1) : pft'[p][j] = pft[p][j] /\ programa'[p][j] = programa[p][j]
  BY <1>5, <1>6
<1> QED BY <1>1, <1>3, <1>6, <1>7, <1>8, UnaEntradaMenos DEF g

\* A step that moves no entry.
LEMMA TablasIguales ==
    ASSUME Base, Tablas, UNCHANGED tablas, llamada' = SinLlamada
    PROVE  Tablas'
<1>1. \A p \in Procesos : Len(pft[p]) \in Nat
  BY LenProperties DEF Base, KernelTipado
<1> QED BY <1>1, MismasEntradas DEF tablas

\* A cursor is no part of the third layer.
LEMMA CursorNoCuenta ==
    ASSUME Base, Tablas, NEW p \in Procesos, NEW i \in 1..Len(pft[p]), NEW c \in Nat,
           UNCHANGED <<gft, programa>>, llamada' = SinLlamada,
           pft' = [pft EXCEPT ![p] = [pft[p] EXCEPT ![i].cursor = c]]
    PROVE  Tablas'
<1>1. /\ pft \in [Procesos -> Seq(EntradaUsable)] /\ pft[p] \in Seq(EntradaUsable)
      /\ \A q \in Procesos : Len(pft[q]) \in Nat
  BY LenProperties DEF Base, KernelTipado
<1>2. /\ pft'[p] = [pft[p] EXCEPT ![i].cursor = c]
      /\ \A q \in Procesos : q # p => pft'[q] = pft[q]
  BY <1>1
<1>3. /\ Len(pft'[p]) = Len(pft[p])
      /\ \A j \in 1..Len(pft[p]) : pft'[p][j].gfd = pft[p][j].gfd
  BY <1>1, <1>2, CursorMovido
<1>4. \A q \in Procesos :
        /\ Len(pft'[q]) = Len(pft[q])
        /\ \A j \in 1..Len(pft[q]) : pft'[q][j].gfd = pft[q][j].gfd
  BY <1>2, <1>3
<1> QED BY <1>1, <1>4, MismasEntradas

\* A call that waits for the file system leaves the tables alone.
LEMMA TablasEsperando ==
    ASSUME Base, Tablas, UNCHANGED tablas, llamada' # SinLlamada,
           llamada'.que \in {"existe", "crear"} =>
             /\ Len(pft[llamada'.pid]) < MaxAbiertos
             /\ \A g \in 1..Len(gft) : gft[g].nombre # llamada'.nombre
    PROVE  Tablas'
BY DEF Tablas, Enlazadas, UnaPorArchivo, Contados, QuienLoTiene, HayEntrada, Reservado,
   tablas

\* What a program asks keeps the third layer.
LEMMA TablasSyscall ==
    ASSUME SinCierresCruzados, Base, Tablas, NEW p \in Procesos, Syscall(p)
    PROVE  Tablas'
<1>1. ASSUME NEW n \in Nombres, NEW f \in Permisos, AbrirAbierto(p, n, f) PROVE Tablas'
  <2>. DEFINE g == obtenerFDGlobal(n)
  <2>1. g \in 1..Len(gft) /\ gft[g].nombre = n /\ g \in Nat \ {0}
    BY <1>1, DescriptorGlobal, LenProperties DEF AbrirAbierto, Base, KernelTipado
  <2>2. /\ Len(pft[p]) < MaxAbiertos /\ gft' = [gft EXCEPT ![g].abiertos = @ + 1]
        /\ AgregarALaPft(p, n, f, g)
    BY <1>1 DEF AbrirAbierto
  <2>. HIDE DEF g
  <2> QED BY <2>1, <2>2, UnaEntradaMas
<1>2. ASSUME NEW n \in Nombres, NEW f \in Permisos, AbrirConsulta(p, n, f) PROVE Tablas'
  <2>1. /\ Len(pft[p]) < MaxAbiertos /\ UNCHANGED tablas
        /\ \A g \in 1..Len(gft) : gft[g].nombre # n
        /\ llamada' = [que |-> "existe", pid |-> p, nombre |-> n, flags |-> f]
    BY <1>2, DescriptorGlobal DEF AbrirConsulta, Base, KernelTipado
  <2>2. llamada' # SinLlamada /\ llamada'.pid = p /\ llamada'.nombre = n
    BY <2>1 DEF SinLlamada
  <2> QED BY <2>1, <2>2, TablasEsperando
<1>3. ASSUME NEW i \in Descriptores, BorrarRechazado(p, i) \/ CerrarInvalido(p, i)
      PROVE  Tablas'
  BY <1>3, TablasIguales DEF BorrarRechazado, CerrarInvalido, Contesta
<1>4. ASSUME NEW i \in Descriptores, Borrar(p, i) PROVE Tablas'
  <2>1. UNCHANGED tablas /\ llamada' # SinLlamada /\ llamada'.que = "borrar"
    BY <1>4 DEF Borrar, SinLlamada
  <2> QED BY <2>1, TablasEsperando
<1>5. ASSUME NEW i \in Descriptores, Cerrar(p, i) PROVE Tablas'
  BY <1>5, TablasCerrar
<1>6. ASSUME NEW i \in Descriptores, NEW pos \in Posiciones, MoverCursor(p, i, pos)
      PROVE  Tablas'
  <2>1. UNCHANGED <<gft, programa>> /\ llamada' = SinLlamada
    BY <1>6 DEF MoverCursor, Contesta
  <2>2. CASE UNCHANGED pft
    BY <2>1, <2>2, TablasIguales DEF tablas
  <2>3. CASE HayEntrada(p, i) /\ pft' = [pft EXCEPT ![p][i].cursor = pos]
    <3>1. i \in 1..Len(pft[p]) /\ pos \in Nat
      BY <2>3, Usada, PosicionesAssumption, MaxTamanioAssumption DEF Base
    <3>2. pft' = [pft EXCEPT ![p] = [pft[p] EXCEPT ![i].cursor = pos]]
      BY <2>3 DEF Base, KernelTipado
    <3> QED BY <2>1, <3>1, <3>2, CursorNoCuenta
  <2> QED BY <1>6, <2>2, <2>3 DEF MoverCursor
<1>7. ASSUME NEW i \in Descriptores, NEW q, NEW a, Rechazado(p, i, q, a) PROVE Tablas'
  BY <1>7, TablasIguales DEF Rechazado, Contesta
<1>8. ASSUME NEW i \in Descriptores, NEW s \in Escrituras, Escribir(p, i, s)
      PROVE  Tablas'
  <2>1. UNCHANGED tablas /\ llamada' # SinLlamada /\ llamada'.que = "escribir"
    BY <1>8 DEF Escribir, SinLlamada
  <2> QED BY <2>1, TablasEsperando
<1>9. ASSUME NEW i \in Descriptores, NEW t \in Lecturas, Leer(p, i, t)
      PROVE  Tablas'
  <2>1. UNCHANGED tablas /\ llamada' # SinLlamada /\ llamada'.que = "leer"
    BY <1>9 DEF Leer, SinLlamada
  <2> QED BY <2>1, TablasEsperando
<1>10. ASSUME Finalizar(p) PROVE Tablas'
  BY <1>10, TablasFinalizar
<1> QED
  BY <1>1, <1>2, <1>3, <1>4, <1>5, <1>6, <1>7, <1>8, <1>9, <1>10, Zenon DEF Syscall

\* What the kernel does with an answer keeps the third layer.
LEMMA TablasRespuesta ==
    ASSUME Base, Tablas, Respuesta
    PROVE  Tablas'
<1>1. /\ llamada # SinLlamada => llamada \in Llamadas
      /\ llamada.que # "nada" => llamada # SinLlamada
  BY DEF Base, KernelTipado, SinLlamada
<1>2. CASE AbrirExiste \/ AbrirCreado
  <2>1. llamada \in Llamadas /\ llamada.que \in {"existe", "crear"} /\ llamada # SinLlamada
        /\ AgregarALaGft(llamada.pid, llamada.nombre, llamada.flags)
    BY <1>1, <1>2 DEF AbrirExiste, AbrirCreado, Llega
  <2>2. llamada.pid \in Procesos /\ llamada.nombre \in Nombres /\ llamada.flags \in Permisos
    BY <2>1 DEF Llamadas
  <2>3. Len(pft[llamada.pid]) < MaxAbiertos
        /\ \A g \in 1..Len(gft) : gft[g].nombre # llamada.nombre
    BY <2>1 DEF Tablas, Reservado
  <2>4. Len(gft) + 1 \in Nat \ {0}
    BY LenProperties DEF Base, KernelTipado
  <2> QED BY <2>1, <2>2, <2>3, <2>4, UnaEntradaMas DEF AgregarALaGft
<1>3. CASE AbrirNoExiste
  <2>1. llamada \in Llamadas /\ llamada.que = "existe" /\ UNCHANGED tablas
        /\ llamada # SinLlamada
    BY <1>1, <1>3 DEF AbrirNoExiste, Llega
  <2>2. CASE "c" \in llamada.flags
    <3>1. llamada' = [llamada EXCEPT !.que = "crear"]
      BY <1>3, <2>2 DEF AbrirNoExiste
    <3>2. llamada' # SinLlamada /\ llamada'.pid = llamada.pid
          /\ llamada'.nombre = llamada.nombre
      BY <2>1, <3>1 DEF Llamadas, SinLlamada
    <3> QED BY <2>1, <3>2, TablasEsperando DEF Tablas, Reservado
  <2>3. CASE "c" \notin llamada.flags
    BY <1>3, <2>1, <2>3, TablasIguales DEF AbrirNoExiste, Contesta
  <2> QED BY <2>2, <2>3
<1>4. CASE AbrirNoCreado \/ Borrado \/ NoEscrito \/ NoLeido
  BY <1>4, TablasIguales DEF AbrirNoCreado, Borrado, NoEscrito, NoLeido, Contesta
<1>5. CASE Escrito \/ LeidoOk
  <2>. DEFINE p == llamada.pid
              i == llamada.fd
  <2>1. /\ llamada \in Llamadas /\ llamada.que \in {"escribir", "leer"}
        /\ UNCHANGED <<gft, programa>> /\ llamada' = SinLlamada
        /\ \/ pft' = [pft EXCEPT ![p][i].cursor = @ + llamada.tam]
           \/ pft' = [pft EXCEPT ![p][i].cursor = llamada.tam]
    BY <1>1, <1>5 DEF Escrito, LeidoOk, Llega, Contesta, Con
  <2>2. p \in Procesos /\ i \in Descriptores /\ llamada.tam \in Nat
    BY <2>1 DEF Llamadas
  <2>3. HayEntrada(p, i)
    BY <1>1, <2>1 DEF Base, KernelTipado, HayEntrada, SinLlamada
  <2>4. /\ pft[p][i].cursor \in Nat /\ i \in 1..Len(pft[p]) /\ pft[p] \in Seq(EntradaUsable)
        /\ pft \in [Procesos -> Seq(EntradaUsable)]
    BY <2>2, <2>3, Usada DEF Base, KernelTipado
  <2>. HIDE DEF p, i
  <2>5. \E c \in Nat : pft' = [pft EXCEPT ![p] = [pft[p] EXCEPT ![i].cursor = c]]
    <3>1. CASE pft' = [pft EXCEPT ![p][i].cursor = llamada.tam]
      BY <2>2, <2>4, <3>1
    <3>2. CASE pft' = [pft EXCEPT ![p][i].cursor = @ + llamada.tam]
      <4>1. pft' = [pft EXCEPT ![p] =
                     [pft[p] EXCEPT ![i].cursor = pft[p][i].cursor + llamada.tam]]
        BY <2>2, <2>4, <3>2
      <4>2. pft[p][i].cursor + llamada.tam \in Nat
        BY <2>2, <2>4
      <4> QED BY <4>1, <4>2
    <3> QED BY <2>1, <3>1, <3>2 DEF p, i
  <2>6. PICK c \in Nat : pft' = [pft EXCEPT ![p] = [pft[p] EXCEPT ![i].cursor = c]]
    BY <2>5
  <2>7. UNCHANGED <<gft, programa>> /\ llamada' = SinLlamada
    BY <2>1
  <2>8. p \in Procesos /\ i \in 1..Len(pft[p])
    BY <2>2, <2>4
  <2> QED BY <2>6, <2>7, <2>8, CursorNoCuenta
<1> QED BY <1>2, <1>3, <1>4, <1>5 DEF Respuesta

\* Every step keeps the third layer.
LEMMA TablasPaso ==
    SinCierresCruzados /\ Base /\ Tablas /\ [Next]_vars => Tablas'
<1>. SUFFICES ASSUME SinCierresCruzados, Base, Tablas, [Next]_vars PROVE Tablas'
  OBVIOUS
<1>1. ASSUME UNCHANGED kernelVars PROVE Tablas'
  BY <1>1 DEF Tablas, Enlazadas, UnaPorArchivo, Contados, QuienLoTiene, HayEntrada,
     Reservado, kernelVars
<1>2. CASE Reiniciar
  <2>1. /\ gft' = <<>> /\ pft' = [p \in Procesos |-> <<>>] /\ llamada' = SinLlamada
        /\ programa' = [p \in Procesos |-> <<>>]
    BY <1>2 DEF Reiniciar
  <2>2. <<>> \in Seq(Nombres) /\ Len(<<>>) = 0 /\ DOMAIN <<>> = 1..0 /\ 1..0 = {}
    OBVIOUS
  <2>3. Enlazadas'
    BY <2>1, <2>2, MaxAbiertosAssumption DEF Enlazadas
  <2> QED BY <2>1, <2>2, <2>3 DEF Tablas, UnaPorArchivo, Contados, Reservado
<1> QED BY <1>1, <1>2, TablasSyscall, TablasRespuesta DEF Next, vars

\* The types of the model, and the two properties of the tables.
LEMMA TablasDicen ==
    ASSUME Base, Tablas
    PROVE  DescriptorFiel /\ AbiertosCuenta
<1>1. TypeOK
  <2>1. gft \in Seq([nombre : Nombres, abiertos : Nat])
    BY DEF Base, KernelTipado, EntradaGlobal
  <2>2. pft \in [Procesos -> Seq(Entrada)]
    <3>1. EntradaUsable \subseteq Entrada
      BY DEF EntradaUsable, Entrada
    <3>2. \A p \in Procesos : pft[p] \in Seq(Entrada)
      BY <3>1, SeqMonotonic DEF Base, KernelTipado
    <3> QED BY <3>2 DEF Base, KernelTipado
  <2>3. \A p \in Procesos : \A i \in DOMAIN programa[p] : programa[p][i] \in Nombres
    <3>1. ASSUME NEW p \in Procesos, NEW i \in DOMAIN programa[p]
          PROVE  programa[p][i] \in Nombres
      <4>1. programa[p] \in Seq(Nombres)
        BY DEF Tablas, Enlazadas
      <4>2. i \in 1..Len(programa[p])
        BY <4>1, LenProperties
      <4> QED BY <4>1, <4>2, ElementOfSeq
    <3> QED BY <3>1
  <2> QED BY <2>1, <2>2, <2>3 DEF TypeOK, Base, FsTipado, KernelTipado
<1>2. DescriptorFiel
  <2>1. ASSUME NEW p \in Procesos, NEW i \in DOMAIN programa[p]
        PROVE  HayEntrada(p, i) /\ HayGlobal(p, i) /\ NombreDe(p, i) = programa[p][i]
    <3>1. i \in 1..Len(pft[p])
      BY DEF Tablas, Enlazadas
    <3> QED BY <3>1, Enlazada DEF NombreDe
  <2> QED BY <2>1 DEF DescriptorFiel
<1>3. AbiertosCuenta
  BY <1>1 DEF AbiertosCuenta, Tablas, UnaPorArchivo, Contados, QuienLoTiene
<1> QED BY <1>2, <1>3

\* A descriptor stands for the file it was given for, while nobody closes an
\* entry that is not the last one: the kernel takes it out of the tables by
\* position, and the positions are what the programs hold.
THEOREM DescriptorSiempreFiel ==
    ASSUME SinCierresCruzados
    PROVE  Spec => []DescriptorFiel
<1>1. Init => Tablas
  BY TablasInicial
<1>2. Base /\ Tablas /\ [Next]_vars => Tablas'
  BY TablasPaso
<1>3. Base /\ Tablas => DescriptorFiel
  BY TablasDicen
<1> QED BY <1>1, <1>2, <1>3, TiposDeLosArchivos, PTL DEF Spec

\* Under the same assumption the global table has one entry per open file,
\* and it counts the descriptors that are open on it: the count that decides
\* when the entry goes and when a file may be erased.
THEOREM AbiertosSiempreCuenta ==
    ASSUME SinCierresCruzados
    PROVE  Spec => []AbiertosCuenta
<1>1. Init => Tablas
  BY TablasInicial
<1>2. Base /\ Tablas /\ [Next]_vars => Tablas'
  BY TablasPaso
<1>3. Base /\ Tablas => AbiertosCuenta
  BY TablasDicen
<1> QED BY <1>1, <1>2, <1>3, TiposDeLosArchivos, PTL DEF Spec
=============================================================================

------------------------------ MODULE Archivos -------------------------------
(***************************************************************************)
(* What the kernel and the file system promise a program about files: a    *)
(* descriptor stands for the file it was opened for until it is closed, a  *)
(* read gives what was last written there, no request touches a file but   *)
(* its own, and each is done at one instant.  A crash closes everything    *)
(* and spoils at most the file that was being written.                     *)
(***************************************************************************)
EXTENDS Integers, Sequences, FiniteSets, Functions, TLC

CONSTANTS Procesos, Nombres, Permisos, Escrituras, Basura, MaxTamanio, MaxAbiertos

VARIABLES
    contenido,  \* what each file holds: bytes, or Ausente, or Roto
    abiertos,   \* the descriptors of each process
    contestado, \* the last answer
    arriba      \* nothing crashed since the last start

vars == <<contenido, abiertos, contestado, arriba>>

Ausente == <<"ausente">>
Roto == <<"roto">>

Contesta(p, q) == contestado' = [pid |-> p, que |-> q]
Aperturas(n) ==
    {pi \in Procesos \X (1..MaxAbiertos) :
        pi[2] \in DOMAIN abiertos[pi[1]] /\ abiertos[pi[1]][pi[2]].nombre = n}
SoloCambia(n) == \A m \in Nombres \ {n} : contenido'[m] = contenido[m]

Init ==
    /\ contenido = [n \in Nombres |-> Ausente]
    /\ abiertos = [p \in Procesos |-> <<>>]
    /\ contestado = [que |-> "nada"]
    /\ arriba = TRUE

Recibir ==
    /\ contestado' = [que |-> "nada"]
    /\ UNCHANGED <<contenido, abiertos>>

Disponible(n) == contenido[n] # Ausente \/ Aperturas(n) # {}

Abrir(p, i, n, f) ==
    \/ /\ Disponible(n) \/ "c" \in f
       /\ i \notin DOMAIN abiertos[p]
       /\ abiertos' = [abiertos EXCEPT ![p] =
                          (i :> [nombre |-> n, cursor |-> 0, flags |-> f]) @@ @]
       /\ contestado' = [pid |-> p, que |-> "APERTURA_EXITOSA", fd |-> i]
       /\ SoloCambia(n)
       /\ IF Disponible(n) THEN UNCHANGED contenido ELSE contenido'[n] # Ausente
    \/ /\ ~Disponible(n)
       /\ Contesta(p, IF "c" \in f THEN "ESPACIO_INSUFICIENTE_EN_FS" ELSE "ARCHIVO_INVALIDO")
       /\ UNCHANGED <<contenido, abiertos>>

Borrar(p, i) ==
    /\ UNCHANGED abiertos
    /\ IF i \in DOMAIN abiertos[p] /\ Cardinality(Aperturas(abiertos[p][i].nombre)) = 1
       THEN /\ contenido' = [contenido EXCEPT ![abiertos[p][i].nombre] = Ausente]
            /\ Contesta(p, "BORRADO_EXITOSO")
       ELSE UNCHANGED contenido /\ Contesta(p, "BORRADO_ERRONEO")

Cerrar(p, i) ==
    /\ UNCHANGED contenido
    /\ IF i \in DOMAIN abiertos[p]
       THEN /\ abiertos' = [abiertos EXCEPT ![p] = Restrict(@, DOMAIN @ \ {i})]
            /\ Contesta(p, "CERRADO_EXITOSO")
       ELSE UNCHANGED abiertos /\ Contesta(p, "ARCHIVO_INVALIDO")

MoverCursor(p, i, pos) ==
    /\ UNCHANGED contenido
    /\ IF i \in DOMAIN abiertos[p]
       THEN /\ abiertos' = [abiertos EXCEPT ![p][i].cursor = pos]
            /\ Contesta(p, "MOVER_CURSOR_EXITOSO")
       ELSE UNCHANGED abiertos /\ Contesta(p, "ARCHIVO_INVALIDO")

\* A descriptor that is not, or without the flag.
Puede(p, i, permiso) == i \in DOMAIN abiertos[p] /\ permiso \in abiertos[p][i].flags
NoPuede(p, i, permiso) ==
    /\ ~Puede(p, i, permiso)
    /\ Contesta(p, IF i \in DOMAIN abiertos[p] THEN "PERMISO_ARCHIVO_INVALIDO"
                                               ELSE "ARCHIVO_INVALIDO")
    /\ UNCHANGED <<contenido, abiertos>>

\* viejo with s written at offset; the file may grow, by whole blocks.
Escrito(viejo, offset, s, nuevo) ==
    /\ Len(nuevo) >= Len(viejo) /\ Len(nuevo) >= offset + Len(s)
    /\ \A k \in 1..Len(nuevo) :
        IF k > offset /\ k <= offset + Len(s) THEN nuevo[k] = s[k - offset]
        ELSE k <= Len(viejo) => nuevo[k] = viejo[k]

Escribir(p, i, s) ==
    \/ NoPuede(p, i, "w")
    \/ /\ Puede(p, i, "w")
       /\ LET a == abiertos[p][i] IN
           \/ /\ contenido[a.nombre] \notin {Ausente, Roto}
              /\ contenido'[a.nombre] \notin {Ausente, Roto}
              /\ Escrito(contenido[a.nombre], a.cursor, s, contenido'[a.nombre])
              /\ SoloCambia(a.nombre)
              /\ abiertos' = [abiertos EXCEPT ![p][i].cursor = @ + Len(s)]
              /\ Contesta(p, "ESCRITURA_EXITOSA")
           \/ /\ a.cursor + Len(s) > Len(contenido[a.nombre])
              /\ Contesta(p, "ARCHIVO_INVALIDO")
              /\ UNCHANGED <<contenido, abiertos>>

\* The bytes up to the first one nobody wrote; where the cursor is left is
\* not promised.
Leido(s, offset, t) ==
    LET r == SubSeq(s, offset + 1, offset + t)
        buenos == {k \in 0..t : \A j \in 1..k : r[j] # Basura}
    IN SubSeq(r, 1, CHOOSE k \in buenos : \A j \in buenos : j <= k)

Leer(p, i, t) ==
    \/ NoPuede(p, i, "r")
    \/ /\ Puede(p, i, "r")
       /\ UNCHANGED contenido
       /\ LET a == abiertos[p][i] IN
           /\ contenido[a.nombre] \notin {Ausente, Roto}
           /\ IF a.cursor + t <= Len(contenido[a.nombre])
              THEN /\ contestado' = [pid |-> p, que |-> "LECTURA_EXITOSA",
                                     datos |-> Leido(contenido[a.nombre], a.cursor, t)]
                   /\ \E c \in 0..MaxTamanio :
                        abiertos' = [abiertos EXCEPT ![p][i].cursor = c]
              ELSE Contesta(p, "ARCHIVO_INVALIDO") /\ UNCHANGED abiertos

Finalizar(p) ==
    /\ abiertos' = [abiertos EXCEPT ![p] = <<>>]
    /\ Contesta(p, "TERMINADO")
    /\ UNCHANGED contenido

\* Only a file somebody may be writing is spoilt.
Caida ==
    /\ arriba = TRUE /\ arriba' = FALSE
    /\ \/ UNCHANGED contenido
       \/ \E p \in Procesos : \E i \in DOMAIN abiertos[p] :
            "w" \in abiertos[p][i].flags /\ SoloCambia(abiertos[p][i].nombre)
    /\ UNCHANGED <<abiertos, contestado>>

Arranque ==
    /\ arriba = FALSE /\ arriba' = TRUE
    /\ abiertos' = [p \in Procesos |-> <<>>]
    /\ contestado' = [que |-> "nada"]
    /\ UNCHANGED contenido

Pedido ==
    \/ Recibir
    \/ \E p \in Procesos :
        \/ Finalizar(p)
        \/ \E i \in 1..MaxAbiertos :
            \/ \E n \in Nombres, f \in Permisos : Abrir(p, i, n, f)
            \/ Borrar(p, i) \/ Cerrar(p, i)
            \/ \E pos \in 0..MaxTamanio : MoverCursor(p, i, pos)
            \/ \E s \in Escrituras : Escribir(p, i, s)
            \/ \E t \in 1..MaxTamanio : Leer(p, i, t)

Next == (arriba = TRUE /\ arriba' = TRUE /\ Pedido) \/ Caida \/ Arranque

Spec == Init /\ [][Next]_vars
=============================================================================

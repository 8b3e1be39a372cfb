------------------------------ MODULE Reservas ------------------------------
(***************************************************************************)
(* What reservar and liberar promise a program: it gets bytes of one page  *)
(* that overlap nothing it already has, and they are its own, where they   *)
(* are and as long as they are, until it frees them or ends.               *)
(***************************************************************************)
EXTENDS Integers, FiniteSets

CONSTANTS Procesos, TamanioPagina, TamMetadata, Pedidos

VARIABLES
    reservas,   \* the regions of each program
    contestado  \* the last answer

vars == <<reservas, contestado>>

\* A region with the header before it.
Bytes(r) == (r.dir - TamMetadata)..(r.dir + r.tam - 1)
EnUnaPagina(r) == (r.dir % TamanioPagina) + r.tam <= TamanioPagina
Separada(r, s) == Bytes(r) \cap Bytes(s) = {}

Init == reservas = [p \in Procesos |-> {}] /\ contestado = [que |-> "nada"]

Reservar(p, n, r) ==
    /\ r.tam >= n /\ r.tam <= n + TamMetadata
    /\ EnUnaPagina(r)
    /\ \A s \in reservas[p] : Separada(r, s)
    /\ reservas' = [reservas EXCEPT ![p] = @ \cup {r}]
    /\ contestado' = [que |-> "DIRECCION_ENVIADA", pid |-> p, bytes |-> n, dir |-> r.dir]

Rechazar(p, n) ==
    /\ contestado' = [que |-> "PEDIDO_MEMORIA_RECHAZADO", pid |-> p, bytes |-> n]
    /\ UNCHANGED reservas

\* Freeing what is not reserved changes nothing.
Liberar(p, d) ==
    /\ reservas' = [reservas EXCEPT ![p] = {r \in @ : r.dir # d}]
    /\ \/ contestado' = [que |-> "LIBERACION_EXITOSA", pid |-> p, dir |-> d]
       \/ /\ \A r \in reservas[p] : r.dir # d
          /\ contestado' = [que |-> "LIBERACION_INVALIDA", pid |-> p, dir |-> d]

Fin(p) ==
    /\ reservas' = [reservas EXCEPT ![p] = {}]
    /\ contestado' = [que |-> "nada"]

Next ==
    \E p \in Procesos :
        \/ \E n \in Pedidos : Rechazar(p, n)
        \/ /\ contestado'.que = "DIRECCION_ENVIADA" /\ contestado'.pid = p
           /\ \E r \in reservas'[p] :
                r.dir = contestado'.dir /\ Reservar(p, contestado'.bytes, r)
        \/ /\ contestado'.que \in {"LIBERACION_EXITOSA", "LIBERACION_INVALIDA"}
           /\ Liberar(p, contestado'.dir)
        \/ Fin(p)

Spec == Init /\ [][Next]_vars
=============================================================================

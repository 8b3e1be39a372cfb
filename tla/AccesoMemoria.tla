--------------------------- MODULE AccesoMemoria ----------------------------
(***************************************************************************)
(* pedidosMemoria.c: how the CPU splits an access into requests that stay  *)
(* inside one page each.  An access is a record; hecho is bytes_leidos or  *)
(* bytes_asignados, pagina and pos say where the next request goes.        *)
(***************************************************************************)
EXTENDS Integers

CONSTANT TamanioPagina

\* MARCO_SIZE; 256 in the configuration.  A page that holds one variable
\* only, or less, is not considered.
ASSUME TamanioPaginaAssumption == TamanioPagina \in Nat /\ TamanioPagina > 4

TamanioVariable == 4
Tipos == {"instruccion", "leer", "asignar"}
SinAcceso == [tipo |-> "nada"]

posicionMemoria_a_puntero(pagina, pos) == pagina * TamanioPagina + pos

\* An access of tam bytes at address dir (puntero_a_posicionMemoria).
AccesoNuevo(tipo, dir, tam) ==
    [tipo |-> tipo, dir |-> dir, tam |-> tam, hecho |-> 0,
     pagina |-> dir \div TamanioPagina, pos |-> dir % TamanioPagina]

\* Mutant: instructions are compared as variables are.
DefectoChico(a) == a.tam < TamanioPagina

\* The comparison that tells whether the rest of a small access straddles:
\* instructions compare with <=, variables with <.
Chico(a) ==
    IF a.tipo = "instruccion" THEN a.tam <= TamanioPagina ELSE a.tam < TamanioPagina

LlegaAlBorde(a) ==
    \/ a.tam - a.hecho > TamanioPagina
    \/ Chico(a) /\ a.tam + a.pos > TamanioPagina

\* bytes_a_pedir
Bytes(a) == IF LlegaAlBorde(a) THEN TamanioPagina - a.pos ELSE a.tam - a.hecho

\* The request was served: bytes counted, next page.
Siguiente(a) ==
    [a EXCEPT !.hecho = @ + Bytes(a), !.pagina = @ + 1,
              !.pos = IF LlegaAlBorde(a) THEN 0 ELSE @]

Completo(a) == a.hecho = a.tam

-----------------------------------------------------------------------------
AccesoTypeOK(a) ==
    \/ a = SinAcceso
    \/ a \in [tipo : Tipos, dir : Nat, tam : Nat, hecho : Nat, pagina : Nat,
              pos : 0..(TamanioPagina - 1)]

\* Where the next request goes is where the access got to.
AccesoAlineado(a) ==
    \/ Completo(a)
    \/ /\ a.hecho < a.tam
       /\ posicionMemoria_a_puntero(a.pagina, a.pos) = a.dir + a.hecho
       /\ a.hecho > 0 => a.pos = 0

\* Every request is of some bytes, all of one page, all of the access: the
\* requests cover it once, in order.
PedidoExacto(a) ==
    Completo(a) \/ (Bytes(a) > 0 /\ a.pos + Bytes(a) <= TamanioPagina
                    /\ a.hecho + Bytes(a) <= a.tam)
=============================================================================

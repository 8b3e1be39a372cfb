------------------------------ MODULE Programa ------------------------------
(***************************************************************************)
(* What a program is promised: its sentences run one after another, each   *)
(* once, each primitive once and in order, with a stack of calls, as on a  *)
(* machine of its own; the kernel attends each of its requests once.  It   *)
(* may end, or be aborted at any point.                                    *)
(***************************************************************************)
EXTENDS Integers, Sequences, SequencesExt

CONSTANT Programas

VARIABLES
    programa,
    PC,         \* the next sentence, and after a call the one it jumped to
    pila,       \* the calls in course
    estado,     \* "vivo", "terminado" or "abortado"
    linea,      \* the sentence being executed; 0 between two
    i,          \* its next primitive; 0 when none is left
    salto,      \* it jumped
    atendida,   \* the kernel attended the primitive
    hechos      \* the requests it attended

vars == <<programa, PC, pila, estado, linea, i, salto, atendida, hechos>>

Init ==
    /\ programa \in Programas
    /\ PC = 1
    /\ pila = <<[ret |-> 0, vars |-> <<>>, args |-> 0]>>
    /\ estado = "vivo"
    /\ linea = 0 /\ i = 0
    /\ salto = FALSE /\ atendida = FALSE
    /\ hechos = <<>>

Empezar ==
    /\ linea = 0
    /\ linea' = PC /\ i' = 1
    /\ UNCHANGED <<PC, pila, salto, atendida, hechos>>

Sentencia == programa[linea]
Primitiva == Sentencia.prims[i]
Toca(op) == linea # 0 /\ i \in 1..Len(Sentencia.prims) /\ Primitiva.op = op
Sigue == i' = i + 1 /\ UNCHANGED <<linea, atendida, hechos>>

definir ==
    /\ Toca("definir") /\ Sigue
    /\ LET r == Last(pila)
           nuevo == IF Primitiva.argumento THEN [r EXCEPT !.args = @ + 1]
                    ELSE [r EXCEPT !.vars = Append(@, Primitiva.id)]
       IN pila' = Append(Front(pila), nuevo)
    /\ UNCHANGED <<PC, salto>>

acceder ==
    /\ Toca("dereferenciar") \/ Toca("asignar")
    /\ Sigue
    /\ UNCHANGED <<PC, pila, salto>>

irAlLabel ==
    /\ Toca("irAlLabel") /\ Sigue
    /\ PC' = Primitiva.etiqueta /\ salto' = TRUE
    /\ UNCHANGED pila

llamar ==
    /\ Toca("llamarSinRetorno") \/ Toca("llamarConRetorno")
    /\ Sigue
    /\ PC' = Primitiva.etiqueta /\ salto' = TRUE
    /\ pila' = Append(pila, [ret |-> PC, vars |-> <<>>, args |-> 0])

Volver == pila' = Front(pila) /\ PC' = Last(pila).ret

retornar == Toca("retornar") /\ Sigue /\ Volver /\ UNCHANGED salto

\* The end of a call is not the end of the program.
finalizarLlamada ==
    /\ Toca("finalizar") /\ Len(pila) > 1
    /\ Sigue /\ UNCHANGED <<PC, pila, salto>>

atender ==
    /\ Toca("kernel") /\ ~atendida
    /\ atendida' = TRUE
    /\ hechos' = Append(hechos, Primitiva.pedido)
    /\ UNCHANGED <<PC, pila, linea, i, salto>>

seguir ==
    /\ Toca("kernel") /\ atendida
    /\ atendida' = FALSE /\ i' = i + 1
    /\ UNCHANGED <<PC, pila, linea, salto, hechos>>

\* A call without return ends with the sentence "end".
TerminarSentencia ==
    /\ linea # 0 /\ i > Len(Sentencia.prims)
    /\ i' = 0
    /\ IF Sentencia.end /\ Len(pila) > 1 THEN Volver ELSE UNCHANGED <<PC, pila>>
    /\ UNCHANGED <<linea, salto, atendida, hechos>>

Avanzar ==
    /\ linea # 0 /\ i = 0
    /\ linea' = 0 /\ salto' = FALSE
    /\ PC' = IF salto THEN PC ELSE PC + 1
    /\ UNCHANGED <<pila, i, atendida, hechos>>

\* finalizar in main ends the program; anything may abort it.
Acabar ==
    /\ estado' = "abortado" \/ (estado' = "terminado" /\ Toca("finalizar") /\ Len(pila) = 1)
    /\ PC' = 0 /\ pila' = <<>> /\ linea' = 0 /\ i' = 0
    /\ salto' = FALSE /\ atendida' = FALSE
    /\ UNCHANGED hechos

Paso ==
    \/ Empezar \/ definir \/ acceder \/ irAlLabel \/ llamar \/ retornar
    \/ finalizarLlamada \/ atender \/ seguir \/ TerminarSentencia \/ Avanzar

Next ==
    /\ estado = "vivo"
    /\ UNCHANGED programa
    /\ (Paso /\ UNCHANGED estado) \/ Acabar

Spec == Init /\ [][Next]_vars
=============================================================================

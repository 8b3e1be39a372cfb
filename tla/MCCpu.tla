------------------------------- MODULE MCCpu --------------------------------
EXTENDS Cpu

\* Sentences at offsets and of lengths that straddle pages in every way.
S(ini, largo, prims) == [ini |-> ini, largo |-> largo, end |-> FALSE, prims |-> prims]
Fin(ini) == [ini |-> ini, largo |-> 5, end |-> TRUE, prims |-> <<[op |-> "finalizar"]>>]
Var(op, x) == [op |-> op, id |-> x, argumento |-> FALSE]
Arg(op, n) == [op |-> op, id |-> n, argumento |-> TRUE]
K(q) == [op |-> "kernel", pedido |-> q, id |-> "x"]
Salto(op, e) == [op |-> op, etiqueta |-> e, id |-> "x"]
Retorno == [op |-> "retornar"]

\* A procedure that signals, and a wait.
Procedimiento ==
    <<S(0, 8, <<Var("definir", "x"), Var("asignar", "x")>>),
      S(8, 13, <<Salto("llamarSinRetorno", 5)>>),
      S(21, 4, <<K("WAIT")>>),
      Fin(25),
      S(30, 20, <<Var("definir", "y")>>),
      S(50, 5, <<Var("dereferenciar", "y"), K("SIGNAL")>>),
      Fin(55)>>
\* A function with an argument.
Funcion ==
    <<S(3, 6, <<Var("definir", "x")>>),
      S(9, 7, <<Salto("llamarConRetorno", 4), Arg("definir", 0), Arg("asignar", 0)>>),
      Fin(16),
      S(23, 9, <<K("PEDIDO_BLOQUE_MEMORIA")>>),
      S(32, 1, <<Arg("dereferenciar", 0), Retorno>>)>>
\* Files, shared variables, a jump, and more variables than the stack holds.
Archivos ==
    <<S(1, 16, <<Var("definir", "x"), K("PRIMITIVA_ABRIR_ARCHIVO")>>),
      S(17, 8, <<K("PRIMITIVA_LEER_ARCHIVO")>>),
      S(25, 9, <<K("OBTENER_VALOR_COMPARTIDA"), K("ASIGNAR_VALOR_COMPARTIDA")>>),
      S(34, 3, <<Salto("irAlLabel", 6)>>),
      S(37, 9, <<K("PRIMITIVA_BORRAR_ARCHIVO")>>),
      S(46, 15, <<Var("definir", "y"), Var("definir", "z")>>),
      Fin(61)>>
\* A procedure that calls another one.
Anidado ==
    <<S(0, 8, <<Salto("llamarSinRetorno", 3)>>), Fin(8),
      S(16, 8, <<Salto("llamarSinRetorno", 5)>>), Fin(24),
      S(32, 8, <<K("SIGNAL")>>), Fin(40)>>
\* Any two requests to the kernel, one after the other.
Pares ==
    {<<S(2, 7, <<Var("definir", "x"), Var("asignar", "x")>>), S(9, 16, <<K(q)>>),
       S(25, 6, <<K(r)>>), Fin(31)>> : q, r \in Pedidos}
\* One that never ends.
Bucle ==
    <<S(6, 6, <<Var("definir", "x")>>), S(12, 7, <<Var("dereferenciar", "x")>>),
      S(19, 6, <<Salto("irAlLabel", 2)>>)>>
MCProgramas == {Procedimiento, Funcion, Archivos, Bucle} \cup Pares
MCAnidado == {Anidado}
MCFuncion == {Funcion}
=============================================================================

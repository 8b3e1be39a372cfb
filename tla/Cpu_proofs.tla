----------------------------- MODULE Cpu_proofs -----------------------------
(***************************************************************************)
(* Whatever the programs and the size of a page:                           *)
(*   - every request a CPU makes to memory stays inside one page and the   *)
(*     requests of an access cover it once and in order;                   *)
(*   - the kernel and the CPU read their wires as the other one wrote      *)
(*     them, and never wait for each other, but for a sentence that ended  *)
(*     while planning was stopped;                                         *)
(*   - no two variables of a stack share a byte.                           *)
(***************************************************************************)
EXTENDS Cpu, SequenceTheorems, TLAPS

(***************************************************************************)
(* The split of an access in requests is exact for every page size.        *)
(***************************************************************************)

Acceso == [tipo : Tipos, dir : Nat, tam : Nat, hecho : Nat, pagina : Nat,
           pos : 0..(TamanioPagina - 1)]

\* What the CPU has between two requests: an access that got where its page
\* and offset say; what is not an instruction is a variable.
EnOrden(a) ==
    /\ a \in Acceso
    /\ AccesoAlineado(a)
    /\ a.tipo = "instruccion" \/ a.tam = TamanioVariable

\* puntero_a_posicionMemoria and posicionMemoria_a_puntero (structs.c) are
\* inverses.
LEMMA Direccion ==
    ASSUME NEW d \in Nat
    PROVE  /\ d \div TamanioPagina \in Nat
           /\ d % TamanioPagina \in 0..(TamanioPagina - 1)
           /\ posicionMemoria_a_puntero(d \div TamanioPagina, d % TamanioPagina) = d
BY TamanioPaginaAssumption, SMT DEF posicionMemoria_a_puntero

\* A new access is in order wherever it starts.
LEMMA AccesoNuevoEnOrden ==
    ASSUME NEW t \in Tipos, NEW d \in Nat, NEW n \in Nat,
           t = "instruccion" \/ n = TamanioVariable
    PROVE  EnOrden(AccesoNuevo(t, d, n))
<1> DEFINE a == AccesoNuevo(t, d, n)
<1>1. a \in Acceso
  BY Direccion DEF AccesoNuevo, Acceso
<1>2. a.tipo = t /\ a.tam = n /\ a.hecho = 0 /\ a.dir = d
  BY DEF AccesoNuevo
<1>3. posicionMemoria_a_puntero(a.pagina, a.pos) = d
  BY Direccion DEF AccesoNuevo
<1>4. AccesoAlineado(a)
  <2>1. CASE n = 0
    BY <1>2, <2>1 DEF AccesoAlineado, Completo
  <2>2. CASE n # 0
    BY <1>2, <1>3, <2>2 DEF AccesoAlineado
  <2> QED BY <2>1, <2>2
<1> QED BY <1>1, <1>2, <1>4 DEF EnOrden

\* A request that reaches the border of its page reads up to it, and is the
\* first one unless what is left fills more than a page.
LEMMA BytesExactos ==
    ASSUME NEW a, EnOrden(a), ~Completo(a)
    PROVE  /\ Bytes(a) \in Nat /\ Bytes(a) > 0
           /\ a.pos + Bytes(a) <= TamanioPagina
           /\ a.hecho + Bytes(a) <= a.tam
           /\ ~LlegaAlBorde(a) => a.hecho + Bytes(a) = a.tam
           /\ LlegaAlBorde(a) => a.pos + Bytes(a) = TamanioPagina
<1>1. /\ a.tipo \in Tipos /\ a.tam \in Nat /\ a.hecho \in Nat
      /\ a.pos \in Nat /\ a.pos < TamanioPagina
      /\ a.hecho < a.tam /\ (a.hecho > 0 => a.pos = 0)
  BY TamanioPaginaAssumption DEF EnOrden, Acceso, AccesoAlineado
<1>2. CASE LlegaAlBorde(a)
  <2>1. Bytes(a) = TamanioPagina - a.pos
    BY <1>2 DEF Bytes
  <2>2. TamanioPagina - a.pos <= a.tam - a.hecho
    <3>1. CASE a.tam - a.hecho > TamanioPagina
      BY <1>1, <3>1, TamanioPaginaAssumption
    <3>2. CASE Chico(a) /\ a.tam + a.pos > TamanioPagina
      BY <1>1, <3>2, TamanioPaginaAssumption DEF Chico
    <3> QED BY <1>2, <3>1, <3>2 DEF LlegaAlBorde
  <2> QED BY <1>1, <1>2, <2>1, <2>2, TamanioPaginaAssumption
<1>3. CASE ~LlegaAlBorde(a)
  <2>1. Bytes(a) = a.tam - a.hecho
    BY <1>3 DEF Bytes
  <2>2. a.pos + (a.tam - a.hecho) <= TamanioPagina
    <3>1. CASE a.hecho > 0
      BY <1>1, <1>3, <3>1, TamanioPaginaAssumption DEF LlegaAlBorde
    <3>2. CASE a.hecho = 0
      <4>1. Chico(a)
        BY <1>1, <1>3, <3>2, TamanioPaginaAssumption
        DEF LlegaAlBorde, Chico, EnOrden, TamanioVariable
      <4> QED BY <1>1, <1>3, <3>2, <4>1, TamanioPaginaAssumption DEF LlegaAlBorde
    <3> QED BY <1>1, <3>1, <3>2
  <2> QED BY <1>1, <1>3, <2>1, <2>2, TamanioPaginaAssumption
<1> QED BY <1>2, <1>3

\* pedidosMemoria.c: no request crosses a page, and none asks for bytes that
\* are not of the access.
LEMMA PedidoSiempreExacto ==
    ASSUME NEW a, EnOrden(a)
    PROVE  PedidoExacto(a)
BY BytesExactos DEF PedidoExacto

\* After a request the access is in order again.
LEMMA SiguienteEnOrden ==
    ASSUME NEW a, EnOrden(a), ~Completo(a)
    PROVE  EnOrden(Siguiente(a))
<1> DEFINE b == Siguiente(a)
<1>1. /\ a \in Acceso /\ a.tam \in Nat /\ a.hecho \in Nat /\ a.pagina \in Nat
      /\ a.pos \in Nat /\ a.dir \in Nat
      /\ posicionMemoria_a_puntero(a.pagina, a.pos) = a.dir + a.hecho
  BY TamanioPaginaAssumption DEF EnOrden, Acceso, AccesoAlineado
<1>2. /\ b.tipo = a.tipo /\ b.dir = a.dir /\ b.tam = a.tam
      /\ b.hecho = a.hecho + Bytes(a) /\ b.pagina = a.pagina + 1
      /\ b.pos = IF LlegaAlBorde(a) THEN 0 ELSE a.pos
  BY <1>1 DEF Siguiente, Acceso
<1>3. b \in Acceso
  <2>1. a.hecho + Bytes(a) \in Nat
    BY <1>1, BytesExactos
  <2>2. (IF LlegaAlBorde(a) THEN 0 ELSE a.pos) \in 0..(TamanioPagina - 1)
    BY <1>1, TamanioPaginaAssumption DEF Acceso
  <2>3. a.pagina + 1 \in Nat
    BY <1>1
  <2> QED BY <1>1, <2>1, <2>2, <2>3 DEF Siguiente, Acceso
<1>4. AccesoAlineado(b)
  <2>1. CASE LlegaAlBorde(a)
    <3>1. posicionMemoria_a_puntero(b.pagina, b.pos) = b.dir + b.hecho
      <4>1. (a.pagina + 1) * TamanioPagina + 0 = a.pagina * TamanioPagina + TamanioPagina
        BY <1>1, TamanioPaginaAssumption, SMT
      <4>2. a.pagina * TamanioPagina + a.pos = a.dir + a.hecho
        BY <1>1 DEF posicionMemoria_a_puntero
      <4>3. a.pos + Bytes(a) = TamanioPagina /\ Bytes(a) \in Nat
        BY <2>1, BytesExactos
      <4>4. a.pagina * TamanioPagina \in Nat
        BY <1>1, TamanioPaginaAssumption, SMT
      <4>5. a.pagina * TamanioPagina + TamanioPagina = a.dir + (a.hecho + Bytes(a))
        BY <1>1, <4>2, <4>3, <4>4, TamanioPaginaAssumption
      <4> QED BY <1>2, <2>1, <4>1, <4>5 DEF posicionMemoria_a_puntero
    <3>2. b.hecho <= b.tam /\ b.pos = 0
      BY <1>2, <2>1, BytesExactos
    <3> QED BY <1>1, <1>2, <3>1, <3>2, BytesExactos DEF AccesoAlineado, Completo
  <2>2. CASE ~LlegaAlBorde(a)
    BY <1>2, <2>2, BytesExactos DEF AccesoAlineado, Completo
  <2> QED BY <2>1, <2>2
<1> QED BY <1>2, <1>3, <1>4 DEF EnOrden


(***************************************************************************)
(* What the CPUs and their stacks are at every moment.                     *)
(***************************************************************************)

\* The names of the variables of the scripts.
Ids == UNION {UNION {{p[k].prims[j].id : j \in 1..Len(p[k].prims)} : k \in DOMAIN p} :
              p \in Programas}
Variable == [id : Ids, dir : Nat]
Argumento == [dir : Nat, cpu : Cpus]
RegistroDePila == [ret : Nat, destino : Nat, vars : Seq(Variable), args : Seq(Argumento)]
Pila == Seq(RegistroDePila) \ {<<>>}
Pcb == [PC : Nat, pila : Pila, pagina : Nat, pos : 0..(TamanioPagina - 1),
        sinRetorno : BOOLEAN, anormal : BOOLEAN, termino : BOOLEAN]
Rotulos == Pedidos \cup {"PROGRAMA_TERMINADO", "ABORTAR_PROGRAMA", "ME_DESCONECTO",
                         "TERMINE_SENTENCIA", "EJECUTAR_PROGRAMA", "SI", "NO",
                         "SEGUI_EJECUTANDO", "CAMBIAR_PROCESO"}
Mensaje == [que : {"cabeza"}, es : Rotulos] \cup {Dato} \cup [que : {"pcb"}, pcb : Pcb]
Fases == {"ociosa", "sentencia", "primitiva", "espera", "esperaTermine",
          "avanza", "entrega", "apagada"}
EstadoDeCpu ==
    [nombre : Cpus, fase : Fases,
     linea : Nat, i : Nat \ {0},
     llamada : BOOLEAN, wait : BOOLEAN, cambio : BOOLEAN]

Retornando == acceso.tipo # "instruccion" /\ Primitiva.op = "retornar"

\* The inductive invariant.  The stack is never empty, wherever the PCB is: on
\* the CPU, in the kernel or on the wire between them; an access is in order;
\* and there is one only while a primitive runs, which if it is retornar has a
\* call to leave.
IInv ==
    /\ programa \in Programas
    /\ pcbCpu \in Pcb /\ pcbKernel \in Pcb
    /\ cpu \in EstadoDeCpu
    /\ aKernel \in Seq(Mensaje) /\ aCpu \in Seq(Mensaje)
    /\ acceso # SinAcceso =>
         /\ EnOrden(acceso) /\ En("primitiva")
         /\ Retornando => Len(pcbCpu.pila) > 1
    /\ En("primitiva") \/ En("espera") => cpu.linea \in DOMAIN programa
    /\ En("espera") => Primitiva.op = "kernel"

-----------------------------------------------------------------------------
(* Helpers.                                                                *)

\* What either side sends is a message.
LEMMA MensajesBien ==
    /\ \A q \in Rotulos : Cabeza(q) \in Mensaje
    /\ \A p \in Pcb : MsjPcb(p) \in Mensaje
    /\ \A n \in Nat : Veces(n) \in Seq(Mensaje)
<1>1. Dato \in Mensaje
  BY DEF Mensaje
<1>2. \A n \in Nat : Veces(n) \in Seq(Mensaje)
  <2> TAKE n \in Nat
  <2>1. \A k \in 1..n : Dato \in Mensaje
    BY <1>1
  <2> QED BY <2>1, IsASeq DEF Veces
<1> QED BY <1>2 DEF Mensaje, Cabeza, MsjPcb

\* How many messages follow the header of each request.
LEMMA DatosBien == \A q \in Pedidos : Datos[q] \in Nat
<1> DEFINE P == {"OBTENER_VALOR_COMPARTIDA", "ASIGNAR_VALOR_COMPARTIDA",
                 "WAIT", "SIGNAL", "PEDIDO_BLOQUE_MEMORIA", "LIBERAR_BLOQUE",
                 "PRIMITIVA_ABRIR_ARCHIVO", "PRIMITIVA_BORRAR_ARCHIVO",
                 "PRIMITIVA_CERRAR_ARCHIVO", "PRIMITIVA_MOVER_CURSOR_ARCHIVO",
                 "PRIMITIVA_ESCRIBIR_ARCHIVO", "PRIMITIVA_LEER_ARCHIVO"}
<1>1. Pedidos = P
  BY DEF Pedidos, Lecturas
<1>2. /\ Datos["OBTENER_VALOR_COMPARTIDA"] \in Nat
      /\ Datos["ASIGNAR_VALOR_COMPARTIDA"] \in Nat
      /\ Datos["WAIT"] \in Nat
      /\ Datos["SIGNAL"] \in Nat
      /\ Datos["PEDIDO_BLOQUE_MEMORIA"] \in Nat
      /\ Datos["LIBERAR_BLOQUE"] \in Nat
      /\ Datos["PRIMITIVA_ABRIR_ARCHIVO"] \in Nat
      /\ Datos["PRIMITIVA_BORRAR_ARCHIVO"] \in Nat
      /\ Datos["PRIMITIVA_CERRAR_ARCHIVO"] \in Nat
      /\ Datos["PRIMITIVA_MOVER_CURSOR_ARCHIVO"] \in Nat
      /\ Datos["PRIMITIVA_ESCRIBIR_ARCHIVO"] \in Nat
      /\ Datos["PRIMITIVA_LEER_ARCHIVO"] \in Nat
  BY DEF Datos
<1>3. \A q \in P : Datos[q] \in Nat
  BY <1>2
<1> QED BY <1>1, <1>3

\* SubSeq of an answer consumed.
LEMMA ConsumidaBien ==
    ASSUME NEW s \in Seq(Mensaje), NEW n \in Nat, Len(s) > n
    PROVE  SubSeq(s, n + 2, Len(s)) \in Seq(Mensaje)
<1>1. \A k \in (n + 2)..Len(s) : s[k] \in Mensaje
  BY ElementOfSeq, LenProperties
<1> QED BY <1>1, SubSeqProperties, LenProperties

\* What Last and Front of a stack are.
LEMMA PilaBien ==
    ASSUME NEW s \in Pila
    PROVE  /\ Last(s) \in RegistroDePila
           /\ Front(s) \in Seq(RegistroDePila)
           /\ Len(s) \in Nat /\ Len(s) > 0
           /\ Len(s) > 1 => Front(s) \in Pila
<1>1. s \in Seq(RegistroDePila) /\ s # <<>>
  BY DEF Pila
<1>2. Len(s) \in Nat /\ Len(s) > 0
  BY <1>1, EmptySeq, LenProperties
<1>3. Last(s) \in RegistroDePila
  BY <1>1, <1>2, ElementOfSeq DEF Last
<1>4. Front(s) \in Seq(RegistroDePila) /\ Len(Front(s)) = Len(s) - 1
  <2>1. \A k \in 1..(Len(s) - 1) : s[k] \in RegistroDePila
    BY <1>1, <1>2, ElementOfSeq
  <2> DEFINE f == SubSeq(s, 1, Len(s) - 1)
             m == Len(s) - 1
  <2>2. m \in Int /\ m >= 0
    BY <1>2
  <2>3. /\ f \in Seq(RegistroDePila)
        /\ Len(f) = IF 1 <= m THEN m - 1 + 1 ELSE 0
    BY <2>1, <2>2, 1 \in Int, SubSeqProperties
  <2>4. f = Front(s)
    BY DEF Front
  <2> HIDE DEF f, m
  <2>5. Len(f) = m
    <3>1. CASE 1 <= m
      BY <2>2, <2>3, <3>1
    <3>2. CASE ~(1 <= m)
      BY <2>2, <2>3, <3>2
    <3> QED BY <3>1, <3>2
  <2>6. m = Len(s) - 1
    BY DEF m
  <2> QED BY <2>3, <2>4, <2>5, <2>6, Zenon
<1>5. Len(s) > 1 => Front(s) # <<>>
  BY <1>2, <1>4, EmptySeq
<1> QED BY <1>2, <1>3, <1>4, <1>5 DEF Pila

\* A register on top of the stack, or in place of its top.
LEMMA ApiladaBien ==
    ASSUME NEW s \in Seq(RegistroDePila), NEW r \in RegistroDePila
    PROVE  Append(s, r) \in Pila /\ Len(Append(s, r)) = Len(s) + 1
BY AppendProperties, LenProperties, EmptySeq DEF Pila

\* The end of the stack stays in its page.
LEMMA AvanzarFinBien ==
    ASSUME NEW p \in Pcb
    PROVE  AvanzarFin(p) \in Pcb
<1>1. p.pos \in Nat /\ p.pos < TamanioPagina /\ p.pagina \in Nat
  BY TamanioPaginaAssumption DEF Pcb
<1>2. CASE p.pos + TamanioVariable >= TamanioPagina
  <2>1. p.pos + TamanioVariable - TamanioPagina \in 0..(TamanioPagina - 1)
    BY <1>1, <1>2, TamanioPaginaAssumption DEF TamanioVariable
  <2>2. p.pagina + 1 \in Nat
    BY <1>1
  <2> QED BY <1>2, <2>1, <2>2 DEF AvanzarFin, Pcb
<1>3. CASE ~(p.pos + TamanioVariable >= TamanioPagina)
  <2>1. p.pos + TamanioVariable \in 0..(TamanioPagina - 1)
    BY <1>1, <1>3, TamanioPaginaAssumption DEF TamanioVariable
  <2> QED BY <1>3, <2>1 DEF AvanzarFin, Pcb
<1> QED BY <1>2, <1>3

\* fin_stack is an address.
LEMMA FinDePilaBien ==
    ASSUME NEW p \in Pcb
    PROVE  FinDePila(p) \in Nat
BY TamanioPaginaAssumption, SMT DEF FinDePila, Pcb, posicionMemoria_a_puntero

\* The register of a call is taken away.
LEMMA SaliendoBien ==
    ASSUME NEW p \in Pcb, Len(p.pila) > 1
    PROVE  Saliendo(p) \in Pcb
<1>1. p.pila \in Pila
  BY DEF Pcb
<1>2. Front(p.pila) \in Pila /\ Last(p.pila).ret \in Nat
  BY <1>1, PilaBien DEF RegistroDePila
<1> QED BY <1>2 DEF Saliendo, Pcb

\* The primitive a CPU is at is one of its script.
LEMMA PrimitivaBien ==
    ASSUME IInv, En("primitiva") \/ En("espera"), cpu.i <= Len(Sentencia.prims)
    PROVE  /\ Primitiva.op \in Saltos => Primitiva.etiqueta \in Nat
           /\ Primitiva.op = "kernel" => Primitiva.pedido \in Pedidos
           /\ Primitiva.id \in Ids
<1>1. programa \in Programas /\ cpu.linea \in DOMAIN programa
  BY DEF IInv
<1>2. cpu.i \in 1..Len(Sentencia.prims)
  <2>1. Len(Sentencia.prims) \in Nat
    BY <1>1, ProgramasAssumption DEF Sentencia
  <2>2. cpu.i \in Nat /\ cpu.i # 0
    BY DEF IInv, EstadoDeCpu
  <2> QED BY <2>1, <2>2
<1>3. Primitiva.id \in Ids
  BY <1>1, <1>2 DEF Ids, Primitiva, Sentencia
<1> QED BY <1>1, <1>2, <1>3, ProgramasAssumption DEF Primitiva, Sentencia

\* Every address a primitive may use is one.
LEMMA DireccionesBien ==
    ASSUME IInv
    PROVE  /\ \A x : Posiciones(x) \subseteq Nat
           /\ \A x : PosicionesDeArgumento(x) \subseteq Nat
<1>1. registroActual \in RegistroDePila
  BY PilaBien DEF IInv, Pcb, registroActual
<1>2. Cualquiera \subseteq Nat
  BY DEF Cualquiera
<1>3. registroActual.vars \in Seq(Variable) /\ registroActual.args \in Seq(Argumento)
  BY <1>1 DEF RegistroDePila
<1>4. ASSUME NEW x PROVE Posiciones(x) \subseteq Nat
  <2> DEFINE vs == registroActual.vars
             iguales == {j \in 1..Len(vs) : vs[j].id = x}
  <2>1. CASE vs = <<>>
    BY <1>2, <2>1 DEF Posiciones
  <2>2. CASE vs # <<>>
    <3>1. \A j \in 1..Len(vs) : vs[j].dir \in Nat
      <4> TAKE j \in 1..Len(vs)
      <4>1. vs[j] \in Variable
        BY <1>3, ElementOfSeq
      <4> QED BY <4>1 DEF Variable
    <3>2. Len(vs) \in Nat \ {0}
      BY <1>3, <2>2, EmptySeq
    <3>3. Last(vs).dir \in Nat
      BY <3>1, <3>2, Len(vs) \in 1..Len(vs) DEF Last
    <3> QED BY <2>2, <3>1, <3>3 DEF Posiciones
  <2> QED BY <2>1, <2>2
<1>5. ASSUME NEW x PROVE PosicionesDeArgumento(x) \subseteq Nat
  <2>1. \A j \in 1..Len(registroActual.args) : registroActual.args[j].dir \in Nat
    <3> TAKE j \in 1..Len(registroActual.args)
    <3>1. registroActual.args[j] \in Argumento
      BY <1>3, ElementOfSeq
    <3> QED BY <3>1 DEF Argumento
  <2>2. CASE x + 1 \in 1..Len(registroActual.args) /\ registroActual.args[x + 1].cpu = cpu.nombre
    BY <2>1, <2>2 DEF PosicionesDeArgumento
  <2>3. CASE ~(x + 1 \in 1..Len(registroActual.args) /\ registroActual.args[x + 1].cpu = cpu.nombre)
    BY <1>2, <2>3 DEF PosicionesDeArgumento
  <2> QED BY <2>2, <2>3
<1> QED BY <1>4, <1>5

-----------------------------------------------------------------------------
(* What a step has to keep, by what it does with the access.               *)

\* Memory at rest after the step, and no request to the kernel pending.
LEMMA SinAccesoBien ==
    ASSUME IInv, programa' = programa, pcbCpu' \in Pcb, pcbKernel' \in Pcb,
           cpu' \in EstadoDeCpu, aKernel' \in Seq(Mensaje), aCpu' \in Seq(Mensaje),
           acceso' = SinAcceso, cpu'.fase # "espera",
           cpu'.fase = "primitiva" => cpu'.linea \in DOMAIN programa
    PROVE  IInv'
<1>1. programa' \in Programas
  BY DEF IInv
<1>2. En("primitiva")' \/ En("espera")' => cpu'.linea \in DOMAIN programa'
  BY DEF En
<1>3. SinAcceso' = SinAcceso
  BY DEF SinAcceso
<1>4. ~En("espera")'
  BY DEF En
<1> QED BY <1>1, <1>2, <1>3, <1>4 DEF IInv

\* A primitive with an access in order.
LEMMA ConAccesoBien ==
    ASSUME IInv, programa' = programa, pcbCpu' = pcbCpu, pcbKernel' = pcbKernel,
           cpu' \in EstadoDeCpu, aKernel' \in Seq(Mensaje), aCpu' \in Seq(Mensaje),
           EnOrden(acceso'), cpu'.fase = "primitiva",
           cpu'.linea \in DOMAIN programa,
           Retornando' => Len(pcbCpu.pila) > 1
    PROVE  IInv'
<1>1. programa' \in Programas /\ pcbCpu' \in Pcb /\ pcbKernel' \in Pcb
  BY DEF IInv
<1>2. En("primitiva")' /\ ~En("espera")' /\ cpu'.linea \in DOMAIN programa'
  BY DEF En
<1>3. EnOrden(acceso)'
  BY DEF EnOrden, Acceso, AccesoAlineado, Completo, posicionMemoria_a_puntero, Tipos, TamanioVariable
<1> QED BY <1>1, <1>2, <1>3 DEF IInv

\* A step that is not of the CPU.
LEMMA DelKernelBien ==
    ASSUME IInv, UNCHANGED <<programa, pcbCpu, cpu, acceso>>, pcbKernel' \in Pcb,
           aKernel' \in Seq(Mensaje), aCpu' \in Seq(Mensaje)
    PROVE  IInv'
BY DEF IInv, En, Retornando, Primitiva, Sentencia, EnOrden

-----------------------------------------------------------------------------
(* The steps of the CPU.                                                   *)

\* What IInv says of the variables, for the steps below.
LEMMA Tipado ==
    ASSUME IInv
    PROVE  /\ programa \in Programas /\ pcbCpu \in Pcb /\ pcbKernel \in Pcb
           /\ cpu \in EstadoDeCpu /\ aKernel \in Seq(Mensaje) /\ aCpu \in Seq(Mensaje)
           /\ pcbCpu.pila \in Pila /\ registroActual \in RegistroDePila
           /\ cpu.i \in Nat \ {0} /\ cpu.linea \in Nat
           /\ En("primitiva") \/ En("espera") => cpu.linea \in DOMAIN programa
           /\ ~En("primitiva") => acceso = SinAcceso
BY PilaBien DEF IInv, Pcb, EstadoDeCpu, registroActual

\* A CPU with other values in some of its fields.
LEMMA CpuBien ==
    ASSUME NEW e \in EstadoDeCpu, NEW n \in Nat, NEW b \in BOOLEAN, NEW d \in BOOLEAN,
           NEW f \in Fases
    PROVE  /\ [e EXCEPT !.fase = f] \in EstadoDeCpu
           /\ [e EXCEPT !.i = @ + 1] \in EstadoDeCpu
           /\ [e EXCEPT !.llamada = TRUE, !.i = @ + 1] \in EstadoDeCpu
           /\ [e EXCEPT !.fase = f, !.cambio = b] \in EstadoDeCpu
           /\ [e EXCEPT !.fase = f, !.wait = b] \in EstadoDeCpu
           /\ [e EXCEPT !.fase = f, !.i = @ + 1] \in EstadoDeCpu
           /\ [e EXCEPT !.fase = f, !.i = @ + 1, !.cambio = b] \in EstadoDeCpu
           /\ [e EXCEPT !.fase = f, !.linea = n, !.i = 1,
                         !.llamada = b, !.wait = d] \in EstadoDeCpu
<1>1. e.i + 1 \in Nat \ {0} /\ 1 \in Nat \ {0}
  BY DEF EstadoDeCpu
<1> DEFINE j == e.i + 1
<1>2. j \in Nat \ {0}
  BY <1>1
<1> HIDE DEF j
<1>3. /\ [e EXCEPT !.fase = f] \in EstadoDeCpu
      /\ [e EXCEPT !.i = j] \in EstadoDeCpu
      /\ [e EXCEPT !.llamada = TRUE, !.i = j] \in EstadoDeCpu
  BY <1>2, Zenon DEF EstadoDeCpu
<1>4. /\ [e EXCEPT !.fase = f, !.cambio = b] \in EstadoDeCpu
      /\ [e EXCEPT !.fase = f, !.wait = b] \in EstadoDeCpu
      /\ [e EXCEPT !.fase = f, !.i = j] \in EstadoDeCpu
  BY <1>2, Zenon DEF EstadoDeCpu
<1>5. [e EXCEPT !.fase = f, !.i = j, !.cambio = b] \in EstadoDeCpu
  BY <1>2, Zenon DEF EstadoDeCpu
<1>6. [e EXCEPT !.fase = f, !.linea = n, !.i = 1, !.llamada = b, !.wait = d] \in EstadoDeCpu
  BY <1>1, Zenon DEF EstadoDeCpu
<1> QED BY <1>3, <1>4, <1>5, <1>6 DEF j

\* Sigue keeps the CPU at its sentence.
LEMMA SigueBien ==
    ASSUME IInv, Sigue
    PROVE  /\ cpu' \in EstadoDeCpu
           /\ cpu'.fase = cpu.fase /\ cpu'.linea = cpu.linea
BY DEF Sigue, IInv, EstadoDeCpu

\* The program ends abnormally: only that changes in the PCB.
LEMMA AnormalBien ==
    ASSUME NEW p \in Pcb
    PROVE  [p EXCEPT !.anormal = TRUE] \in Pcb
BY DEF Pcb

\* The fetch of a sentence.
LEMMA PasoPedirInstruccion == IInv /\ pedirInstruccionAMemoria => IInv'
<1> SUFFICES ASSUME IInv, pedirInstruccionAMemoria PROVE IInv'
  OBVIOUS
<1> USE DEF pedirInstruccionAMemoria, SinKernel, SinMensajes
<1>1. /\ programa[pcbCpu.PC].ini \in Nat /\ programa[pcbCpu.PC].largo \in Nat
      /\ pcbCpu.PC \in Nat
  BY Tipado, ProgramasAssumption
<1>2. EnOrden(acceso') /\ acceso'.tipo = "instruccion"
  <2>1. "instruccion" \in Tipos
    BY DEF Tipos
  <2>2. acceso' = AccesoNuevo("instruccion", programa[pcbCpu.PC].ini, programa[pcbCpu.PC].largo)
    OBVIOUS
  <2> QED BY <1>1, <2>1, <2>2, AccesoNuevoEnOrden DEF AccesoNuevo
<1>3. cpu' \in EstadoDeCpu /\ cpu'.fase = "primitiva" /\ cpu'.linea = pcbCpu.PC
  <2>1. cpu \in EstadoDeCpu
    BY Tipado
  <2>2. cpu' = [cpu EXCEPT !.fase = "primitiva", !.linea = pcbCpu.PC, !.i = 1,
                           !.llamada = FALSE, !.wait = FALSE]
    OBVIOUS
  <2> HIDE DEF pedirInstruccionAMemoria
  <2>3. "primitiva" \in Fases /\ FALSE \in BOOLEAN
    BY DEF Fases
  <2>4. [cpu EXCEPT !.fase = "primitiva", !.linea = pcbCpu.PC, !.i = 1,
                    !.llamada = FALSE, !.wait = FALSE] \in EstadoDeCpu
    BY <1>1, <2>1, <2>3, CpuBien, Zenon
  <2>5. cpu' \in EstadoDeCpu
    BY <2>2, <2>4, Zenon
  <2> QED BY <2>1, <2>2, <2>5 DEF EstadoDeCpu
<1>4. ~Retornando'
  BY <1>2 DEF Retornando
<1> QED BY <1>2, <1>3, <1>4, Tipado, ConAccesoBien

\* A request to memory and its answer.
LEMMA PasoPedirParte == IInv /\ PedirParte => IInv'
<1> SUFFICES ASSUME IInv, PedirParte PROVE IInv'
  OBVIOUS
<1> USE DEF PedirParte, SinKernel, SinMensajes
<1>1. EnOrden(acceso) /\ En("primitiva")
  BY DEF IInv
<1>2. EnOrden(acceso') /\ acceso'.tipo = acceso.tipo
  BY <1>1, SiguienteEnOrden DEF Siguiente, EnOrden, Acceso
<1>3. Retornando' => Retornando
  BY <1>2 DEF Retornando, Primitiva, Sentencia
<1>4. Retornando => Len(pcbCpu.pila) > 1
  BY DEF IInv
<1> QED BY <1>1, <1>2, <1>3, <1>4, Tipado, ConAccesoBien DEF En

\* An access that memory rejects.
LEMMA PasoAccesoFallido == IInv /\ AccesoFallido => IInv'
<1> SUFFICES ASSUME IInv, AccesoFallido PROVE IInv'
  OBVIOUS
<1> USE DEF AccesoFallido, SinKernel, SinMensajes
<1>1. En("primitiva") /\ (Retornando => Len(pcbCpu.pila) > 1)
  BY DEF IInv
<1>2. pcbCpu' \in Pcb
  <2>1. CASE acceso.tipo = "asignar" /\ Primitiva.op = "retornar"
    BY <1>1, <2>1, Tipado, SaliendoBien, AnormalBien DEF Retornando
  <2>2. CASE ~(acceso.tipo = "asignar" /\ Primitiva.op = "retornar")
    BY <2>2, Tipado, AnormalBien
  <2> QED BY <2>1, <2>2
<1> QED BY <1>1, <1>2, Tipado, SinAccesoBien DEF En

\* An access that is over.
LEMMA PasoAccesoTerminado == IInv /\ AccesoTerminado => IInv'
<1> SUFFICES ASSUME IInv, AccesoTerminado PROVE IInv'
  OBVIOUS
<1> USE DEF AccesoTerminado, SinKernel, SinMensajes
<1>1. En("primitiva") /\ (Retornando => Len(pcbCpu.pila) > 1)
  BY DEF IInv
<1>2. CASE acceso.tipo = "instruccion"
  BY <1>1, <1>2, Tipado, SinAccesoBien DEF En
<1>3. CASE acceso.tipo # "instruccion"
  <2>1. EnOrden(acceso)
    BY DEF IInv
  <2>2. pcbCpu' \in Pcb
    <3>1. CASE Primitiva.op = "retornar"
      <4>1. Len(pcbCpu.pila) > 1
        BY <1>1, <1>3, <3>1 DEF Retornando
      <4> QED BY <1>3, <3>1, <4>1, Tipado, SaliendoBien
    <3>2. CASE Primitiva.op # "retornar"
      BY <1>3, <3>2, Tipado
    <3> QED BY <3>1, <3>2
  <2> QED BY <1>1, <1>3, <2>2, Tipado, SigueBien, SinAccesoBien DEF En
<1> QED BY <1>2, <1>3

\* A register in place of the top of the stack.
LEMMA EnCimaBien ==
    ASSUME NEW p \in Pcb, NEW r \in RegistroDePila
    PROVE  EnCima(p, r) \in Pcb
<1>1. Front(p.pila) \in Seq(RegistroDePila)
  BY PilaBien DEF Pcb
<1>2. Append(Front(p.pila), r) \in Pila
  BY <1>1, ApiladaBien
<1> QED BY <1>2 DEF EnCima, Pcb

\* Where a primitive is, while one runs.
LEMMA EjecutaBien ==
    ASSUME IInv, NEW op, Ejecuta(op)
    PROVE  /\ Primitiva.op = op /\ acceso = SinAcceso
           /\ cpu.fase = "primitiva" /\ cpu.linea \in DOMAIN programa
           /\ op \in Saltos => Primitiva.etiqueta \in Nat
           /\ op = "kernel" => Primitiva.pedido \in Pedidos
           /\ Primitiva.id \in Ids
BY Tipado, PrimitivaBien DEF Ejecuta, En

\* A variable or an argument at the end of the stack.
LEMMA PasoDefinirVariable == IInv /\ definirVariable => IInv'
<1> SUFFICES ASSUME IInv, definirVariable PROVE IInv'
  OBVIOUS
<1> DEFINE x == Primitiva
           r == registroActual
           fin == FinDePila(pcbCpu)
           nuevo == IF x.argumento
                    THEN [r EXCEPT !.args = Append(@, [dir |-> fin, cpu |-> cpu.nombre])]
                    ELSE [r EXCEPT !.vars = Append(@, [id |-> x.id, dir |-> fin])]
<1>1. /\ Ejecuta("definir") /\ Sigue /\ SinKernel /\ UNCHANGED acceso
      /\ pcbCpu' = AvanzarFin(EnCima(pcbCpu, nuevo))
  BY DEF definirVariable
<1>2. x.id \in Ids /\ acceso = SinAcceso /\ cpu.fase = "primitiva" /\ cpu.linea \in DOMAIN programa
  BY <1>1, EjecutaBien
<1>3. fin \in Nat /\ r \in RegistroDePila /\ cpu.nombre \in Cpus
  BY Tipado, FinDePilaBien DEF EstadoDeCpu
<1>4. nuevo \in RegistroDePila
  <2> HIDE DEF r, fin
  <2>1. r.vars \in Seq(Variable) /\ r.args \in Seq(Argumento)
    BY <1>3 DEF RegistroDePila
  <2>2. [dir |-> fin, cpu |-> cpu.nombre] \in Argumento
    BY <1>3 DEF Argumento
  <2>3. [id |-> x.id, dir |-> fin] \in Variable
    BY <1>2, <1>3 DEF Variable
  <2>4. [r EXCEPT !.args = Append(@, [dir |-> fin, cpu |-> cpu.nombre])] \in RegistroDePila
    <3>1. Append(r.args, [dir |-> fin, cpu |-> cpu.nombre]) \in Seq(Argumento)
      BY <2>1, <2>2, AppendProperties
    <3> QED BY <1>3, <3>1 DEF RegistroDePila
  <2>5. [r EXCEPT !.vars = Append(@, [id |-> x.id, dir |-> fin])] \in RegistroDePila
    <3>1. Append(r.vars, [id |-> x.id, dir |-> fin]) \in Seq(Variable)
      BY <2>1, <2>3, AppendProperties
    <3> QED BY <1>3, <3>1 DEF RegistroDePila
  <2> QED BY <2>4, <2>5
<1> HIDE DEF nuevo, r, fin, x
<1>5. pcbCpu' \in Pcb
  BY <1>1, <1>4, Tipado, EnCimaBien, AvanzarFinBien
<1> QED BY <1>1, <1>2, <1>5, Tipado, SigueBien, SinAccesoBien DEF SinKernel, SinMensajes

\* Primitives that end in an abnormal end and nothing else.
LEMMA PasoDesbordarPila == IInv /\ DesbordarPila => IInv'
<1> SUFFICES ASSUME IInv, DesbordarPila PROVE IInv'
  OBVIOUS
<1>1. Ejecuta("definir") /\ Anormal /\ SinKernel /\ UNCHANGED <<cpu, acceso>>
  BY DEF DesbordarPila
<1>2. pcbCpu' \in Pcb
  BY <1>1, Tipado, AnormalBien DEF Anormal
<1> QED BY <1>1, <1>2, Tipado, EjecutaBien, SinAccesoBien DEF SinKernel, SinMensajes

\* A primitive that reads or writes a variable.
LEMMA PasoAcceder ==
    ASSUME IInv, NEW op, NEW tipo \in {"leer", "asignar"}, op # "retornar", Acceder(op, tipo)
    PROVE  IInv'
<1>1. Ejecuta(op) /\ SinKernel /\ UNCHANGED <<pcbCpu, cpu>>
  BY DEF Acceder
<1>2. PICK d \in Direcciones(Primitiva) : acceso' = AccesoNuevo(tipo, d, TamanioVariable)
  BY DEF Acceder
<1>3. d \in Nat
  BY <1>2, DireccionesBien DEF Direcciones
<1>4. EnOrden(acceso')
  <2>1. tipo \in Tipos /\ TamanioVariable \in Nat
    BY DEF Tipos, TamanioVariable
  <2> QED BY <1>2, <1>3, <2>1, AccesoNuevoEnOrden
<1>5. cpu.fase = "primitiva" /\ cpu.linea \in DOMAIN programa /\ Primitiva.op # "retornar"
  BY <1>1, EjecutaBien
<1>6. ~Retornando'
  BY <1>1, <1>5 DEF Retornando, Primitiva, Sentencia, SinKernel, SinMensajes
<1> QED BY <1>1, <1>4, <1>5, <1>6, Tipado, ConAccesoBien DEF SinKernel, SinMensajes

\* A jump.
LEMMA PasoIrAlLabel == IInv /\ irAlLabel => IInv'
<1> SUFFICES ASSUME IInv, irAlLabel PROVE IInv'
  OBVIOUS
<1>1. /\ Ejecuta("irAlLabel") /\ SinKernel /\ UNCHANGED acceso
      /\ pcbCpu' = [pcbCpu EXCEPT !.PC = Primitiva.etiqueta]
      /\ cpu' = [cpu EXCEPT !.llamada = TRUE, !.i = @ + 1]
  BY DEF irAlLabel
<1>2. Primitiva.etiqueta \in Nat
  BY <1>1, EjecutaBien DEF Saltos
<1>3. pcbCpu' \in Pcb
  BY <1>1, <1>2, Tipado DEF Pcb
<1>4. cpu' \in EstadoDeCpu
  BY <1>1, Tipado, CpuBien DEF Fases
<1>5. cpu'.fase = "primitiva" /\ cpu'.linea = cpu.linea
  BY <1>1, EjecutaBien, Tipado DEF EstadoDeCpu
<1> QED BY <1>1, <1>3, <1>4, <1>5, Tipado, EjecutaBien, SinAccesoBien DEF SinKernel, SinMensajes

\* A call: a register on top of the stack.
LEMMA PasoLlamar ==
    ASSUME IInv, NEW op \in Saltos, Ejecuta(op), NEW d \in Nat, NEW b \in BOOLEAN, Llamar(d, b)
    PROVE  IInv'
<1>1. /\ SinKernel /\ UNCHANGED acceso
      /\ pcbCpu' = [pcbCpu EXCEPT !.pila = Append(@, Registro(d)),
                                  !.PC = Primitiva.etiqueta, !.sinRetorno = b]
      /\ cpu' = [cpu EXCEPT !.llamada = TRUE, !.i = @ + 1]
  BY DEF Llamar
<1>2. Primitiva.etiqueta \in Nat /\ pcbCpu.PC \in Nat /\ pcbCpu.pila \in Seq(RegistroDePila)
  BY EjecutaBien, Tipado DEF Pcb, Pila
<1>3. Registro(d) \in RegistroDePila
  BY <1>2 DEF Registro, RegistroDePila
<1>4. Append(pcbCpu.pila, Registro(d)) \in Pila
  BY <1>2, <1>3, ApiladaBien
<1>5. pcbCpu' \in Pcb
  <2> DEFINE s == Append(pcbCpu.pila, Registro(d))
             e == Primitiva.etiqueta
  <2>1. s \in Pila /\ e \in Nat /\ pcbCpu' = [pcbCpu EXCEPT !.pila = s, !.PC = e, !.sinRetorno = b]
    BY <1>1, <1>2, <1>4
  <2> HIDE DEF s, e
  <2> QED BY <2>1, Tipado, Zenon DEF Pcb
<1>6. cpu' \in EstadoDeCpu
  BY <1>1, Tipado, CpuBien DEF Fases
<1>7. cpu'.fase = "primitiva" /\ cpu'.linea = cpu.linea
  BY <1>1, EjecutaBien, Tipado DEF EstadoDeCpu
<1> QED BY <1>1, <1>5, <1>6, <1>7, Tipado, EjecutaBien, SinAccesoBien DEF SinKernel, SinMensajes

\* retornar: the value goes where the caller said.
LEMMA PasoRetornar == IInv /\ retornar => IInv'
<1> SUFFICES ASSUME IInv, retornar PROVE IInv'
  OBVIOUS
<1>1. /\ Ejecuta("retornar") /\ Len(pcbCpu.pila) > 1
      /\ acceso' = AccesoNuevo("asignar", registroActual.destino, TamanioVariable)
      /\ SinKernel /\ UNCHANGED <<pcbCpu, cpu>>
  BY DEF retornar
<1>2. registroActual.destino \in Nat
  BY Tipado DEF RegistroDePila
<1>3. EnOrden(acceso')
  <2>1. "asignar" \in Tipos /\ TamanioVariable \in Nat
    BY DEF Tipos, TamanioVariable
  <2> QED BY <1>1, <1>2, <2>1, AccesoNuevoEnOrden
<1> QED BY <1>1, <1>3, Tipado, EjecutaBien, ConAccesoBien DEF SinKernel, SinMensajes

\* The end of the program is announced.
LEMMA PasoFinalizar == IInv /\ finalizar => IInv'
<1> SUFFICES ASSUME IInv, finalizar PROVE IInv'
  OBVIOUS
<1>1. /\ Ejecuta("finalizar") /\ Sigue /\ SinMensajes /\ UNCHANGED <<acceso, aCpu>>
      /\ \/ UNCHANGED <<pcbCpu, aKernel>>
         \/ /\ pcbCpu' = [pcbCpu EXCEPT !.termino = TRUE]
            /\ aKernel' = Append(aKernel, Cabeza("PROGRAMA_TERMINADO"))
  BY DEF finalizar
<1>2. pcbCpu' \in Pcb
  BY <1>1, Tipado DEF Pcb
<1>3. Cabeza("PROGRAMA_TERMINADO") \in Mensaje
  BY MensajesBien DEF Rotulos
<1>4. aKernel' \in Seq(Mensaje)
  BY <1>1, <1>3, Tipado, AppendProperties, SMTT(60)
<1> QED BY <1>1, <1>2, <1>4, Tipado, EjecutaBien, SigueBien, SinAccesoBien DEF SinMensajes

\* A request to the kernel.
LEMMA PasoPedirAlKernel == IInv /\ PedirAlKernel => IInv'
<1> SUFFICES ASSUME IInv, PedirAlKernel PROVE IInv'
  OBVIOUS
<1> DEFINE q == Primitiva.pedido
           b == cpu.wait \/ q = "WAIT"
<1>1. /\ Ejecuta("kernel") /\ SinMensajes /\ UNCHANGED <<pcbCpu, acceso, aCpu>>
      /\ aKernel' = aKernel \o <<Cabeza(q)>> \o Veces(Datos[q])
      /\ cpu' = [cpu EXCEPT !.fase = "espera", !.wait = b]
  BY DEF PedirAlKernel
<1>2. q \in Pedidos /\ Primitiva.op = "kernel" /\ cpu.linea \in DOMAIN programa
  BY <1>1, EjecutaBien
<1>3. aKernel' \in Seq(Mensaje)
  <2>1. Cabeza(q) \in Mensaje
    BY <1>2, MensajesBien DEF Rotulos
  <2>2. <<Cabeza(q)>> \in Seq(Mensaje)
    BY <2>1
  <2>3. Veces(Datos[q]) \in Seq(Mensaje)
    BY <1>2, DatosBien, MensajesBien
  <2>4. aKernel \o <<Cabeza(q)>> \in Seq(Mensaje)
    BY <2>2, Tipado, ConcatProperties
  <2> QED BY <1>1, <2>3, <2>4, ConcatProperties
<1> HIDE DEF b
<1>4. cpu' \in EstadoDeCpu
  <2>1. b \in BOOLEAN /\ "espera" \in Fases
    BY Tipado DEF b, EstadoDeCpu, Fases
  <2>2. [cpu EXCEPT !.fase = "espera", !.wait = b] \in EstadoDeCpu
    BY <2>1, Tipado, CpuBien, Zenon
  <2> QED BY <1>1, <2>2, Zenon
<1>5. cpu'.fase = "espera" /\ cpu'.linea = cpu.linea /\ cpu'.i = cpu.i
  BY <1>1, Tipado DEF EstadoDeCpu
<1>6. Primitiva' = Primitiva /\ programa' = programa
  BY <1>1, <1>5 DEF Primitiva, Sentencia, SinMensajes
<1>7. acceso' = SinAcceso /\ pcbCpu' = pcbCpu /\ pcbKernel' = pcbKernel /\ aCpu' = aCpu
  BY <1>1, EjecutaBien DEF SinMensajes
<1>8. /\ programa' \in Programas /\ pcbCpu' \in Pcb /\ pcbKernel' \in Pcb
      /\ aCpu' \in Seq(Mensaje)
  BY <1>6, <1>7, Tipado
<1>9. SinAcceso' = SinAcceso
  BY DEF SinAcceso
<1> QED BY <1>2, <1>3, <1>4, <1>5, <1>6, <1>7, <1>8, <1>9 DEF IInv, En

\* What is left after an answer was read.
LEMMA RespuestaBien ==
    ASSUME IInv, NEW n \in Nat, ConsumeRespuesta(n)
    PROVE  /\ aCpu' \in Seq(Mensaje) /\ aKernel' \in Seq(Mensaje)
           /\ programa' = programa /\ pcbKernel' \in Pcb
BY Tipado, ConsumidaBien DEF ConsumeRespuesta, SinMensajes

\* The answer no.
LEMMA PasoRespuestaNo == IInv /\ RespuestaNo => IInv'
<1> SUFFICES ASSUME IInv, RespuestaNo PROVE IInv'
  OBVIOUS
<1>1. /\ En("espera") /\ ConsumeRespuesta(0) /\ Anormal /\ UNCHANGED acceso
      /\ cpu' = [cpu EXCEPT !.fase = "primitiva"]
  BY DEF RespuestaNo, Respuesta
<1>2. pcbCpu' \in Pcb
  BY <1>1, Tipado, AnormalBien DEF Anormal
<1>3. cpu' \in EstadoDeCpu
  BY <1>1, Tipado, CpuBien DEF Fases
<1>4. cpu'.fase = "primitiva" /\ cpu'.linea = cpu.linea
  BY <1>1, Tipado DEF EstadoDeCpu
<1>5. acceso' = SinAcceso /\ cpu.linea \in DOMAIN programa
  BY <1>1, Tipado DEF En
<1> QED BY <1>1, <1>2, <1>3, <1>4, <1>5, RespuestaBien, SinAccesoBien

\* The answer yes.
LEMMA PasoRespuestaSi == IInv /\ RespuestaSi => IInv'
<1> SUFFICES ASSUME IInv, RespuestaSi PROVE IInv'
  OBVIOUS
<1>1. /\ En("espera") /\ UNCHANGED pcbCpu
      /\ \E n \in Nat : ConsumeRespuesta(n)
  BY DEF RespuestaSi, Respuesta
<1>2. /\ aCpu' \in Seq(Mensaje) /\ aKernel' \in Seq(Mensaje)
      /\ programa' = programa /\ pcbKernel' = pcbKernel /\ pcbKernel' \in Pcb
  BY <1>1, RespuestaBien DEF ConsumeRespuesta, SinMensajes
<1>3. /\ acceso = SinAcceso /\ cpu.linea \in DOMAIN programa /\ Primitiva.op = "kernel"
      /\ pcbCpu' \in Pcb
  BY <1>1, Tipado DEF En, IInv
<1>4. CASE Primitiva.pedido = "PRIMITIVA_LEER_ARCHIVO"
  <2>1. PICK d \in Posiciones(Primitiva.id) :
          acceso' = AccesoNuevo("asignar", d, TamanioVariable)
    BY <1>4 DEF RespuestaSi
  <2>2. cpu' = [cpu EXCEPT !.fase = "primitiva"]
    BY <1>4 DEF RespuestaSi
  <2>3. d \in Nat
    BY <2>1, DireccionesBien
  <2>4. EnOrden(acceso')
    <3>1. "asignar" \in Tipos /\ TamanioVariable \in Nat
      BY DEF Tipos, TamanioVariable
    <3> QED BY <2>1, <2>3, <3>1, AccesoNuevoEnOrden
  <2>5. cpu' \in EstadoDeCpu
    BY <2>2, Tipado, CpuBien DEF Fases
  <2>6. cpu'.fase = "primitiva" /\ cpu'.linea = cpu.linea /\ cpu'.i = cpu.i
    BY <2>2, Tipado DEF EstadoDeCpu
  <2>7. ~Retornando'
    BY <1>2, <1>3, <2>6 DEF Retornando, Primitiva, Sentencia
  <2> QED BY <1>1, <1>2, <1>3, <2>4, <2>5, <2>6, <2>7, ConAccesoBien
<1>5. CASE Primitiva.pedido # "PRIMITIVA_LEER_ARCHIVO"
  <2>1. cpu' = [cpu EXCEPT !.fase = "primitiva", !.i = @ + 1] /\ UNCHANGED acceso
    BY <1>5 DEF RespuestaSi
  <2>2. cpu' \in EstadoDeCpu
    <3>1. "primitiva" \in Fases
      BY DEF Fases
    <3>2. [cpu EXCEPT !.fase = "primitiva", !.i = @ + 1] \in EstadoDeCpu
      BY <3>1, Tipado, CpuBien
    <3> QED BY <2>1, <3>2
  <2>3. cpu'.fase = "primitiva" /\ cpu'.linea = cpu.linea
    BY <2>1, Tipado DEF EstadoDeCpu
  <2> QED BY <1>2, <1>3, <2>1, <2>2, <2>3, SinAccesoBien
<1> QED BY <1>4, <1>5

\* The answer to wait.
LEMMA PasoRespuestaWait == ASSUME IInv, NEW q, RespuestaWait(q) PROVE IInv'
<1> DEFINE b == cpu.cambio \/ q = "CAMBIAR_PROCESO"
<1>1. /\ En("espera") /\ ConsumeRespuesta(1) /\ UNCHANGED <<pcbCpu, acceso>>
      /\ cpu' = [cpu EXCEPT !.fase = "primitiva", !.i = @ + 1, !.cambio = b]
  BY DEF RespuestaWait, Respuesta
<1> HIDE DEF b
<1>2. cpu' \in EstadoDeCpu
  <2>1. b \in BOOLEAN /\ "primitiva" \in Fases
    BY Tipado DEF b, EstadoDeCpu, Fases
  <2>2. [cpu EXCEPT !.fase = "primitiva", !.i = @ + 1, !.cambio = b] \in EstadoDeCpu
    BY <2>1, Tipado, CpuBien, Zenon
  <2> QED BY <1>1, <2>2, Zenon
<1>3. cpu'.fase = "primitiva" /\ cpu'.linea = cpu.linea
  BY <1>1, Tipado DEF EstadoDeCpu
<1>4. acceso' = SinAcceso /\ cpu.linea \in DOMAIN programa /\ pcbCpu' \in Pcb
  BY <1>1, Tipado DEF En
<1> QED BY <1>1, <1>2, <1>3, <1>4, RespuestaBien, SinAccesoBien

\* The answer at the end of a sentence.
LEMMA PasoTermineContestado == ASSUME IInv, NEW q, TermineContestado(q) PROVE IInv'
<1> DEFINE b == q = "CAMBIAR_PROCESO"
<1>1. /\ En("esperaTermine") /\ ConsumeRespuesta(0) /\ UNCHANGED <<pcbCpu, acceso>>
      /\ cpu' = [cpu EXCEPT !.fase = "avanza", !.cambio = b]
  BY DEF TermineContestado
<1> HIDE DEF b
<1>2. cpu' \in EstadoDeCpu
  <2>1. b \in BOOLEAN /\ "avanza" \in Fases
    BY DEF b, Fases
  <2>2. [cpu EXCEPT !.fase = "avanza", !.cambio = b] \in EstadoDeCpu
    BY <2>1, Tipado, CpuBien, Zenon
  <2> QED BY <1>1, <2>2, Zenon
<1>3. cpu'.fase = "avanza"
  BY <1>1, Tipado DEF EstadoDeCpu
<1>4. acceso' = SinAcceso /\ pcbCpu' \in Pcb
  BY <1>1, Tipado DEF En
<1> QED BY <1>1, <1>2, <1>3, <1>4, RespuestaBien, SinAccesoBien

\* The end of a sentence: volverAlMain takes away the register of a procedure.
LEMMA PasoSentenciaTermina == IInv /\ SentenciaTermina => IInv'
<1> SUFFICES ASSUME IInv, SentenciaTermina PROVE IInv'
  OBVIOUS
<1>1. /\ acceso' = SinAcceso /\ aCpu' = aCpu /\ SinMensajes
      /\ pcbCpu' = Volver(pcbCpu)
      /\ Sentencia.end /\ pcbCpu.sinRetorno => Len(pcbCpu.pila) > 1
      /\ \/ cpu' = [cpu EXCEPT !.fase = "avanza"] /\ UNCHANGED aKernel
         \/ /\ cpu' = [cpu EXCEPT !.fase = "esperaTermine"]
            /\ aKernel' = Append(aKernel, Cabeza("TERMINE_SENTENCIA"))
  BY DEF SentenciaTermina, SentenciaHecha
<1>2. pcbCpu' \in Pcb
  <2>1. CASE pcbCpu.sinRetorno /\ Sentencia.end
    <3>1. Saliendo(pcbCpu) \in Pcb
      BY <1>1, <2>1, Tipado, SaliendoBien
    <3>2. [Saliendo(pcbCpu) EXCEPT !.sinRetorno = FALSE] \in Pcb
      BY <3>1 DEF Pcb
    <3> QED BY <1>1, <2>1, <3>2 DEF Volver
  <2>2. CASE ~(pcbCpu.sinRetorno /\ Sentencia.end)
    BY <1>1, <2>2, Tipado DEF Volver
  <2> QED BY <2>1, <2>2
<1>3. aKernel' \in Seq(Mensaje)
  <2>1. Cabeza("TERMINE_SENTENCIA") \in Mensaje
    BY MensajesBien DEF Rotulos
  <2> QED BY <1>1, <2>1, Tipado, AppendProperties, SMTT(60)
<1>4. cpu' \in EstadoDeCpu
  BY <1>1, Tipado, CpuBien, ZenonT(60) DEF Fases
<1>5. cpu'.fase \in {"avanza", "esperaTermine"}
  BY <1>1, Tipado DEF EstadoDeCpu
<1> QED BY <1>1, <1>2, <1>3, <1>4, <1>5, Tipado, SinAccesoBien DEF SinMensajes

\* PC goes to the next sentence, or stays where the sentence left it.
LEMMA PasoAvanza == IInv /\ Avanza => IInv'
<1> SUFFICES ASSUME IInv, Avanza PROVE IInv'
  OBVIOUS
<1> DEFINE f == IF cpu.cambio THEN "entrega" ELSE "sentencia"
<1>1. /\ En("avanza") /\ SinKernel /\ UNCHANGED acceso
      /\ pcbCpu' = IF cpu.llamada THEN pcbCpu ELSE [pcbCpu EXCEPT !.PC = @ + 1]
      /\ cpu' = [cpu EXCEPT !.fase = f]
  BY DEF Avanza
<1>2. f \in Fases /\ f # "primitiva" /\ f # "espera"
  BY DEF Fases
<1> HIDE DEF f
<1>3. pcbCpu' \in Pcb
  <2>1. pcbCpu.PC + 1 \in Nat
    BY Tipado DEF Pcb
  <2>2. [pcbCpu EXCEPT !.PC = @ + 1] \in Pcb
    BY <2>1, Tipado DEF Pcb
  <2> QED BY <1>1, <2>2, Tipado
<1>4. cpu' \in EstadoDeCpu
  BY <1>1, <1>2, Tipado, CpuBien
<1>5. cpu'.fase = f
  BY <1>1, Tipado DEF EstadoDeCpu
<1>6. acceso' = SinAcceso
  BY <1>1, Tipado DEF En
<1> QED BY <1>1, <1>2, <1>3, <1>4, <1>5, <1>6, Tipado, SinAccesoBien DEF SinKernel, SinMensajes

\* The loop of sentences is left.
LEMMA PasoProgramaTermina == IInv /\ ProgramaTermina => IInv'
<1> SUFFICES ASSUME IInv, ProgramaTermina PROVE IInv'
  OBVIOUS
<1>1. /\ acceso' = SinAcceso /\ SinKernel /\ UNCHANGED pcbCpu
      /\ cpu' = [cpu EXCEPT !.fase = "entrega"]
  BY DEF ProgramaTermina, SentenciaHecha
<1>2. cpu' \in EstadoDeCpu
  BY <1>1, Tipado, CpuBien DEF Fases
<1>3. cpu'.fase = "entrega"
  BY <1>1, Tipado DEF EstadoDeCpu
<1> QED BY <1>1, <1>2, <1>3, Tipado, SinAccesoBien DEF SinKernel, SinMensajes

\* A CPU that listens.
LEMMA OciosaBien == \A c \in Cpus : CpuOciosa(c) \in EstadoDeCpu /\ CpuOciosa(c).fase = "ociosa"
BY 1 \in Nat \ {0} DEF CpuOciosa, EstadoDeCpu, Fases

\* The PCB goes back.
LEMMA PasoEntregarPcb == IInv /\ EntregarPcb => IInv'
<1> SUFFICES ASSUME IInv, EntregarPcb PROVE IInv'
  OBVIOUS
<1> DEFINE aviso == IF pcbCpu.anormal THEN <<Cabeza("ABORTAR_PROGRAMA")>> ELSE <<>>
<1>1. /\ En("entrega") /\ SinMensajes /\ UNCHANGED <<pcbCpu, acceso, aCpu>>
      /\ aKernel' = aKernel \o aviso \o <<MsjPcb(pcbCpu)>>
      /\ cpu' = CpuOciosa(cpu.nombre)
  BY DEF EntregarPcb
<1>2. aKernel' \in Seq(Mensaje)
  <2>1. Cabeza("ABORTAR_PROGRAMA") \in Mensaje
    BY MensajesBien DEF Rotulos
  <2>2. aviso \in Seq(Mensaje)
    <3>1. <<Cabeza("ABORTAR_PROGRAMA")>> \in Seq(Mensaje)
      BY <2>1
    <3>2. <<>> \in Seq(Mensaje)
      BY EmptySeq
    <3> QED BY <3>1, <3>2
  <2>3. MsjPcb(pcbCpu) \in Mensaje
    BY Tipado, MensajesBien
  <2>4. <<MsjPcb(pcbCpu)>> \in Seq(Mensaje)
    BY <2>3
  <2> HIDE DEF aviso
  <2>5. aKernel \o aviso \in Seq(Mensaje)
    BY <2>2, Tipado, ConcatProperties
  <2> QED BY <1>1, <2>4, <2>5, ConcatProperties
<1>3. cpu' \in EstadoDeCpu /\ cpu'.fase = "ociosa"
  BY <1>1, Tipado, OciosaBien DEF EstadoDeCpu
<1>4. acceso' = SinAcceso
  BY <1>1, Tipado DEF En
<1> QED BY <1>1, <1>2, <1>3, <1>4, Tipado, SinAccesoBien DEF SinMensajes

\* A PCB that comes in a message is one.
LEMMA PcbDeMensaje ==
    ASSUME NEW m \in Mensaje, m.que = "pcb"
    PROVE  m.pcb \in Pcb
BY DEF Mensaje, Dato

\* A program is received.
LEMMA PasoRecibirPrograma == IInv /\ RecibirPrograma => IInv'
<1> SUFFICES ASSUME IInv, RecibirPrograma PROVE IInv'
  OBVIOUS
<1>1. /\ En("ociosa") /\ Len(aCpu) = 2 /\ aCpu[2].que = "pcb"
      /\ pcbCpu' = aCpu[2].pcb /\ aCpu' = <<>>
      /\ cpu' = [cpu EXCEPT !.fase = "sentencia", !.cambio = FALSE]
      /\ SinMensajes /\ UNCHANGED <<acceso, aKernel>>
  BY DEF RecibirPrograma
<1>2. pcbCpu' \in Pcb
  <2>1. aCpu[2] \in Mensaje
    <3>1. aCpu \in Seq(Mensaje) /\ 2 \in 1..Len(aCpu)
      BY <1>1, Tipado
    <3> QED BY <3>1, ElementOfSeq
  <2> QED BY <1>1, <2>1, PcbDeMensaje
<1>3. cpu' \in EstadoDeCpu
  <2>1. "sentencia" \in Fases /\ FALSE \in BOOLEAN
    BY DEF Fases
  <2>2. [cpu EXCEPT !.fase = "sentencia", !.cambio = FALSE] \in EstadoDeCpu
    BY <2>1, Tipado, CpuBien, Zenon
  <2> QED BY <1>1, <2>2, Zenon
<1>4. cpu'.fase = "sentencia"
  BY <1>1, Tipado DEF EstadoDeCpu
<1>5. acceso' = SinAcceso
  BY <1>1, Tipado DEF En
<1>6. aCpu' \in Seq(Mensaje)
  BY <1>1, EmptySeq
<1> QED BY <1>1, <1>2, <1>3, <1>4, <1>5, <1>6, Tipado, SinAccesoBien DEF SinMensajes

\* SIGUSR1.
LEMMA PasoDesconectarse == IInv /\ desconectarse => IInv'
<1> SUFFICES ASSUME IInv, desconectarse PROVE IInv'
  OBVIOUS
<1>1. /\ aKernel' = aKernel \o <<Cabeza("ME_DESCONECTO"), MsjPcb(pcbCpu)>>
      /\ cpu' = [cpu EXCEPT !.fase = "apagada"]
      /\ acceso' = SinAcceso
      /\ SinMensajes /\ UNCHANGED <<pcbCpu, aCpu>>
  BY DEF desconectarse
<1>2. aKernel' \in Seq(Mensaje)
  <2>1. Cabeza("ME_DESCONECTO") \in Mensaje /\ MsjPcb(pcbCpu) \in Mensaje
    BY Tipado, MensajesBien DEF Rotulos
  <2>2. <<Cabeza("ME_DESCONECTO"), MsjPcb(pcbCpu)>> \in Seq(Mensaje)
    BY <2>1
  <2> QED BY <1>1, <2>2, Tipado, ConcatProperties
<1>3. cpu' \in EstadoDeCpu
  BY <1>1, Tipado, CpuBien DEF Fases
<1>4. cpu'.fase = "apagada"
  BY <1>1, Tipado DEF EstadoDeCpu
<1> QED BY <1>1, <1>2, <1>3, <1>4, Tipado, SinAccesoBien DEF SinMensajes

\* Every step of the CPU.
LEMMA PasoCpuBien == IInv /\ PasoDeCpu => IInv'
<1> SUFFICES ASSUME IInv, PasoDeCpu PROVE IInv'
  OBVIOUS
<1>1. CASE dereferenciar \/ asignar
  BY <1>1, PasoAcceder DEF dereferenciar, asignar
<1>2. CASE llamarSinRetorno
  <2>1. Ejecuta("llamarSinRetorno") /\ Llamar(0, TRUE)
    BY <1>2 DEF llamarSinRetorno
  <2> QED BY <2>1, PasoLlamar, 0 \in Nat DEF Saltos
<1>3. CASE llamarConRetorno
  <2>1. Ejecuta("llamarConRetorno")
        /\ \E d \in Posiciones(Primitiva.id) : Llamar(d, pcbCpu.sinRetorno)
    BY <1>3 DEF llamarConRetorno
  <2>2. PICK d \in Nat : Llamar(d, pcbCpu.sinRetorno)
    BY <2>1, DireccionesBien
  <2>3. pcbCpu.sinRetorno \in BOOLEAN
    BY Tipado DEF Pcb
  <2> QED BY <2>1, <2>2, <2>3, PasoLlamar DEF Saltos
<1>4. CASE \E q \in {"SEGUI_EJECUTANDO", "CAMBIAR_PROCESO"} :
             RespuestaWait(q) \/ TermineContestado(q)
  BY <1>4, PasoRespuestaWait, PasoTermineContestado
<1> QED
  BY <1>1, <1>2, <1>3, <1>4, PasoPedirInstruccion, PasoPedirParte, PasoAccesoFallido,
     PasoAccesoTerminado, PasoDefinirVariable, PasoDesbordarPila, PasoIrAlLabel,
     PasoRetornar, PasoFinalizar, PasoPedirAlKernel, PasoRespuestaNo, PasoRespuestaSi,
     PasoSentenciaTermina, PasoAvanza, PasoProgramaTermina, PasoEntregarPcb,
     PasoRecibirPrograma
  DEF PasoDeCpu

-----------------------------------------------------------------------------
(* The steps of the kernel, and the theorem.                               *)

\* The kernel takes a message, answers, or keeps the PCB that came.
LEMMA PasoKernelBien == IInv /\ PasoDelKernel => IInv'
<1> SUFFICES ASSUME IInv, PasoDelKernel PROVE IInv'
  OBVIOUS
<1>1. ASSUME aKernel # <<>>
      PROVE  Tail(aKernel) \in Seq(Mensaje) /\ Head(aKernel) \in Mensaje
  BY <1>1, Tipado, HeadTailProperties
<1>2. CASE LeerCabeza \/ LeerDato
  <2>1. /\ aKernel # <<>> /\ aKernel' = Tail(aKernel) /\ DelKernel
        /\ UNCHANGED <<pcbKernel, aCpu>>
    BY <1>2 DEF LeerCabeza, LeerDato, Toma
  <2> QED BY <1>1, <2>1, Tipado, DelKernelBien DEF DelKernel
<1>3. ASSUME NEW s \in Seq(Mensaje), Contesta(s) PROVE IInv'
  <2>1. aCpu' \in Seq(Mensaje)
    BY <1>3, Tipado, ConcatProperties DEF Contesta
  <2> QED BY <1>3, <2>1, Tipado, DelKernelBien DEF Contesta, DelKernel
<1>4. /\ Cabeza("SI") \in Mensaje /\ Cabeza("NO") \in Mensaje
      /\ Cabeza("SEGUI_EJECUTANDO") \in Mensaje /\ Cabeza("CAMBIAR_PROCESO") \in Mensaje
  BY MensajesBien DEF Rotulos
<1>5. CASE Atender
  <2> DEFINE n == IF kernel.pedido \in ConDato THEN 1 ELSE 0
  <2>1. Contesta(<<Cabeza("SI")>> \o Veces(n)) /\ n \in Nat
    BY <1>5 DEF Atender
  <2> HIDE DEF n
  <2>2. <<Cabeza("SI")>> \in Seq(Mensaje)
    BY <1>4
  <2>3. <<Cabeza("SI")>> \o Veces(n) \in Seq(Mensaje)
    BY <2>1, <2>2, MensajesBien, ConcatProperties
  <2> QED BY <1>3, <2>1, <2>3
<1>6. CASE Negar
  <2>1. <<Cabeza("NO")>> \in Seq(Mensaje)
    BY <1>4
  <2> QED BY <1>3, <1>6, <2>1 DEF Negar
<1>7. CASE WaitSigue \/ WaitBloquea
  <2>1. /\ <<Cabeza("SI"), Cabeza("SEGUI_EJECUTANDO")>> \in Seq(Mensaje)
        /\ <<Cabeza("SI"), Cabeza("CAMBIAR_PROCESO")>> \in Seq(Mensaje)
    BY <1>4
  <2> QED BY <1>3, <1>7, <2>1 DEF WaitSigue, WaitBloquea
<1>8. ASSUME NEW q, NEW k, Cabeza(q) \in Mensaje, Planificar(q, k) PROVE IInv'
  <2>1. /\ aKernel # <<>> /\ aKernel' = Tail(aKernel) /\ DelKernel
        /\ aCpu' = Append(aCpu, Cabeza(q)) /\ UNCHANGED pcbKernel
    BY <1>8 DEF Planificar, LeerTermine, Toma
  <2>2. aCpu' \in Seq(Mensaje)
    BY <1>8, <2>1, Tipado, AppendProperties
  <2> QED BY <1>1, <2>1, <2>2, Tipado, DelKernelBien DEF DelKernel
<1>9. CASE PlanificarSegui \/ \E por \in {"quantum", "kill"} : PlanificarCambiar(por)
  BY <1>4, <1>8, <1>9 DEF PlanificarSegui, PlanificarCambiar
<1>10. CASE RecibirPcb
  <2>1. /\ aKernel # <<>> /\ aKernel' = Tail(aKernel) /\ DelKernel /\ UNCHANGED aCpu
        /\ \/ Head(aKernel).que = "pcb" /\ pcbKernel' = Head(aKernel).pcb
           \/ UNCHANGED pcbKernel
    BY <1>10 DEF RecibirPcb, Toma
  <2>2. pcbKernel' \in Pcb
    BY <1>1, <2>1, Tipado, PcbDeMensaje
  <2> QED BY <1>1, <2>1, <2>2, Tipado, DelKernelBien DEF DelKernel
<1>11. CASE PlanificarDetenido
  <2>1. /\ aKernel # <<>> /\ aKernel' = Tail(aKernel) /\ DelKernel
        /\ UNCHANGED <<pcbKernel, aCpu>>
    BY <1>11 DEF PlanificarDetenido, LeerTermine, Toma
  <2> QED BY <1>1, <2>1, Tipado, DelKernelBien DEF DelKernel
<1> QED BY <1>2, <1>5, <1>6, <1>7, <1>9, <1>10, <1>11 DEF PasoDelKernel

\* A process that had blocked is ready again.
LEMMA PasoDespertar == IInv /\ Despertar => IInv'
BY Tipado, DelKernelBien DEF Despertar

\* The operator stops and restarts planning.
LEMMA PasoComando == ASSUME IInv, NEW v, Comando(v) PROVE IInv'
BY Tipado, DelKernelBien DEF Comando

\* The kernel gives the process to a CPU.
LEMMA PasoDespachar == ASSUME IInv, NEW c \in Cpus, Despachar(c) PROVE IInv'
<1>1. /\ En("ociosa") /\ cpu' = CpuOciosa(c)
      /\ aCpu' = <<Cabeza("EJECUTAR_PROGRAMA"), MsjPcb(pcbKernel)>>
      /\ UNCHANGED <<programa, pcbCpu, pcbKernel, acceso, aKernel>>
  BY DEF Despachar
<1>2. aCpu' \in Seq(Mensaje)
  <2>1. Cabeza("EJECUTAR_PROGRAMA") \in Mensaje /\ MsjPcb(pcbKernel) \in Mensaje
    BY Tipado, MensajesBien DEF Rotulos
  <2> QED BY <1>1, <2>1
<1>3. acceso' = SinAcceso
  BY <1>1, Tipado DEF En
<1>4. cpu' \in EstadoDeCpu /\ cpu'.fase = "ociosa"
  BY <1>1, OciosaBien
<1> QED BY <1>1, <1>2, <1>3, <1>4, Tipado, SinAccesoBien

\* The invariant holds at the start.
LEMMA InvInit == Init => IInv
<1> SUFFICES ASSUME Init PROVE IInv
  OBVIOUS
<1>1. PcbInicial \in Pcb
  <2>1. RegistroInicial \in RegistroDePila
    <3>1. <<>> \in Seq(Variable) /\ <<>> \in Seq(Argumento)
      BY EmptySeq
    <3> QED BY <3>1 DEF RegistroInicial, RegistroDePila
  <2>2. <<RegistroInicial>> \in Pila
    BY <2>1 DEF Pila
  <2>3. 0 \in 0..(TamanioPagina - 1) /\ PaginaDePila \in Nat
    BY TamanioPaginaAssumption, PaginasAssumption
  <2> QED BY <2>2, <2>3 DEF PcbInicial, Pcb
<1>2. cpu \in EstadoDeCpu /\ cpu.fase = "ociosa"
  BY OciosaBien DEF Init
<1>3. aKernel \in Seq(Mensaje) /\ aCpu \in Seq(Mensaje)
  BY EmptySeq DEF Init
<1> QED BY <1>1, <1>2, <1>3 DEF Init, IInv, En

\* Every step keeps the invariant.
LEMMA InvPaso == IInv /\ [Next]_vars => IInv'
<1> SUFFICES ASSUME IInv, [Next]_vars PROVE IInv'
  OBVIOUS
<1>1. CASE PasoDeCpu
  BY <1>1, PasoCpuBien
<1>2. CASE PasoDelKernel
  BY <1>2, PasoKernelBien
<1>3. CASE desconectarse \/ Despertar
  BY <1>3, PasoDesconectarse, PasoDespertar
<1>4. CASE \E c \in Cpus : Despachar(c)
  BY <1>4, PasoDespachar
<1>5. CASE DetenerPlanificacion \/ ReanudarPlanificacion
  BY <1>5, PasoComando DEF DetenerPlanificacion, ReanudarPlanificacion
<1>6. CASE UNCHANGED vars
  BY <1>6, Tipado, DelKernelBien DEF vars
<1> QED BY <1>1, <1>2, <1>3, <1>4, <1>5, <1>6 DEF Next

\* pedidosMemoria.c: in every run, with any scripts, any page size, and all the
\* disturbances, every request a CPU makes to memory stays inside one page,
\* and those of an access cover it once and in order.
THEOREM AccesoSiempreExacto == Spec => []AccesoExacto
<1>1. IInv => AccesoExacto
  BY PedidoSiempreExacto DEF IInv, AccesoExacto, EnOrden
<1> QED BY <1>1, InvInit, InvPaso, PTL DEF Spec


(***************************************************************************)
(* The dialogue between a CPU and the kernel: at every moment what is on   *)
(* the two wires is what the other side is about to read.                  *)
(***************************************************************************)

Limpio(p) == ~p.termino /\ ~p.anormal
Libre == [fase |-> "select"]
Esperando(por) == [fase |-> "pcb", por |-> por]
Leyendo(q, n) == [fase |-> "datos", pedido |-> q, faltan |-> n]
Callados == aKernel = <<>> /\ aCpu = <<>>
SinPrograma == En("ociosa") \/ En("apagada")
ConPrograma == proceso = "ejecutando"

\* The primitives of the sentence are all done.
Agotada == En("primitiva") => cpu.i > Len(Sentencia.prims) /\ acceso = SinAcceso

\* The process is in a queue of the kernel: colaEjecutando too, if its PCB came
\* back while planning was stopped.
Quieto ==
    /\ SinPrograma /\ Callados /\ kernel = Libre
    /\ proceso \in {"listo", "bloqueado"} => Limpio(pcbKernel)
\* Its PCB goes to a CPU.
Enviado ==
    /\ En("ociosa") /\ ConPrograma /\ kernel = Libre /\ Limpio(pcbKernel)
    /\ aKernel = <<>> /\ aCpu = <<Cabeza("EJECUTAR_PROGRAMA"), MsjPcb(pcbKernel)>>
\* It runs, and the kernel looks elsewhere.
Corre ==
    /\ cpu.fase \in {"sentencia", "primitiva", "avanza", "entrega"} /\ ConPrograma
    /\ Callados /\ kernel = Libre /\ ~pcbCpu.termino /\ ~cpu.cambio
    /\ En("entrega") => pcbCpu.anormal
\* It said that it ends: its PCB is what comes next.
Termina ==
    /\ cpu.fase \in {"primitiva", "entrega"} /\ ConPrograma /\ Agotada
    /\ pcbCpu.termino /\ ~pcbCpu.anormal /\ aCpu = <<>>
    /\ \/ kernel = Libre /\ aKernel = <<Cabeza("PROGRAMA_TERMINADO")>>
       \/ kernel = Esperando("PROGRAMA_TERMINADO") /\ aKernel = <<>>
\* It was told to leave the CPU: the kernel waits for its PCB.
Cede ==
    /\ cpu.fase \in {"primitiva", "avanza", "entrega"} /\ ConPrograma /\ Agotada
    /\ Limpio(pcbCpu) /\ cpu.cambio /\ Callados
    /\ En("primitiva") => cpu.wait
    /\ kernel \in {Esperando("WAIT"), Esperando("quantum"), Esperando("kill")}
\* A request: on its way, half read, or answered.
RespuestasDe(q) ==
    {<<Cabeza("NO")>>} \cup
      (IF q = "WAIT" THEN {<<Cabeza("SI"), Cabeza("SEGUI_EJECUTANDO")>>}
       ELSE {<<Cabeza("SI")>> \o Veces(IF q \in ConDato THEN 1 ELSE 0)})
Pidiendo(q) ==
    \/ kernel = Libre /\ aKernel = <<Cabeza(q)>> \o Veces(Datos[q]) /\ aCpu = <<>>
    \/ \E n \in 0..Datos[q] : kernel = Leyendo(q, n) /\ aKernel = Veces(n) /\ aCpu = <<>>
    \/ kernel = Libre /\ aKernel = <<>> /\ aCpu \in RespuestasDe(q)
    \/ /\ q = "WAIT" /\ kernel = Esperando("WAIT") /\ aKernel = <<>>
       /\ aCpu = <<Cabeza("SI"), Cabeza("CAMBIAR_PROCESO")>>
Pide ==
    /\ En("espera") /\ ConPrograma /\ Limpio(pcbCpu) /\ ~cpu.cambio
    /\ cpu.i <= Len(Sentencia.prims)
    /\ Primitiva.pedido = "WAIT" => cpu.wait
    /\ Pidiendo(Primitiva.pedido)
\* The end of a sentence: on its way, or answered.
Avisa ==
    /\ En("esperaTermine") /\ ConPrograma /\ Limpio(pcbCpu) /\ ~cpu.cambio
    /\ \/ kernel = Libre /\ aKernel = <<Cabeza("TERMINE_SENTENCIA")>> /\ aCpu = <<>>
       \/ kernel = Libre /\ aKernel = <<>> /\ aCpu = <<Cabeza("SEGUI_EJECUTANDO")>>
       \/ /\ kernel \in {Esperando("quantum"), Esperando("kill")}
          /\ aKernel = <<>> /\ aCpu = <<Cabeza("CAMBIAR_PROCESO")>>
\* Its PCB comes back.
Devuelto ==
    /\ SinPrograma /\ ConPrograma /\ aCpu = <<>>
    /\ \/ kernel = Libre /\ \E h \in ConPcb : aKernel = <<Cabeza(h), MsjPcb(pcbCpu)>>
       \/ /\ \E h \in DOMAIN Destino :
               kernel = Esperando(h) /\ (h \in {"quantum", "WAIT"} => Limpio(pcbCpu))
          /\ aKernel = <<MsjPcb(pcbCpu)>>

\* The end of a sentence was read while planning was stopped.
Abandonada ==
    /\ En("esperaTermine") /\ ConPrograma /\ Callados /\ kernel = Libre /\ callada

Dialogo ==
    \/ Quieto \/ Enviado \/ Corre \/ Termina \/ Cede \/ Pide \/ Avisa \/ Devuelto
    \/ Abandonada

-----------------------------------------------------------------------------
(* What is on the wires.                                                   *)

\* The first of some values, and the ones after it.
LEMMA VecesDespacio ==
    /\ Veces(0) = <<>>
    /\ \A n \in Nat \ {0} : /\ Veces(n) # <<>> /\ Head(Veces(n)) = Dato
                            /\ Tail(Veces(n)) = Veces(n - 1)
    /\ \A n \in Nat : Len(Veces(n)) = n /\ Veces(n) \in Seq(Mensaje)
<1>1. \A n \in Nat : Veces(n) \in Seq(Mensaje)
  BY MensajesBien
<1>2. \A n \in Nat : Len(Veces(n)) = n /\ \A k \in 1..n : Veces(n)[k] = Dato
  BY DEF Veces
<1>3. Veces(0) = <<>>
  BY <1>1, <1>2, EmptySeq
<1>4. ASSUME NEW n \in Nat, n # 0
      PROVE  Veces(n) # <<>> /\ Head(Veces(n)) = Dato /\ Tail(Veces(n)) = Veces(n - 1)
  <2>1. Veces(n) # <<>>
    BY <1>1, <1>2, <1>4, EmptySeq
  <2>2. Head(Veces(n)) = Dato
    BY <1>1, <1>2, <1>4, <2>1, HeadTailProperties
  <2>3. /\ Tail(Veces(n)) \in Seq(Mensaje) /\ Len(Tail(Veces(n))) = n - 1
        /\ \A k \in 1..(n - 1) : Tail(Veces(n))[k] = Dato
    BY <1>1, <1>2, <1>4, <2>1, HeadTailProperties
  <2>4. n - 1 \in Nat
    BY <1>4
  <2> QED BY <1>1, <1>2, <2>1, <2>2, <2>3, <2>4, SeqEqual
<1> QED BY <1>1, <1>2, <1>3, <1>4

\* A header and what follows it.
LEMMA CabezaYCola ==
    ASSUME NEW m \in Mensaje, NEW s \in Seq(Mensaje)
    PROVE  /\ <<m>> \o s # <<>> /\ Head(<<m>> \o s) = m /\ Tail(<<m>> \o s) = s
           /\ Len(<<m>> \o s) = Len(s) + 1 /\ <<m>> \o s \in Seq(Mensaje)
<1> DEFINE t == <<m>> \o s
<1>1. <<m>> \in Seq(Mensaje) /\ Len(<<m>>) = 1 /\ <<m>>[1] = m
  OBVIOUS
<1>2. /\ t \in Seq(Mensaje) /\ Len(t) = 1 + Len(s)
      /\ \A k \in 1..(1 + Len(s)) : t[k] = IF k <= 1 THEN <<m>>[k] ELSE s[k - 1]
  BY <1>1, ConcatProperties
<1>3. Len(s) \in Nat
  BY LenProperties
<1> HIDE DEF t
<1>4. t # <<>> /\ t[1] = m
  BY <1>1, <1>2, <1>3, EmptySeq
<1>5. /\ Head(t) = m /\ Tail(t) \in Seq(Mensaje) /\ Len(Tail(t)) = Len(s)
      /\ \A k \in 1..Len(s) : Tail(t)[k] = t[k + 1]
  BY <1>2, <1>3, <1>4, HeadTailProperties
<1>6. \A k \in 1..Len(s) : Tail(t)[k] = s[k]
  BY <1>2, <1>3, <1>5
<1>7. Tail(t) = s
  BY <1>5, <1>6, SeqEqual
<1> QED BY <1>2, <1>3, <1>4, <1>5, <1>7 DEF t

\* The messages that tell apart.
LEMMA MensajesDistintos ==
    /\ \A a, b : Cabeza(a) = Cabeza(b) <=> a = b
    /\ \A a : Cabeza(a) # Dato /\ Cabeza(a).que = "cabeza" /\ Cabeza(a).es = a
    /\ \A a, p : Cabeza(a) # MsjPcb(p)
    /\ \A p : MsjPcb(p).que = "pcb" /\ MsjPcb(p).pcb = p
    /\ Dato.que = "dato"
BY DEF Cabeza, Dato, MsjPcb

\* What the kernel's thread may be at.
LEMMA FasesDistintas ==
    /\ Libre.fase = "select"
    /\ \A h : Esperando(h).fase = "pcb" /\ Esperando(h).por = h
    /\ \A q, n : /\ Leyendo(q, n).fase = "datos" /\ Leyendo(q, n).pedido = q
                 /\ Leyendo(q, n).faltan = n
BY DEF Libre, Esperando, Leyendo

\* The handlers of the kernel read what the primitives send.
LEMMA LecturasBien == \A q \in Pedidos : Lecturas[q] = Datos[q] /\ Datos[q] \in Nat
BY DatosBien DEF Lecturas, Datos

\* Which parts of the dialogue a phase of the CPU belongs to.
LEMMA DialogoPorFase ==
    ASSUME Dialogo
    PROVE  /\ En("sentencia") => Corre
           /\ En("primitiva") => Corre \/ Termina \/ Cede
           /\ En("espera") => Pide
           /\ En("esperaTermine") => Avisa \/ Abandonada
           /\ En("avanza") => Corre \/ Cede
           /\ En("entrega") => Corre \/ Termina \/ Cede
           /\ En("ociosa") => Quieto \/ Enviado \/ Devuelto
           /\ En("apagada") => Quieto \/ Devuelto
BY DEF Dialogo, Quieto, Enviado, Corre, Termina, Cede, Pide, Avisa, Devuelto,
       Abandonada, SinPrograma, En

\* And one of the kernel.
LEMMA DialogoPorKernel ==
    ASSUME Dialogo
    PROVE  /\ KernelEn("select") /\ aKernel # <<>> => Termina \/ Pide \/ Avisa \/ Devuelto
           /\ KernelEn("datos") => Pide
           /\ KernelEn("pcb") /\ aKernel # <<>> => Devuelto
           /\ ~KernelEn("desfasado")
<1>1. Quieto \/ Enviado \/ Corre \/ Abandonada => KernelEn("select") /\ aKernel = <<>>
  BY FasesDistintas DEF Quieto, Enviado, Corre, Abandonada, Callados, KernelEn
<1>2. Termina => KernelEn("select") \/ (KernelEn("pcb") /\ aKernel = <<>>)
  BY FasesDistintas DEF Termina, KernelEn
<1>3. Cede => KernelEn("pcb") /\ aKernel = <<>>
  BY FasesDistintas DEF Cede, KernelEn, Callados
<1>4. Pide => KernelEn("select") \/ KernelEn("datos") \/ (KernelEn("pcb") /\ aKernel = <<>>)
  BY FasesDistintas DEF Pide, Pidiendo, KernelEn
<1>5. Avisa => KernelEn("select") \/ (KernelEn("pcb") /\ aKernel = <<>>)
  BY FasesDistintas DEF Avisa, KernelEn
<1>6. Devuelto => KernelEn("select") \/ KernelEn("pcb")
  BY FasesDistintas DEF Devuelto, KernelEn
<1> QED BY <1>1, <1>2, <1>3, <1>4, <1>5, <1>6 DEF Dialogo, KernelEn

-----------------------------------------------------------------------------
(* The steps of the CPU, in the dialogue.                                  *)

\* A process that runs is in Corre, unless its sentence is over.
LEMMA Corriendo ==
    ASSUME Dialogo, En("primitiva"), acceso # SinAcceso \/ cpu.i <= Len(Sentencia.prims), IInv
    PROVE  Corre
<1>1. Len(Sentencia.prims) \in Nat /\ cpu.i \in Nat
  BY Tipado, ProgramasAssumption DEF IInv, Sentencia, EstadoDeCpu
<1>2. ~Agotada
  BY <1>1 DEF Agotada
<1> QED BY <1>2, DialogoPorFase DEF Termina, Cede

\* A step of a primitive that tells nobody anything.
LEMMA CorreSigue ==
    ASSUME Corre, SinKernel, cpu'.fase = "primitiva", cpu'.cambio = cpu.cambio,
           pcbCpu'.termino = pcbCpu.termino
    PROVE  Dialogo'
<1>1. Corre'
  BY DEF Corre, SinKernel, SinMensajes, Callados, ConPrograma, En, Libre
<1> QED BY <1>1 DEF Dialogo

\* The steps of the primitives.
LEMMA PrimitivasDialogan ==
    ASSUME IInv, Dialogo,
           \/ pedirInstruccionAMemoria \/ PedirParte \/ AccesoFallido \/ AccesoTerminado
           \/ definirVariable \/ DesbordarPila \/ dereferenciar \/ asignar \/ irAlLabel
           \/ llamarSinRetorno \/ llamarConRetorno \/ retornar
    PROVE  Dialogo'
<1>0. pcbCpu \in Pcb /\ cpu \in EstadoDeCpu
  BY Tipado
<1>1. CASE pedirInstruccionAMemoria
  BY <1>0, <1>1, DialogoPorFase, CorreSigue DEF pedirInstruccionAMemoria, EstadoDeCpu
<1>2. ASSUME acceso # SinAcceso PROVE Corre
  BY <1>2, Corriendo DEF IInv
<1>3. CASE PedirParte
  BY <1>2, <1>3, CorreSigue DEF PedirParte, IInv, En
<1>4. CASE AccesoFallido
  <2>1. Corre /\ En("primitiva") /\ SinKernel /\ cpu' = cpu
    BY <1>2, <1>4 DEF AccesoFallido, IInv
  <2>2. pcbCpu'.termino = pcbCpu.termino
    BY <1>0, <1>4 DEF AccesoFallido, Pcb, Saliendo
  <2> QED BY <2>1, <2>2, CorreSigue DEF En
<1>5. CASE AccesoTerminado
  <2>1. Corre /\ En("primitiva") /\ SinKernel
    BY <1>2, <1>5 DEF AccesoTerminado, IInv
  <2>2. cpu'.fase = "primitiva" /\ cpu'.cambio = cpu.cambio
    BY <1>0, <1>5, <2>1 DEF AccesoTerminado, Sigue, En, EstadoDeCpu
  <2>3. pcbCpu'.termino = pcbCpu.termino
    BY <1>0, <1>5 DEF AccesoTerminado, Saliendo, Pcb
  <2> QED BY <2>1, <2>2, <2>3, CorreSigue
<1>6. ASSUME NEW op, Ejecuta(op) PROVE Corre /\ En("primitiva")
  BY <1>6, Corriendo DEF Ejecuta
<1>7. CASE definirVariable
  <2>1. Corre /\ En("primitiva") /\ SinKernel
    BY <1>6, <1>7 DEF definirVariable
  <2>2. cpu'.fase = "primitiva" /\ cpu'.cambio = cpu.cambio
    BY <1>0, <1>7, <2>1 DEF definirVariable, Sigue, En, EstadoDeCpu
  <2>3. \A r : AvanzarFin(EnCima(pcbCpu, r)).termino = pcbCpu.termino
    BY <1>0 DEF AvanzarFin, EnCima, Pcb
  <2>4. pcbCpu'.termino = pcbCpu.termino
    BY <1>7, <2>3 DEF definirVariable
  <2> QED BY <2>1, <2>2, <2>4, CorreSigue
<1>8. CASE DesbordarPila
  BY <1>0, <1>6, <1>8, CorreSigue DEF DesbordarPila, Anormal, Pcb, En
<1>9. CASE dereferenciar \/ asignar \/ retornar
  BY <1>6, <1>9, CorreSigue DEF dereferenciar, asignar, retornar, Acceder, En
<1>10. CASE irAlLabel
  BY <1>0, <1>6, <1>10, CorreSigue DEF irAlLabel, Pcb, En, EstadoDeCpu
<1>11. ASSUME NEW d, NEW s, NEW op, Ejecuta(op), Llamar(d, s) PROVE Dialogo'
  <2>1. Corre /\ En("primitiva") /\ SinKernel
    BY <1>6, <1>11 DEF Llamar
  <2> QED BY <1>0, <1>11, <2>1, CorreSigue DEF Llamar, Pcb, En, EstadoDeCpu
<1>12. CASE llamarSinRetorno
  BY <1>11, <1>12 DEF llamarSinRetorno
<1>13. CASE llamarConRetorno
  BY <1>11, <1>13 DEF llamarConRetorno
<1> QED BY <1>1, <1>3, <1>4, <1>5, <1>7, <1>8, <1>9, <1>10, <1>12, <1>13

\* "end" and "wait" are the last primitive of their sentence.
LEMMA UltimaPrimitiva ==
    ASSUME IInv, En("primitiva") \/ En("espera"), cpu.i <= Len(Sentencia.prims),
           \/ Primitiva.op = "finalizar"
           \/ Primitiva.op = "kernel" /\ Primitiva.pedido = "WAIT"
    PROVE  cpu.i = Len(Sentencia.prims)
<1>1. programa \in Programas /\ cpu.linea \in DOMAIN programa
  BY DEF IInv
<1>2. cpu.i \in 1..Len(Sentencia.prims)
  <2>1. Len(Sentencia.prims) \in Nat
    BY <1>1, ProgramasAssumption DEF Sentencia
  <2>2. cpu.i \in Nat /\ cpu.i # 0
    BY DEF IInv, EstadoDeCpu
  <2> QED BY <2>1, <2>2
<1> QED BY <1>1, <1>2, SentenciasAssumption DEF Primitiva, Sentencia

\* The program says that it ends.
LEMMA FinalizarDialoga == IInv /\ Dialogo /\ finalizar => Dialogo'
<1> SUFFICES ASSUME IInv, Dialogo, finalizar PROVE Dialogo'
  OBVIOUS
<1>1. /\ Corre /\ En("primitiva") /\ acceso = SinAcceso /\ cpu.i = Len(Sentencia.prims)
      /\ cpu \in EstadoDeCpu /\ pcbCpu \in Pcb /\ ~pcbCpu.anormal
  BY Corriendo, Tipado, UltimaPrimitiva DEF finalizar, Ejecuta
<1>2. /\ cpu'.fase = "primitiva" /\ cpu'.cambio = cpu.cambio /\ cpu'.i = cpu.i + 1
      /\ cpu'.linea = cpu.linea /\ programa' = programa /\ kernel' = kernel
      /\ proceso' = proceso /\ aCpu' = aCpu /\ acceso' = SinAcceso'
  BY <1>1 DEF finalizar, Sigue, EstadoDeCpu, En, SinMensajes, SinAcceso
<1>3. CASE pcbCpu.sinRetorno
  <2>1. Corre'
    BY <1>1, <1>2, <1>3 DEF finalizar, Corre, Callados, ConPrograma, En, Libre
  <2> QED BY <2>1 DEF Dialogo
<1>4. CASE ~pcbCpu.sinRetorno
  <2>1. pcbCpu'.termino /\ ~pcbCpu'.anormal
    BY <1>1, <1>4 DEF finalizar, Pcb
  <2>2. aKernel' = <<Cabeza("PROGRAMA_TERMINADO")>>
    BY <1>1, <1>4 DEF finalizar, Corre, Callados
  <2>3. Agotada'
    <3>1. Sentencia' = Sentencia
      BY <1>2 DEF Sentencia
    <3>2. Len(Sentencia.prims) \in Nat
      BY <1>1, ProgramasAssumption DEF IInv, Sentencia
    <3> QED BY <1>1, <1>2, <3>1, <3>2 DEF Agotada
  <2>4. Termina'
    BY <1>1, <1>2, <2>1, <2>2, <2>3 DEF Termina, Corre, Callados, ConPrograma, Libre, Cabeza
  <2> QED BY <2>4 DEF Dialogo
<1> QED BY <1>3, <1>4

\* A request leaves.
LEMMA PedirDialoga == IInv /\ Dialogo /\ PedirAlKernel => Dialogo'
<1> SUFFICES ASSUME IInv, Dialogo, PedirAlKernel PROVE Dialogo'
  OBVIOUS
<1>1. /\ Corre /\ En("primitiva") /\ cpu.i <= Len(Sentencia.prims)
      /\ cpu \in EstadoDeCpu /\ ~pcbCpu.anormal
  BY Corriendo, Tipado DEF PedirAlKernel, Ejecuta
<1> DEFINE q == Primitiva.pedido
<1>2. q \in Pedidos
  BY <1>1, PrimitivaBien DEF PedirAlKernel, Ejecuta
<1>3. /\ cpu'.fase = "espera" /\ cpu'.cambio = cpu.cambio /\ cpu'.i = cpu.i
      /\ cpu'.linea = cpu.linea /\ (q = "WAIT" => cpu'.wait)
  BY <1>1 DEF PedirAlKernel, EstadoDeCpu
<1>4. /\ programa' = programa /\ kernel' = kernel /\ pcbCpu' = pcbCpu
      /\ proceso' = proceso /\ aCpu' = aCpu
  BY DEF PedirAlKernel, SinMensajes
<1>5. Sentencia' = Sentencia /\ Primitiva' = Primitiva
  BY <1>3, <1>4 DEF Sentencia, Primitiva
<1>6. aKernel' = <<Cabeza(q)>> \o Veces(Datos[q])
  <2>1. Cabeza(q) \in Mensaje /\ Veces(Datos[q]) \in Seq(Mensaje)
    BY <1>2, MensajesBien, LecturasBien DEF Rotulos
  <2>2. aKernel' = (<<>> \o <<Cabeza(q)>>) \o Veces(Datos[q])
    BY <1>1 DEF PedirAlKernel, Corre, Callados
  <2>3. <<>> \o <<Cabeza(q)>> = <<Cabeza(q)>>
    BY <2>1, ConcatEmptySeq
  <2> QED BY <2>2, <2>3
<1>7. Pidiendo(q)'
  BY <1>1, <1>4, <1>5, <1>6 DEF Pidiendo, Corre, Callados, Libre, Cabeza, Veces, Datos, Dato
<1>8. Pide'
  BY <1>1, <1>3, <1>4, <1>5, <1>7 DEF Pide, Corre, Limpio, En, ConPrograma
<1> QED BY <1>8 DEF Dialogo

\* The answers the CPU may be waiting for.
LEMMA RespuestaEsperada ==
    ASSUME IInv, Dialogo, En("espera"), aCpu # <<>>
    PROVE  /\ Pide /\ aKernel = <<>> /\ Primitiva.pedido \in Pedidos
           /\ \/ kernel = Libre /\ aCpu \in RespuestasDe(Primitiva.pedido)
              \/ /\ Primitiva.pedido = "WAIT" /\ kernel = Esperando("WAIT")
                 /\ aCpu = <<Cabeza("SI"), Cabeza("CAMBIAR_PROCESO")>>
<1>1. Pide
  BY DialogoPorFase
<1>2. Primitiva.pedido \in Pedidos
  BY <1>1, PrimitivaBien DEF Pide, IInv
<1> QED BY <1>1, <1>2 DEF Pide, Pidiendo

\* How much of an answer is left when its first n + 1 messages are read.
LEMMA Consumida ==
    /\ \A a : SubSeq(<<a>>, 2, 1) = <<>>
    /\ \A a, b : SubSeq(<<a, b>>, 3, 2) = <<>>
<1>1. ASSUME NEW S, NEW s \in Seq(S), NEW n \in Nat, n > Len(s)
      PROVE  SubSeq(s, n, Len(s)) = <<>>
  <2>1. Len(s) \in Nat /\ n \in Int
    BY <1>1, LenProperties
  <2>2. \A k \in n..Len(s) : s[k] \in S
    BY <1>1, <2>1
  <2>3. /\ SubSeq(s, n, Len(s)) \in Seq(S)
        /\ Len(SubSeq(s, n, Len(s))) = IF n <= Len(s) THEN Len(s) - n + 1 ELSE 0
    BY <2>1, <2>2, SubSeqProperties
  <2> QED BY <1>1, <2>1, <2>3, EmptySeq
<1>2. ASSUME NEW a PROVE SubSeq(<<a>>, 2, 1) = <<>>
  <2>1. <<a>> \in Seq({a}) /\ Len(<<a>>) = 1
    OBVIOUS
  <2> QED BY <1>1, <2>1, 2 \in Nat, 2 > 1
<1>3. ASSUME NEW a, NEW b PROVE SubSeq(<<a, b>>, 3, 2) = <<>>
  <2>1. <<a, b>> \in Seq({a, b}) /\ Len(<<a, b>>) = 2
    OBVIOUS
  <2> QED BY <1>1, <2>1, 3 \in Nat, 3 > 2
<1> QED BY <1>2, <1>3

\* After an answer the program goes on.
LEMMA CorreTrasRespuesta ==
    ASSUME Pide, kernel = Libre, aKernel = <<>>, aCpu' = <<>>, SinMensajes, UNCHANGED aKernel,
           cpu'.fase = "primitiva", ~cpu'.cambio, pcbCpu'.termino = pcbCpu.termino
    PROVE  Dialogo'
<1>1. Corre'
  BY DEF Corre, Pide, SinMensajes, Callados, ConPrograma, En, Libre, Limpio
<1> QED BY <1>1 DEF Dialogo

\* The kernel refuses a request.
LEMMA NoDialoga == IInv /\ Dialogo /\ RespuestaNo => Dialogo'
<1> SUFFICES ASSUME IInv, Dialogo, RespuestaNo PROVE Dialogo'
  OBVIOUS
<1> DEFINE q == Primitiva.pedido
<1>1. En("espera") /\ aCpu # <<>> /\ Head(aCpu) = Cabeza("NO")
  BY DEF RespuestaNo, Respuesta
<1>2. /\ Pide /\ aKernel = <<>> /\ q \in Pedidos
      /\ \/ kernel = Libre /\ aCpu \in RespuestasDe(q)
         \/ kernel = Esperando("WAIT") /\ aCpu = <<Cabeza("SI"), Cabeza("CAMBIAR_PROCESO")>>
  BY <1>1, RespuestaEsperada
<1>3. Cabeza("SI") # Cabeza("NO")
  BY MensajesDistintos
<1>4. Head(<<Cabeza("SI")>> \o Veces(IF q \in ConDato THEN 1 ELSE 0)) = Cabeza("SI")
  <2>1. /\ Cabeza("SI") \in Mensaje
        /\ Veces(IF q \in ConDato THEN 1 ELSE 0) \in Seq(Mensaje)
    BY MensajesBien DEF Rotulos
  <2> QED BY <2>1, CabezaYCola
<1>5. Head(<<Cabeza("SI"), Cabeza("SEGUI_EJECUTANDO")>>) = Cabeza("SI")
      /\ Head(<<Cabeza("SI"), Cabeza("CAMBIAR_PROCESO")>>) = Cabeza("SI")
  OBVIOUS
<1>6. kernel = Libre /\ aCpu = <<Cabeza("NO")>>
  BY <1>1, <1>2, <1>3, <1>4, <1>5 DEF RespuestasDe
<1>7. aCpu' = <<>>
  BY <1>6, Consumida DEF RespuestaNo, ConsumeRespuesta
<1>8. /\ cpu'.fase = "primitiva" /\ cpu'.cambio = cpu.cambio
      /\ pcbCpu'.termino = pcbCpu.termino
  BY Tipado DEF RespuestaNo, Anormal, EstadoDeCpu, Pcb
<1> QED BY <1>2, <1>6, <1>7, <1>8, CorreTrasRespuesta DEF RespuestaNo, ConsumeRespuesta, Pide

\* It grants one that is not a wait.
LEMMA SiDialoga == IInv /\ Dialogo /\ RespuestaSi => Dialogo'
<1> SUFFICES ASSUME IInv, Dialogo, RespuestaSi PROVE Dialogo'
  OBVIOUS
<1> DEFINE q == Primitiva.pedido
           n == IF q \in ConDato THEN 1 ELSE 0
<1>1. En("espera") /\ aCpu # <<>> /\ Head(aCpu) = Cabeza("SI") /\ q # "WAIT"
  BY DEF RespuestaSi, Respuesta
<1>2. Pide /\ aKernel = <<>> /\ kernel = Libre /\ aCpu \in RespuestasDe(q)
  BY <1>1, RespuestaEsperada
<1>3. Cabeza("SI") # Cabeza("NO") /\ Head(<<Cabeza("NO")>>) = Cabeza("NO")
  BY MensajesDistintos
<1>4. aCpu = <<Cabeza("SI")>> \o Veces(n)
  BY <1>1, <1>2, <1>3 DEF RespuestasDe
<1>5. Len(aCpu) = n + 1 /\ n \in Nat /\ aCpu \in Seq(Mensaje)
  <2>1. n \in Nat
    OBVIOUS
  <2> HIDE DEF n
  <2>2. Cabeza("SI") \in Mensaje /\ Veces(n) \in Seq(Mensaje) /\ Len(Veces(n)) = n
    BY <2>1, MensajesBien, VecesDespacio DEF Rotulos
  <2> QED BY <1>4, <2>1, <2>2, CabezaYCola
<1>6. aCpu' = SubSeq(aCpu, n + 2, Len(aCpu))
  BY DEF RespuestaSi, ConsumeRespuesta
<1>7. aCpu' = <<>>
  <2> HIDE DEF n
  <2>1. \A k \in (n + 2)..Len(aCpu) : aCpu[k] \in Mensaje
    BY <1>5
  <2>2. aCpu' \in Seq(Mensaje) /\ Len(aCpu') = 0
    BY <1>5, <1>6, <2>1, SubSeqProperties
  <2> QED BY <2>2, EmptySeq
<1>8. /\ cpu'.fase = "primitiva" /\ cpu'.cambio = cpu.cambio
      /\ pcbCpu'.termino = pcbCpu.termino
  BY Tipado DEF RespuestaSi, EstadoDeCpu
<1> QED BY <1>2, <1>7, <1>8, CorreTrasRespuesta DEF RespuestaSi, ConsumeRespuesta, Pide

\* It answers a wait.
LEMMA WaitDialoga ==
    ASSUME IInv, Dialogo, NEW r \in {"SEGUI_EJECUTANDO", "CAMBIAR_PROCESO"}, RespuestaWait(r)
    PROVE  Dialogo'
<1> DEFINE q == Primitiva.pedido
<1>1. /\ En("espera") /\ aCpu # <<>> /\ Head(aCpu) = Cabeza("SI") /\ q = "WAIT"
      /\ Len(aCpu) > 1 /\ aCpu[2] = Cabeza(r)
  BY DEF RespuestaWait, Respuesta
<1>2. /\ Pide /\ aKernel = <<>>
      /\ \/ kernel = Libre /\ aCpu \in RespuestasDe(q)
         \/ kernel = Esperando("WAIT") /\ aCpu = <<Cabeza("SI"), Cabeza("CAMBIAR_PROCESO")>>
  BY <1>1, RespuestaEsperada
<1>3. Cabeza("SI") # Cabeza("NO") /\ Head(<<Cabeza("NO")>>) = Cabeza("NO")
      /\ Cabeza("SEGUI_EJECUTANDO") # Cabeza("CAMBIAR_PROCESO")
  BY MensajesDistintos
<1>4. \/ /\ kernel = Libre /\ r = "SEGUI_EJECUTANDO"
         /\ aCpu = <<Cabeza("SI"), Cabeza("SEGUI_EJECUTANDO")>>
      \/ /\ kernel = Esperando("WAIT") /\ r = "CAMBIAR_PROCESO"
         /\ aCpu = <<Cabeza("SI"), Cabeza("CAMBIAR_PROCESO")>>
  <2>1. CASE kernel = Libre /\ aCpu \in RespuestasDe(q)
    <3>1. aCpu = <<Cabeza("SI"), Cabeza("SEGUI_EJECUTANDO")>>
      BY <1>1, <1>3, <2>1 DEF RespuestasDe
    <3>2. r = "SEGUI_EJECUTANDO"
      BY <1>1, <3>1, MensajesDistintos
    <3> QED BY <2>1, <3>1, <3>2
  <2>2. CASE /\ kernel = Esperando("WAIT")
             /\ aCpu = <<Cabeza("SI"), Cabeza("CAMBIAR_PROCESO")>>
    <3>1. r = "CAMBIAR_PROCESO"
      BY <1>1, <2>2, MensajesDistintos
    <3> QED BY <2>2, <3>1
  <2> QED BY <1>2, <2>1, <2>2
<1>5. aCpu' = <<>>
  <2>1. aCpu' = SubSeq(aCpu, 3, Len(aCpu)) /\ Len(aCpu) = 2
    BY <1>4 DEF RespuestaWait, ConsumeRespuesta
  <2> QED BY <1>4, <2>1, Consumida
<1>6. /\ cpu'.fase = "primitiva" /\ cpu'.cambio = (r = "CAMBIAR_PROCESO")
      /\ cpu'.i = cpu.i + 1 /\ cpu'.linea = cpu.linea /\ cpu'.wait = cpu.wait
      /\ pcbCpu' = pcbCpu /\ acceso' = acceso
  BY <1>2, Tipado DEF RespuestaWait, EstadoDeCpu, Pide
<1>7. SinMensajes /\ aKernel' = aKernel
  BY DEF RespuestaWait, ConsumeRespuesta
<1>8. CASE kernel = Libre /\ r = "SEGUI_EJECUTANDO"
  BY <1>2, <1>5, <1>6, <1>7, <1>8, CorreTrasRespuesta
<1>9. CASE kernel = Esperando("WAIT") /\ r = "CAMBIAR_PROCESO"
  <2>1. cpu.i = Len(Sentencia.prims)
    BY <1>1, <1>2, UltimaPrimitiva DEF Pide, IInv
  <2>2. acceso = SinAcceso
    BY <1>1 DEF IInv, En
  <2>3. Agotada'
    <3>1. Sentencia' = Sentencia
      BY <1>6, <1>7 DEF Sentencia, SinMensajes
    <3>2. Len(Sentencia.prims) \in Nat
      BY <1>1, ProgramasAssumption DEF IInv, Sentencia
    <3>3. SinAcceso' = SinAcceso
      BY DEF SinAcceso
    <3> QED BY <1>6, <2>1, <2>2, <3>1, <3>2, <3>3 DEF Agotada
  <2>4. Cede'
    BY <1>1, <1>2, <1>5, <1>6, <1>7, <1>9, <2>3
    DEF Cede, Pide, SinMensajes, Callados, ConPrograma, En, Esperando, Limpio
  <2> QED BY <2>4 DEF Dialogo
<1> QED BY <1>4, <1>8, <1>9

\* The sentence ends.
LEMMA SentenciaDialoga == IInv /\ Dialogo /\ SentenciaTermina => Dialogo'
<1> SUFFICES ASSUME IInv, Dialogo, SentenciaTermina PROVE Dialogo'
  OBVIOUS
<1>1. /\ En("primitiva") /\ ~pcbCpu.anormal /\ ~pcbCpu.termino
      /\ pcbCpu \in Pcb /\ cpu \in EstadoDeCpu
  BY Tipado DEF SentenciaTermina, SentenciaHecha
<1>2. Corre \/ Cede
  BY <1>1, DialogoPorFase DEF Termina
<1>3. pcbCpu'.termino = pcbCpu.termino /\ pcbCpu'.anormal = pcbCpu.anormal
  BY <1>1 DEF SentenciaTermina, Volver, Saliendo, Pcb
<1>4. /\ programa' = programa /\ kernel' = kernel /\ proceso' = proceso /\ aCpu' = aCpu
      /\ cpu'.cambio = cpu.cambio
  BY <1>1 DEF SentenciaTermina, SinMensajes, EstadoDeCpu
<1>5. CASE cpu.wait
  <2>1. cpu'.fase = "avanza" /\ aKernel' = aKernel
    BY <1>1, <1>5 DEF SentenciaTermina, EstadoDeCpu
  <2>2. Corre => Corre'
    BY <1>4, <1>3, <2>1 DEF Corre, Callados, ConPrograma, En, Libre
  <2>3. Cede => Cede'
    BY <1>4, <1>3, <2>1 DEF Cede, Callados, ConPrograma, En, Agotada, Esperando, Limpio
  <2> QED BY <1>2, <2>2, <2>3 DEF Dialogo
<1>6. CASE ~cpu.wait
  <2>1. Corre
    BY <1>1, <1>2, <1>6 DEF Cede
  <2>2. cpu'.fase = "esperaTermine"
    BY <1>1, <1>6 DEF SentenciaTermina, EstadoDeCpu
  <2>3. aKernel' = <<Cabeza("TERMINE_SENTENCIA")>>
    BY <1>6, <2>1 DEF SentenciaTermina, Corre, Callados
  <2>4. Avisa'
    BY <1>1, <1>3, <1>4, <2>1, <2>2, <2>3
    DEF Avisa, Corre, Callados, ConPrograma, En, Libre, Limpio, Cabeza
  <2> QED BY <2>4 DEF Dialogo
<1> QED BY <1>5, <1>6

\* The kernel says whether to go on.
LEMMA TermineDialoga ==
    ASSUME IInv, Dialogo, NEW r \in {"SEGUI_EJECUTANDO", "CAMBIAR_PROCESO"}, TermineContestado(r)
    PROVE  Dialogo'
<1>1. En("esperaTermine") /\ aCpu # <<>> /\ Head(aCpu) = Cabeza(r) /\ SinMensajes
      /\ aKernel' = aKernel /\ pcbCpu' = pcbCpu
  BY DEF TermineContestado, ConsumeRespuesta
<1>2. Avisa
  BY <1>1, DialogoPorFase DEF Abandonada, Callados
<1>3. cpu'.fase = "avanza" /\ cpu'.cambio = (r = "CAMBIAR_PROCESO")
  BY Tipado DEF TermineContestado, EstadoDeCpu
<1>4. /\ aKernel = <<>>
      /\ \/ kernel = Libre /\ r = "SEGUI_EJECUTANDO"
         \/ kernel \in {Esperando("quantum"), Esperando("kill")} /\ r = "CAMBIAR_PROCESO"
      /\ \E a : aCpu = <<a>>
  BY <1>1, <1>2, MensajesDistintos DEF Avisa
<1>5. aCpu' = <<>>
  <2>1. PICK a : aCpu = <<a>>
    BY <1>4
  <2>2. aCpu' = SubSeq(<<a>>, 2, 1)
    BY <2>1 DEF TermineContestado, ConsumeRespuesta
  <2> QED BY <2>2, Consumida
<1>6. CASE kernel = Libre /\ r = "SEGUI_EJECUTANDO"
  <2>1. Corre'
    BY <1>1, <1>2, <1>3, <1>4, <1>5, <1>6
    DEF Avisa, Corre, SinMensajes, Callados, ConPrograma, En, Libre, Limpio
  <2> QED BY <2>1 DEF Dialogo
<1>7. CASE kernel \in {Esperando("quantum"), Esperando("kill")} /\ r = "CAMBIAR_PROCESO"
  <2>1. Cede'
    BY <1>1, <1>2, <1>3, <1>4, <1>5, <1>7
    DEF Avisa, Cede, SinMensajes, Callados, ConPrograma, En, Agotada, Limpio, Esperando
  <2> QED BY <2>1 DEF Dialogo
<1> QED BY <1>4, <1>6, <1>7

\* The next sentence, or the PCB back.
LEMMA AvanzaDialoga == IInv /\ Dialogo /\ Avanza => Dialogo'
<1> SUFFICES ASSUME IInv, Dialogo, Avanza PROVE Dialogo'
  OBVIOUS
<1>1. En("avanza") /\ SinKernel /\ pcbCpu \in Pcb /\ cpu \in EstadoDeCpu
  BY Tipado DEF Avanza
<1>2. Corre \/ Cede
  BY <1>1, DialogoPorFase
<1>3. pcbCpu'.termino = pcbCpu.termino /\ pcbCpu'.anormal = pcbCpu.anormal
  BY <1>1 DEF Avanza, Pcb
<1>4. cpu'.cambio = cpu.cambio /\ cpu'.fase = IF cpu.cambio THEN "entrega" ELSE "sentencia"
  BY <1>1 DEF Avanza, EstadoDeCpu
<1>5. CASE Corre
  <2>1. Corre'
    BY <1>1, <1>3, <1>4, <1>5 DEF Corre, SinKernel, SinMensajes, Callados, ConPrograma, En, Libre
  <2> QED BY <2>1 DEF Dialogo
<1>6. CASE Cede
  <2>1. Cede'
    BY <1>1, <1>3, <1>4, <1>6
    DEF Cede, SinKernel, SinMensajes, Callados, ConPrograma, En, Agotada, Limpio, Esperando
  <2> QED BY <2>1 DEF Dialogo
<1> QED BY <1>2, <1>5, <1>6

\* The program ends, well or not.
LEMMA ProgramaTerminaDialoga == IInv /\ Dialogo /\ ProgramaTermina => Dialogo'
<1> SUFFICES ASSUME IInv, Dialogo, ProgramaTermina PROVE Dialogo'
  OBVIOUS
<1>1. /\ En("primitiva") /\ SinKernel /\ cpu \in EstadoDeCpu /\ pcbCpu' = pcbCpu
      /\ pcbCpu.anormal \/ pcbCpu.termino
  BY Tipado DEF ProgramaTermina, SentenciaHecha
<1>2. Corre \/ Termina
  BY <1>1, DialogoPorFase DEF Cede, Limpio
<1>3. cpu'.cambio = cpu.cambio /\ cpu'.fase = "entrega"
  BY <1>1 DEF ProgramaTermina, EstadoDeCpu
<1>4. CASE Corre
  <2>1. Corre'
    BY <1>1, <1>3, <1>4 DEF Corre, SinKernel, SinMensajes, Callados, ConPrograma, En, Libre
  <2> QED BY <2>1 DEF Dialogo
<1>5. CASE Termina
  <2>1. Termina'
    BY <1>1, <1>3, <1>5
    DEF Termina, SinKernel, SinMensajes, ConPrograma, En, Agotada, Libre, Esperando, Cabeza
  <2> QED BY <2>1 DEF Dialogo
<1> QED BY <1>2, <1>4, <1>5

\* Two messages, one after the other.
LEMMA DosMensajes ==
    ASSUME NEW a, NEW b
    PROVE  /\ (<<>> \o <<a>>) \o <<b>> = <<a, b>>
           /\ (<<a>> \o <<>>) \o <<b>> = <<a, b>>
<1> DEFINE S == {a, b}
<1>1. <<a>> \in Seq(S) /\ <<b>> \in Seq(S) /\ <<a, b>> \in Seq(S)
  OBVIOUS
<1>2. <<>> \o <<a>> = <<a>> /\ <<a>> \o <<>> = <<a>>
  BY <1>1, ConcatEmptySeq
<1>3. /\ <<a>> \o <<b>> \in Seq(S) /\ Len(<<a>> \o <<b>>) = 2
      /\ (<<a>> \o <<b>>)[1] = a /\ (<<a>> \o <<b>>)[2] = b
  <2>1. /\ <<a>> \o <<b>> \in Seq(S) /\ Len(<<a>> \o <<b>>) = Len(<<a>>) + Len(<<b>>)
        /\ \A k \in 1..(Len(<<a>>) + Len(<<b>>)) :
             (<<a>> \o <<b>>)[k] = IF k <= Len(<<a>>) THEN <<a>>[k] ELSE <<b>>[k - Len(<<a>>)]
    BY <1>1, ConcatProperties
  <2>2. Len(<<a>>) = 1 /\ Len(<<b>>) = 1
    OBVIOUS
  <2> QED BY <2>1, <2>2
<1>4. \A k \in 1..2 : (<<a>> \o <<b>>)[k] = <<a, b>>[k]
  BY <1>3
<1>5. Len(<<a, b>>) = 2
  OBVIOUS
<1>6. <<a>> \o <<b>> = <<a, b>>
  BY <1>1, <1>3, <1>4, <1>5, SeqEqual
<1> QED BY <1>2, <1>6

\* The PCB goes back.
LEMMA EntregarDialoga == IInv /\ Dialogo /\ EntregarPcb => Dialogo'
<1> SUFFICES ASSUME IInv, Dialogo, EntregarPcb PROVE Dialogo'
  OBVIOUS
<1>1. /\ En("entrega") /\ pcbCpu' = pcbCpu /\ cpu'.fase = "ociosa"
      /\ kernel' = kernel /\ proceso' = proceso /\ aCpu' = aCpu
      /\ pcbCpu.anormal \in BOOLEAN
  BY Tipado DEF EntregarPcb, CpuOciosa, SinMensajes, Pcb
<1>2. Corre \/ Termina \/ Cede
  BY <1>1, DialogoPorFase
<1> DEFINE m == MsjPcb(pcbCpu)
<1>3. CASE Corre
  <2>1. aKernel' = (<<>> \o <<Cabeza("ABORTAR_PROGRAMA")>>) \o <<m>>
    BY <1>1, <1>3 DEF EntregarPcb, Corre, Callados
  <2>2. aKernel' = <<Cabeza("ABORTAR_PROGRAMA"), m>>
    BY <2>1, DosMensajes
  <2>3. "ABORTAR_PROGRAMA" \in ConPcb
    BY DEF ConPcb
  <2>4. Devuelto'
    BY <1>1, <1>3, <2>2, <2>3
    DEF Devuelto, Corre, SinPrograma, ConPrograma, Callados, En, Libre, Cabeza, MsjPcb, ConPcb
  <2> QED BY <2>4 DEF Dialogo
<1>4. CASE Termina
  <2>1. aKernel' = (aKernel \o <<>>) \o <<m>>
    BY <1>1, <1>4 DEF EntregarPcb, Termina
  <2>2. "PROGRAMA_TERMINADO" \in ConPcb /\ "PROGRAMA_TERMINADO" \in DOMAIN Destino
    BY DEF ConPcb, Destino
  <2>3. CASE kernel = Libre /\ aKernel = <<Cabeza("PROGRAMA_TERMINADO")>>
    <3>1. aKernel' = <<Cabeza("PROGRAMA_TERMINADO"), m>>
      BY <2>1, <2>3, DosMensajes
    <3>2. Devuelto'
      BY <1>1, <1>4, <2>2, <2>3, <3>1
      DEF Devuelto, Termina, SinPrograma, ConPrograma, En, Libre, Cabeza, MsjPcb, ConPcb
    <3> QED BY <3>2 DEF Dialogo
  <2>4. CASE kernel = Esperando("PROGRAMA_TERMINADO") /\ aKernel = <<>>
    <3>1. aKernel' = <<m>>
      BY <2>1, <2>4
    <3>2. Devuelto'
      BY <1>1, <1>4, <2>2, <2>4, <3>1
      DEF Devuelto, Termina, SinPrograma, ConPrograma, En, Esperando, MsjPcb, Destino
    <3> QED BY <3>2 DEF Dialogo
  <2> QED BY <1>4, <2>3, <2>4 DEF Termina
<1>5. CASE Cede
  <2>1. aKernel' = (<<>> \o <<>>) \o <<m>>
    BY <1>1, <1>5 DEF EntregarPcb, Cede, Callados, Limpio
  <2>2. aKernel' = <<m>>
    BY <2>1
  <2>3. \E h \in DOMAIN Destino : kernel = Esperando(h)
    BY <1>5 DEF Cede, Destino
  <2>4. Devuelto'
    BY <1>1, <1>5, <2>2, <2>3
    DEF Devuelto, Cede, SinPrograma, ConPrograma, Callados, En, Esperando, MsjPcb, Destino, Limpio
  <2> QED BY <2>4 DEF Dialogo
<1> QED BY <1>2, <1>3, <1>4, <1>5

\* The PCB arrives.
LEMMA RecibirDialoga == IInv /\ Dialogo /\ RecibirPrograma => Dialogo'
<1> SUFFICES ASSUME IInv, Dialogo, RecibirPrograma PROVE Dialogo'
  OBVIOUS
<1>1. En("ociosa") /\ Len(aCpu) = 2 /\ SinMensajes /\ aKernel' = aKernel /\ aCpu' = <<>>
      /\ pcbCpu' = aCpu[2].pcb
  BY DEF RecibirPrograma
<1>2. Enviado
  BY <1>1, DialogoPorFase DEF Quieto, Devuelto, Callados
<1>3. pcbCpu' = pcbKernel
  BY <1>1, <1>2, MensajesDistintos DEF Enviado
<1>4. cpu'.fase = "sentencia" /\ ~cpu'.cambio
  BY Tipado DEF RecibirPrograma, EstadoDeCpu
<1>5. Corre'
  BY <1>1, <1>2, <1>3, <1>4
  DEF Corre, Enviado, SinMensajes, Callados, ConPrograma, En, Libre, Limpio
<1> QED BY <1>5 DEF Dialogo

\* The CPU leaves where the kernel listens.
LEMMA DesconectarseDialoga ==
    ASSUME IInv, Dialogo, desconectarse, "senalEnPedido" \notin Eventos
    PROVE  Dialogo'
<1>1. /\ cpu.fase \in {"sentencia", "primitiva"} /\ ~pcbCpu.termino /\ ~cpu.cambio
      /\ SinMensajes /\ pcbCpu' = pcbCpu /\ aCpu' = aCpu
  BY DEF desconectarse
<1>2. Corre
  BY <1>1, DialogoPorFase DEF Termina, Cede, En
<1>3. cpu'.fase = "apagada"
  BY Tipado DEF desconectarse, EstadoDeCpu
<1>4. aKernel' = <<Cabeza("ME_DESCONECTO"), MsjPcb(pcbCpu)>>
  BY <1>2 DEF desconectarse, Corre, Callados
<1>5. "ME_DESCONECTO" \in ConPcb
  BY DEF ConPcb
<1>6. Devuelto'
  BY <1>1, <1>2, <1>3, <1>4, <1>5
  DEF Devuelto, Corre, SinMensajes, SinPrograma, ConPrograma, Callados, En, Libre,
      Cabeza, MsjPcb, ConPcb
<1> QED BY <1>6 DEF Dialogo

-----------------------------------------------------------------------------
(* The steps of the kernel.                                                *)

\* Every header the kernel finds is one of those it knows.
LEMMA CabezaDialoga == IInv /\ Dialogo /\ LeerCabeza => Dialogo'
<1> SUFFICES ASSUME IInv, Dialogo, LeerCabeza PROVE Dialogo'
  OBVIOUS
<1>1. /\ KernelEn("select") /\ aKernel # <<>> /\ Head(aKernel) # Cabeza("TERMINE_SENTENCIA")
      /\ aKernel' = Tail(aKernel) /\ DelKernel /\ aCpu' = aCpu /\ proceso' = proceso
  BY DEF LeerCabeza, Toma
<1>2. Termina \/ Pide \/ Avisa \/ Devuelto
  BY <1>1, DialogoPorKernel
<1>3. ConPcb \cap Pedidos = {} /\ ConPcb \subseteq DOMAIN Destino
  BY DEF ConPcb, Pedidos, Lecturas, Destino
<1>4. ASSUME NEW h \in ConPcb, Head(aKernel) = Cabeza(h) PROVE kernel' = Esperando(h)
  <2>1. Head(aKernel).que = "cabeza" /\ Head(aKernel).es = h /\ h \notin Pedidos
    BY <1>3, <1>4, MensajesDistintos
  <2> QED BY <1>4, <2>1 DEF LeerCabeza, Esperando
<1>5. ASSUME NEW h \in Pedidos, Head(aKernel) = Cabeza(h) PROVE kernel' = Leyendo(h, Datos[h])
  <2>1. Head(aKernel).que = "cabeza" /\ Head(aKernel).es = h /\ h \notin ConPcb
    BY <1>3, <1>5, MensajesDistintos
  <2>2. kernel' = [fase |-> "datos", pedido |-> h, faltan |-> Lecturas[h]]
    BY <1>5, <2>1 DEF LeerCabeza
  <2> QED BY <2>2, LecturasBien DEF Leyendo
<1>6. CASE Termina
  <2>1. kernel = Libre /\ aKernel = <<Cabeza("PROGRAMA_TERMINADO")>>
    BY <1>1, <1>6, FasesDistintas DEF Termina
  <2>2. "PROGRAMA_TERMINADO" \in ConPcb
    BY DEF ConPcb
  <2>3. kernel' = Esperando("PROGRAMA_TERMINADO") /\ aKernel' = <<>>
    BY <1>1, <1>4, <2>1, <2>2
  <2>4. Termina'
    BY <1>1, <1>6, <2>3
    DEF Termina, DelKernel, ConPrograma, En, Agotada, Esperando, Sentencia, SinAcceso
  <2> QED BY <2>4 DEF Dialogo
<1>7. CASE Pide
  <2> DEFINE q == Primitiva.pedido
  <2>1. q \in Pedidos /\ Datos[q] \in Nat
    BY <1>7, PrimitivaBien, LecturasBien DEF Pide, IInv
  <2>2. kernel = Libre /\ aKernel = <<Cabeza(q)>> \o Veces(Datos[q]) /\ aCpu = <<>>
    BY <1>1, <1>7, FasesDistintas DEF Pide, Pidiendo, KernelEn
  <2>3. Cabeza(q) \in Mensaje /\ Veces(Datos[q]) \in Seq(Mensaje)
    BY <2>1, MensajesBien DEF Rotulos
  <2>4. kernel' = Leyendo(q, Datos[q]) /\ aKernel' = Veces(Datos[q])
    BY <1>1, <1>5, <2>1, <2>2, <2>3, CabezaYCola
  <2>5. Primitiva' = Primitiva /\ Sentencia' = Sentencia
    BY <1>1 DEF DelKernel, Primitiva, Sentencia
  <2>6. Datos[q] \in 0..Datos[q]
    BY <2>1
  <2>7. Pidiendo(q)'
    BY <1>1, <2>2, <2>4, <2>5, <2>6 DEF Pidiendo, Leyendo, Veces, Datos, Dato
  <2>8. Pide'
    BY <1>1, <1>7, <2>5, <2>7 DEF Pide, DelKernel, ConPrograma, En, Limpio
  <2> QED BY <2>8 DEF Dialogo
<1>8. CASE Avisa
  BY <1>1, <1>8, FasesDistintas DEF Avisa, KernelEn
<1>9. CASE Devuelto
  <2>1. PICK h \in ConPcb : kernel = Libre /\ aKernel = <<Cabeza(h), MsjPcb(pcbCpu)>>
    BY <1>1, <1>9, FasesDistintas DEF Devuelto, KernelEn
  <2>2. aKernel' = <<MsjPcb(pcbCpu)>>
    BY <1>1, <2>1
  <2>3. kernel' = Esperando(h)
    BY <1>4, <2>1
  <2>4. h \in DOMAIN Destino /\ h \notin {"quantum", "WAIT"}
    BY <1>3 DEF ConPcb
  <2>5. Devuelto'
    BY <1>1, <1>9, <2>2, <2>3, <2>4
    DEF Devuelto, DelKernel, SinPrograma, ConPrograma, En, Esperando, MsjPcb, Destino
  <2> QED BY <2>5 DEF Dialogo
<1> QED BY <1>2, <1>6, <1>7, <1>8, <1>9

\* A request half read.
LEMMA LeyendoPedido ==
    ASSUME IInv, Dialogo, KernelEn("datos")
    PROVE  /\ Pide /\ Primitiva.pedido \in Pedidos /\ aCpu = <<>>
           /\ kernel.faltan \in 0..Datos[Primitiva.pedido]
           /\ Datos[Primitiva.pedido] \in Nat
           /\ kernel = Leyendo(Primitiva.pedido, kernel.faltan)
           /\ kernel.pedido = Primitiva.pedido /\ aKernel = Veces(kernel.faltan)
<1>1. Pide
  BY DialogoPorKernel
<1>2. Primitiva.pedido \in Pedidos
  BY <1>1, PrimitivaBien DEF Pide, IInv
<1>3. PICK n \in 0..Datos[Primitiva.pedido] :
          kernel = Leyendo(Primitiva.pedido, n) /\ aKernel = Veces(n) /\ aCpu = <<>>
  BY <1>1, FasesDistintas DEF Pide, Pidiendo, KernelEn
<1> QED BY <1>1, <1>2, <1>3, FasesDistintas, LecturasBien

\* What a step of the kernel leaves of the request.
LEMMA PideSigue ==
    ASSUME Pide, DelKernel, proceso' = proceso, Pidiendo(Primitiva.pedido)'
    PROVE  Dialogo'
<1>1. Primitiva' = Primitiva /\ Sentencia' = Sentencia
  BY DEF DelKernel, Primitiva, Sentencia
<1>2. Pide'
  BY <1>1 DEF Pide, DelKernel, ConPrograma, En, Limpio
<1> QED BY <1>2 DEF Dialogo

\* The messages of a request are read one by one.
LEMMA DatoDialoga == IInv /\ Dialogo /\ LeerDato => Dialogo'
<1> SUFFICES ASSUME IInv, Dialogo, LeerDato PROVE Dialogo'
  OBVIOUS
<1> DEFINE q == Primitiva.pedido
           n == kernel.faltan
<1>1. KernelEn("datos") /\ n > 0 /\ aKernel' = Tail(aKernel) /\ DelKernel
      /\ aCpu' = aCpu /\ proceso' = proceso
  BY DEF LeerDato, Toma
<1>2. /\ Pide /\ q \in Pedidos /\ aCpu = <<>> /\ n \in 0..Datos[q] /\ Datos[q] \in Nat
      /\ kernel = Leyendo(q, n) /\ aKernel = Veces(n)
  BY <1>1, LeyendoPedido
<1>3. n \in Nat \ {0}
  BY <1>1, <1>2
<1> HIDE DEF n
<1>4. Head(aKernel) = Dato /\ aKernel' = Veces(n - 1)
  BY <1>1, <1>2, <1>3, VecesDespacio
<1>5. kernel' = Leyendo(q, n - 1)
  BY <1>2, <1>4 DEF LeerDato, Leyendo, n
<1>6. n - 1 \in 0..Datos[q]
  BY <1>2, <1>3
<1>7. Primitiva' = Primitiva
  BY <1>1 DEF DelKernel, Primitiva, Sentencia
<1>8. Pidiendo(q)'
  BY <1>1, <1>2, <1>4, <1>5, <1>6, <1>7 DEF Pidiendo, Leyendo, Veces, Datos, Dato
<1> QED BY <1>1, <1>2, <1>8, PideSigue

\* The request is answered once all of it was read.
LEMMA RespuestasDialogan ==
    ASSUME IInv, Dialogo, Atender \/ Negar \/ WaitSigue \/ WaitBloquea,
           "asignarInexistente" \notin Eventos
    PROVE  Dialogo'
<1> DEFINE q == Primitiva.pedido
<1>1. /\ KernelEn("datos") /\ kernel.faltan = 0 /\ DelKernel /\ proceso' = proceso
      /\ aKernel' = aKernel
  BY DEF Atender, Negar, WaitSigue, WaitBloquea, Contesta
<1>2. /\ Pide /\ q \in Pedidos /\ aCpu = <<>> /\ kernel.pedido = q /\ aKernel = <<>>
  BY <1>1, LeyendoPedido, VecesDespacio
<1>3. Primitiva' = Primitiva
  BY <1>1 DEF DelKernel, Primitiva, Sentencia
<1>4. ASSUME NEW s, aCpu' = aCpu \o s, s \in Seq(Mensaje) PROVE aCpu' = s
  BY <1>2, <1>4, ConcatEmptySeq
<1>5. CASE Atender
  <2> DEFINE s == <<Cabeza("SI")>> \o Veces(IF q \in ConDato THEN 1 ELSE 0)
  <2>1. s \in Seq(Mensaje)
    <3>1. Veces(1) \in Seq(Mensaje) /\ Veces(0) \in Seq(Mensaje)
      BY MensajesBien
    <3>2. Cabeza("SI") \in Mensaje
      BY MensajesBien DEF Rotulos
    <3> QED BY <3>1, <3>2, CabezaYCola
  <2>2. aCpu' = s
    BY <1>2, <1>4, <1>5, <2>1 DEF Atender, Contesta
  <2>3. kernel' = Libre /\ q # "WAIT"
    BY <1>2, <1>5 DEF Atender, Libre
  <2>4. aCpu' \in RespuestasDe(q)
    BY <2>2, <2>3 DEF RespuestasDe
  <2>5. Pidiendo(q)'
    BY <1>1, <1>2, <1>3, <2>3, <2>4 DEF Pidiendo, Libre, RespuestasDe, Cabeza, Veces, ConDato, Dato
  <2> QED BY <1>1, <1>2, <2>5, PideSigue
<1>6. CASE Negar
  <2>1. aCpu' = <<Cabeza("NO")>> /\ kernel' = Libre
    BY <1>2, <1>6 DEF Negar, Contesta, Libre
  <2>2. aCpu' \in RespuestasDe(q)
    BY <2>1 DEF RespuestasDe
  <2>3. Pidiendo(q)'
    BY <1>1, <1>2, <1>3, <2>1, <2>2 DEF Pidiendo, Libre, RespuestasDe, Cabeza, Veces, ConDato, Dato
  <2> QED BY <1>1, <1>2, <2>3, PideSigue
<1>7. ASSUME NEW r \in Rotulos
      PROVE  <<Cabeza("SI"), Cabeza(r)>> \in Seq(Mensaje)
  <2>1. Cabeza("SI") \in Mensaje /\ Cabeza(r) \in Mensaje
    BY MensajesBien DEF Rotulos
  <2> QED BY <2>1
<1>8. CASE WaitSigue
  <2>1. aCpu' = <<Cabeza("SI"), Cabeza("SEGUI_EJECUTANDO")>>
    <3>1. <<Cabeza("SI"), Cabeza("SEGUI_EJECUTANDO")>> \in Seq(Mensaje)
      BY <1>7 DEF Rotulos
    <3> QED BY <1>4, <1>8, <3>1 DEF WaitSigue, Contesta
  <2>2. kernel' = Libre /\ q = "WAIT"
    BY <1>2, <1>8 DEF WaitSigue, Libre
  <2>3. aCpu' \in RespuestasDe(q)
    BY <2>1, <2>2 DEF RespuestasDe
  <2>4. Pidiendo(q)'
    BY <1>1, <1>2, <1>3, <2>2, <2>3 DEF Pidiendo, Libre, RespuestasDe, Cabeza, Veces, ConDato, Dato
  <2> QED BY <1>1, <1>2, <2>4, PideSigue
<1>9. CASE WaitBloquea
  <2>1. aCpu' = <<Cabeza("SI"), Cabeza("CAMBIAR_PROCESO")>>
    <3>1. <<Cabeza("SI"), Cabeza("CAMBIAR_PROCESO")>> \in Seq(Mensaje)
      BY <1>7 DEF Rotulos
    <3> QED BY <1>4, <1>9, <3>1 DEF WaitBloquea, Contesta
  <2>2. kernel' = Esperando("WAIT") /\ q = "WAIT"
    BY <1>2, <1>9 DEF WaitBloquea, Esperando
  <2>3. Pidiendo(q)'
    BY <1>1, <1>2, <1>3, <2>1, <2>2 DEF Pidiendo, Esperando, Cabeza
  <2> QED BY <1>1, <1>2, <2>3, PideSigue
<1> QED BY <1>5, <1>6, <1>8, <1>9

\* The end of a sentence is read.
LEMMA TermineLeida ==
    ASSUME IInv, Dialogo, LeerTermine
    PROVE  /\ Avisa /\ DelKernel /\ proceso' = proceso
           /\ aKernel' = <<>> /\ aCpu = <<>> /\ kernel = Libre
<1>1. /\ KernelEn("select") /\ aKernel # <<>> /\ Head(aKernel) = Cabeza("TERMINE_SENTENCIA")
      /\ aKernel' = Tail(aKernel) /\ DelKernel /\ proceso' = proceso
  BY DEF LeerTermine, Toma
<1>2. ~Termina
  BY <1>1, FasesDistintas, MensajesDistintos DEF Termina, KernelEn
<1>3. ~Devuelto
  <2>1. "TERMINE_SENTENCIA" \notin ConPcb
    BY DEF ConPcb
  <2> QED BY <1>1, <2>1, FasesDistintas, MensajesDistintos DEF Devuelto, KernelEn
<1>4. ~Pide
  <2> SUFFICES ASSUME Pide PROVE FALSE
    OBVIOUS
  <2> DEFINE q == Primitiva.pedido
  <2>1. q \in Pedidos /\ Datos[q] \in Nat
    BY PrimitivaBien, LecturasBien DEF Pide, IInv
  <2>2. aKernel = <<Cabeza(q)>> \o Veces(Datos[q])
    BY <1>1, FasesDistintas DEF Pide, Pidiendo, KernelEn
  <2>3. Cabeza(q) \in Mensaje /\ Veces(Datos[q]) \in Seq(Mensaje)
    BY <2>1, MensajesBien DEF Rotulos
  <2>4. Cabeza(q) = Cabeza("TERMINE_SENTENCIA")
    BY <1>1, <2>2, <2>3, CabezaYCola
  <2>5. "TERMINE_SENTENCIA" \notin Pedidos
    BY DEF Pedidos, Lecturas
  <2> QED BY <2>1, <2>4, <2>5, MensajesDistintos
<1>5. Avisa
  BY <1>1, <1>2, <1>3, <1>4, DialogoPorKernel
<1>6. aKernel' = <<>> /\ aCpu = <<>> /\ kernel = Libre
  <2>1. kernel = Libre /\ aKernel = <<Cabeza("TERMINE_SENTENCIA")>> /\ aCpu = <<>>
    BY <1>1, <1>5, FasesDistintas DEF Avisa, KernelEn
  <2> QED BY <1>1, <2>1
<1> QED BY <1>1, <1>5, <1>6

\* And answered, unless planning is stopped.
LEMMA PlanificarDialoga ==
    ASSUME IInv, Dialogo,
           \/ PlanificarSegui
           \/ \E por \in {"quantum", "kill"} : PlanificarCambiar(por)
           \/ PlanificarDetenido
    PROVE  Dialogo'
<1>0. LeerTermine
  BY DEF PlanificarSegui, PlanificarCambiar, Planificar, PlanificarDetenido
<1>1. /\ Avisa /\ DelKernel /\ proceso' = proceso
      /\ aKernel' = <<>> /\ aCpu = <<>> /\ kernel = Libre
  BY <1>0, TermineLeida
<1>2. CASE PlanificarSegui
  <2>1. aCpu' = <<Cabeza("SEGUI_EJECUTANDO")>> /\ kernel' = Libre
    BY <1>1, <1>2 DEF PlanificarSegui, Planificar, Libre
  <2>2. Avisa'
    BY <1>1, <2>1 DEF Avisa, DelKernel, ConPrograma, En, Limpio, Libre, Cabeza
  <2> QED BY <2>2 DEF Dialogo
<1>3. ASSUME NEW por \in {"quantum", "kill"}, PlanificarCambiar(por) PROVE Dialogo'
  <2>1. aCpu' = <<Cabeza("CAMBIAR_PROCESO")>> /\ kernel' = Esperando(por)
    BY <1>1, <1>3 DEF PlanificarCambiar, Planificar, Esperando
  <2>2. Avisa'
    BY <1>1, <2>1, <1>3
    DEF Avisa, DelKernel, ConPrograma, En, Limpio, Esperando, Cabeza
  <2> QED BY <2>2 DEF Dialogo
<1>4. CASE PlanificarDetenido
  <2>1. aCpu' = <<>> /\ kernel' = Libre /\ callada'
    BY <1>1, <1>4 DEF PlanificarDetenido, Libre
  <2>2. Abandonada'
    BY <1>1, <2>1 DEF Avisa, Abandonada, DelKernel, ConPrograma, En, Callados, Libre
  <2> QED BY <2>2 DEF Dialogo
<1> QED BY <1>2, <1>3, <1>4

\* What follows a header that announces it, or a change of process, is a PCB.
LEMMA PcbDialoga == IInv /\ Dialogo /\ RecibirPcb => Dialogo'
<1> SUFFICES ASSUME IInv, Dialogo, RecibirPcb PROVE Dialogo'
  OBVIOUS
<1>1. /\ KernelEn("pcb") /\ aKernel # <<>> /\ aKernel' = Tail(aKernel) /\ DelKernel
      /\ aCpu' = aCpu
  BY DEF RecibirPcb, Toma
<1>2. Devuelto
  BY <1>1, DialogoPorKernel
<1>3. PICK h \in DOMAIN Destino :
        /\ kernel = Esperando(h) /\ aKernel = <<MsjPcb(pcbCpu)>>
        /\ h \in {"quantum", "WAIT"} => Limpio(pcbCpu)
  BY <1>1, <1>2, FasesDistintas DEF Devuelto, KernelEn
<1>4. aKernel' = <<>> /\ aCpu' = <<>>
  BY <1>1, <1>2, <1>3 DEF Devuelto
<1>5. /\ pcbKernel' = pcbCpu /\ kernel' = Libre
      /\ proceso' \in Destino[h] \/ proceso' = proceso
  BY <1>3, FasesDistintas, MensajesDistintos DEF RecibirPcb, Libre
<1>6. proceso' \in {"listo", "bloqueado"} => h \in {"quantum", "WAIT"}
  BY <1>2, <1>3, <1>5 DEF Destino, Devuelto, ConPrograma
<1>7. Quieto'
  BY <1>1, <1>2, <1>3, <1>4, <1>5, <1>6
  DEF Quieto, Devuelto, DelKernel, SinPrograma, ConPrograma, En, Callados, Libre, Limpio
<1> QED BY <1>7 DEF Dialogo

\* Another process wakes it.
LEMMA DespertarDialoga == Dialogo /\ Despertar => Dialogo'
<1> SUFFICES ASSUME Dialogo, Despertar PROVE Dialogo'
  OBVIOUS
<1>1. Quieto
  BY DEF Despertar, Dialogo, Quieto, Enviado, Corre, Termina, Cede, Pide, Avisa, Devuelto,
         Abandonada, ConPrograma
<1>2. Quieto'
  BY <1>1 DEF Quieto, Despertar, SinPrograma, ConPrograma, En, Callados, Libre, Limpio
<1> QED BY <1>2 DEF Dialogo

\* It is sent to a CPU.
LEMMA DespacharDialoga == ASSUME Dialogo, NEW c, Despachar(c) PROVE Dialogo'
<1>1. Quieto
  BY DEF Despachar, Dialogo, Quieto, Enviado, Corre, Termina, Cede, Pide, Avisa, Devuelto,
         Abandonada, ConPrograma
<1>2. Enviado'
  BY <1>1 DEF Quieto, Enviado, Despachar, CpuOciosa, ConPrograma, En, Callados, Libre,
              Limpio, Cabeza, MsjPcb
<1> QED BY <1>2 DEF Dialogo

-----------------------------------------------------------------------------
(* The dialogue, for any script.                                           *)

\* At the start nobody says a word.
LEMMA DialogoInit == Init => Dialogo
BY DEF Init, Dialogo, Quieto, SinPrograma, ConPrograma, En, CpuOciosa, Callados, Libre,
       Limpio, PcbInicial

\* A step that neither side notices.
LEMMA MismoDialogo ==
    ASSUME Dialogo,
           UNCHANGED <<programa, pcbCpu, pcbKernel, cpu, acceso, aKernel, aCpu, kernel,
                       proceso, callada>>
    PROVE  Dialogo'
<1>1. /\ programa' = programa /\ pcbCpu' = pcbCpu /\ pcbKernel' = pcbKernel /\ cpu' = cpu
      /\ acceso' = acceso /\ aKernel' = aKernel /\ aCpu' = aCpu /\ kernel' = kernel
      /\ proceso' = proceso /\ callada' = callada
  OBVIOUS
<1>2. /\ (En("ociosa") <=> En("ociosa")') /\ (En("apagada") <=> En("apagada")')
      /\ (SinPrograma <=> SinPrograma') /\ (ConPrograma <=> ConPrograma')
      /\ (Callados <=> Callados') /\ (En("espera") <=> En("espera")')
      /\ (En("esperaTermine") <=> En("esperaTermine")')
      /\ (En("primitiva") <=> En("primitiva")') /\ (En("entrega") <=> En("entrega")')
      /\ Sentencia' = Sentencia /\ Primitiva' = Primitiva
  BY <1>1 DEF En, SinPrograma, ConPrograma, Callados, Sentencia, Primitiva
<1>3. Agotada <=> Agotada'
  BY <1>1, <1>2 DEF Agotada, SinAcceso
<1>4. Quieto \/ Enviado => Quieto' \/ Enviado'
  BY <1>1, <1>2 DEF Quieto, Enviado, Libre, Limpio, Cabeza, MsjPcb
<1>5. Corre => Corre'
  BY <1>1, <1>2 DEF Corre, Libre
<1>6. Termina => Termina'
  BY <1>1, <1>2, <1>3 DEF Termina, Libre, Esperando, Cabeza
<1>7. Cede => Cede'
  BY <1>1, <1>2, <1>3 DEF Cede, Limpio, Esperando
<1>8. Pide => Pide'
  <2>1. ASSUME NEW q, Pidiendo(q) PROVE Pidiendo(q)'
    BY <1>1, <2>1 DEF Pidiendo, Libre, Leyendo, Esperando, Cabeza, Veces, RespuestasDe, Datos,
                      Dato, ConDato
  <2> QED BY <1>1, <1>2, <2>1 DEF Pide, Limpio
<1>9. Avisa => Avisa'
  BY <1>1, <1>2 DEF Avisa, Limpio, Libre, Esperando, Cabeza
<1>10. Devuelto => Devuelto'
  BY <1>1, <1>2 DEF Devuelto, Libre, Esperando, Cabeza, MsjPcb, ConPcb, Destino, Limpio
<1>11. Abandonada => Abandonada'
  BY <1>1, <1>2 DEF Abandonada, Libre
<1> QED BY <1>4, <1>5, <1>6, <1>7, <1>8, <1>9, <1>10, <1>11 DEF Dialogo

\* No step breaks the dialogue, if nobody is refused a shared variable that
\* does not exist and no CPU is disconnected while it waits.
LEMMA DialogoPaso ==
    ASSUME IInv, Dialogo, [Next]_vars,
           {"asignarInexistente", "senalEnPedido"} \cap Eventos = {}
    PROVE  Dialogo'
<1>0. "asignarInexistente" \notin Eventos /\ "senalEnPedido" \notin Eventos
  OBVIOUS
<1>1. CASE PasoDeCpu
  <2>1. CASE \/ pedirInstruccionAMemoria \/ PedirParte \/ AccesoFallido \/ AccesoTerminado
             \/ definirVariable \/ DesbordarPila \/ dereferenciar \/ asignar \/ irAlLabel
             \/ llamarSinRetorno \/ llamarConRetorno \/ retornar
    BY <2>1, PrimitivasDialogan
  <2>2. CASE finalizar \/ PedirAlKernel \/ RespuestaNo \/ RespuestaSi
    BY <2>2, FinalizarDialoga, PedirDialoga, NoDialoga, SiDialoga
  <2>3. ASSUME NEW q \in {"SEGUI_EJECUTANDO", "CAMBIAR_PROCESO"},
               RespuestaWait(q) \/ TermineContestado(q)
        PROVE  Dialogo'
    BY <2>3, WaitDialoga, TermineDialoga
  <2>4. CASE SentenciaTermina \/ Avanza \/ ProgramaTermina \/ EntregarPcb \/ RecibirPrograma
    BY <2>4, SentenciaDialoga, AvanzaDialoga, ProgramaTerminaDialoga, EntregarDialoga,
       RecibirDialoga
  <2> QED BY <1>1, <2>1, <2>2, <2>3, <2>4 DEF PasoDeCpu
<1>2. CASE PasoDelKernel
  <2>1. CASE LeerCabeza \/ LeerDato \/ RecibirPcb
    BY <2>1, CabezaDialoga, DatoDialoga, PcbDialoga
  <2>2. CASE Atender \/ Negar \/ WaitSigue \/ WaitBloquea
    BY <1>0, <2>2, RespuestasDialogan
  <2>3. CASE \/ PlanificarSegui \/ \E por \in {"quantum", "kill"} : PlanificarCambiar(por)
             \/ PlanificarDetenido
    BY <2>3, PlanificarDialoga
  <2> QED BY <1>2, <2>1, <2>2, <2>3 DEF PasoDelKernel
<1>3. CASE desconectarse
  BY <1>0, <1>3, DesconectarseDialoga
<1>4. CASE Despertar
  BY <1>4, DespertarDialoga
<1>5. ASSUME NEW c \in Cpus, Despachar(c) PROVE Dialogo'
  BY <1>5, DespacharDialoga
<1>6. CASE DetenerPlanificacion \/ ReanudarPlanificacion
  BY <1>6, MismoDialogo DEF DetenerPlanificacion, ReanudarPlanificacion, Comando
<1>7. CASE UNCHANGED vars
  BY <1>7, MismoDialogo DEF vars
<1> QED BY <1>1, <1>2, <1>3, <1>4, <1>5, <1>6, <1>7 DEF Next

\* At every step each side finds what it expects.
LEMMA DialogoSiempre ==
    ASSUME {"asignarInexistente", "senalEnPedido"} \cap Eventos = {}
    PROVE  Spec => [](IInv /\ Dialogo)
<1>1. Init => IInv /\ Dialogo
  BY InvInit, DialogoInit
<1>2. (IInv /\ Dialogo) /\ [Next]_vars => (IInv /\ Dialogo)'
  BY InvPaso, DialogoPaso
<1> QED BY <1>1, <1>2, PTL DEF Spec

\* Whatever the scripts, the kernel reads the socket as the CPU wrote it: it
\* never takes a value or a PCB for a header, nor the other way around.
THEOREM SinDesfaseSiempre ==
    ASSUME {"asignarInexistente", "senalEnPedido"} \cap Eventos = {}
    PROVE  Spec => []SinDesfase
<1>1. IInv /\ Dialogo => SinDesfase
  BY DialogoPorKernel DEF SinDesfase
<1> QED BY <1>1, DialogoSiempre, PTL

\* Whatever the scripts, the quantum and the operator's stops and restarts,
\* kernel and CPU never wait for each other, nor the kernel for what a CPU has
\* no reason to send: only a CPU whose TERMINE_SENTENCIA was read while planning
\* was stopped waits for nothing.
THEOREM NuncaSeEsperan ==
    ASSUME {"asignarInexistente", "senalEnPedido"} \cap Eventos = {}
    PROVE  Spec => []NadieEsperaANadie
<1>1. ASSUME IInv, Dialogo PROVE NadieEsperaANadie
  <2>1. cpu.fase = "espera" => aCpu # <<>> \/ aKernel # <<>> \/ ~KernelEn("select")
    <3> SUFFICES ASSUME En("espera"), aCpu = <<>>, aKernel = <<>>, KernelEn("select") PROVE FALSE
      BY DEF En
    <3>1. Pide
      BY <1>1, DialogoPorFase
    <3> DEFINE q == Primitiva.pedido
    <3>2. q \in Pedidos /\ Datos[q] \in Nat
      BY <1>1, <3>1, PrimitivaBien, LecturasBien DEF Pide, IInv
    <3>3. /\ Cabeza(q) \in Mensaje /\ Veces(Datos[q]) \in Seq(Mensaje)
          /\ Cabeza("SI") \in Mensaje /\ Veces(0) \in Seq(Mensaje) /\ Veces(1) \in Seq(Mensaje)
      BY <3>2, MensajesBien DEF Rotulos
    <3>4. <<Cabeza(q)>> \o Veces(Datos[q]) # <<>>
      BY <3>3, CabezaYCola
    <3>5. <<Cabeza("SI")>> \o Veces(IF q \in ConDato THEN 1 ELSE 0) # <<>>
      BY <3>3, CabezaYCola
    <3>6. <<>> \notin RespuestasDe(q)
      BY <3>5 DEF RespuestasDe
    <3> QED BY <3>1, <3>4, <3>6, FasesDistintas DEF Pide, Pidiendo, KernelEn
  <2>2. cpu.fase = "esperaTermine" => \/ aCpu # <<>> \/ aKernel # <<>>
                                      \/ ~KernelEn("select") \/ callada
    <3>1. cpu.fase = "esperaTermine" => Avisa \/ Abandonada
      BY <1>1, DialogoPorFase DEF En
    <3> QED BY <3>1 DEF Avisa, Abandonada
  <2>3. KernelEn("datos") => Len(aKernel) >= kernel.faltan
    <3> SUFFICES ASSUME KernelEn("datos") PROVE Len(aKernel) >= kernel.faltan
      OBVIOUS
    <3>1. kernel.faltan \in Nat /\ aKernel = Veces(kernel.faltan)
      BY <1>1, LeyendoPedido
    <3> QED BY <3>1, VecesDespacio
  <2>4. KernelEn("pcb") => aKernel # <<>> \/ ~(En("ociosa") \/ En("apagada"))
    <3>1. En("ociosa") \/ En("apagada") => Quieto \/ Enviado \/ Devuelto
      BY <1>1, DialogoPorFase
    <3>2. Quieto \/ Enviado => ~KernelEn("pcb")
      BY FasesDistintas DEF Quieto, Enviado, KernelEn
    <3>3. Devuelto => aKernel # <<>>
      BY DEF Devuelto
    <3> QED BY <3>1, <3>2, <3>3
  <2> QED BY <2>1, <2>2, <2>3, <2>4 DEF NadieEsperaANadie, En
<1> QED BY <1>1, DialogoSiempre, PTL

(***************************************************************************)
(* The stack: where the variables and arguments of the calls in course    *)
(* are, in every copy of the PCB.                                          *)
(***************************************************************************)

Separadas(a, b) == a + TamanioVariable <= b \/ b + TamanioVariable <= a

\* Pages of a whole number of variables: the end is never inside one.
Alineada(p) == TamanioPagina % TamanioVariable = 0 => p.pos % TamanioVariable = 0

\* The end of the stack is in it or just past it; everything in use is below
\* the end, and apart from everything else.
PilaSana(p) ==
    /\ p.pagina \in PaginaDePila..PaginasTotales
    /\ p.pagina = PaginasTotales => p.pos = 0
    /\ Alineada(p)
    /\ \A u \in DireccionesEnUso(p) :
        /\ DireccionDe(p, u) \in Nat
        /\ DireccionDe(p, u) >= PaginaDePila * TamanioPagina
        /\ DireccionDe(p, u) + TamanioVariable <= FinDePila(p)
    /\ \A u, v \in DireccionesEnUso(p) :
        u # v => Separadas(DireccionDe(p, u), DireccionDe(p, v))

\* Every PCB on a wire has such a stack.
Correo(s) == \A k \in 1..Len(s) : s[k].que = "pcb" => PilaSana(s[k].pcb)

\* No variable straddles two pages, whether it could or not.
Enteras == TamanioPagina % TamanioVariable = 0 \/ "variablePartida" \notin Eventos

\* What the kernel's thread is at, and where the process is.
KernelBien ==
    /\ \/ kernel \in {Libre, [fase |-> "desfasado"]}
       \/ \E h \in DOMAIN Destino : kernel = Esperando(h)
       \/ \E q \in Pedidos, n \in Int : kernel = Leyendo(q, n)
    /\ proceso \in {"listo", "ejecutando", "bloqueado", "terminado", "abortado"}

PilasSanas ==
    /\ PilaSana(pcbCpu) /\ PilaSana(pcbKernel) /\ Correo(aKernel) /\ Correo(aCpu)
    /\ KernelBien

-----------------------------------------------------------------------------
(* The helpers of the stack.                                               *)

\* What is in use is in one of the registers.
LEMMA UsosDe ==
    ASSUME NEW p, NEW u \in DireccionesEnUso(p)
    PROVE  \E k \in 1..Len(p.pila) :
              \/ \E j \in 1..Len(p.pila[k].vars) : u = <<k, 0, j>>
              \/ \E j \in 1..Len(p.pila[k].args) : u = <<k, 1, j>>
BY DEF DireccionesEnUso

\* And everything in them is in use.
LEMMA EsUso ==
    ASSUME NEW p, NEW k \in 1..Len(p.pila), NEW u,
           \/ \E j \in 1..Len(p.pila[k].vars) : u = <<k, 0, j>>
           \/ \E j \in 1..Len(p.pila[k].args) : u = <<k, 1, j>>
    PROVE  u \in DireccionesEnUso(p)
BY DEF DireccionesEnUso

\* Where each of them is.
LEMMA DireccionDeUso ==
    ASSUME NEW p, NEW k, NEW j
    PROVE  /\ DireccionDe(p, <<k, 0, j>>) = p.pila[k].vars[j].dir
           /\ DireccionDe(p, <<k, 1, j>>) = p.pila[k].args[j].dir
BY DEF DireccionDe

\* A stack with the registers of another one, or some of them.
LEMMA MismosRegistros ==
    ASSUME NEW p, NEW q, PilaSana(p), q.pagina = p.pagina, q.pos = p.pos,
           Len(p.pila) \in Nat, Len(q.pila) \in Nat,
           \A k \in 1..Len(q.pila) :
              \/ k \in 1..Len(p.pila) /\ q.pila[k] = p.pila[k]
              \/ Len(q.pila[k].vars) = 0 /\ Len(q.pila[k].args) = 0
    PROVE  PilaSana(q)
<1>1. ASSUME NEW u \in DireccionesEnUso(q)
      PROVE  u \in DireccionesEnUso(p) /\ DireccionDe(q, u) = DireccionDe(p, u)
  <2>1. PICK k \in 1..Len(q.pila) :
          \/ \E j \in 1..Len(q.pila[k].vars) : u = <<k, 0, j>>
          \/ \E j \in 1..Len(q.pila[k].args) : u = <<k, 1, j>>
    BY <1>1, UsosDe
  <2>2. k \in 1..Len(p.pila) /\ q.pila[k] = p.pila[k]
    BY <2>1
  <2>3. u \in DireccionesEnUso(p)
    BY <2>1, <2>2, EsUso
  <2>4. ASSUME NEW j, u = <<k, 0, j>> \/ u = <<k, 1, j>>
        PROVE  DireccionDe(q, u) = DireccionDe(p, u)
    <3>1. /\ DireccionDe(q, <<k, 0, j>>) = DireccionDe(p, <<k, 0, j>>)
          /\ DireccionDe(q, <<k, 1, j>>) = DireccionDe(p, <<k, 1, j>>)
      BY <2>2 DEF DireccionDe
    <3> QED BY <2>4, <3>1
  <2> QED BY <2>1, <2>3, <2>4
<1>2. FinDePila(q) = FinDePila(p) /\ (Alineada(p) => Alineada(q))
  BY DEF FinDePila, Alineada
<1> QED BY <1>1, <1>2 DEF PilaSana

\* Only the registers and the end matter.
LEMMA MismaPila ==
    ASSUME NEW p, NEW q, PilaSana(p), q.pagina = p.pagina, q.pos = p.pos, q.pila = p.pila
    PROVE  PilaSana(q)
<1>1. DireccionesEnUso(q) = DireccionesEnUso(p)
  BY DEF DireccionesEnUso
<1>2. \A u : DireccionDe(q, u) = DireccionDe(p, u)
  BY DEF DireccionDe
<1>3. FinDePila(q) = FinDePila(p) /\ (Alineada(p) => Alineada(q))
  BY DEF FinDePila, Alineada
<1> QED BY <1>1, <1>2, <1>3 DEF PilaSana

\* The registers below the top.
LEMMA FrenteBien ==
    ASSUME NEW s \in Pila
    PROVE  /\ Front(s) \in Seq(RegistroDePila) /\ Len(Front(s)) = Len(s) - 1
           /\ Len(s) \in Nat \ {0}
           /\ \A k \in 1..(Len(s) - 1) : Front(s)[k] = s[k]
<1> DEFINE m == Len(s) - 1
           f == SubSeq(s, 1, m)
<1>1. s \in Seq(RegistroDePila) /\ Len(s) \in Nat \ {0}
  BY PilaBien DEF Pila
<1>2. \A k \in 1..m : s[k] \in RegistroDePila
  BY <1>1, ElementOfSeq
<1>3. m \in Nat
  BY <1>1
<1>4. f = Front(s)
  BY DEF Front
<1> HIDE DEF m, f
<1>5. /\ SubSeq(s, 1, m) \in Seq(RegistroDePila)
      /\ Len(SubSeq(s, 1, m)) = IF 1 <= m THEN m - 1 + 1 ELSE 0
      /\ \A k \in 1..(m - 1 + 1) : SubSeq(s, 1, m)[k] = s[1 + k - 1]
  BY <1>2, <1>3, 1 \in Int, SubSeqProperties
<1>6. f \in Seq(RegistroDePila) /\ Len(f) = m /\ \A k \in 1..m : f[k] = s[k]
  BY <1>3, <1>5 DEF f
<1> QED BY <1>1, <1>4, <1>6 DEF m

\* A call that is left takes its variables with it, and nothing else.
LEMMA SaliendoSana ==
    ASSUME NEW p \in Pcb, PilaSana(p), Len(p.pila) > 1
    PROVE  PilaSana(Saliendo(p))
<1> DEFINE q == Saliendo(p)
<1>1. q.pila = Front(p.pila) /\ q.pagina = p.pagina /\ q.pos = p.pos /\ p.pila \in Pila
  BY DEF Saliendo, Pcb
<1>2. /\ Len(p.pila) \in Nat /\ Len(q.pila) = Len(p.pila) - 1
      /\ \A k \in 1..(Len(p.pila) - 1) : q.pila[k] = p.pila[k]
  BY <1>1, FrenteBien
<1> HIDE DEF q
<1>3. Len(q.pila) \in Nat
  BY <1>2
<1>4. \A k \in 1..Len(q.pila) : k \in 1..Len(p.pila) /\ q.pila[k] = p.pila[k]
  BY <1>2
<1>5. PilaSana(q)
  BY <1>1, <1>2, <1>3, <1>4, MismosRegistros
<1> QED BY <1>5 DEF q

\* A call starts with nothing of its own.
LEMMA LlamarSana ==
    ASSUME NEW p \in Pcb, PilaSana(p), NEW r \in RegistroDePila, r.vars = <<>>, r.args = <<>>,
           NEW q, q.pila = Append(p.pila, r), q.pagina = p.pagina, q.pos = p.pos
    PROVE  PilaSana(q)
<1>1. p.pila \in Seq(RegistroDePila) /\ Len(p.pila) \in Nat
  BY PilaBien DEF Pcb, Pila
<1>2. /\ Len(q.pila) = Len(p.pila) + 1 /\ q.pila[Len(p.pila) + 1] = r
      /\ \A k \in 1..Len(p.pila) : q.pila[k] = p.pila[k]
  BY <1>1, AppendProperties
<1>3. Len(r.vars) = 0 /\ Len(r.args) = 0
  OBVIOUS
<1>4. ASSUME NEW k \in 1..Len(q.pila)
      PROVE  \/ k \in 1..Len(p.pila) /\ q.pila[k] = p.pila[k]
             \/ Len(q.pila[k].vars) = 0 /\ Len(q.pila[k].args) = 0
  BY <1>1, <1>2, <1>3
<1>5. Len(q.pila) \in Nat
  BY <1>1, <1>2
<1> QED BY <1>1, <1>4, <1>5, MismosRegistros

\* An aligned end has room for a variable in its page.
LEMMA CabeAlineada ==
    ASSUME NEW p \in Pcb, Alineada(p), TamanioPagina % TamanioVariable = 0
    PROVE  p.pos + TamanioVariable <= TamanioPagina
<1>1. p.pos \in 0..(TamanioPagina - 1) /\ TamanioPagina \in Nat /\ TamanioVariable = 4
  BY TamanioPaginaAssumption DEF Pcb, TamanioVariable
<1>2. p.pos % TamanioVariable = 0
  BY DEF Alineada
<1> QED BY <1>1, <1>2, SMT

\* Where fin_stack goes when four more bytes are taken.
LEMMA FinAvanza ==
    ASSUME NEW p \in Pcb, NEW q, q = AvanzarFin(p),
           p.pagina \in PaginaDePila..PaginasTotales, p.pagina # PaginasTotales,
           p.pos + TamanioVariable <= TamanioPagina
    PROVE  /\ q.pila = p.pila /\ FinDePila(q) = FinDePila(p) + TamanioVariable
           /\ q.pagina \in PaginaDePila..PaginasTotales
           /\ q.pagina = PaginasTotales => q.pos = 0
           /\ Alineada(p) => Alineada(q)
           /\ FinDePila(p) \in Nat
           /\ FinDePila(p) >= PaginaDePila * TamanioPagina
<1>1. /\ p.pos \in Nat /\ p.pagina \in Nat /\ TamanioPagina \in Nat
      /\ PaginaDePila \in Nat /\ PaginasTotales \in Nat /\ TamanioVariable = 4
  BY TamanioPaginaAssumption, PaginasAssumption DEF Pcb, TamanioVariable
<1>2. p.pagina + 1 \in PaginaDePila..PaginasTotales
  BY <1>1
<1>3. FinDePila(p) \in Nat /\ FinDePila(p) = p.pagina * TamanioPagina + p.pos
  BY FinDePilaBien DEF FinDePila, posicionMemoria_a_puntero
<1>4. FinDePila(p) >= PaginaDePila * TamanioPagina
  <2>1. p.pagina * TamanioPagina >= PaginaDePila * TamanioPagina
    <3>1. p.pagina >= PaginaDePila
      BY <1>1
    <3> QED BY <1>1, <3>1, SMT
  <2>2. p.pagina * TamanioPagina \in Nat /\ PaginaDePila * TamanioPagina \in Nat
    BY <1>1, SMT
  <2> QED BY <1>1, <1>3, <2>1, <2>2
<1>5. CASE p.pos + TamanioVariable >= TamanioPagina
  <2>1. /\ q.pila = p.pila /\ q.pagina = p.pagina + 1
        /\ q.pos = p.pos + TamanioVariable - TamanioPagina
    BY <1>5 DEF AvanzarFin, Pcb
  <2>2. q.pos = 0
    BY <1>1, <1>5, <2>1
  <2>3. FinDePila(q) = (p.pagina + 1) * TamanioPagina + 0
    BY <2>1, <2>2 DEF FinDePila, posicionMemoria_a_puntero
  <2>4. (p.pagina + 1) * TamanioPagina = p.pagina * TamanioPagina + TamanioPagina
    BY <1>1, SMT
  <2>5. p.pagina * TamanioPagina \in Nat
    BY <1>1, SMT
  <2>6. FinDePila(q) = FinDePila(p) + TamanioVariable
    BY <1>1, <1>3, <1>5, <2>3, <2>4, <2>5
  <2>7. Alineada(q)
    BY <1>1, <2>2 DEF Alineada
  <2> QED BY <1>2, <2>1, <2>2, <2>6, <2>7, <1>3, <1>4
<1>6. CASE ~(p.pos + TamanioVariable >= TamanioPagina)
  <2>1. /\ q.pila = p.pila /\ q.pagina = p.pagina
        /\ q.pos = p.pos + TamanioVariable
    BY <1>6 DEF AvanzarFin, Pcb
  <2>2. p.pagina * TamanioPagina \in Nat
    BY <1>1, SMT
  <2>3. FinDePila(q) = p.pagina * TamanioPagina + (p.pos + TamanioVariable)
    BY <2>1 DEF FinDePila, posicionMemoria_a_puntero
  <2>4. FinDePila(q) = FinDePila(p) + TamanioVariable
    BY <1>1, <1>3, <2>2, <2>3
  <2>5. Alineada(p) => Alineada(q)
    BY <1>1, <2>1 DEF Alineada
  <2> QED BY <1>1, <1>3, <1>4, <2>1, <2>4, <2>5
<1> QED BY <1>5, <1>6

\* A variable at the end of the stack is apart from the ones there are.
LEMMA DefinirSana ==
    ASSUME NEW p \in Pcb, PilaSana(p), p.pagina # PaginasTotales,
           p.pos + TamanioVariable <= TamanioPagina,
           NEW r \in RegistroDePila,
           \/ /\ r.args = Last(p.pila).args
              /\ \E x \in Variable : x.dir = FinDePila(p) /\ r.vars = Append(Last(p.pila).vars, x)
           \/ /\ r.vars = Last(p.pila).vars
              /\ \E x \in Argumento : x.dir = FinDePila(p) /\ r.args = Append(Last(p.pila).args, x)
    PROVE  PilaSana(AvanzarFin(EnCima(p, r)))
<1> DEFINE e == EnCima(p, r)
           q == AvanzarFin(e)
           l == Len(p.pila)
           z == Last(p.pila)
           fin == FinDePila(p)
<1>1. /\ p.pila \in Pila /\ l \in Nat \ {0} /\ z = p.pila[l] /\ z \in RegistroDePila
      /\ z.vars \in Seq(Variable) /\ z.args \in Seq(Argumento)
  BY PilaBien, FrenteBien DEF Pcb, Last, RegistroDePila
<1>2. e \in Pcb /\ e.pila = Append(Front(p.pila), r) /\ e.pagina = p.pagina /\ e.pos = p.pos
  BY EnCimaBien DEF EnCima, Pcb
<1>3. /\ Len(e.pila) = l /\ e.pila[l] = r
      /\ \A k \in 1..(l - 1) : e.pila[k] = p.pila[k]
  <2>1. /\ Front(p.pila) \in Seq(RegistroDePila) /\ Len(Front(p.pila)) = l - 1
        /\ \A k \in 1..(l - 1) : Front(p.pila)[k] = p.pila[k]
    BY <1>1, FrenteBien
  <2> HIDE DEF l, e
  <2>2. /\ Len(e.pila) = (l - 1) + 1 /\ e.pila[(l - 1) + 1] = r
        /\ \A k \in 1..(l - 1) : e.pila[k] = Front(p.pila)[k]
    BY <1>2, <2>1, AppendProperties
  <2>3. (l - 1) + 1 = l
    BY <1>1
  <2> QED BY <2>1, <2>2, <2>3
<1>4. FinDePila(e) = fin /\ Alineada(e)
  BY <1>2 DEF FinDePila, Alineada, PilaSana
<1>5. p.pagina \in PaginaDePila..PaginasTotales
  BY DEF PilaSana
<1> HIDE DEF e
<1>6. /\ q.pila = e.pila /\ FinDePila(q) = fin + TamanioVariable
      /\ q.pagina \in PaginaDePila..PaginasTotales
      /\ q.pagina = PaginasTotales => q.pos = 0
      /\ Alineada(q)
      /\ fin \in Nat /\ fin >= PaginaDePila * TamanioPagina
  BY <1>2, <1>4, <1>5, FinAvanza
<1> HIDE DEF q, l, z, fin
<1>7. PICK n : \/ /\ r.args = z.args /\ n = <<l, 0, Len(z.vars) + 1>>
                  /\ \E x \in Variable : x.dir = fin /\ r.vars = Append(z.vars, x)
               \/ /\ r.vars = z.vars /\ n = <<l, 1, Len(z.args) + 1>>
                  /\ \E x \in Argumento : x.dir = fin /\ r.args = Append(z.args, x)
  BY DEF z, fin
<1>8. /\ Len(z.vars) \in Nat /\ Len(z.args) \in Nat
      /\ \A k \in 1..Len(z.vars) : r.vars[k] = z.vars[k]
      /\ \A k \in 1..Len(z.args) : r.args[k] = z.args[k]
      /\ \/ /\ n = <<l, 0, Len(z.vars) + 1>> /\ r.vars[Len(z.vars) + 1].dir = fin
            /\ Len(r.vars) = Len(z.vars) + 1 /\ Len(r.args) = Len(z.args)
         \/ /\ n = <<l, 1, Len(z.args) + 1>> /\ r.args[Len(z.args) + 1].dir = fin
            /\ Len(r.args) = Len(z.args) + 1 /\ Len(r.vars) = Len(z.vars)
  <2>1. Len(z.vars) \in Nat /\ Len(z.args) \in Nat
    BY <1>1, LenProperties
  <2>2. CASE /\ r.args = z.args /\ n = <<l, 0, Len(z.vars) + 1>>
             /\ \E x \in Variable : x.dir = fin /\ r.vars = Append(z.vars, x)
    <3>1. PICK x \in Variable : x.dir = fin /\ r.vars = Append(z.vars, x)
      BY <2>2
    <3>2. /\ Len(r.vars) = Len(z.vars) + 1 /\ r.vars[Len(z.vars) + 1] = x
          /\ \A k \in 1..Len(z.vars) : r.vars[k] = z.vars[k]
      BY <1>1, <3>1, AppendProperties
    <3> QED BY <2>1, <2>2, <3>1, <3>2
  <2>3. CASE /\ r.vars = z.vars /\ n = <<l, 1, Len(z.args) + 1>>
             /\ \E x \in Argumento : x.dir = fin /\ r.args = Append(z.args, x)
    <3>1. PICK x \in Argumento : x.dir = fin /\ r.args = Append(z.args, x)
      BY <2>3
    <3>2. /\ Len(r.args) = Len(z.args) + 1 /\ r.args[Len(z.args) + 1] = x
          /\ \A k \in 1..Len(z.args) : r.args[k] = z.args[k]
      BY <1>1, <3>1, AppendProperties
    <3> QED BY <2>1, <2>3, <3>1, <3>2
  <2> QED BY <1>7, <2>2, <2>3
<1>9. DireccionDe(q, n) = fin
  <2>1. q.pila[l] = r
    BY <1>3, <1>6
  <2>2. \A j : /\ DireccionDe(q, <<l, 0, j>>) = q.pila[l].vars[j].dir
               /\ DireccionDe(q, <<l, 1, j>>) = q.pila[l].args[j].dir
    BY DireccionDeUso
  <2> QED BY <1>8, <2>1, <2>2
<1>10. ASSUME NEW u \in DireccionesEnUso(q), u # n
       PROVE  u \in DireccionesEnUso(p) /\ DireccionDe(q, u) = DireccionDe(p, u)
  <2>1. PICK k \in 1..Len(q.pila) :
          \/ \E j \in 1..Len(q.pila[k].vars) : u = <<k, 0, j>>
          \/ \E j \in 1..Len(q.pila[k].args) : u = <<k, 1, j>>
    BY <1>10, UsosDe
  <2>2. k \in 1..l /\ Len(q.pila) = l /\ Len(p.pila) = l
    BY <1>3, <1>6, <2>1 DEF l
  <2>3. ASSUME NEW j \in 1..Len(q.pila[k].vars), u = <<k, 0, j>>
        PROVE  u \in DireccionesEnUso(p) /\ DireccionDe(q, u) = DireccionDe(p, u)
    <3>1. j \in 1..Len(p.pila[k].vars) /\ q.pila[k].vars[j] = p.pila[k].vars[j]
      <4>1. CASE k = l
        <5>1. q.pila[k] = r /\ p.pila[k] = z
          BY <1>1, <1>3, <1>6, <4>1
        <5>2. j \in 1..Len(z.vars)
          BY <1>8, <1>10, <2>3, <4>1, <5>1
        <5> QED BY <1>8, <5>1, <5>2
      <4>2. CASE k # l
        <5>1. k \in 1..(l - 1)
          BY <1>1, <2>2, <4>2
        <5>2. q.pila[k] = p.pila[k]
          BY <1>3, <1>6, <5>1
        <5> QED BY <2>3, <5>2
      <4> QED BY <4>1, <4>2
    <3>2. u \in DireccionesEnUso(p)
      BY <2>2, <2>3, <3>1, EsUso
    <3>3. /\ DireccionDe(q, <<k, 0, j>>) = q.pila[k].vars[j].dir
          /\ DireccionDe(p, <<k, 0, j>>) = p.pila[k].vars[j].dir
      BY DEF DireccionDe
    <3> QED BY <2>3, <3>1, <3>2, <3>3
  <2>4. ASSUME NEW j \in 1..Len(q.pila[k].args), u = <<k, 1, j>>
        PROVE  u \in DireccionesEnUso(p) /\ DireccionDe(q, u) = DireccionDe(p, u)
    <3>1. j \in 1..Len(p.pila[k].args) /\ q.pila[k].args[j] = p.pila[k].args[j]
      <4>1. CASE k = l
        <5>1. q.pila[k] = r /\ p.pila[k] = z
          BY <1>1, <1>3, <1>6, <4>1
        <5>2. j \in 1..Len(z.args)
          BY <1>8, <1>10, <2>4, <4>1, <5>1
        <5> QED BY <1>8, <5>1, <5>2
      <4>2. CASE k # l
        <5>1. k \in 1..(l - 1)
          BY <1>1, <2>2, <4>2
        <5>2. q.pila[k] = p.pila[k]
          BY <1>3, <1>6, <5>1
        <5> QED BY <2>4, <5>2
      <4> QED BY <4>1, <4>2
    <3>2. u \in DireccionesEnUso(p)
      BY <2>2, <2>4, <3>1, EsUso
    <3>3. /\ DireccionDe(q, <<k, 1, j>>) = q.pila[k].args[j].dir
          /\ DireccionDe(p, <<k, 1, j>>) = p.pila[k].args[j].dir
      BY DEF DireccionDe
    <3> QED BY <2>4, <3>1, <3>2, <3>3
  <2> QED BY <2>1, <2>3, <2>4
<1>11. TamanioVariable = 4
  BY DEF TamanioVariable
<1>12. ASSUME NEW u \in DireccionesEnUso(p)
       PROVE  /\ DireccionDe(p, u) \in Nat
              /\ DireccionDe(p, u) >= PaginaDePila * TamanioPagina
              /\ DireccionDe(p, u) + TamanioVariable <= fin
  BY <1>12 DEF PilaSana, fin
<1>13. ASSUME NEW u \in DireccionesEnUso(q)
       PROVE  /\ DireccionDe(q, u) \in Nat
              /\ DireccionDe(q, u) >= PaginaDePila * TamanioPagina
              /\ DireccionDe(q, u) + TamanioVariable <= FinDePila(q)
  <2>1. CASE u = n
    BY <1>6, <1>9, <1>11, <2>1
  <2>2. CASE u # n
    <3> DEFINE d == DireccionDe(q, u)
    <3>1. d \in Nat /\ d >= PaginaDePila * TamanioPagina /\ d + TamanioVariable <= fin
      BY <1>10, <1>12, <2>2
    <3> HIDE DEF d
    <3>2. d + TamanioVariable <= FinDePila(q)
      BY <1>6, <1>11, <3>1
    <3> QED BY <3>1, <3>2 DEF d
  <2> QED BY <2>1, <2>2
<1>14. ASSUME NEW u \in DireccionesEnUso(q), NEW v \in DireccionesEnUso(q), u # v
       PROVE  Separadas(DireccionDe(q, u), DireccionDe(q, v))
  <2>1. CASE u = n
    BY <1>9, <1>10, <1>12, <1>14, <2>1 DEF Separadas
  <2>2. CASE v = n
    BY <1>9, <1>10, <1>12, <1>14, <2>2 DEF Separadas
  <2>3. CASE u # n /\ v # n
    BY <1>10, <1>14, <2>3 DEF PilaSana
  <2> QED BY <2>1, <2>2, <2>3
<1>15. PilaSana(q)
  BY <1>6, <1>13, <1>14 DEF PilaSana
<1> QED BY <1>15 DEF q, e

-----------------------------------------------------------------------------
(* The wires.                                                              *)

\* Messages one after the other, the ones that are left, and single ones.
LEMMA Correos ==
    ASSUME NEW s \in Seq(Mensaje), Correo(s)
    PROVE  /\ \A t \in Seq(Mensaje) : Correo(t) => Correo(s \o t)
           /\ \A m \in Mensaje : (m.que = "pcb" => PilaSana(m.pcb)) => Correo(Append(s, m))
           /\ s # <<>> => Correo(Tail(s)) /\ (Head(s).que = "pcb" => PilaSana(Head(s).pcb))
           /\ \A n \in Nat : Len(s) > n => Correo(SubSeq(s, n + 2, Len(s)))
<1>1. Len(s) \in Nat
  BY LenProperties
<1>2. ASSUME NEW t \in Seq(Mensaje), Correo(t) PROVE Correo(s \o t)
  <2>1. /\ Len(s \o t) = Len(s) + Len(t) /\ Len(t) \in Nat
        /\ \A k \in 1..(Len(s) + Len(t)) :
             (s \o t)[k] = IF k <= Len(s) THEN s[k] ELSE t[k - Len(s)]
    BY ConcatProperties, LenProperties
  <2> SUFFICES ASSUME NEW k \in 1..(Len(s) + Len(t)), (s \o t)[k].que = "pcb"
               PROVE  PilaSana((s \o t)[k].pcb)
    BY <2>1 DEF Correo
  <2>2. CASE k <= Len(s)
    BY <1>1, <2>1, <2>2 DEF Correo
  <2>3. CASE ~(k <= Len(s))
    <3>1. k - Len(s) \in 1..Len(t)
      BY <1>1, <2>1, <2>3
    <3> QED BY <1>2, <2>1, <2>3, <3>1 DEF Correo
  <2> QED BY <2>2, <2>3
<1>3. ASSUME NEW m \in Mensaje, m.que = "pcb" => PilaSana(m.pcb) PROVE Correo(Append(s, m))
  <2>1. /\ Len(Append(s, m)) = Len(s) + 1 /\ Append(s, m)[Len(s) + 1] = m
        /\ \A k \in 1..Len(s) : Append(s, m)[k] = s[k]
    BY AppendProperties
  <2>2. ASSUME NEW k \in 1..(Len(s) + 1) PROVE k \in 1..Len(s) \/ k = Len(s) + 1
    BY <1>1
  <2> QED BY <1>3, <2>1, <2>2 DEF Correo
<1>4. ASSUME s # <<>>
      PROVE  Correo(Tail(s)) /\ (Head(s).que = "pcb" => PilaSana(Head(s).pcb))
  <2>1. /\ Len(s) >= 1 /\ Head(s) = s[1] /\ Len(Tail(s)) = Len(s) - 1
        /\ \A k \in 1..Len(Tail(s)) : Tail(s)[k] = s[k + 1]
    BY <1>1, <1>4, EmptySeq, HeadTailProperties
  <2>2. \A k \in 1..Len(Tail(s)) : k + 1 \in 1..Len(s)
    BY <1>1, <2>1
  <2>3. 1 \in 1..Len(s)
    BY <1>1, <2>1
  <2> QED BY <2>1, <2>2, <2>3 DEF Correo
<1>5. ASSUME NEW n \in Nat, Len(s) > n PROVE Correo(SubSeq(s, n + 2, Len(s)))
  <2> DEFINE m == n + 2
             l == Len(s)
             t == SubSeq(s, m, l)
  <2>1. m \in Int /\ l \in Int
    BY <1>1
  <2>2. \A k \in m..l : s[k] \in Mensaje
    BY <1>1, ElementOfSeq
  <2>3. m >= 1
    OBVIOUS
  <2> HIDE DEF m, l
  <2>4. /\ Len(t) = IF m <= l THEN l - m + 1 ELSE 0
        /\ \A k \in 1..(l - m + 1) : t[k] = s[m + k - 1]
    BY <2>1, <2>2, SubSeqProperties
  <2> HIDE DEF t
  <2>5. ASSUME NEW k \in 1..Len(t) PROVE t[k] = s[m + k - 1] /\ m + k - 1 \in 1..l
    BY <2>1, <2>3, <2>4
  <2>6. Correo(t)
    BY <2>5 DEF Correo, l
  <2> QED BY <2>6 DEF t, m, l
<1> QED BY <1>2, <1>3, <1>4, <1>5

\* A header, a value, or nothing.
LEMMA CorreoSinPcb ==
    /\ Correo(<<>>)
    /\ \A q : Correo(<<Cabeza(q)>>)
    /\ \A q, r : Correo(<<Cabeza(q), Cabeza(r)>>)
    /\ \A n \in Nat : Correo(Veces(n))
    /\ \A q, p : PilaSana(p) => Correo(<<MsjPcb(p)>>) /\ Correo(<<Cabeza(q), MsjPcb(p)>>)
<1>1. \A q : Cabeza(q).que # "pcb"
  BY MensajesDistintos
<1>2. \A p : MsjPcb(p).pcb = p
  BY MensajesDistintos
<1>3. Dato.que # "pcb"
  BY MensajesDistintos
<1>4. \A n \in Nat : Correo(Veces(n))
  BY <1>3, VecesDespacio DEF Correo, Veces
<1>5. Correo(<<>>)
  BY DEF Correo
<1>6. ASSUME NEW a, a.que = "pcb" => PilaSana(a.pcb) PROVE Correo(<<a>>)
  BY <1>6 DEF Correo
<1>7. ASSUME NEW a, NEW b, a.que = "pcb" => PilaSana(a.pcb), b.que = "pcb" => PilaSana(b.pcb)
      PROVE  Correo(<<a, b>>)
  <2>1. Len(<<a, b>>) = 2 /\ <<a, b>>[1] = a /\ <<a, b>>[2] = b
    OBVIOUS
  <2>2. \A k \in 1..2 : k = 1 \/ k = 2
    OBVIOUS
  <2> QED BY <1>7, <2>1, <2>2 DEF Correo
<1> QED BY <1>1, <1>2, <1>4, <1>5, <1>6, <1>7

-----------------------------------------------------------------------------
(* The stacks, step by step.                                               *)

\* A step is good by what it leaves in each copy of the PCB.
LEMMA SanasDespues ==
    ASSUME PilaSana(pcbCpu'), PilaSana(pcbKernel'), Correo(aKernel'), Correo(aCpu'),
           KernelBien'
    PROVE  PilasSanas'
BY DEF PilasSanas, PilaSana, Alineada, Correo, DireccionesEnUso, DireccionDe,
       FinDePila, Separadas, posicionMemoria_a_puntero, TamanioVariable

\* The kernel is where it was.
LEMMA KernelQuieto ==
    ASSUME KernelBien, UNCHANGED <<kernel, proceso>>
    PROVE  KernelBien'
BY DEF KernelBien, Libre, Esperando, Leyendo, Destino, Pedidos, Lecturas

\* A step of the CPU that sends nothing.
LEMMA CpuCalladaSana ==
    ASSUME PilasSanas, SinKernel, PilaSana(pcbCpu')
    PROVE  PilasSanas'
BY KernelQuieto, SanasDespues DEF PilasSanas, SinKernel, SinMensajes

\* The primitives.
LEMMA PrimitivasSanas ==
    ASSUME IInv, PilasSanas, Enteras,
           \/ pedirInstruccionAMemoria \/ PedirParte \/ AccesoFallido \/ AccesoTerminado
           \/ definirVariable \/ DesbordarPila \/ dereferenciar \/ asignar \/ irAlLabel
           \/ llamarSinRetorno \/ llamarConRetorno \/ retornar
           \/ Avanza \/ ProgramaTermina
    PROVE  PilasSanas'
<1>0. pcbCpu \in Pcb /\ cpu \in EstadoDeCpu /\ PilaSana(pcbCpu)
  BY Tipado DEF PilasSanas
<1>1. CASE \/ pedirInstruccionAMemoria \/ PedirParte \/ dereferenciar \/ asignar \/ retornar
           \/ ProgramaTermina
  BY <1>0, <1>1, CpuCalladaSana
  DEF pedirInstruccionAMemoria, PedirParte, dereferenciar, asignar, Acceder, retornar,
      ProgramaTermina
<1>2. CASE DesbordarPila \/ irAlLabel \/ Avanza
  <2>1. /\ SinKernel
        /\ pcbCpu'.pila = pcbCpu.pila /\ pcbCpu'.pagina = pcbCpu.pagina
        /\ pcbCpu'.pos = pcbCpu.pos
    BY <1>0, <1>2 DEF DesbordarPila, Anormal, irAlLabel, Avanza, Pcb
  <2>2. PilaSana(pcbCpu')
    BY <1>0, <2>1, MismaPila
  <2> QED BY <2>2, <2>1, CpuCalladaSana
<1>3. CASE AccesoFallido
  <2> DEFINE b == acceso.tipo = "asignar" /\ Primitiva.op = "retornar"
             p == IF b THEN Saliendo(pcbCpu) ELSE pcbCpu
  <2>1. b => Len(pcbCpu.pila) > 1
    BY <1>3 DEF AccesoFallido, IInv, Retornando
  <2>2. p \in Pcb /\ PilaSana(p)
    BY <1>0, <2>1, SaliendoBien, SaliendoSana
  <2>3. pcbCpu' = [p EXCEPT !.anormal = TRUE] /\ SinKernel
    BY <1>3 DEF AccesoFallido
  <2> HIDE DEF p
  <2>4. /\ pcbCpu'.pila = p.pila /\ pcbCpu'.pagina = p.pagina /\ pcbCpu'.pos = p.pos
    BY <2>2, <2>3 DEF Pcb
  <2>5. PilaSana(pcbCpu')
    BY <2>2, <2>4, MismaPila
  <2> QED BY <2>3, <2>5, CpuCalladaSana
<1>4. CASE AccesoTerminado
  <2>1. SinKernel
    BY <1>4 DEF AccesoTerminado
  <2>2. CASE acceso.tipo # "instruccion" /\ Primitiva.op = "retornar"
    <3>1. Len(pcbCpu.pila) > 1
      BY <1>4, <2>2 DEF AccesoTerminado, IInv, Retornando
    <3>2. pcbCpu' = Saliendo(pcbCpu)
      BY <1>4, <2>2 DEF AccesoTerminado
    <3> QED BY <1>0, <2>1, <3>1, <3>2, SaliendoSana, CpuCalladaSana
  <2>3. CASE ~(acceso.tipo # "instruccion" /\ Primitiva.op = "retornar")
    <3>1. pcbCpu' = pcbCpu
      BY <1>4, <2>3 DEF AccesoTerminado
    <3> QED BY <1>0, <2>1, <3>1, CpuCalladaSana
  <2> QED BY <2>2, <2>3
<1>5. CASE definirVariable
  <2> DEFINE x == Primitiva
             r == registroActual
             fin == FinDePila(pcbCpu)
             a == [dir |-> fin, cpu |-> cpu.nombre]
             v == [id |-> x.id, dir |-> fin]
             n == IF x.argumento THEN [r EXCEPT !.args = Append(@, a)]
                  ELSE [r EXCEPT !.vars = Append(@, v)]
  <2>0. pcbCpu.pos + TamanioVariable <= TamanioPagina
    BY <1>0, <1>5, CabeAlineada DEF definirVariable, Enteras, PilaSana
  <2>1. /\ SinKernel /\ pcbCpu' = AvanzarFin(EnCima(pcbCpu, n)) /\ Ejecuta("definir")
        /\ pcbCpu.pagina # PaginasTotales /\ pcbCpu.pos + TamanioVariable <= TamanioPagina
    BY <1>5, <2>0 DEF definirVariable, HayPila
  <2>2. x.id \in Ids /\ fin \in Nat /\ r \in RegistroDePila /\ r = Last(pcbCpu.pila)
        /\ cpu.nombre \in Cpus
    BY <1>0, <2>1, EjecutaBien, Tipado, FinDePilaBien DEF EstadoDeCpu, registroActual
  <2>3. a \in Argumento /\ v \in Variable /\ a.dir = fin /\ v.dir = fin
    BY <2>2 DEF Argumento, Variable
  <2> HIDE DEF x, r, fin, a, v
  <2>4. /\ Append(r.args, a) \in Seq(Argumento) /\ Append(r.vars, v) \in Seq(Variable)
    BY <2>2, <2>3, AppendProperties DEF RegistroDePila
  <2>5. n \in RegistroDePila
    BY <2>2, <2>4 DEF RegistroDePila
  <2>6. \/ n.args = r.args /\ n.vars = Append(r.vars, v)
        \/ n.vars = r.vars /\ n.args = Append(r.args, a)
    BY <2>2 DEF RegistroDePila
  <2> HIDE DEF n
  <2>7. \/ /\ n.args = Last(pcbCpu.pila).args
           /\ \E y \in Variable : /\ y.dir = FinDePila(pcbCpu)
                                  /\ n.vars = Append(Last(pcbCpu.pila).vars, y)
        \/ /\ n.vars = Last(pcbCpu.pila).vars
           /\ \E y \in Argumento : /\ y.dir = FinDePila(pcbCpu)
                                   /\ n.args = Append(Last(pcbCpu.pila).args, y)
    BY <2>2, <2>3, <2>6 DEF fin
  <2>8. PilaSana(pcbCpu')
    BY <1>0, <2>1, <2>5, <2>7, DefinirSana
  <2> QED BY <2>1, <2>8, CpuCalladaSana
<1>6. ASSUME NEW d \in Nat, NEW s, NEW op, Ejecuta(op), Llamar(d, s)
      PROVE  PilasSanas'
  <2>1. /\ SinKernel /\ pcbCpu'.pila = Append(pcbCpu.pila, Registro(d))
        /\ pcbCpu'.pagina = pcbCpu.pagina /\ pcbCpu'.pos = pcbCpu.pos
    BY <1>0, <1>6 DEF Llamar, Pcb
  <2>2. /\ Registro(d) \in RegistroDePila
        /\ Registro(d).vars = <<>> /\ Registro(d).args = <<>>
    <3>1. pcbCpu.PC \in Nat
      BY <1>0 DEF Pcb
    <3>2. <<>> \in Seq(Variable) /\ <<>> \in Seq(Argumento)
      BY EmptySeq
    <3> QED BY <1>6, <3>1, <3>2 DEF Registro, RegistroDePila
  <2>3. PilaSana(pcbCpu')
    BY <1>0, <2>1, <2>2, LlamarSana
  <2> QED BY <2>1, <2>3, CpuCalladaSana
<1>7. CASE llamarSinRetorno
  BY <1>6, <1>7, 0 \in Nat DEF llamarSinRetorno
<1>8. CASE llamarConRetorno
  <2>1. Posiciones(Primitiva.id) \subseteq Nat
    BY DireccionesBien
  <2> QED BY <1>6, <1>8, <2>1 DEF llamarConRetorno
<1> QED BY <1>1, <1>2, <1>3, <1>4, <1>5, <1>7, <1>8

\* A step of the CPU that sends or reads something.
LEMMA CpuHablaSana ==
    ASSUME PilasSanas, SinMensajes, PilaSana(pcbCpu'), Correo(aKernel'), Correo(aCpu')
    PROVE  PilasSanas'
BY KernelQuieto, SanasDespues DEF PilasSanas, SinMensajes

\* The CPU talks.
LEMMA DialogoDeCpuSano ==
    ASSUME IInv, PilasSanas,
           \/ finalizar \/ PedirAlKernel \/ RespuestaNo \/ RespuestaSi
           \/ \E q \in {"SEGUI_EJECUTANDO", "CAMBIAR_PROCESO"} :
                RespuestaWait(q) \/ TermineContestado(q)
           \/ SentenciaTermina \/ EntregarPcb \/ RecibirPrograma \/ desconectarse
    PROVE  PilasSanas'
<1>0. /\ pcbCpu \in Pcb /\ pcbKernel \in Pcb /\ cpu \in EstadoDeCpu /\ aKernel \in Seq(Mensaje)
      /\ aCpu \in Seq(Mensaje)
      /\ PilaSana(pcbCpu) /\ Correo(aKernel) /\ Correo(aCpu)
  BY Tipado DEF PilasSanas, IInv
<1>1. ASSUME NEW q \in Rotulos
      PROVE  Cabeza(q) \in Mensaje /\ Correo(Append(aKernel, Cabeza(q)))
             /\ Correo(aKernel \o <<Cabeza(q)>>) /\ aKernel \o <<Cabeza(q)>> \in Seq(Mensaje)
  <2>1. Cabeza(q) \in Mensaje /\ Cabeza(q).que # "pcb"
    BY MensajesBien, MensajesDistintos
  <2>2. <<Cabeza(q)>> \in Seq(Mensaje) /\ Correo(<<Cabeza(q)>>)
    BY <2>1, CorreoSinPcb
  <2> QED BY <1>0, <2>1, <2>2, Correos, ConcatProperties
<1>2. CASE finalizar
  <2>1. /\ pcbCpu'.pila = pcbCpu.pila /\ pcbCpu'.pagina = pcbCpu.pagina
        /\ pcbCpu'.pos = pcbCpu.pos
    BY <1>0, <1>2 DEF finalizar, Pcb
  <2>2. PilaSana(pcbCpu')
    BY <1>0, <2>1, MismaPila
  <2>3. SinMensajes /\ aCpu' = aCpu
    BY <1>2 DEF finalizar
  <2>4. aKernel' = aKernel \/ aKernel' = Append(aKernel, Cabeza("PROGRAMA_TERMINADO"))
    BY <1>2 DEF finalizar
  <2>5. Correo(aKernel')
    BY <1>0, <1>1, <2>4 DEF Rotulos
  <2> QED BY <1>0, <2>2, <2>3, <2>5, CpuHablaSana
<1>3. CASE PedirAlKernel
  <2> DEFINE q == Primitiva.pedido
  <2>1. q \in Pedidos /\ Datos[q] \in Nat
    BY <1>3, EjecutaBien, LecturasBien DEF PedirAlKernel
  <2>2. Veces(Datos[q]) \in Seq(Mensaje) /\ Correo(Veces(Datos[q]))
    BY <2>1, MensajesBien, CorreoSinPcb
  <2>3. Correo(aKernel \o <<Cabeza(q)>>) /\ aKernel \o <<Cabeza(q)>> \in Seq(Mensaje)
    BY <1>1, <2>1 DEF Rotulos
  <2>4. Correo(aKernel')
    BY <1>3, <2>2, <2>3, Correos DEF PedirAlKernel
  <2> QED BY <1>0, <1>3, <2>4, CpuHablaSana DEF PedirAlKernel
<1>4. ASSUME NEW n \in Nat, ConsumeRespuesta(n), PilaSana(pcbCpu') PROVE PilasSanas'
  <2>1. Correo(SubSeq(aCpu, n + 2, Len(aCpu)))
    BY <1>0, <1>4, Correos DEF ConsumeRespuesta
  <2> QED BY <1>0, <1>4, <2>1, CpuHablaSana DEF ConsumeRespuesta
<1>5. CASE RespuestaNo
  <2>1. /\ pcbCpu'.pila = pcbCpu.pila /\ pcbCpu'.pagina = pcbCpu.pagina
        /\ pcbCpu'.pos = pcbCpu.pos
    BY <1>0, <1>5 DEF RespuestaNo, Anormal, Pcb
  <2>2. PilaSana(pcbCpu')
    BY <1>0, <2>1, MismaPila
  <2> QED BY <1>4, <1>5, <2>2, 0 \in Nat DEF RespuestaNo
<1>6. CASE RespuestaSi
  <2> DEFINE n == IF Primitiva.pedido \in ConDato THEN 1 ELSE 0
  <2>1. n \in Nat /\ ConsumeRespuesta(n) /\ pcbCpu' = pcbCpu
    BY <1>6 DEF RespuestaSi
  <2> HIDE DEF n
  <2> QED BY <1>0, <1>4, <2>1
<1>7. ASSUME NEW q, RespuestaWait(q) \/ TermineContestado(q) PROVE PilasSanas'
  <2>1. pcbCpu' = pcbCpu /\ \E n \in Nat : ConsumeRespuesta(n)
    BY <1>7, 0 \in Nat, 1 \in Nat DEF RespuestaWait, TermineContestado
  <2> QED BY <1>0, <1>4, <2>1
<1>8. CASE SentenciaTermina
  <2>1. /\ SinMensajes /\ aCpu' = aCpu /\ pcbCpu' = Volver(pcbCpu)
        /\ Sentencia.end /\ pcbCpu.sinRetorno => Len(pcbCpu.pila) > 1
    BY <1>8 DEF SentenciaTermina
  <2>2. PilaSana(pcbCpu')
    <3>1. CASE pcbCpu.sinRetorno /\ Sentencia.end
      <4>1. Saliendo(pcbCpu) \in Pcb /\ PilaSana(Saliendo(pcbCpu))
        BY <1>0, <2>1, <3>1, SaliendoBien, SaliendoSana
      <4> DEFINE p == Saliendo(pcbCpu)
      <4>2. pcbCpu' = [p EXCEPT !.sinRetorno = FALSE]
        BY <2>1, <3>1 DEF Volver
      <4>3. p \in Pcb /\ PilaSana(p)
        BY <4>1
      <4> HIDE DEF p
      <4>4. pcbCpu'.pila = p.pila /\ pcbCpu'.pagina = p.pagina /\ pcbCpu'.pos = p.pos
        BY <4>2, <4>3 DEF Pcb
      <4> QED BY <4>3, <4>4, MismaPila
    <3>2. CASE ~(pcbCpu.sinRetorno /\ Sentencia.end)
      BY <1>0, <2>1, <3>2 DEF Volver
    <3> QED BY <3>1, <3>2
  <2>3. aKernel' = aKernel \/ aKernel' = Append(aKernel, Cabeza("TERMINE_SENTENCIA"))
    BY <1>8 DEF SentenciaTermina
  <2>4. Correo(aKernel')
    BY <1>0, <1>1, <2>3 DEF Rotulos
  <2> QED BY <1>0, <2>1, <2>2, <2>4, CpuHablaSana
<1>9. MsjPcb(pcbCpu) \in Mensaje /\ <<MsjPcb(pcbCpu)>> \in Seq(Mensaje)
      /\ Correo(<<MsjPcb(pcbCpu)>>)
  <2>1. MsjPcb(pcbCpu) \in Mensaje
    BY <1>0, MensajesBien
  <2>2. Correo(<<MsjPcb(pcbCpu)>>)
    BY <1>0, CorreoSinPcb
  <2> QED BY <2>1, <2>2
<1>10. CASE EntregarPcb
  <2> DEFINE h == IF pcbCpu.anormal THEN <<Cabeza("ABORTAR_PROGRAMA")>> ELSE <<>>
  <2>1. h \in Seq(Mensaje) /\ Correo(h)
    <3>1. Cabeza("ABORTAR_PROGRAMA") \in Mensaje
      BY MensajesBien DEF Rotulos
    <3>2. <<Cabeza("ABORTAR_PROGRAMA")>> \in Seq(Mensaje) /\ <<>> \in Seq(Mensaje)
      BY <3>1
    <3> QED BY <3>2, CorreoSinPcb
  <2>2. aKernel' = (aKernel \o h) \o <<MsjPcb(pcbCpu)>>
    BY <1>10 DEF EntregarPcb
  <2> HIDE DEF h
  <2>3. Correo(aKernel \o h) /\ aKernel \o h \in Seq(Mensaje)
    BY <1>0, <2>1, Correos, ConcatProperties
  <2>4. Correo(aKernel')
    BY <1>9, <2>2, <2>3, Correos
  <2> QED BY <1>0, <1>10, <2>4, CpuHablaSana DEF EntregarPcb
<1>11. CASE RecibirPrograma
  <2>1. /\ Len(aCpu) = 2 /\ aCpu[2].que = "pcb" /\ pcbCpu' = aCpu[2].pcb /\ aCpu' = <<>>
        /\ SinMensajes /\ aKernel' = aKernel
    BY <1>11 DEF RecibirPrograma
  <2>2. PilaSana(pcbCpu')
    BY <1>0, <2>1, 2 \in 1..2 DEF Correo
  <2>3. Correo(aCpu')
    BY <2>1, CorreoSinPcb
  <2> QED BY <1>0, <2>1, <2>2, <2>3, CpuHablaSana
<1>12. CASE desconectarse
  <2> DEFINE t == <<Cabeza("ME_DESCONECTO"), MsjPcb(pcbCpu)>>
  <2>1. t \in Seq(Mensaje) /\ Correo(t)
    <3>1. Cabeza("ME_DESCONECTO") \in Mensaje
      BY MensajesBien DEF Rotulos
    <3>2. t \in Seq(Mensaje)
      BY <1>9, <3>1
    <3> QED BY <1>0, <3>2, CorreoSinPcb
  <2>2. aKernel' = aKernel \o t
    BY <1>12 DEF desconectarse
  <2> HIDE DEF t
  <2>3. Correo(aKernel')
    BY <1>0, <2>1, <2>2, Correos
  <2> QED BY <1>0, <1>12, <2>3, CpuHablaSana DEF desconectarse
<1> QED BY <1>2, <1>3, <1>5, <1>6, <1>7, <1>8, <1>10, <1>11, <1>12

\* What the kernel's thread goes to.
LEMMA KernelDespues ==
    ASSUME proceso' \in {"listo", "ejecutando", "bloqueado", "terminado", "abortado"},
           \/ kernel' = Libre \/ kernel' = [fase |-> "desfasado"]
           \/ \E h \in DOMAIN Destino : kernel' = Esperando(h)
           \/ \E q \in Pedidos, n \in Int : kernel' = Leyendo(q, n)
    PROVE  KernelBien'
BY DEF KernelBien, Libre, Esperando, Leyendo, Destino, Pedidos, Lecturas

\* The kernel reads and answers.
LEMMA KernelSanasPilas ==
    ASSUME IInv, PilasSanas, PasoDelKernel
    PROVE  PilasSanas'
<1>0. /\ pcbCpu \in Pcb /\ pcbKernel \in Pcb /\ aKernel \in Seq(Mensaje) /\ aCpu \in Seq(Mensaje)
      /\ PilaSana(pcbCpu) /\ PilaSana(pcbKernel) /\ Correo(aKernel) /\ Correo(aCpu)
      /\ KernelBien
      /\ proceso \in {"listo", "ejecutando", "bloqueado", "terminado", "abortado"}
  BY Tipado DEF PilasSanas, IInv, KernelBien
<1>1. ConPcb \subseteq DOMAIN Destino /\ {"quantum", "kill", "WAIT"} \subseteq DOMAIN Destino
  BY DEF ConPcb, Destino
<1>2. aKernel # <<>> =>
         Correo(Tail(aKernel)) /\ (Head(aKernel).que = "pcb" => PilaSana(Head(aKernel).pcb))
  BY <1>0, Correos
<1>3. KernelEn("datos") =>
         \E q \in Pedidos, n \in Int : kernel = Leyendo(q, n) /\ kernel.pedido = q /\ kernel.faltan = n
  BY <1>0, FasesDistintas DEF KernelBien, KernelEn
<1>4. KernelEn("pcb") => kernel.por \in DOMAIN Destino
  BY <1>0, FasesDistintas DEF KernelBien, KernelEn
<1>5. CASE LeerCabeza
  <2>1. /\ aKernel # <<>> /\ aKernel' = Tail(aKernel) /\ aCpu' = aCpu /\ pcbKernel' = pcbKernel
        /\ pcbCpu' = pcbCpu /\ proceso' = proceso
    BY <1>5 DEF LeerCabeza, Toma, DelKernel
  <2> DEFINE m == Head(aKernel)
  <2>2. \/ m.es \in Pedidos /\ kernel' = Leyendo(m.es, Lecturas[m.es])
        \/ m.es \in ConPcb /\ kernel' = Esperando(m.es)
        \/ kernel' = [fase |-> "desfasado"]
    BY <1>5 DEF LeerCabeza, Leyendo, Esperando, Desfase
  <2>3. m.es \in Pedidos => Lecturas[m.es] \in Int
    BY LecturasBien
  <2>4. KernelBien'
    BY <1>0, <1>1, <2>1, <2>2, <2>3, KernelDespues
  <2> QED BY <1>0, <1>2, <2>1, <2>4, SanasDespues
<1>6. CASE LeerDato
  <2>1. /\ aKernel # <<>> /\ aKernel' = Tail(aKernel) /\ aCpu' = aCpu /\ pcbKernel' = pcbKernel
        /\ pcbCpu' = pcbCpu /\ proceso' = proceso /\ KernelEn("datos")
        /\ kernel' = [kernel EXCEPT !.faltan = @ - 1] \/ kernel' = [fase |-> "desfasado"]
    BY <1>6 DEF LeerDato, Toma, DelKernel, Desfase
  <2>2. PICK q \in Pedidos, n \in Int : kernel = Leyendo(q, n)
    BY <1>3, <2>1
  <2>3. kernel' = Leyendo(q, n - 1) \/ kernel' = [fase |-> "desfasado"]
    BY <2>1, <2>2 DEF Leyendo
  <2>4. KernelBien'
    BY <1>0, <2>1, <2>2, <2>3, KernelDespues
  <2> QED BY <1>0, <1>2, <2>1, <2>4, SanasDespues
<1>7. ASSUME NEW s \in Seq(Mensaje), Correo(s), Contesta(s),
             kernel' = Libre \/ kernel' = Esperando("WAIT")
      PROVE  PilasSanas'
  <2>1. /\ aKernel' = aKernel /\ aCpu' = aCpu \o s /\ pcbKernel' = pcbKernel
        /\ pcbCpu' = pcbCpu /\ proceso' = proceso
    BY <1>7 DEF Contesta, DelKernel
  <2>2. Correo(aCpu')
    BY <1>0, <1>7, <2>1, Correos
  <2>3. KernelBien'
    BY <1>0, <1>1, <1>7, <2>1, KernelDespues
  <2> QED BY <1>0, <2>1, <2>2, <2>3, SanasDespues
<1>8. /\ Cabeza("SI") \in Mensaje /\ Cabeza("NO") \in Mensaje
      /\ Cabeza("SEGUI_EJECUTANDO") \in Mensaje /\ Cabeza("CAMBIAR_PROCESO") \in Mensaje
  BY MensajesBien DEF Rotulos
<1>9. CASE Atender
  <2> DEFINE n == IF kernel.pedido \in ConDato THEN 1 ELSE 0
  <2>1. n \in Nat
    OBVIOUS
  <2>2. Contesta(<<Cabeza("SI")>> \o Veces(n)) /\ kernel' = Libre
    BY <1>9 DEF Atender, Libre
  <2> HIDE DEF n
  <2>3. /\ Veces(n) \in Seq(Mensaje) /\ Correo(Veces(n)) /\ Correo(<<Cabeza("SI")>>)
        /\ <<Cabeza("SI")>> \in Seq(Mensaje)
    BY <1>8, <2>1, MensajesBien, CorreoSinPcb
  <2>4. <<Cabeza("SI")>> \o Veces(n) \in Seq(Mensaje) /\ Correo(<<Cabeza("SI")>> \o Veces(n))
    BY <2>3, ConcatProperties, Correos
  <2> QED BY <1>7, <2>2, <2>4
<1>10. CASE Negar
  <2>1. Contesta(<<Cabeza("NO")>>) /\ kernel' = Libre
    BY <1>10 DEF Negar, Libre
  <2>2. <<Cabeza("NO")>> \in Seq(Mensaje) /\ Correo(<<Cabeza("NO")>>)
    BY <1>8, CorreoSinPcb
  <2> QED BY <1>7, <2>1, <2>2
<1>11. CASE WaitSigue
  <2>1. Contesta(<<Cabeza("SI"), Cabeza("SEGUI_EJECUTANDO")>>) /\ kernel' = Libre
    BY <1>11 DEF WaitSigue, Libre
  <2>2. /\ <<Cabeza("SI"), Cabeza("SEGUI_EJECUTANDO")>> \in Seq(Mensaje)
        /\ Correo(<<Cabeza("SI"), Cabeza("SEGUI_EJECUTANDO")>>)
    BY <1>8, CorreoSinPcb
  <2> QED BY <1>7, <2>1, <2>2
<1>12. CASE WaitBloquea
  <2>1. Contesta(<<Cabeza("SI"), Cabeza("CAMBIAR_PROCESO")>>) /\ kernel' = Esperando("WAIT")
    BY <1>12 DEF WaitBloquea, Esperando
  <2>2. /\ <<Cabeza("SI"), Cabeza("CAMBIAR_PROCESO")>> \in Seq(Mensaje)
        /\ Correo(<<Cabeza("SI"), Cabeza("CAMBIAR_PROCESO")>>)
    BY <1>8, CorreoSinPcb
  <2> QED BY <1>7, <2>1, <2>2
<1>13. ASSUME NEW q \in Rotulos, NEW k, Planificar(q, k),
              k = Libre \/ \E h \in DOMAIN Destino : k = Esperando(h)
       PROVE  PilasSanas'
  <2>1. /\ aKernel # <<>> /\ aKernel' = Tail(aKernel) /\ aCpu' = Append(aCpu, Cabeza(q))
        /\ pcbKernel' = pcbKernel /\ pcbCpu' = pcbCpu /\ proceso' = proceso /\ kernel' = k
    BY <1>13 DEF Planificar, LeerTermine, Toma, DelKernel
  <2>2. Cabeza(q) \in Mensaje /\ Cabeza(q).que # "pcb"
    BY MensajesBien, MensajesDistintos
  <2>3. Correo(aCpu')
    BY <1>0, <2>1, <2>2, Correos
  <2>4. KernelBien'
    BY <1>0, <1>13, <2>1, KernelDespues
  <2> QED BY <1>0, <1>2, <2>1, <2>3, <2>4, SanasDespues
<1>14. CASE PlanificarSegui
  <2>1. Planificar("SEGUI_EJECUTANDO", Libre)
    BY <1>14 DEF PlanificarSegui, Libre
  <2> QED BY <1>13, <2>1 DEF Rotulos
<1>15. ASSUME NEW por \in {"quantum", "kill"}, PlanificarCambiar(por) PROVE PilasSanas'
  <2>1. Planificar("CAMBIAR_PROCESO", Esperando(por)) /\ por \in DOMAIN Destino
    BY <1>1, <1>15 DEF PlanificarCambiar, Esperando
  <2>2. "CAMBIAR_PROCESO" \in Rotulos
    BY DEF Rotulos
  <2>3. Esperando(por) = Libre \/ \E h \in DOMAIN Destino : Esperando(por) = Esperando(h)
    BY <2>1
  <2> QED BY <1>13, <2>1, <2>2, <2>3
<1>16. CASE RecibirPcb
  <2>1. /\ aKernel # <<>> /\ aKernel' = Tail(aKernel) /\ aCpu' = aCpu /\ pcbCpu' = pcbCpu
        /\ KernelEn("pcb")
    BY <1>16 DEF RecibirPcb, Toma, DelKernel
  <2>2. CASE Head(aKernel).que = "pcb"
    <3>1. /\ pcbKernel' = Head(aKernel).pcb /\ kernel' = Libre
          /\ proceso' \in Destino[kernel.por] \/ proceso' = proceso
      BY <1>16, <2>2 DEF RecibirPcb, Libre
    <3>2. \A h \in DOMAIN Destino :
            Destino[h] \subseteq {"listo", "ejecutando", "bloqueado", "terminado", "abortado"}
      BY DEF Destino
    <3>3. KernelBien'
      BY <1>0, <1>4, <2>1, <3>1, <3>2, KernelDespues
    <3> QED BY <1>0, <1>2, <2>1, <2>2, <3>1, <3>3, SanasDespues
  <2>3. CASE Head(aKernel).que # "pcb"
    <3>1. /\ pcbKernel' = pcbKernel /\ proceso' = proceso /\ kernel' = [fase |-> "desfasado"]
      BY <1>16, <2>3 DEF RecibirPcb, Desfase
    <3>2. KernelBien'
      BY <1>0, <3>1, KernelDespues
    <3> QED BY <1>0, <1>2, <2>1, <3>1, <3>2, SanasDespues
  <2> QED BY <2>2, <2>3
<1>17. CASE PlanificarDetenido
  <2>1. /\ aKernel # <<>> /\ aKernel' = Tail(aKernel) /\ pcbCpu' = pcbCpu
        /\ UNCHANGED <<pcbKernel, aCpu, kernel, proceso>>
    BY <1>17 DEF PlanificarDetenido, LeerTermine, Toma, DelKernel
  <2> QED BY <1>0, <1>2, <2>1, KernelQuieto, SanasDespues
<1> QED BY <1>5, <1>6, <1>9, <1>10, <1>11, <1>12, <1>14, <1>15, <1>16, <1>17 DEF PasoDelKernel

\* The PCB goes to another queue, or to a CPU.
LEMMA ColasSanas ==
    ASSUME IInv, PilasSanas, Despertar \/ \E c \in Cpus : Despachar(c)
    PROVE  PilasSanas'
<1>1. CASE Despertar
  <2>1. KernelBien'
    BY <1>1, KernelDespues DEF PilasSanas, KernelBien, Despertar
  <2> QED BY <1>1, <2>1, SanasDespues DEF PilasSanas, Despertar
<1>2. ASSUME NEW c \in Cpus, Despachar(c) PROVE PilasSanas'
  <2>1. KernelBien'
    BY <1>2, KernelDespues DEF PilasSanas, KernelBien, Despachar
  <2>2. Correo(<<Cabeza("EJECUTAR_PROGRAMA"), MsjPcb(pcbKernel)>>)
    BY CorreoSinPcb DEF PilasSanas
  <2> QED BY <1>2, <2>1, <2>2, SanasDespues DEF PilasSanas, Despachar
<1> QED BY <1>1, <1>2

\* A new program has nothing on its stack.
LEMMA PilasSanasInit == Init => PilasSanas
<1> SUFFICES ASSUME Init PROVE PilasSanas
  OBVIOUS
<1>1. /\ pcbCpu = PcbInicial /\ pcbKernel = PcbInicial /\ aKernel = <<>> /\ aCpu = <<>>
      /\ kernel = Libre /\ proceso = "listo"
  BY DEF Init, Libre
<1>2. /\ PcbInicial.pagina = PaginaDePila /\ PcbInicial.pos = 0
      /\ PcbInicial.pila = <<RegistroInicial>>
      /\ RegistroInicial.vars = <<>> /\ RegistroInicial.args = <<>>
  BY DEF PcbInicial, RegistroInicial
<1>3. DireccionesEnUso(PcbInicial) = {}
  <2> SUFFICES ASSUME NEW u \in DireccionesEnUso(PcbInicial) PROVE FALSE
    OBVIOUS
  <2>1. PICK k \in 1..Len(PcbInicial.pila) :
          \/ \E j \in 1..Len(PcbInicial.pila[k].vars) : u = <<k, 0, j>>
          \/ \E j \in 1..Len(PcbInicial.pila[k].args) : u = <<k, 1, j>>
    BY UsosDe
  <2>2. PcbInicial.pila[k] = RegistroInicial
    BY <1>2
  <2> QED BY <1>2, <2>1, <2>2
<1>4. PilaSana(PcbInicial)
  <2>1. Alineada(PcbInicial)
    BY <1>2 DEF Alineada, TamanioVariable
  <2> QED BY <1>2, <1>3, <2>1, PaginasAssumption DEF PilaSana
<1> QED BY <1>1, <1>4, CorreoSinPcb DEF PilasSanas, KernelBien

\* No step leaves a stack ill.
LEMMA PilasSanasPaso ==
    ASSUME IInv, PilasSanas, [Next]_vars, Enteras
    PROVE  PilasSanas'
<1>1. CASE PasoDeCpu
  <2>1. CASE \/ pedirInstruccionAMemoria \/ PedirParte \/ AccesoFallido \/ AccesoTerminado
             \/ definirVariable \/ DesbordarPila \/ dereferenciar \/ asignar \/ irAlLabel
             \/ llamarSinRetorno \/ llamarConRetorno \/ retornar
             \/ Avanza \/ ProgramaTermina
    BY <2>1, PrimitivasSanas
  <2>2. CASE \/ finalizar \/ PedirAlKernel \/ RespuestaNo \/ RespuestaSi
             \/ \E q \in {"SEGUI_EJECUTANDO", "CAMBIAR_PROCESO"} :
                  RespuestaWait(q) \/ TermineContestado(q)
             \/ SentenciaTermina \/ EntregarPcb \/ RecibirPrograma
    BY <2>2, DialogoDeCpuSano
  <2> QED BY <1>1, <2>1, <2>2 DEF PasoDeCpu
<1>2. CASE PasoDelKernel
  BY <1>2, KernelSanasPilas
<1>3. CASE desconectarse
  BY <1>3, DialogoDeCpuSano
<1>4. CASE Despertar \/ \E c \in Cpus : Despachar(c)
  BY <1>4, ColasSanas
<1>5. ASSUME UNCHANGED <<pcbCpu, pcbKernel, aKernel, aCpu, kernel, proceso>> PROVE PilasSanas'
  <2>1. KernelBien'
    BY <1>5, KernelQuieto DEF PilasSanas
  <2> QED BY <1>5, <2>1, SanasDespues DEF PilasSanas
<1>6. CASE DetenerPlanificacion \/ ReanudarPlanificacion
  BY <1>5, <1>6 DEF DetenerPlanificacion, ReanudarPlanificacion, Comando
<1>7. CASE UNCHANGED vars
  BY <1>5, <1>7 DEF vars
<1> QED BY <1>1, <1>2, <1>3, <1>4, <1>6, <1>7 DEF Next

\* The end of a stack is never past its pages.
LEMMA FinEnSuLugar ==
    ASSUME NEW p \in Pcb, PilaSana(p)
    PROVE  FinDePila(p) <= PaginasTotales * TamanioPagina
<1>1. /\ p.pos \in Nat /\ p.pos < TamanioPagina /\ p.pagina \in Nat /\ TamanioPagina \in Nat
      /\ PaginasTotales \in Nat /\ p.pagina <= PaginasTotales
      /\ p.pagina = PaginasTotales => p.pos = 0
  BY TamanioPaginaAssumption, PaginasAssumption DEF Pcb, PilaSana
<1>2. FinDePila(p) = p.pagina * TamanioPagina + p.pos
  BY DEF FinDePila, posicionMemoria_a_puntero
<1>3. p.pagina * TamanioPagina \in Nat /\ PaginasTotales * TamanioPagina \in Nat
  BY <1>1, SMT
<1>4. CASE p.pagina = PaginasTotales
  BY <1>1, <1>2, <1>3, <1>4
<1>5. CASE p.pagina # PaginasTotales
  <2>1. p.pagina + 1 <= PaginasTotales
    BY <1>1, <1>5
  <2>2. (p.pagina + 1) * TamanioPagina <= PaginasTotales * TamanioPagina
    BY <1>1, <2>1, SMT
  <2>3. (p.pagina + 1) * TamanioPagina = p.pagina * TamanioPagina + TamanioPagina
    BY <1>1, SMT
  <2> QED BY <1>1, <1>2, <1>3, <2>2, <2>3
<1> QED BY <1>4, <1>5

\* planificacionActivada, and whether the kernel left a CPU without an answer.
Banderas == activa \in BOOLEAN /\ callada \in BOOLEAN

LEMMA BanderasBien == Banderas /\ [Next]_vars => Banderas'
<1> SUFFICES ASSUME Banderas, [Next]_vars PROVE Banderas'
  OBVIOUS
<1>1. ASSUME SinMensajes \/ SinKernel \/ UNCHANGED <<activa, callada>> PROVE Banderas'
  BY <1>1 DEF Banderas, SinKernel, SinMensajes
<1>2. CASE PasoDeCpu \/ desconectarse
  BY <1>1, <1>2
  DEF PasoDeCpu, pedirInstruccionAMemoria, PedirParte, AccesoFallido, AccesoTerminado,
      definirVariable, DesbordarPila, dereferenciar, asignar, Acceder, irAlLabel, Llamar,
      llamarSinRetorno, llamarConRetorno, retornar, finalizar, PedirAlKernel, RespuestaNo,
      RespuestaSi, RespuestaWait, ConsumeRespuesta, TermineContestado, SentenciaTermina,
      Avanza, ProgramaTermina, EntregarPcb, RecibirPrograma, desconectarse
<1>3. CASE PasoDelKernel
  <2>1. CASE PlanificarDetenido
    BY <2>1 DEF Banderas, PlanificarDetenido, LeerTermine, DelKernel
  <2>2. CASE PasoDelKernel /\ ~PlanificarDetenido
    BY <1>1, <2>2
    DEF PasoDelKernel, LeerCabeza, LeerDato, Atender, Negar, WaitSigue, WaitBloquea, Contesta,
        PlanificarSegui, PlanificarCambiar, Planificar, LeerTermine, RecibirPcb, DelKernel
  <2> QED BY <1>3, <2>1, <2>2
<1>4. CASE Despertar \/ \E c \in Cpus : Despachar(c)
  BY <1>1, <1>4 DEF Despertar, Despachar
<1>5. CASE DetenerPlanificacion \/ ReanudarPlanificacion
  BY <1>5 DEF Banderas, DetenerPlanificacion, ReanudarPlanificacion, Comando
<1>6. CASE UNCHANGED vars
  BY <1>1, <1>6 DEF vars
<1> QED BY <1>2, <1>3, <1>4, <1>5, <1>6 DEF Next

\* The types of the model.
LEMMA TiposDeCpu == IInv /\ PilasSanas /\ Banderas => TypeOK
<1> SUFFICES ASSUME IInv, PilasSanas, Banderas PROVE TypeOK
  OBVIOUS
<1>1. cpu \in [nombre : Cpus, fase : Fases, linea : Nat, i : Nat,
               llamada : BOOLEAN, wait : BOOLEAN, cambio : BOOLEAN]
  BY Tipado DEF EstadoDeCpu
<1>2. kernel.fase \in {"select", "datos", "pcb", "desfasado"}
  BY FasesDistintas DEF PilasSanas, KernelBien
<1>3. proceso \in {"listo", "ejecutando", "bloqueado", "terminado", "abortado"}
  BY DEF PilasSanas, KernelBien
<1>4. AccesoTypeOK(acceso)
  BY DEF IInv, EnOrden, Acceso, AccesoTypeOK
<1>5. pcbCpu.pila # <<>> /\ pcbCpu.pos \in 0..(TamanioPagina - 1)
  BY Tipado DEF Pcb, Pila
<1>6. pcbCpu.pagina \in PaginaDePila..PaginasTotales
  BY DEF PilasSanas, PilaSana
<1> QED BY <1>1, <1>2, <1>3, <1>4, <1>5, <1>6 DEF TypeOK, Fases, Banderas

\* Whatever the scripts, and whatever the kernel answers, no variable nor
\* argument of the calls in course leaves the pages of the stack or shares a
\* byte with another one, wherever the PCB travels.
THEOREM VariablesNuncaSolapadas ==
    ASSUME TamanioPagina % TamanioVariable = 0 \/ "variablePartida" \notin Eventos
    PROVE  Spec => []VariablesSinSolaparse
<1>1. Init => IInv /\ PilasSanas /\ Banderas
  BY InvInit, PilasSanasInit DEF Init, Banderas
<1>2. (IInv /\ PilasSanas /\ Banderas) /\ [Next]_vars => (IInv /\ PilasSanas /\ Banderas)'
  BY InvPaso, PilasSanasPaso, BanderasBien DEF Enteras
<1>3. IInv /\ PilasSanas /\ Banderas => VariablesSinSolaparse
  <2> SUFFICES ASSUME IInv, PilasSanas, Banderas PROVE VariablesSinSolaparse
    OBVIOUS
  <2> DEFINE fin == FinDePila(pcbCpu)
             tope == PaginasTotales * TamanioPagina
             D(u) == DireccionDe(pcbCpu, u)
  <2>1. pcbCpu \in Pcb /\ PilaSana(pcbCpu)
    BY Tipado DEF PilasSanas
  <2>2. fin \in Nat /\ fin <= tope /\ tope \in Nat /\ TamanioVariable = 4
    <3>1. tope \in Nat
      BY TamanioPaginaAssumption, PaginasAssumption, SMT
    <3> QED BY <2>1, <3>1, FinDePilaBien, FinEnSuLugar DEF TamanioVariable
  <2>3. ASSUME NEW u \in DireccionesEnUso(pcbCpu)
        PROVE  /\ D(u) \in Nat /\ D(u) >= PaginaDePila * TamanioPagina
               /\ D(u) + TamanioVariable <= tope
    <3>1. D(u) \in Nat /\ D(u) >= PaginaDePila * TamanioPagina /\ D(u) + TamanioVariable <= fin
      BY <2>1, <2>3 DEF PilaSana
    <3> HIDE DEF fin, tope, D
    <3> QED BY <2>2, <3>1
  <2>4. ASSUME NEW u \in DireccionesEnUso(pcbCpu), NEW v \in DireccionesEnUso(pcbCpu),
               D(v) \in D(u)..(D(u) + TamanioVariable - 1)
        PROVE  u = v
    <3> SUFFICES ASSUME u # v PROVE FALSE
      OBVIOUS
    <3>1. Separadas(D(u), D(v))
      BY <2>1, <2>4 DEF PilaSana
    <3>2. D(u) \in Nat /\ D(v) \in Nat
      BY <2>3
    <3> HIDE DEF D
    <3> QED BY <2>2, <2>4, <3>1, <3>2 DEF Separadas
  <2> QED BY <2>3, <2>4, TiposDeCpu DEF VariablesSinSolaparse
<1> QED BY <1>1, <1>2, <1>3, PTL DEF Spec
=============================================================================

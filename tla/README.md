# Verification of the kernel, memory, file system, CPU and console of SO_Commons_2017

The repository is a distributed operating-system simulator in C: five kinds of
processes (kernel, memory, file system, CPU, console) that talk over TCP
sockets. The live program is under `src/Segundo tp/`; `src/Kernel`, `src/CPU`,
`src/Memoria`, `src/FileSystem` and `src/Consola` are an abandoned first
version that only exchanges a text, and `src/Commons` is its socket helper.
Paths below are relative to `src/Segundo tp/`.

## 1. Inventory

| Component | State | Operations | Talks to |
| --- | --- | --- | --- |
| Kernel: process table (`kernel/src/pcbOperaciones.c`) | five PCB queues, `cantidadDeProcesosEnSistema`, exit codes, `sem_bloqueado_por`, console list | `crearPcb`, the `pasarPcb*` moves, `pasarPcbAFinalizados`, `limpiarSemaforosProceso`, `reemplazarPcbEnEjecutando` | called by every kernel handler |
| Kernel: scheduling (`planificacion.c`) | `cpusLibres`, `cpusOcupadas`, quantum and PID of each CPU, `procesosADestruir`, `planificacionActivada`, the level | `planificar`, `pasarProximoProcDeNewAReady`, `ejecutarSiguientePcbEnCpu`, `matarProceso`, abort on behalf of a CPU or a console | CPUs, consoles, memory |
| Kernel: CPU messages (`conexionesKernelCpu.c`) | semaphores, shared variables | handshake, end of file, TERMINE_SENTENCIA, PROGRAMA_TERMINADO, ABORTAR_PROGRAMA, ME_DESCONECTO, WAIT, SIGNAL, shared variables, RESERVAR/LIBERAR, files | CPU |
| Kernel: console messages (`conexionesKernelConsola.c`) | `listaProgramaSocketPid` | start, finish, disconnection | console |
| Kernel: commands (`consolaKernel.c`) | the level, `planificacionActivada` | `multiprogramacion`, `kill`, `stop`, `restart`, listings | scheduling |
| Kernel: heap (`capaMemoria.c`, `manejo_heap.c`) | table of heap pages, the blocks of each | reserve, free, compact | memory |
| Kernel: file tables (`capaFs.c`, `conexionesKernelFs.c`) | global and per-process tables, cursors | open, close, read, write, move, delete | file system |
| Kernel: requests to memory (`conexionesKernelMemoria.c`) | none | start, end, more pages, read, write | memory |
| Kernel: select loop (`kernel.c`, `rocketLibrary/connections/networkHandler.c`) | descriptors | one event at a time | all sockets |
| Memory (`memoria/src/gestionDeMemoria.c`, `estructurasAdministrativas.c`, `memoria.c`) | inverted page table with hashing and overflow, frames, LRU cache and its counters | start, assign, free, end, read, write, flush | kernel, CPUs: one thread per connection |
| File system (`filesystem/src/logicaFileSystem.c`, `filesystem.c`) | bitmap, metadata files, blocks on disk | create, validate, read, write, delete | kernel |
| CPU (`cpu/src`) | the PCB it runs, SIGUSR1 flag | sentence loop, AnSISOP primitives, abort, disconnection | kernel, memory |
| Console (`consola/src`) | list of program threads | start, finish, disconnect | kernel |
| rocketLibrary | none of its own | messages, PCB serialisation, files, threads | linked into all |

Behaviours that are hard, and what makes each component correct:

- **Scheduling.** Each handler has to leave four descriptions of the same
  thing in agreement: the queues, the two CPU lists with the PID of each
  entry, what each CPU really holds, and what consoles and memory were told.
  CPUs and consoles leave or die at any point; a process can be asked to end
  while it runs, waits or is in transit; `stop` turns every queue move off but
  not the calls around it. Correct: a PCB is in one queue, the counter agrees,
  nobody waits while there is room, a program that started ends, its console
  is told once and the truth.
- **Memory.** One thread per connection over a table, frames and cache with
  several locks. Correct: a read returns the last write of that process, a
  frame has one owner, the cache never shows a page of a finished process.
- **Heap.** The page number the kernel keeps and the one memory keeps are
  computed in different ways. Correct: blocks do not overlap, and both agree.
- **File tables and file system.** Descriptors are indices in lists that
  shrink; bitmap and metadata are written one after the other. Correct: a
  descriptor names the same file until it is closed, a block has one owner,
  also after a crash.
- **CPU protocol.** A signal handler sends messages in the middle of an
  exchange; an error reply leaves unread bytes. Correct: each side reads what
  the other wrote.

The hazards are listed at their lines in `PROJECT.json`, each with the
properties that would catch it.

## 2. The modules

| Part | Detailed | Promise it implements | Proofs |
| --- | --- | --- | --- |
| Kernel: process table, scheduling, connections | `PcbOperaciones`, `Planificacion`, `KernelPlanificador` | – | `PcbOperaciones_proofs`, `Planificacion_proofs`, `KernelPlanificador_proofs` |
| Memory | `Memoria` | `MemoriaPaginada` | `Memoria_proofs` |
| Kernel's heap, with the pages of memory | `Heap` | `Reservas` | `Heap_proofs` |
| Kernel's file tables over the file system | `FileSystem`, `CapaFs` | `Archivos` | `CapaFs_proofs` |
| CPU and its two dialogues | `AccesoMemoria`, `Cpu` | `Programa` | `Cpu_proofs` |

`Secuencias_proofs` holds the lemmas about `list_find`, `list_remove` and
`list_add_in_index` the others share. `MC<part>` gives constants their values
for TLC, `MC<part>_<run>.cfg` is one run. Definitions keep the name of the C
function they translate where it is one; an operator called `Defecto...` is a
copy of its neighbour with a plausible slip, used only to see that a property
can tell the difference.

A detailed module states what it promises with `INSTANCE ... WITH`: the
variables of the abstract module are functions of its own, and the run checks
the abstract specification as a property.

Two compositions matter: `CapaFs` EXTENDS `FileSystem` (the kernel blocks in
`recv` while the file system serves one request, so a step is of one of the
two, and a crash of the file system falls between any two of its writes), and
`Heap` carries the part of memory it depends on, how pages are numbered. The
scheduler, the heap, the tables of files and the protocol of a CPU share no
state inside the kernel but the PCB, so they are checked apart; where one needs
a fact of another, it is named below as an assumption.

Every module has a constant `Eventos`: the disturbances an instance lets
happen. An action, or a conjunct of its guard, names the disturbance that
switches it on. A run fixes the set under which the code keeps its properties;
section 9 lists what happens with the others.

## 3. The kernel's scheduler

### Modules

- `PcbOperaciones` – the process table. `Sistema` is a record with the
  kernel's globals and, because handlers write to sockets, with what is at the
  far end of each: the PCB a CPU holds (`enCpu`, `ecCopia`), what it is doing
  (`modo`), the console threads (`consola`) and what they were told (`avisos`),
  and the processes memory holds pages of (`paginas`).
- `Planificacion` – what a handler calls, as operators from record to record,
  composed in the order of the C code.
- `KernelPlanificador` – the state machine: `sistema` and `restan` (sentences
  each program may still run), one action per message, end of file or command,
  the fairness and the properties.

Correspondence in short: the kernel is one thread in a `select()` loop
(`librocket_levantarServidorDelKernel`), so a handler is one step, and the
guard `EnSelect` says the loop is at its top. What the outside answers inside
a handler is `x \in Respuestas`: whether memory grants pages, what an
uninitialised pointer or a dead stack frame holds. The one command that loops
over memory requests (`multiprogramacion`) takes one step per round. The
steps of CPUs and consoles that the kernel's socket can see are actions of
their own: a console that asks to finish or closes (`ConsolaPideFinalizar`,
`ConsolaCierra`), a CPU that dies (`CaidaCpu`).

A PCB is its PID: `pcb->estado` and the queue are always written together.
`EC` of the kernel's copy (`ec`) and of the CPU's copy (`ecCopia`) are kept
apart, because one replaces the other when the PCB comes back. The kernel
stops being a kernel in three ways, kept in `vivo`: it dereferences NULL
(`caido`), it waits for bytes nobody sends (`colgado`), or a CPU received a
message it was not waiting for and reads PCB bytes as protocol codes
(`desincronizado`). Nothing happens after that.

Undefined behaviour is nondeterministic: `&pid` of a returned frame in
`procesosADestruir` (`colgados`, `x.colgado`), the CPU pointer of `planificar`
(`x.cpu`), the size of a code that did not arrive (`x.basura`), the PID of a
new CPU entry (`PidSinInicializar`), and that of an entry freed while a second
one points to it.

### Bounds

`MaxPid` programs, `MaxSentencias` sentences each, `MaxKills` dangling flags at
a time, `Grados` the levels, `PidSinInicializar` the garbage PIDs, `Eventos`
the disturbances a run lets happen (each action they switch is guarded by its
name; what a run does not let happen is listed with the run). Two CPUs and
three programs are what it takes to have a process running on one CPU, one
finishing on the other and one waiting; the runs about CPUs that leave use
three CPUs, so that one leaves, one runs and one is free. One sentence per
program with quantum 1 already makes every quantum end; the run about planning
uses quantum 2 and two sentences for the case in which it does not.
One semaphore with no units makes the first WAIT block. Deadlock is not
checked: a program runs a bounded number of sentences and then nothing moves.

### Combinations that fail

Some combinations were tried and fail without any text to hold against the
code:

- `TrabajoConservado` fails with aborts: `pedidoAbortarProgramaDeCpu` frees
  the CPU and admits a NEW process, and plans only if it admitted one. With
  SIGUSR1 (`desconecta`) it takes four programs: the CPU that left heads
  `cpusLibres`, and what the next CPU to be free should run is planned there.
- `KernelSano` fails with finish, close or kill: a CPU that is listed as free
  while it runs (`EncuentraLaCpu`, section 9) is dispatched to again.
- `FinalizadoSinPaginas` fails when a CPU dies after a refused allocation: the
  process is already finished, so nobody frees its pages.
- `SemaforoCuentaBloqueados` fails with `stop` (a WAIT changes the semaphore
  and not the queue) and with a CPU that dies with a garbage PID.
- `AdmiteSegunNivel` fails when the operator lowers the level: every process
  that ends lets one in above it, because `pasarProximoProcDeNewAReady` does
  not look at the level. It fails too with `malloc` and with a CPU that dies: the
  CPU gives back a process that was finished before, and the NEW one that is
  let in then takes a slot that a new program has already taken.
- `AdmisionConservada` fails when memory rejects a NEW process (nobody takes
  the slot), and with `stop` in the middle of the operator's command.
- `NingunPcbPerdido` fails when memory rejects a NEW process: it was already
  taken out of `colaNuevos`, and `pasarPcbDeNuevoAFinalizados` does not find
  it; its console is told all the same (the code memory's refusal left in the
  PCB, `SinMemoria`).
- With `stop`, PROGRAMA_TERMINADO tells the console and leaves the process in
  `colaEjecutando`.
- A console is told twice, with two codes, of a process that asks for more than
  a page: once by `pedido_bloque_memoria` and once when the CPU aborts.
- The console of a NEW process that `kill` ends is never told.

### Fairness

`SpecJusta` adds four weak fairness conditions: some CPU that can connect
does, some CPU that has something to send sends it and the kernel reads it,
the kernel reads some console that has a message, and the admission loop goes
on. They hold because `select()` returns while any descriptor has something and
the loop serves all that it returned; a CPU with a PCB runs its next sentence
without waiting for anybody. They are weaker than fairness for each CPU:
nothing says that a particular CPU gets on. No fairness is assumed of the
operator, of new programs, or of failures. The liveness run has no
semaphores, since a program that waits for a SIGNAL nobody sends does not end.

## 4. Memory

`Memoria` is the process: `tabla` (the inverted page table: the owner of each
frame), `marco` (contents), `cache` (most recently used first), `contador` and
`vacios` (what `cantidadPaginasCacheadas` means in the entry of a process and
in the first entry), `mutex` (`mutex_cache`), and for each connection its
thread: `pc`, the request `pedido` and the frame `encontrado`. A page's
contents is one value; offsets inside it are `AccesoMemoria`'s.

Steps are cut where the C code lets another thread in. `leerDato` of a cached
page is one step; a miss finds the frame, keeps the mutex through
`usleep(retardoMemoria)`, then copies and inserts (`LeerFallaCache`,
`LeerDeMarco`). `escribirDato` looks the frame up *before* the delay and
*without* the mutex, and writes after both (`EscribirBuscaMarco`,
`EscribirEnMarco`). The loops of the kernel's thread over pages take one step
per entry of the table, because nothing locks the table: `tarea` says how far
the loop is. The search is the code's: from the hash, around the table, first
match (`Primero`). `viva` is false once the eviction dereferences NULL.

Two rules come from the other processes and are guards: a process runs on one
CPU at a time and that CPU waits for the kernel while the kernel works for it,
so no two requests name one process; the kernel ends a process when no CPU runs
it. `finEnVuelo` drops the second.

Bounds: two processes, two CPUs and the kernel, three frames of which the table
takes one (so a second process runs out and a loop has to be undone), pages
0 to 2, two cache entries with one per process (local and global eviction), two
values. `memoria_vivacidad` shrinks pages and cache to one and lets the
operator flush.

Fairness (`SpecJusta`): weak for a thread that needs no lock and for the loop
over pages (the code never waits there); strong for the steps that need
`mutex_cache`. The last is an assumption on `pthread_mutex_lock`: a thread that
let the mutex go has to answer through its socket and wait for its next request
before it competes again. Nothing is assumed of requests or of the operator.

`MemoriaPaginada` is a map from pages to values in which requests happen at one
instant. The kernel's request for pages has two instants, its reception
(`solicitud`, how many and for whom) and its answer: yes exactly when all the
pages asked for fit, and then it has them all. A page holds no promised value
before its first write, nor after it was given back.

## 5. Files

`FileSystem`: `usados` (the bitmap), `existe` and `bloquesDe` (metadata files
and their BLOQUES, `<<>>` between `fopen "w"` and the write), `bloque`,
`libres` (`cantidadBloquesLibres`, stale on purpose), `orden` and `fase` (the
request and how far it got). Creating is metadata, BLOQUES, bit; deleting is
one bit per step, then the file; writing marks bits, rewrites the metadata,
then one block per step. `Caer` may fall between any two, and `FsReiniciar`
reads the disk again and recomputes only the number of free blocks.

`CapaFs`: `gft` (`globalFileTable`), `pft` (the table of each process without
its three first entries), `llamada` (the syscall that waits for the file
system), one action per answer. `programa` is auxiliary: the file each
descriptor was opened for. `Finalizar` is `checkSiDejoArchivosAbiertos`, which
five of the paths that end a process call; PROGRAMA_TERMINADO does not, so a
program that ends normally is taken to have closed its files.

Bytes are C strings in `leerArchivoFs`: what comes after a byte that is 0 is
lost, and the blocks of a deleted file are given to the next one with what they
held (`Basura` and `Leido` model both). A file stays in the tables after it is
deleted; using it then ends the file system (`LeerMetadataInexistente`,
`usoTrasBorrar`).

Bounds: two files, two blocks of two cells, one write of two different bytes
at position 0 or 1 (so it falls in one block or in two), two processes with one
descriptor each, one crash and restart. Two blocks are enough for a file to
grow, for another to find none and for a freed block to be given again.

`Archivos` promises what a program sees: a descriptor is its file until it is
closed; a read returns what was written; a request touches no other file; a
crash closes everything and may spoil the one file that was being written. It
leaves the cursor after a read open, because `capaFs.c:581` sets it to
`+tamanio` where it should add.

## 6. Heap

`Heap`: `tablaHeap` (`nodo_tabla_heap`: PID, page number, blocks with offset,
size, `isUsed` and the "special" block at the end), `compactando` (the page
`compactar` works on after it answered, one round trip with memory per step),
`paginasDe` and `marcosLibres` (memory's view), `estado` of each program.
`ReservarPaginaNueva` asks memory for a page, which numbers it by how many the
process has (`CuantasPaginas`), and writes headers in the one the kernel
numbers by the largest it knows (`NumeroNuevo`). `Liberar` takes any address of
a block, used or not: freeing twice is accepted.

Bounds: page of 21 bytes and headers of 5, requests of 1, 3 and 12, so a page
holds one, two or three blocks and a rest may or may not be worth splitting;
two programs with different numbers of fixed pages, two frames. `heap_rechazo`
has one program and three frames, so that an inner page can go.

`Reservas` promises regions of one page that overlap nothing the program has,
stay where they are, and go when they are freed or the program ends. It also
says that the region is at least what was asked for and at most a header more.

## 7. CPU

`Cpu` is one process as the CPUs run it: `pcbCpu`, `pcbKernel` and the PCB on
the wire are three copies; `aKernel` and `aCpu` are the two directions of the
socket, message by message; `kernel` is what the kernel's only thread is
reading from it; `cpu` the loop of `ejecutarPrograma` with its flags. A script
is a sequence of sentences, each with the primitives the parser calls; the
parser is a library. `AccesoMemoria` is `pedidosMemoria.c`: the split of an
access in requests of one page, with its comparisons as they are (`<` for
variables, `<=` for instructions). `VariableEntera` says that a variable is
never read or written in more than one piece: what the code does with a second
piece (section 9) is then out of reach. `variablePartida` is always on, so that
it, and that variables do not overlap, follow from the arithmetic of the stack
and not from a guard.

`stop` and `restart` are the operator's (`activa`; `DetenerPlanificacion`,
`ReanudarPlanificacion`). While planning is stopped the kernel still reads and
answers requests, but `planificar` returns at once: a TERMINE_SENTENCIA is read
and nothing is answered, then or after `restart` (`PlanificarDetenido`), and
the CPU waits in `termine_sentencia` with the program for good. `callada` marks
that it happened. Nor is a PCB that comes back moved: it stays in
`colaEjecutando` and the process is not dispatched again. `NadieEsperaANadie`
excuses the CPU in `termine_sentencia` with `callada`, `VuelveElPcb` the
program with `callada`, and nothing else: a CPU inside a request, or one whose
sentence ends while planning is active, gets its answer however often the
operator stops and restarts. `SinDesfase` and `PromesaDePrograma` excuse
nothing.

The primitives on files are one request each with its messages; what they do to
descriptors is `CapaFs`'. The kernel's answers are free where they depend on
other processes: quantum, kill, a semaphore that blocks, a refusal.

Assumptions on scripts, which the parser's language gives: WAIT is a sentence
of its own, a script ends with `finalizar`, `retornar` is only in functions, and
a procedure does not return a value.

Bounds: pages of 8 bytes (a variable is half of one), a stack of one page, so
two variables fit and the third overflows, two CPUs, three scripts written to
reach calls, functions with arguments, jumps, files, shared variables and stack
overflow, one that jumps back for ever, and every pair of requests one after
the other; sentences start and end at every kind of place in a page. The
operator stops and restarts planning at any time, as often as it likes.

Fairness: weak for the CPU's thread and for the kernel's. Each is one loop that
blocks only in `recv`, and an action is enabled only when what it would wait
for is there. Strong for `PlanificarCambiar("quantum")`, the answer
CAMBIAR_PROCESO: with round robin `planificar` adds one to the quantum a CPU
has used at each sentence and gives that answer when it reaches the limit, so a
program that ends sentences for ever is told to leave. Under FIFO it is not,
and a program that never ends never gives its PCB back. Nothing is assumed of
the operator.

`Programa` runs the same script with no PCB to move, no socket and no pages:
sentences and primitives once and in order, the stack of calls, each request
attended once. It may be aborted at any point.

## 8. Runs

| Run | States | Checks | Disturbances |
| --- | --- | --- | --- |
| `planificacion` | 124,024 | `TrabajoConservado`: no greeted CPU idles while a process is ready. `AdmisionConservada`: no NEW process waits while the level has room. `KernelSano`: no CPU gets a PCB it does not wait for | level changes |
| `desconexiones` | 80,764 | `CpuYProcesoConcuerdan`: queues, CPU lists and CPUs agree. `NingunPcbPerdido`. `TerminadoFueraDeCpu`: no process is finished under another CPU. `AdmiteSegunNivel` | SIGUSR1, aborts, late handshakes |
| `semaforos` | 320,974 | `SemaforoCuentaBloqueados`: a negative value is the number of blocked processes | kills, aborts, refused allocations; no quantum (FIFO) |
| `consolas` | 1,138,880 | `AvisoVeraz`, `ConsolaEnterada`, `FinalizadoSinPaginas` | finish, close, aborts, CPU deaths |
| `operador` | 633,367 | `TypeOK`, `CantidadCoherente`, `PcbEnUnaSolaCola`, `UnaCpuPorProceso`; `MarcadoNoVuelve`: a flagged process is never queued again | stop, restart, refused memory, finish, CPU deaths, late handshakes, garbage PIDs |
| `vivacidad` | 1,107 | `TodosTerminan`: every program that starts ends | level changes |
| `memoria_paginas` | 311,293 | `MarcoSigueSiendoSuyo`: the frame found before the delay is still the page's. `CacheCoherente`, `CuentasDeCache`, `SoloCaePorEntradasPerdidas`: memory dies only for cache entries a local eviction lost. `Promesa`: it implements `MemoriaPaginada` | none |
| `memoria_vivacidad` | 76,985 | `PedidoAtendido`, `TareaTermina`: requests are answered and loops over pages end, unless memory dies | flush |
| `archivos` | 214,786 | `DescriptorFiel`, `AbiertosCuenta`, `BloquesSinCompartir`; `PromesaDeArchivos`: it implements `Archivos` | a crash during a write |
| `heap` | 309,452 | `BloquesEnMosaico`, `SinVecinosLibres`, `SinPaginasOciosas`, `MismasPaginas`; `PromesaDeReservas`: it implements `Reservas` | none |
| `cpu` | 229,136 | `SinDesfase`: each side reads what the other wrote. `NadieEsperaANadie`: no CPU waits for nothing but one whose sentence ended while planning was stopped. `AccesoExacto`, `VariableEntera`, `VariablesSinSolaparse`. `PromesaDePrograma`: it implements `Programa`. `VuelveElPcb`: a PCB that was handed out comes back | stop, restart; quantum, kills, memory errors and SIGUSR1 are always there |
| `heap_rechazo` | – | ends in a violation of `RechazoSoloSinMemoria` | an inner heap page is given back |

`heap_rechazo` is the finding: `calcular_numero_nuevapagina`
(`manejo_heap.c:670`) and memory number a new page differently once a page that
is not the last was given back, so the headers are written to a page that does
not exist and the program is refused, with memory free.
`protocols.h:150` says MEMORIA_INSUFICIENTE is for when there are no pages.

Deadlock is checked in no run: programs run a bounded number of sentences or
end, consoles go, memory and file system may die, and then nothing moves.
`NadieEsperaANadie`, `PedidoAtendido`, `TareaTermina`, `VuelveElPcb` and
`TodosTerminan` say what deadlock freedom would.

Each property has a mutant, listed in `PROJECT.json`, under which TLC finds it
violated.

## 9. Statements the code does not keep

Definitions of the modules that say what a comment, a document or the code
around promises, and that TLC violates with the constants given. They are not
part of the runs; to see one, put it in the configuration of its module with
those constants.

| Definition | Module | With | What the code does |
| --- | --- | --- | --- |
| `KillDejaMarca` | `KernelPlanificador` | `kill` | `planificacion.c:392` stores the address of a parameter; `kernel.h:140` says the list holds PIDs |
| `EncuentraLaCpu` | `KernelPlanificador` | `finalizar`, two CPUs, `MaxPid` 3 | a CPU runs while listed as free, and `pcbOperaciones.c:435` does not find it |
| `ReanudarDespierta` | `KernelPlanificador` | `stop`, `SpecJusta` | `consolaKernel.c:96` resumes planning; the CPU whose sentence ended meanwhile is never answered; in `Cpu` it is the one `callada` marks |
| `NingunPcbPerdido` | `KernelPlanificador` | `stop` | a program accepted while stopped is in no queue |
| `TerminadoFueraDeCpu` | `KernelPlanificador` | `caidaCpu`, three CPUs | the end of an idle CPU finishes a process another one runs (`conexionesKernelCpu.c:192`) |
| `AdmisionConservada` | `KernelPlanificador` | `finalizar` | a console frees a slot and nobody is admitted (`conexionesKernelConsola.c:155`) |
| `MemoriaSobreviveAlFlush` | `Memoria` | `flush` | `flush` leaves the counters of the processes: a later local eviction dereferences NULL; `memoria.c:23` offers it as a normal command |
| `Promesa` | `Memoria` | `punteroColgado` | `LIBERAR_PAGINA` keeps the cached copy, and a read of the page that is gone answers from it |
| `CacheCoherente`, `Promesa` | `Memoria` | `hueco`, with 4 frames | pages are numbered by how many there are: a second frame gets the number of a page the process has |
| `CacheCoherente`, `Promesa` | `Memoria` | `finEnVuelo` | the request in flight caches, or writes, a page of a process that is gone |
| `MarcoSigueSiendoSuyo` | `Memoria` | `finEnVuelo` | a write already past its lookup goes to a frame that changed hands |
| `DescriptorFiel` | `CapaFs` | `cierreIntermedio` | closing a file renumbers the later descriptors; `capaFs.c:44` says the descriptor is its entry |
| `AbiertosCuenta` | `CapaFs` | `finConVarios`, two descriptors | `checkSiDejoArchivosAbiertos` removes by index from a list it walks |
| `SinEspacioDeVerdad` | `CapaFs` | any | creation trusts a count of free blocks made at start-up or at the last write (`filesystem.c:482`) |
| `PromesaDeArchivos`, `BloquesSinCompartir` | `CapaFs` | `caidaCrear`, `caidaBorrar` | a crash between metadata and bitmap leaves a file the restart cannot read, or blocks that are free and still named |
| `PromesaDeReservas` | `Heap` | `mismoNumero` | `buscar_primer_bloque_libre` ignores the PID of the page |
| `MismasPaginas` | `Heap` | `hueco` | see `heap_rechazo` |
| `SinDesfase` | `Cpu` | `asignarInexistente` | the kernel answers before it reads the value: it stays in the socket |
| `SinDesfase` | `Cpu` | `senalEnPedido` | SIGUSR1 inside an exchange sends ME_DESCONECTO where a value is expected |
| `PromesaDePrograma` | `Cpu` | `anidadas`, `MCAnidado` | nested calls without return share one flag: the outer one goes on as if it had returned |
| `ArgumentosLlegan` | `Cpu` | `migracion`, `MCFuncion` | `structs.c:81` and `:171`: arguments travel as pointers of the CPU that left |
| `VariablesSinSolaparse`, `VariableEntera` | `Cpu` | `variablePartida`, page size not a multiple of 4 | `primitivas.c:44` asks only whether the stack's pages are full: the last variable begins in its last page and ends past it, and one at a page border is in two pieces |

Other facts met on the way, which no definition states: positions of a variable
that does not exist give the last one's; `fin_stack` is not moved back on
return; a memory error leaves `instruccionActual` uninitialised; a global entry
of a file is compared but its `FILE` is never closed; the second piece of a
variable split between two pages is read to `&valorPedido + bytes_leidos`, four
bytes further for each byte (`pedidosMemoria.c:160`), and written with the
value from its first byte again, which needs a page size that is not a multiple
of four or an address the stack did not give; the kernel exits if the
file system dies inside a write; `librocket_recibirMensaje` returns 1 after an
end of file in its recursive call.

## 10. What is proved

TLAPS proves, for every value of the constants that meets the named assumptions
of the modules (sizes are naturals, the header fits in a page, a process has a
number, and the like; each is next to its CONSTANTS):

| Theorem | States | For every set of disturbances |
| --- | --- | --- |
| `TiposCorrectos`, `CantidadSiempreCoherente`, `PcbSiempreEnUnaSolaCola` (`KernelPlanificador_proofs`) | `[]TypeOK`, `[]CantidadCoherente`, `[]PcbEnUnaSolaCola` | all of them |
| `UnaSolaCpuSiempre`, `MarcadoNuncaVuelve` (same) | `[]UnaCpuPorProceso`, `MarcadoNoVuelve` | all of them |
| `FinalizadoSiempreSinPaginas` (same) | `[]FinalizadoSinPaginas` | without `malloc` or without `caidaCpu` |
| `ConsolaSiempreEnterada` (same) | `[]ConsolaEnterada` | that, and without `kill` |
| `AvisoSiempreVeraz` (same) | `[]AvisoVeraz` | without `malloc`, `stop`, `sinMemoria` |
| `KernelSiempreSano` (same) | `[]KernelSano` | without `finalizar`, `cierre`, `kill`, `malloc` |
| `NingunPcbSePierde` (same) | `[]NingunPcbPerdido` | without `finalizar`, `cierre`, `stop`, `sinMemoria` |
| `TerminadoSiempreFueraDeCpu` (same) | `[]TerminadoFueraDeCpu` | without `malloc`, `caidaCpu` |
| `SemaforoSiempreCuenta` (same) | `[]SemaforoCuentaBloqueados` | without `stop`, `caidaCpu` |
| `CpuYProcesoSiempreConcuerdan` (same) | `[]CpuYProcesoConcuerdan` | without `finalizar`, `cierre`, `kill`, `malloc`, `caidaCpu`, `stop` |
| `SiempreAdmiteSegunNivel` (same) | `AdmiteSegunNivel` | without `multiprog`, `malloc`, `caidaCpu` |
| `AdmisionSiempreConservada` (same) | `[]AdmisionConservada` | without `sinMemoria`, `finalizar`, `cierre`, `kill`, `malloc`; and without `stop` or without `multiprog` |
| `TrabajoSiempreConservado` (same) | `[]TrabajoConservado` | with no other than `multiprog`, `sinMemoria`, `caidaCpu` |
| `MarcoSiempreSuyo` (`Memoria_proofs`) | `[]MarcoSigueSiendoSuyo` | without `finEnVuelo` |
| `CuentasSiempreClaras`, `SoloCaeSinEntradas` (same) | `[]CuentasDeCache`, `[]SoloCaePorEntradasPerdidas` | without `flush` |
| `CacheSiempreCoherente` (same) | `[]CacheCoherente` | without `hueco`, `finEnVuelo` |
| `PromesaCumplida` (same) | `Spec => Promesa`: `Memoria` implements `MemoriaPaginada` | without `hueco`, `finEnVuelo`, `punteroColgado` |
| `MosaicoSiempre` (`Heap_proofs`) | `[]BloquesEnMosaico` | without `mismoNumero` |
| `SinVecinosLibresSiempre`, `SinPaginasOciosasSiempre`, `MismasPaginasSiempre` (same) | `[]SinVecinosLibres`, `[]SinPaginasOciosas`, `[]MismasPaginas` | without `mismoNumero`, `hueco` |
| `TiposDeLosArchivos` (`CapaFs_proofs`) | types of the tables, the disk and the request on its way | all of them |
| `BloquesSiempreSinCompartir` (same) | `[]BloquesSinCompartir` | without `caidaCrear`, `caidaBorrar` |
| `DescriptorSiempreFiel`, `AbiertosSiempreCuenta` (same) | `[]DescriptorFiel`, `[]AbiertosCuenta` | without `cierreIntermedio`, `finConVarios` |
| `AccesoSiempreExacto` (`Cpu_proofs`) | `[]AccesoExacto` | all of them |
| `SinDesfaseSiempre`, `NuncaSeEsperan` (same) | `[]SinDesfase`, `[]NadieEsperaANadie` | without `asignarInexistente`, `senalEnPedido`; with `stop` |
| `VariablesNuncaSolapadas` (same) | `[]VariablesSinSolaparse` | all of them if the page size is a multiple of four; else without `variablePartida` |

The number of CPUs, programs, semaphores, pages, frames, files, blocks and open
files, the sizes and the limits are arbitrary in all of them. The runs check
the same properties on small instances. A disturbance is excluded when TLC
shows that the code breaks the property under it, alone or together with others: section 9 has the ones a
document speaks of, the paragraphs below the others.

**Scheduler: the process table.** `IInv`: the record is well typed, the counter
is the length of the three queues it counts, no PCB is at two positions of the
queues (`SinRepetir`), and every PCB in a queue has a PID up to `maxPID`
(`Conocidos`). The last part is why a new program, or one that was just taken
out of `colaNuevos`, can be added to a queue without repeating a PCB; the third
is why removing the first occurrence of a PID removes the PCB and why a process
a console ends is found in the only queue that has it; the second holds only
because a move removes exactly one PCB and adds exactly one, which is the third
again. The four parts are `Bien(k)`, a predicate on records, and the proof
follows the composition of the C functions: `PcbOperaciones_proofs` shows that
every `pasarPcb*` function keeps it, `Planificacion_proofs` every function a
handler calls, `KernelPlanificador_proofs` every handler.

**Scheduler: who holds a PCB.** `Sostenidos(k, C)`: for every CPU of `C` with a
PCB, the process is in `colaEjecutando` or already in `colaTerminados`, no
other CPU of `C` has it, and while it runs `PID_en_ejecucion` is its number.
That no two CPUs have one PCB is a part of it, and is not inductive alone: a CPU
is handed the head of `colaListos`, and only the first part says that nobody
has it. A handler lets go of a PCB half-way, so the functions are shown to keep
it for the other CPUs (`Suelta`) and the handler as a whole for all (`Sigue`).
`Cuida(k, m)` is the relation both are made of: a process that a CPU holds is
where it was or has ended. It is transitive, which is what lets a handler be
proved function by function; `MarcadoNoVuelve` follows from it.

**Scheduler: what a process leaves behind.** Three predicates on one process
say that it has no page, no console or no other code to tell once it ended
(`SinPaginas`, `Enterado`, `Veraz`), the pages of a NEW process included: it
must have none, because a kill moves it to `colaTerminados` without a word to
memory. Each excuses a process whose CPU was refused memory and has not yet
said that it aborts (`EnAborto`): `abortarPrograma` comes later and does what
is missing. Each function is about at most one process and nothing to the
others (`Ajeno`); a handler settles the one it is about (`Cuadra`). If that CPU
dies first nobody does what is missing, and the pages stay: hence the first
hypothesis. `kill` of a NEW process tells its console nothing. What a console
was told is wrong in three ways, each in two steps: a CPU whose request was
refused aborts later with another code (`malloc`), a `pasarPcb*` function does
nothing while planning is stopped and the handler tells the console all the
same (`stop`), and a process memory rejects once it was taken out of
`colaNuevos` is told so and its PCB is in no queue (`sinMemoria`).

**Scheduler: who answers for whom.** The five theorems from `KernelSiempreSano`
to `CpuYProcesoSiempreConcuerdan` come from one relation between the kernel before and after a piece of a handler, `Pasa`, again
transitive. It says what the piece keeps of three things, `Vale(k, b, f)`,
`Completo` (every PID given is in a queue) and `Debe(k, u)`:

- `Orden`, where no CPU dies suddenly (`b`): what a CPU holds runs, unless it
  has yet to say that it aborts it; and a process that the `PID_en_ejecucion` of
  a CPU that is gone names is on no other, so its end of file finishes nobody
  else's. The second part is what `caidaCpu` breaks: nothing initialises that
  number, and it is cleared when a program ends or aborts but not when it
  blocks or uses up its quantum.
- `Firme`, where nothing ends a process in the hands of its CPU (`f`): the
  kernel lives, there are no kill flags, every NEW process has its console
  (`Conectados`), and `cpusLibres` and `cpusOcupadas` have each CPU once and
  those with a PCB in the second. A process `finalizar`, `cierre` or `kill`
  marked leaves its flag (or the CPU that aborts it is given another PCB), and
  the next search in a list finds nothing: `KernelSano` fails.
  `malloc` does the same if another CPU then dies.
- `Ociosas` and `Atendidos`, with both: a free CPU takes what it is sent or is
  known to be gone, so a process that runs always has a CPU that answers for it.
- `Debe(k, u)` is the invariant of the semaphores in the middle of a handler: the
  counts agree once the `u[s]` units the handler still owes are paid. A `wait`
  that finds none takes its unit first, and owes it until the process is blocked
  or, if it has a kill flag, has ended and the unit is given back; in between
  a NEW process may have been let in and another one planned, which
  change no semaphore. A whole handler leaves no debt (`Cero`). With planning
  stopped `pasarPcb*` moves nobody: a process waits and is not in
  `colaBloqueados`.

`NingunPcbPerdido` needs `Conectados` alone: a NEW process is taken from its
queue before its console is asked for the code, and if that console is saying
something else instead, or memory rejects the process, or planning is stopped,
it is put in none.

**Scheduler: slots of the level.** `SiempreAdmiteSegunNivel` and
`AdmisionSiempreConservada` are two readings of one balance. `Resta(k, m, n)`
says that a piece of a handler takes `n` processes out of the system and lets
nobody in; `Repone`, that `pasarProximoProcDeNewAReady` gives one slot to a NEW
process, if there is one, planning is on and memory accepts it; and
`Cupo(k, m, x, u)` is the sum over a whole handler: whoever is let in takes a
slot somebody left, and a slot somebody left is given while there are NEW
processes and memory accepts them (while planning is stopped nobody leaves). The first half needs the process that leaves to be one
of those counted, which `Orden` gives (`malloc` finishes it before its CPU
gives it back, and a CPU that dies may finish another one's). The second half
makes `Lleno`
inductive: the level is reached, or the admission loop of the operator's
command has a round left for every NEW process. Consoles,
`kill` and `malloc` free a slot and call nobody; a `stop` in the middle of the
command makes its rounds pass in vain.

**Scheduler: work.** `Trabaja(k, n)`: at most `n` CPUs are free while somebody
is ready. Whoever leaves a CPU makes it `Trabaja(k, 1)` and the `planificar`
at the end of the handler makes it 0 again (`PlanificarSiHayListosTrabaja`); a
handler that adds one ready process (`Suma`) plans once, and once is enough
because before it either nobody was ready or nobody was free. A new CPU is in
`cpusLibres` before its handshake, so the invariant between handlers,
`Laborioso`, lets the one CPU that is being greeted be free. A CPU that died
idle may sit in `cpusLibres` until its end of file: what it is given goes with
it. A CPU that aborts or leaves (`AbortarDeCpu`) joins the list and plans only
when a NEW process was admitted, hence the hypothesis.

**Memory.** `IInv`: types (`Tipado`); a process with a request in flight was
started and is not in a loop over pages (`EnVueloQuieto`); and what a thread
found is there (`SigueSiendoSuyo`). The second is why the threads need no lock
for the table: the entries the kernel's thread writes are empty, or of the
process its loop is about, and nobody else has found those.

Four more layers, each inductive with the ones before:

- `Guardada`, for every disturbance: the full types; no page is twice in the
  list; and what a thread has in its hands between the two halves of a request
  (`EnManos`). A thread that fills the cache holds `mutex_cache` and its page
  is not in the list, which is why `escribirCache` never makes a duplicate.
- `CuentasClaras`: the count of a process is the number of its entries, at most
  `CacheXProc`, and entries and free count fit. It is what makes
  `desalojarLocalmente` find the entry it dereferences: a process that has its
  share by the counter has it in the list. The case where nothing is left to
  evict globally is the only one that kills the process. `flush` empties the
  list and not the counters, hence the hypothesis.
- `TablaSana`: a page has one frame (`Unicos`), and the pages of a process are
  numbered 0, 1, 2... except while a loop is giving or taking them
  (`Contiguas`). `asignarPaginasDeHeap` numbers from how many there are, so
  the second is why the new number is free; a hole breaks both.
- `CacheFiel`: with one frame per page, a copy of a written page says what
  that frame says. A loop gives frames only to pages that were not written.

`PromesaCumplida` is the refinement, step by step, under the mapping
`Contenido`: a page is free for `MemoriaPaginada` while its loop has not ended,
and holds its frame's contents once written. It needs `Prometida`: requests are
about pages in use or never given (`PedidosSanos`), a page in use has its frame
(`ConMarco`), a cached page was given once (`CacheDeAntes`), and what a loop has
done so far (`TareaSana`). The threads read and write at the step that
answers; `AsignadasTodas` makes the pages of a loop visible all at once; a step
in the middle of a loop changes only pages hidden before and after. That a
refusal means there was no room is a count: the frames are those of the table
itself, the empty ones, those of the visible pages and those of the loop's
(`Reparto`, with a bijection between frames and pages), and when
`asignarPaginasDeHeap` has undone its own the empty ones are at most those it
gave back. The refusal is for the number that was asked for: `cuantas` keeps it
through the undoing, and `TareaSana` that an undone loop had been given fewer.

**Heap.** `IInv`: every page is `Bien`, that is, its blocks tile it and
start at growing offsets (`Ordenada`), and page numbers are bounded. The tiling
is inductive by itself for splitting and joining; the order is needed because
the rest of a split block is put after the block *found by its offset*
(`EncuentraElBloque`), and the bound because the next number is a maximum.
One lemma per operation on a page (`PartirBien`, `TomarParteBien`,
`CambiadoBien`, `UnirBien`), then one per action.

The other three need `Administrada`, which adds that the pages of a process are
numbered without a repetition (`Numeradas`), that memory has the pages the
table of the kernel has (`MismosMarcos`), that the page a compaction is at has
an owner (`Compactable`), and that every page but that one is in use and has
no two free blocks in a row (`Recogidas`). The last two are the two properties
in the middle of a handler: a block is freed first and its neighbours joined
after, and memory is told at the end. `MismosMarcos` needs `Numeradas`, since a
page is asked for and given back by its number.

**Files.** Three layers, each inductive with the ones before. `Base`: types,
both ends of a request agree on what is asked (`Protocolo`), and the blocks
still to be taken fit in those counted free (`HayLugar`), which is why the
search for a free block finds one. `Reparto`: a file's blocks are marked and no
other file's, except those of the one request in course (`EnTramite`), and what
a creation or a write was given so far is free of owners; a crash inside these
steps keeps the exception for good. `Tablas`: every descriptor is the program's
file (`Enlazadas`), a file has one global entry (`UnaPorArchivo`), which counts
its descriptors (`Contados`), and while a program opens a file it is asking for
nobody else opens it (`Reservado`).
The end of a program closes its files one after the other (`Cierres`, a
recursive function); that each of them keeps the types is shown by taking
the first that would not (`MinimoExiste`, which stands for the inductions the
provers cannot be given).

**CPU.** `IInv`: the stack of calls is never empty wherever the PCB is (on the
CPU, in the kernel or on the wire), an access in course is in order
(`EnOrden`: it is where it got to), there is one only while a primitive runs,
and if it is `retornar`'s there is a call to leave. The lemmas on
`AccesoMemoria` show that a new access is in order, that a request of one in order is exact,
and that serving it leaves it in order.

`Dialogo` says who owes the next message. It is the disjunction of the nine
phases an exchange goes through: the kernel has the PCB and no CPU does
(`Quieto`: it is in a queue, or it came back while planning was stopped and is
still in `colaEjecutando`), it is on its way to a CPU (`Enviado`), the CPU runs
it and nobody speaks (`Corre`), it said that it ends (`Termina`), it was told
to leave (`Cede`), it asked for something and the values go one way or the
other (`Pide`), it told the end of a sentence and waits for a verdict
(`Avisa`), its PCB is on its way back (`Devuelto`), or the end of its sentence
was read while planning was stopped (`Abandonada`), the one phase that nothing
leaves. Each one fixes both wires, what the kernel's thread is at and where the
CPU is, so every handler has few predecessors and one successor.
`SinDesfase` and `NadieEsperaANadie` are read off the phases. It needs
that nothing follows the end or a `wait` in a sentence
(`SentenciasAssumption`): `end` and `wait s` are lines of their own in AnSISOP
and a CPU that was told to leave still runs the primitives its line has left.

`PilasSanas` says that every PCB, the CPU's, the kernel's and those on the
wires, has its end of stack inside the pages of the stack or just past them,
and every variable and argument in use below that end and apart from the
others. A new variable is put at the end and moves it past itself, which is
the whole argument; it fails when a variable would be split between two
pages and the second is past the stack, since only the page of the end of stack
is compared with the number of pages. With a page of a
multiple of four bytes no variable is split whatever is allowed, since the
end of the stack is at a multiple of four too (`Alineada`).

Only model-checked: of the CPU `VariableEntera`, which depends on what the
scripts do: a script that follows the address of a variable it never defined
may straddle two pages. Liveness (`TodosTerminan`, `PedidoAtendido`,
`TareaTermina`, `VuelveElPcb`) rests on fairness and `ENABLED`, and the
refinements of `Archivos`, `Reservas` and `Programa` on sums and sequences
built from the whole state (`MapThenSumSet`, `SelectSeq`, recursive functions
over sequences), whose values for every input are inductions over data: both
stay with TLC.

## 11. Not modelled

- The first version of the program (`src/Kernel`, `src/CPU`, `src/Memoria`,
  `src/FileSystem`, `src/Consola`): sockets that exchange a text, replaced.
- `capaMemoria.c` 6-505 and its counterparts: an older heap nobody calls.
- Input and output: socket set-up, configuration and its inotify watch, dumps,
  listings, logging, the menu of each process, the delays' values.
- The statistics of `listaInfoProcesos` other than the semaphore a process
  waits for; `contabilizarFree` counts every block it scans.
- The broadcast of a text to consoles and the console's own list of threads:
  they change nothing the kernel reads.
- The values of shared variables and of variables: who reads and writes them,
  and where, is modelled; which number they hold is not.
- A CPU that dies in the middle of a message, and SIGPIPE, which no process
  handles; the death of memory or of the file system as the kernel's and the
  CPU's sockets see it, other than inside a file request.
- The scheduler composed with the heap, the files and memory in one state
  space: they are checked apart, with the facts one takes from another named
  in sections 4 to 7.

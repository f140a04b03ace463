# Formal verification of MaPPA (kernel, cpu, memoria, filesystem)

MaPPA is a distributed operating-system simulator in C: four processes that talk over TCP
and a small shared library. A console in the kernel creates processes, each of which runs a
text program that `memoria` holds; the kernel schedules them on one `cpu`; `cpu` asks
`memoria` for instructions and frames; `filesystem` keeps a FAT file system and the swap
partition. This directory holds TLA+ modules that model that code, configurations that
model-check them with TLC and proofs checked by TLAPS. Definitions keep the names of the
source; `PROJECT.json` maps each to its lines.

## The system

| component | state | operations | talks to |
|---|---|---|---|
| kernel, scheduler (`plani.c`) | the lists `cola_listos_para_ready`, `lista_ready`, `lista_ready_detenidos`, `cola_exec`, `cola_block`, `cola_exit`; `proceso_en_ejecucion`, `pcbelegido`; six mutexes and eight semaphores | the threads `ready_pcb`, `exec_pcb`, `exit_pcb`; FIFO, RR, PRIORIDADES; degree of multiprogramming | cpu (dispatch, interrupt), console, handlers |
| kernel, console and life cycle (`kernel.c`) | `generador_de_id`, `frenado`, the degree, `sem_detener` | `iniciar_proceso`, `iniciar/detener_planificacion`, `modificar_grado`, `finalizar_proceso`, `liberar_recursos`, `manejar_pf`, `recibir_op_FS`, `hay_deadlock` | all |
| kernel, resources and blocking calls (`instructions.c`) | `recursos_kernel[r]`: `cantidad`, `colabloqueado` | `kwait`, `ksignal`, `ksleep` and its `sleeper` threads, `kexit`, `kf_read`, `kf_write`, `kf_truncate`, `kf_seek` | scheduler, filesystem |
| kernel, open files (`instructions.c`, `kernel.c`) | global table, per-process tables, queues of readers and writers of each file | `kf_open`, `kf_close` | filesystem |
| cpu (`cpu.c`, `instructions.c`) | registers, `codigo_operacion` shared by the dispatch and the interrupt thread, flags of interrupt | fetch, MMU, execute, check interrupt | kernel, memoria |
| memoria (`memoria.c`) | frames, page tables, FIFO list, LRU stamps, the instructions of each process | create and finish a process, fetch, translate, read, write, page fault and replacement | kernel, cpu, filesystem |
| filesystem (`filesystem.c`) | FAT, FCBs, blocks, swap bitmap | open, create, truncate, read, write; reserve, read, write, free swap blocks | kernel, memoria |
| shared library (`shared/`) | none | serialisation, sockets, config | all |

How they interact. Every arrow between processes is a TCP stream: ordered, no loss while
both ends live; no end restarts, and nothing but the file system's files survives. Inside
the kernel everything is shared memory: a PCB is a pointer that travels between lists, and
the threads hand each other work with semaphores used as counters of things to do
(`sem_ready`, `sem_exec`, `sem_exit`, `sem_listos_para_ready`). A page fault or a file
operation starts a thread that sends a request on a socket shared with the others of its
kind and then takes *an* answer, not necessarily its own.

What is hard here:

* a PCB moves between a dozen lists guarded by different mutexes or by none, in several
  steps, while other threads scan those lists;
* two semaphores have to be posted for `exec_pcb` to advance, by eleven different places,
  in different orders and sometimes not both;
* what `exec_pcb` holds in the globals `pcbelegido` and `proceso_en_ejecucion` is read after
  `exit_pcb` may have freed it;
* `cantidad += 1` and `-= 1` run in two threads without a lock;
* detener/iniciar_planificacion parks and releases threads at seven points;
* the frame and page tables of `memoria` are used by three connections at once, and an
  address translated for the CPU is used in a later message;
* `filesystem` starts a thread per request and locks nothing: FCBs, FAT, blocks and the
  socket to `memoria` are shared;
* an entry of the table of open files is freed by `exit_pcb` while `exec_pcb` may be using
  it, and replaced by another one while processes wait in its queue.

### What makes each component correct

* scheduler: a PCB has at most one owner, and is only lost where the code drops it (a pid of
  three digits; an entry of an open file that leaves the table with its queue); nobody waits without a token
  that will wake who takes it; whoever can run eventually does; no thread uses a NULL or a
  freed PCB; each algorithm elects who its definition says;
* resources: instances neither appear nor disappear, who waits is served in order, a
  finished process gives back what it held;
* open files: a writer excludes everybody, every waiter is served, whoever has the file open
  can use it;
* cpu: the interrupted process resumes where it was; an interrupt is for the process that
  was running when it was sent;
* memoria: a frame holds one page, a page has one frame or one swap copy and what is read is
  what was last written, also across replacement; the victim is the one FIFO or LRU says;
* filesystem: what is read of a file is what was last written there, whatever is done to
  other files meanwhile; every request is answered; the swap is not touched by files.

`PROJECT.json` lists the hazards of this code line by line, with the property that covers
each one or why none does yet.

## Modules

### Planificador

The scheduler with its console, life cycle, resources and blocking calls: `plani.c`,
the scheduling part of `instructions.c`, and `liberar_recursos`, `manejar_pf`,
`recibir_op_FS` and the console of `kernel.c`.

One action is one stretch of one thread between two points at which another thread can see
or change what it uses: a `sem_wait`, a blocking `recv`, a shared value read and later acted
on. So `kwait` is eight actions, `ksignal` seven, the unlocked `cantidad += 1` of two
threads is a read and a write, and `exec_pcb` is its test of `frenado`, its choice and its
wait for the CPU. Every system call that `exec_pcb` dispatches is there; F_READ, F_WRITE and
F_TRUNCATE, which the scheduler does not tell apart, are one operation, `F_IO`.

`kf_open` and `kf_close` are in two modules. `Archivos` has the table of open files, which
decides how they end; `Planificador` has what each end does to PCBs and semaphores, and the end
is a choice. An F_OPEN asks the filesystem and waits for it (`KfOpenPide`, `FsAbre`,
`KfOpenCrea`), joins readers (`KfOpenComparte`) or leaves its process in the queue of an entry
(`KfOpenEspera`). An F_CLOSE makes processes of the queues READY one by one (`KfCloseAbre`,
`KfCloseFin`), or replaces an entry and forgets its queue (`KfCloseDeVarios`); `pcb_destroy`, in
`SalidaDestruye`, may free entries with their queues. `KfWriteLector` is the `kf_write` of a file
open to read, which ends the process.

| state | in the code |
|---|---|
| `cola["listos"]`, `["ready"]`, `["detenidos"]`, `["exec"]`, `["exit"]` | `cola_listos_para_ready`, `lista_ready`, `lista_ready_detenidos`, `cola_exec`, `cola_exit` |
| `cola_block` | how many times each PCB is in `cola_block` (nobody uses its order) |
| `cantidad`, `colabloqueado` | the two fields of each resource |
| `espera_archivo` | the PCBs in the `colabloqueado` of all the entries of the table; `Archivos` has which entry and in which order |
| `perdidos` | history: the PCBs whose entry left the table with its queue (instructions.c 384-387, plani.c 56-61) |
| `pcb[p]` | the PCB with its context: program counter, reason it left the CPU, state, arrival stamp, instances held; state `DESTRUIDO` is a freed PCB |
| `exec`, `admision`, `salida`, `sleepers`, `pf`, `fs` | where each thread (or set of threads) is, and its local variables |
| `sem` | the eight semaphores that are used (`reanudar` is `reanudaar_exec`) |
| `interrupcion` | an interrupt the kernel sent and the CPU has not taken or dropped |
| `caido` | the kernel ended: `exit(1)` on an empty list or a NULL PCB dereferenced |

Actions are grouped by thread: `Consola`, `Admision` (`ready_pcb`), `Despacho` and `Llamadas`
(`exec_pcb` and the handlers it calls), `Cpu` (what the scheduler sees of it), `Salida` and
`Liberacion` (`exit_pcb`, `liberar_recursos`), `Sleepers`, `PageFaults`, `OpFS`.

A freed PCB can still be pointed at: when a handler needs a field of it, the model allows
every value the memory can hold (`Desaloja(p)` when `pcbelegido` was freed).

### Memoria

The process `memoria` and the swap partition that `filesystem` keeps for it: page tables,
frames, FIFO and LRU replacement, swap out and swap in. Three threads of `memoria` share its
tables, each with its own mutexes around some of the steps:

| actions | thread | what an action stops at |
|---|---|---|
| `HiloCpu` | `manejo_conexion_cpu` | the copy to the frame, the search of the page that has the frame, the modified bit and the LRU counter, the stamp and the FIFO list |
| `HiloFs` | `manejo_conexion_filesystem_ops` | the same, for the accesses of F_READ and F_WRITE |
| `HiloKernel` | `manejo_conexion_kernel` | each message of the kernel, from its reception to the answer: start (3 steps), end (4), page fault (up to 7) |
| `Programas` | the CPU and the kernel | the messages they send: one process at a time fetches, translates and accesses; a `manejar_pf` thread per fault; an end sent by `exit_pcb` |

| state | in the code |
|---|---|
| `procesos_totales`, `cantidad_paginas`, `entradas_tabla` | the list of processes and their page tables |
| `marcos`, `memoria_usuario` | the pid of each frame in its descriptor, and what the frame holds |
| `paginas_utilizadas`, `contador_lru` | the FIFO list and the LRU clock |
| `swap`, `bloques` | filesystem's bitmap and blocks |
| `repite` | the page on which the current instruction of a process faulted: the CPU executes it again |
| `kernel`, `cpu`, `fs` | where each thread is, and its local variables |
| `pedidos`, `por_enviar`, `pedidos_fs` | what the kernel sent to `memoria`, what its threads will send, and the accesses that travel through `filesystem` |
| `caido` | where a behaviour leaves what C defines |

The address that a translation gives is used in a later message, so `CpuMov` and
`CpuArchivo` keep the *frame*, and the access looks for whoever has it by then. The swap
thread of `filesystem` serves one caller that waits for it, so what it does is part of the
caller's step.

A behaviour ends when the program follows a null or freed pointer, since from there on C
promises nothing. `caido` says which: `pagina_nula` (nobody has the frame of an access),
`victima_nula` (no page to replace, or one that has no frame), `sin_tabla` (a translation
before there is a table), `sin_swap` (`swap[-1]` written), `entrada_liberada` (a page of a
freed table is stamped), `fifo_colgada` (a freed entry stays in `paginas_utilizadas`). All
six are reached, and each is a hazard of `PROJECT.json`; `UnicoSeguro` says when four of
them are not. `leer_bloque_swap` returns a buffer it freed, so a page loaded from swap is its
block or `Basura`.

### Filesystem and Almacen

`Filesystem` is the other half of `filesystem.c`: `comunicacion_kernel` and the thread it
starts for each request, over the FCBs, the FAT file, the blocks file and the socket to
`memoria`. A step is one access to something shared: a search in the FAT, an entry read or
written, a block, an FCB, a token sent or received.

| state | in the code |
|---|---|
| `lista_fcb`, `fat`, `bloques` | the FCBs, `fat.dat`, `bloques.dat`; positions go from -1 to `tamanio_fat - 1`, and what was never written reads as anything (`fread` into an uninitialised variable) |
| `restos` | whether `PATH_FCB` has files of an earlier run: `inicializar_fcb_list` reads their text as a struct, and the first search follows it as a pointer |
| `hilo[p]` | the thread that serves process p: its step and its locals |
| `pedido`, `kernel`, `abiertos` | the kernel's side: the request p waits for; `exec_pcb` inside `kf_open`; what was opened |
| `pedidos_mem`, `respuestas_mem`, `pagina` | `socket_memoria_op`, an answer being a code and a buffer; the page of each process |

| actions | function |
|---|---|
| `PedirAbrir`, `PedirCrear`, `Pedir`, `Responder` | `kf_open`, `recibir_op_FS`, `kf_read`, `kf_write`, `kf_truncate` |
| `Abrir`, `Crear` | `hilo_f_open`, `hilo_f_create` with `crear_fcb` |
| `Truncar`, `BloqueInicial`, `BuscarLibre`, `Anotar`, `Seguir`, `Quitar`, `Fijar` | `truncar_fcb`, `asignar_bloques`, `desasignar_bloques` |
| `PedirMemoria`, `RecibirCodigo`, `RecibirBuffer`, `Ubicar`, `Caminar`, `Escribir`, `Leer` | `realizar_f_write`, `realizar_f_read` |
| `Servir` | `manejo_conexion_filesystem_ops` of `memoria` |

`Almacen` is what all this promises: an array of blocks per file, whose requests take effect
in one step between the request and its answer. An F_READ gives the block it asked for, or any
word if another process truncated the file to nothing meanwhile: the F_TRUNCATE to 0 keeps to
the contract, since it only changes the size in the FCB, and the reader still walks the chain. `EsUnAlmacen` says that `Filesystem`
implements it, the contents of a file being its FCB's size and the blocks its chain leads to,
*while the use keeps to a contract*. `fuera` is a history variable with the ways in which it
has been left:

| in `fuera` | what happens in the code |
|---|---|
| `memoria` | two requests that use the socket to `memoria` at once: each takes whatever answer comes |
| `truncados` | two F_TRUNCATE at once: a block is searched and written in two steps |
| `retruncado` | another size for a file that has blocks: it grows from its *first* block, and shrinks by the new size |
| `segunda_mitad` | an access to the second half of a file: `asignar_bloques` takes one block for every two it counts, since the current block's entry is still 0 when it looks for a free one and it finds itself; the rest of a walk goes round the last block or into one that is still free |
| `fin_fat` | the disk fills up, or the FAT file is read or written outside of it: at -1, or at the last entry, which `crear_fat` did not write |

Without any one of the first four, `EsUnAlmacen` fails; `memoria` needs six requests to show
it. `fin_fat` is a precaution of the contract, and it is what `SwapIntacto` turns on. So what
the model says of this code is how much of a file can be trusted: the first half of the blocks
of a file that is truncated once.

### Archivos and Cerrojo

The kernel's table of open files: `kf_open`, `kf_close`, `kf_seek`, `kf_read`, `kf_write` and
`kf_truncate`, `pcb_destroy` in `exit_pcb` and the answers of `recibir_op_FS`, for one file.

| state | in the code |
|---|---|
| `globales` | the `t_archivo_global` ever created, freed ones too; a pointer is a place here |
| `lista_archivos_abiertos` | the table: pointers to entries, of which the first with the name is used |
| `archivos_abiertos[p]` | whether p has a `t_archivo_abierto_proceso` of its own |
| `abierto[p]` | what the program of p believes: the answer that its F_OPEN gave |
| `exec`, `salida` | `exec_pcb` and `exit_pcb`, and the entry each found and has not used yet |
| `estado`, `cola_exit` | where the PCB is |

`kf_open` and `pcb_destroy` are cut where the other thread can free the entry they found.
`kf_close` is its search and then one action per way to end: `CerrarEntrega` (the queue gets
the file), `CerrarDeVarios` (readers are left), `CerrarFin`, and `CerrarRoto` (a NULL or freed
entry is followed). Between two calls a process can lose the CPU (`Desalojar`, the `default` of
`exec_pcb`), so another one can use the file while it has it open. `Cola` says who of a queue
asked for the file in a mode; `Cerrojo` and `Archivos` use it.

`Cerrojo` is what the table is for: a lock of one writer or many readers with a queue.
`EsUnCerrojo` says that `Archivos` implements it while nothing is in `fuera` but
`lector_sumado` (a second reader joined) and `muere_abierto` (a process ended with the file
open); the header of the module lists the other reasons, and `EsUnCerrojo` fails without any
one of them. Among them are ordinary uses: one of two readers closes the file
(`cierra_uno_de_varios`: the new entry counts one reader more than there are and has no
queue), a writer is first in the queue and a reader behind it (`lector_con_escritor`: both get
the file, and when both close it the second finds no entry), two writers wait
(`escritor_espera_detras`).

Outside the contract `EscritorSolo` and `SoloCaeSi` still say what cannot go wrong: which of
those uses let a writer share the file (`lector_escribe`, a reader that does F_WRITE, is one of
them: `kf_write` takes it off the counter, so the others share an entry that will be freed), and
which let the kernel follow a bad pointer.

## Runs

| run | instance | shows |
|---|---|---|
| `kernel_fifo` | 3 processes, 6 programs (WAIT/SLEEP/SIGNAL, WAIT without SIGNAL, WAIT and SIGNAL of a missing resource, SIGNAL not held, F_OPEN/F_CLOSE), one resource of 1 instance, degree 2 | no PCB has two owners, none is lost but the two kinds that `NadieSePierde` names, no NULL is used, nobody waits without a token, nobody who ran is stranded |
| `kernel_pausa` | 2 processes, 2 pauses, SLEEP, WAIT/SIGNAL and F_OPEN/F_CLOSE | the same with every thread parked and released at any point |
| `kernel_prioridades` | priorities 0 and 1, interrupts, page faults, a program from F_OPEN to F_CLOSE with a file operation, degree raised 1 to 2 | the same with preemption: the election never meets an empty list |
| `kernel_rr` | pids 98 to 100, the clock moves once | the same under quantum end; the pid of three digits, which `exec_pcb` discards, included |
| `kernel_vida` | 2 processes that WAIT, fault, sleep and use a file, with fairness | whoever ran and left runs again; whoever ends is destroyed |
| `kernel_instancia_fantasma` | 3 processes, 1 resource of 1 instance | a *violation*: two processes hold the only instance (see Findings) |
| `kernel_rr_no_rota` | 2 processes, RR | a *violation*: the process whose quantum ended is elected again before others that were waiting |
| `memoria_mov` | 2 processes of 1 or 2 pages, 1 frame, 3 swap blocks, MOV_IN and MOV_OUT, 3 accesses, FIFO and LRU | no modified page loses its mark, swap blocks are neither shared nor lost, the FIFO list forgets who ended, and with one process replacement always works |
| `memoria_archivos` | the same with 2 frames, MOV_IN, F_READ and F_WRITE, 2 accesses, with fairness | frames and page tables agree; a page fault is answered; everything is given back |
| `fs_archivos` | 2 processes, one using file a and the other a and b, 5 FAT entries, sizes 0, 2 and 3, 5 requests, up to 2 ways out of the contract, with fairness | files are arrays of blocks within the contract, every request and every `kf_open` ends; outside it names stay unique, untouched files keep their blocks, the swap is safe until the disk is full, and the stream of answers is misread only by two requests on the socket |
| `archivos_abiertos` | 3 processes, one file, 2 calls of each besides F_CLOSE or times off the CPU, with fairness | the table is a lock of one writer or many readers within the contract, and every waiter gets it; outside it a writer shares the file, or a bad pointer is followed, only in the named cases |
| `memoria_f_read_sin_marca` | 1 frame, F_READ only, 1 access | a *violation*: a page written by F_READ is not marked as modified |

Why the bounds are enough. The hazards of the scheduler are races between two threads over
one PCB, or over one PCB and the lists of others: two processes reach all of those between
`exec_pcb`, `exit_pcb`, a sleeper and the fault threads; the third lets one hold, one wait
and one end. One resource of one instance is the smallest that blocks. Programs have the
shapes of the scripts in `memoria/cfg`. `ModUint` stands for 2^32: 4 makes the wrap of a
`uint32_t` reachable. `MaxPausas`, `MaxFallos`, `MaxReloj` cap how often the console pauses,
how many faults a process has, and how far the clock goes; `Prioridades`, `Grados` list what
the console can type.

For `Memoria`: two processes are enough for a fault of one to take the frame of an access of
the other, and for an end to run against a stamp. With one frame every fault replaces; with
two there are also free frames, and frames of two processes at once. Three blocks fit three
pages and not four, so reserving them fails too. `MaxUsos` is how far `contador_lru` goes: an
access needs one to enter the FIFO list, one to be evicted and one to come back.
`MAX_LRU` (999999 in the code) is beyond it, so that no run meets the page that LRU cannot
see; the proviso in `UnicoSeguro` names it. In `memoria_archivos`, which asks about frames
and progress, all words are one, which keeps the temporal check small; what a page holds is
the question of `memoria_mov`.

For `Filesystem`: two processes are two threads, and the contract is about pairs of them. Five
entries hold two chains of a file of size 2 or 3 (one or two blocks of their own) and fill up
with a third one; size 0 empties a file, under another thread too. Five requests are two F_OPEN, an F_TRUNCATE, an F_WRITE and an F_READ, the
shortest story in which something written is read back with another thread at work; walks are
up to two steps. `MaxAvisos` stops asking once two ways out of the contract were taken.

For `Archivos`: one process holds the file, one waits, and the third closes, ends, joins or
waits behind. `MaxUsos` counts F_OPEN, the calls that use the file and the times a process leaves the CPU
between two calls. The invariants were also run once with 3 of them each (5.0 million states).

CHECK_DEADLOCK is off because the system really stops: when all processes ended, when all
wait for a resource nobody will return, or when the kernel process died; in `Memoria`, when
all ended, when `memoria` died, or when the CPU waits for an instruction of a process
`memoria` does not know, which it never answers; in `Filesystem`, when the programs asked all
they may or the process died; in `Archivos`, when all ended, when whoever is left waits for a
file nobody will hand on, or when the kernel died.

Fairness (`kernel_vida`). Weak fairness of each group of actions of one thread: every group
is a POSIX thread (or, for sleepers, page faults and file operations, threads that do not
block each other) that the operating system keeps scheduling, and each of its actions, once
enabled, stays so until that thread acts. No fairness for the console, whose commands a
person types, nor for the clock, the end of a quantum or an interrupt. Weak fairness of
`Despacho \/ Cpu \/ Llamadas` is one thread: `exec_pcb` waits for the CPU.

Fairness (`memoria_archivos`). Weak fairness of the kernel's thread of `memoria`, and of each
thread of the kernel that has a message to send: threads the operating system schedules, on
sockets nobody else uses. None for the programs, the CPU's thread nor that of `filesystem`:
an answer to a page fault does not depend on them. Both properties say "or `memoria` died".

Fairness (`fs_archivos`, `archivos_abiertos`). Weak fairness of the thread of each request and of
`memoria`, which answers what it receives; of `exec_pcb` as one thread, of `exit_pcb`, and of the
answer to each request of `kf_read`, `kf_write` and `kf_truncate`. None for what the programs ask
in `Filesystem`. In `Archivos` a program always ends: `MaxUsos` bounds its calls and it closes
only what it opened; it is bounded too in how often it leaves the CPU between two calls.

What the runs of `Memoria` do *not* say. Nothing promises that an access reaches the page it
was translated for: a MOV_OUT whose frame was replaced meanwhile writes in the page that has
it now, and marks that one. With F_WRITE, which stamps a page in another thread, the FIFO
list may keep an entry of a freed table, which is why `FifoSinColgados` is asked of a run
with MOV only. Pages that only F_READ touched enter no FIFO list, so even one process
can leave the replacement without a victim, and `UnicoSeguro` is about MOV too.

## Proofs

`Planificador_proofs` proves, for any number of processes and resources, any programs, any
algorithm, any priority and any bound:

* `TipoCorrecto`: `Spec => []TypeOK`;
* `PunterosCorrectos`: `Spec => []PunterosValidos`, that outside the two pops that kill the
  kernel no thread ever uses a NULL PCB, a resource it did not find or the head of an empty
  `cola_exec`;
* `FichasCorrectas`: `Spec => []ColasConFicha`, that the tokens of `cola_listos_para_ready`
  are exactly its processes, and those of `cola_exit` at least.

Assumption: `PlanificadorSupuestos` only (programs end in EXIT and are sequences of
instructions, instances fit a `uint32_t`).

The argument. Neither `TypeOK` nor `PunterosValidos` is inductive alone: a step that puts
`pcbelegido` in a list keeps the type only if it is not NULL, and a step that copies the
head of a list keeps the pointer valid only if the list holds pids. `TypeOK /\
PunterosValidos` is inductive (`TipoYPunteros`). Within it the delicate part is
`ExecOcupada`: handlers remove the head of `cola_exec` without looking at it, and half of
them leave a finished PCB there instead, so what has to be shown is that the list is never
empty when a head is removed; it needs the reason with which `proceso_en_ejecucion` left the
CPU, because after a blocking call `exec_pcb` goes back to its loop with the pointer set.
`ColasConFicha` is inductive given those two. There is one lemma per group of actions
(`PasoConsola`, `PasoDespacho`, ...), one case per action, one step per conjunct the action
disturbs; `TipoIgual` settles the conjuncts whose variables it leaves alone.

`PlanificadorDuenos_proofs` goes on from there, under the same assumption:

* `UnDuenoSiempre`: `Spec => []UnSoloDueno`, no PCB is in two places;
* `NadiePerdido`: `Spec => []NadieSePierde`, every PCB created and not destroyed has an owner,
  *except* those the code loses: one that looks freed to `exec_pcb`, and one that waits for a file
  in an entry that `kf_close` of one of several readers replaces or `pcb_destroy` frees
  (`perdidos`). So this is not a claim that the kernel loses nobody; it says where it does;
* `ElegirSiempre`: `Spec => []ElegirConAlguien`, the `exit(1)` of an empty `lista_ready` is
  never reached;
* `NadieVarado`: `Spec => []VaradosSonNuevos`, while nobody pauses the kernel, who executed once
  is never left in `lista_ready` with `exec_pcb` asleep and nobody to wake it.

The argument. The PCBs are in `Lugares`, the lists and the pointers of the threads, and `Hay(c)`
is what a place has. A step takes a PCB from one place and leaves it in another, so lemmas about
what each operation on a list adds, removes and keeps, and one about a PCB that changes place,
are stated once; after them there is a lemma per action, which says from where to where. The
invariant is `Duenez` (`DuenosSiempre`), four parts that need each other:

* `SinCompartir` is `UnSoloDueno` place by place;
* `Huecos`: a thread that receives a PCB had none. The pointers outlive their use in the code,
  so without this a step could overwrite the only one to a PCB;
* `Turno`: what `exec_pcb` has at each step, and what it finds back at its loop. A process
  that left the CPU without a system call is in `lista_ready` by then, and that is why nobody
  has to look whether the list is empty; who made a system call is not the CPU's any more, and
  is `pcbelegido` until the handler hands it over;
* `Vivos`: nobody has a PCB not yet created (a new one is in no place, so `IniciarProceso`
  shares nothing), and each one created and not destroyed has an owner or was lost as above.

The queues of the files are one of the places, `archivo`. The lemma of `pcb_destroy` and that of
`KfCloseDeVarios` are the only ones in which several PCBs leave a place for none, and what leaves is
what they add to `perdidos` (`SeVan`, `VivosSeVan`); in every other step `perdidos` stays.

What the proof found. The invariant that TLC had agreed with was not inductive. `exec_pcb` takes a
pid of 100 or more for freed memory and drops it after having taken it out of `lista_ready`; if
such a pid were still in `proceso_en_ejecucion`, left there at the end of its quantum, the next
round would expect it in `lista_ready`. No run has such a pid and a quantum together. It cannot
happen, since a pid of 100 never gets the CPU, and `Turno` now says so.

`VaradosSonNuevos` looks like a count of the tokens of two semaphores, and there is no such count:
`ksignal` makes one post of each for two processes, `ready_pcb` and a process that ends with
`lista_ready` empty post only one of them, and `exec_pcb` uses up a pair when it finds nothing to
do. What keeps it is a debt (`Avisada`, in `AvisadaSiempre`): as long as a veteran is in
`lista_ready`, `exec_pcb` is not at its `sem_wait`, or both semaphores are up, or some thread still
has work whose last step posts both (`Pendiente`). The wait of `kf_open` for `reanudaar_exec` is
inside a turn of `exec_pcb`, and its answer (`FsAbre`) pays nothing. Each step that ends a turn of `exec_pcb` either
posts both, or finds `lista_ready` empty, or leaves its process to a thread that owes them; and
each step that puts a veteran in `lista_ready` posts both or is of a thread that has still to. Two places
need more. `fs_interaction` blocks its process without posting anything, and `recibir_op_FS` may
have answered for it before: the answer is then under way or both posts are made, and nobody takes
them meanwhile, because only `exec_pcb` does and it is in the handler. And the PCB that `ready_pcb`
brings may be left without its `sem_post(&sem_exec)`: so nobody it brings has ever executed
(`Estreno`), since whoever is in the CPU has no other owner, by `Duenez`. A token of `sem_exit` is
not a debt, only a PCB in `cola_exit` is: `ksignal` posts it twice for one process.

`Archivos_proofs` proves, for any number of processes and calls:

* `TiposDeArchivos`: `Spec => []TypeOK`;
* `UnEscritorSolo`: `Spec => []EscritorSolo`;
* `SoloCaeConMotivo`: `Spec => []SoloCaeSi`;
* `LaTablaEsUnCerrojo`: `Spec => EsUnCerrojo`, the refinement of `Cerrojo`.

Assumption: `ArchivosSupuestos` only.

The argument. `Tipo` is `TypeOK` with the sequences it leaves open. `Lugar` says where the
process of each thread is, that a process is in the queue of an entry once at most and only
while it waits (`LugarCola`), and who has an entry of its own (`Propias`). `Cuenta` is the heart:
while nobody has left the contract in a way that loses count (`Limpio`), the table has one entry
at most, its counter is not less than the number of those who will be taken off it (`Contados`),
and a writer's is 1. `Marcas` says of each illegal situation which reason in `fuera` let it in.
From `Tipo /\ Lugar /\ Cuenta` follows `EscritorSolo`, from `Tipo /\ Lugar /\ Marcas` follows
`SoloCaeSi`. For the refinement the counter has to be exact (`Exacta`): otherwise the last
F_CLOSE would not hand the file on. There is one lemma per action for each of the four parts and
for the step of `Cerrojo` it makes. `PasoDeCerrojo` says a step of the lock or none; `Regla` and
`Vacia` are the two shapes of the table within the contract.

What the queue gives is defined by recursion over it (`Los`), so its facts need induction over
Nat: `Induccion` (in `Lemas`) gives it for one set at a time, from `WFMin`, with no operator
parameter.

What the proof found. Two properties held in the runs for a reason the code does not have:
`EscritorSolo` because a process kept the CPU from its F_OPEN to its F_CLOSE unless it waited
(so `Desalojar` was added, and with it `lector_escribe` had to be a reason), and `SoloCaeSi` with
three processes because nobody was left to meet the second entry of `escritor_espera_detras`.

`Memoria_proofs` and `MemoriaUso_proofs` prove, for any processes, frames, blocks and sizes and
both replacement algorithms:

* `TiposDeMemoria`: `Spec => []TypeOK`;
* `MarcosSiempre`: `Spec => []MarcosCoherentes`;
* `SwapSiempre`: `Spec => []SwapExclusivo`;
* `FifoSiempre`: `"F_WRITE" \notin Accesos => (Spec => []FifoSinColgados)`;
* `BitSiempre`: `"F_READ" \notin Accesos => (Spec => []BitFiel)`;
* `UnicoSiempre`: `"F_READ" \notin Accesos /\ NMarcos > 0 => (Spec => []UnicoSeguro)`.

Assumption: `MemoriaSupuestos` only. The hypotheses are what the code needs.
With F_WRITE the thread of filesystem stamps a page some time after it found it, and puts it back
in the FIFO list even if its process ended meanwhile (the death "fifo_colgada" and its hazard);
with F_READ the bit is lost, which is the finding `memoria_f_read_sin_marca`, and the page is not
stamped either, so that `paginaAReemplazar` may find nobody. Without a frame nobody is ever
replaced, because nobody can be.

The argument. The kernel sends memoria a message, forgets it and goes on, and the thread
`atender_kernel` serves it in up to six steps with the other two threads in between; each step
relies on something an earlier one looked up. So the invariant has to say what that thread holds
at each step. `Tipo` is `TypeOK` with the records spelt out. `Lugar` is who is where: a process
has one message on its way at most (`Mensajeria`), what the kernel's thread works on (`Servicio`),
whose access each thread has and to what (`Accesorios`), and that only known processes have pages
in memory (`Tablas`). `ConMarcos` adds to `MarcosCoherentes` the frame in transit: from the
eviction to the load no page has it, and nobody else chooses it (`EnTransito`). `ConBloques` is
`SwapExclusivo` with an injection in place of the count; `PresentesSon` and the library's
theorems on cardinality give the count back. All four are inductive together (`Invariante`);
`Quietas` settles the steps that touch no table. `FifoSiempre` needs besides that an access under
way is of a process that is still known (`AccesoVivo`), since an access is what appends to the
list; `BitSiempre` needs what a page differs from its block for: it is marked, loading, or the
thread that wrote it is about to mark it (`Marca`). `UnicoSiempre` is about the runs in which one
process was ever started (`Unico`): the frame its access was given still has its page, each page
in memory is one that the algorithm can elect or one whose access is about to stamp it
(`Elegible`, `PorUsar`), and the FIFO list has each page in memory once, the victim apart, and
between the two steps that free a process the pages of that one (`ListaPresente`). So there is
somebody to elect whenever no frame is free, and no entry of a freed table is left.

`Filesystem_proofs` and `FilesystemDisco_proofs` prove, for any processes, files, sizes and
length of the FAT:

* `TiposDelFilesystem`: `Spec => []TypeOK`;
* `NombresSinRepetir`: `Spec => []NombresUnicos`;
* `SocketSinCruces`: `Spec => []SoloDosPorMemoria`;
* `SwapSinTocar`: `Spec => []SwapIntacto`;
* `BloquesSinCompartir`: `Spec => []BloquesExclusivos`;
* `EsUnAlmacenSiempre`: `Spec => EsUnAlmacen`, the refinement of `Almacen`.

Assumption: `FilesystemSupuestos` only. It says that the sizes are finitely many, as they are in
the code (a `uint32_t`): otherwise `MaxBloques` would not bound anything; and that `NoExiste`, the
contents of a name without a file, is not the contents of any file.

The argument. `IInv` is `Tipo` with `Lugar`: which request the thread of each step serves and
what it holds there (`Orden`), that only the process inside `kf_open` has an F_OPEN or an F_CREATE
and that what its F_OPEN did not find is still missing at its F_CREATE (`Apertura`), and that what
is asked for exists (`Abiertos`). `NombresUnicos` alone is not inductive because `crear_fcb` looks
for the name without holding anything until it adds it; `Apertura` is the reason nobody gets in
between. `Socket` says, while nobody crossed, what is on the wire for the one request in course:
its question, or the code and the buffer of the answer, or the buffer alone.

`SinFinal` gives `SwapIntacto`: the file of the FAT still ends before its last entry, no entry,
FCB or thread leads to that entry, and so its block was not written. `Cadenas` gives
`BloquesExclusivos`: there is an assignment `c` of a sequence of blocks to each file
(`Reparto`), each a path in the FAT from the FCB's first block, no two with a block in common, and
each with half its file's size at least. The property itself speaks of finished files only; while
an F_TRUNCATE runs, the size is still the old one and the loop of `asignar_bloques` is in the
middle of a turn, so the invariant has to say where (`Obra`): after `t` turns the file has
`t / 2` blocks, and the thread is either at the block it just took or at the first free one,
which is where the next turn will find itself (`EnObra`). That is also the proof that the code
takes one block for every two it counts.

`Almacenado` gives `EsUnAlmacen`: with the same assignment `c`, which the step that takes a block
only makes longer (`Crece`), it says what the blocks hold (`Datos`). A free block holds nothing
(`Limpios`), and the file that an F_TRUNCATE is giving blocks to is empty and nobody reads or
writes it (`Nuevos`), so that when the size changes, at the last step, the new blocks are empty.
Whoever reads or writes asked for a block its file has and walks towards that block, and the word
on its way, in the socket or in the thread, is the one of the block or of the page (`Accesos`).
And a request took effect exactly when its thread is about to answer, an F_READ when `memoria`
has the block (`Hechos`). `Guarda` reads the contents off `c` instead of the FAT. Then each
action is one lemma: a step of the store (`PedirCumple`, `CrearCumple`, `FijarCumple`,
`EscribirCumple`, `ServirCumple`, ...) or one it does not see (`TruncaQuieto`, `AccesoQuieto`).

What the proof found. `SwapIntacto` held in the run because its constants are small: with three
sizes and one process an F_TRUNCATE that shrinks a file frees its last block and leaves -1 as its
first, the next one that grows it writes the entry -1 of the FAT, which stretches the file with
zeros, and then the last entry looks free. The write was an access outside of the FAT that
`Anotar` did not record in `fuera`, although the reads did; now it does. And `EsUnAlmacen` held
because no run truncated to 0: two processes may have a file open, one of them reads it while
the other truncates it to nothing, nobody left the contract, and `Almacen` did not say what is
read. It does now, and 0 is one of the sizes of `fs_archivos`.

`Lemas` holds what more than one of these modules cites: `Induccion` (over Nat, one set at a
time), maxima and minima of finite sets, and sequences without repetitions under `RemoveFirst`.

Only model-checked: the liveness properties (`ElQueEjecutoVuelve`, `TerminadoSeDestruye`,
`PfRespondido`, `TodoDevuelto`, `PedidoTermina`, `EsperaTermina`), because liveness under fairness
and ENABLED are out of the prover's reach, and the three runs that expect a violation. Every
safety invariant and every refinement that a passing run checks is proved; `FifoSinColgados`,
`BitFiel` and `UnicoSeguro` under the hypotheses on the accesses said above.

## Findings

* `kernel_instancia_fantasma`: `ksignal` adds 1 to `cantidad` and also hands the instance to
  the first waiter, so each SIGNAL with a waiter creates an instance; `kernel/cfg/integral`
  declares one instance of each resource.
* `kernel_rr_no_rota`: `exec_pcb` puts a preempted process at the end of `lista_ready`
  without stamping it, and `obtener_pcb_RR` sorts by the stamp of its previous arrival.
* `memoria_f_read_sin_marca`: the comment at memoria.c:1280 says the page is marked when
  F_READ writes its frame, and the call under it is commented out: if the page is replaced
  before a MOV_OUT marks it, what was read from the file is lost.

## Not modelled, and why

* `finalizar_proceso` from the console (kernel.c 343-378): it takes a PCB out of any list;
  planned, since it adds an owner to every step.
* `sem_blocked_w` and list operations torn by another thread: list operations are atomic
  in the model, also the few the code leaves without a mutex.
* the stamp `tiempo_ingreso_ready` written after the `list_add` without a lock, and the
  stability of `list_sort` of the commons library (external; stable).
* a second `iniciar_planificacion` that starts each thread twice.
* in `Planificador`: the kernel's death in `kf_open`, `kf_close`, `kf_write` or `pcb_destroy` when
  the table has no entry for the name (`Archivos` has it). A PCB is looked up by its pid: the code
  finds the same one in `cola_block` and `lista_global` through pointers, some of them to PCBs
  already freed, whose pid it reads all the same (plani.c 488, kernel.c 380). The test
  `list_size(lista_ready)` between two `sem_post` is one step with them: `exec_pcb`, which takes
  from the list, makes most of these tests itself, and when it wakes in the middle of the one in
  `exit_pcb` it owes the posts of the turn it begins.
* in `Memoria`: a process ended from the console while an access of it is under way; an
  access that crosses the end of a page; reading and sending the text of instructions;
  `finalizar_memoria`. Some unlocked writes are one step: those of an eviction (memoria.c 361-367,
  679-685), the frames that one loop gives back with the exit from `procesos_totales` (1393-1398),
  the lookup of a process and the filter of its pages.
* in `Filesystem`: `hilo_f_close` and `PRINT_FILE_DATA`, which the kernel never asks for,
  `borrar_fcb`, which nobody calls, the shutdown, and files that cannot be opened. The
  sizes are whole blocks: an F_TRUNCATE to a smaller size within the same last block, which
  frees blocks all the same, is `retruncado` with other numbers. F_READ and F_WRITE are below the
  file's size, although `kf_seek` does not look at it. A turn of the loop of `desasignar_bloques` is
  one step, and reads the first block from the FCB, where the code has a local copy: two F_TRUNCATE
  of one file would tell them apart, and they are outside the contract. Size and bytes of a buffer
  are one token.
* in `Archivos`: several files at once, whose entries never meet (one process that waits for
  two files in the order opposite to another's is a deadlock of the programs), and the offset
  that F_SEEK leaves. `exec_pcb` runs any ready process: the order is `Planificador`'s subject. A
  program closes, reads and writes only a file that its F_OPEN gave it and that it has not closed,
  and opens it again only after it closed it.
* `codigo_operacion` of the CPU, which its two threads overwrite (cpu.c:76).
* the `F_ERROR` branch of `recibir_op_FS` (`PedidoTermina` shows that no `kf_open` meets it) and
  the log-only functions (`proceso_estado`, `hay_deadlock`).
* the shared library: serialisation and sockets, seen as the messages they carry.

## Plan

Done: `Planificador`, `Memoria`, `Filesystem` over `Almacen`, and `Archivos` over `Cerrojo`, each
with the proofs above. Next, in order:

1. `Cpu`: fetch, MMU, execute and interrupt check against the kernel's dispatch, with
   `codigo_operacion` shared by two threads.
2. `Planificador`: `finalizar_proceso` from the console.

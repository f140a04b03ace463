---------------------------- MODULE Planificador ----------------------------
(***************************************************************************)
(* The scheduler of the kernel process: kernel/src/plani.c, the scheduling *)
(* system calls of kernel/src/instructions.c and the parts of              *)
(* kernel/src/kernel.c that move a PCB (console, liberar_recursos,         *)
(* manejar_pf, recibir_op_FS).                                             *)
(*                                                                         *)
(* One action per step of a thread between two points where another thread *)
(* can see or change what it uses: a sem_wait, a blocking recv, a test of a *)
(* shared list or counter that is acted on later, and the two halves of an *)
(* unlocked x += 1.  The threads are the console, ready_pcb, exit_pcb,     *)
(* exec_pcb (with the CPU it waits for), recibir_op_FS, one sleeper per    *)
(* SLEEP and one manejar_pf per page fault.                                *)
(*                                                                         *)
(* Abstracted: the lists of the commons library are sequences and each     *)
(* list operation is atomic (the code leaves some of them without a mutex: *)
(* see the README); registers, operands and log lines are left out; a      *)
(* program is a sequence of the instructions the scheduler tells apart.    *)
(* What kf_open and kf_close find in the table of open files is a choice   *)
(* among the ends they can have (module Archivos has the table): a PCB     *)
(* waits in the queue of some entry, leaves it, or is lost with it.  That  *)
(* they die when the table has no entry for the name is not here.          *)
(***************************************************************************)
EXTENDS Integers, SequencesExt

CONSTANTS
  PrimerPid,     \* value of generador_de_id when the model starts
  NProcesos,     \* how many processes the console creates
  Programas,     \* the instruction sequences a path of iniciar_proceso can name
  Prioridades,   \* the priorities iniciar_proceso can be given
  NRecursos,     \* length of RECURSOS in the config
  Instancias,    \* INSTANCIAS_RECURSOS
  ModUint,       \* 2^32: cantidad is a uint32_t
  Algoritmo,     \* ALGORITMO_PLANIFICACION
  GradoInicial,  \* GRADO_MULTIPROGRAMACION_INI
  Grados,        \* arguments the console gives to modificar_grado
  MaxPausas,     \* bound: how many times detener_planificacion is typed
  MaxFallos,     \* bound: page faults of one process
  MaxReloj       \* bound: seconds that time(NULL) advances

Nada     == -1                                      \* a NULL t_pcb *
Pid      == PrimerPid .. PrimerPid + NProcesos - 1
Recursos == 1 .. NRecursos                          \* index in recursos_kernel
Operaciones ==
  {"SET", "MOV", "WAIT", "SIGNAL", "SLEEP", "F_OPEN", "F_CLOSE", "F_SEEK", "F_IO", "EXIT"}
Syscalls    == Operaciones \ {"SET", "MOV"}         \* es_syscall in the CPU
Instruccion == [op : Operaciones, rec : 0 .. NRecursos]  \* rec 0: no such name

ASSUME PlanificadorSupuestos ==
  /\ PrimerPid \in Nat /\ NProcesos \in Nat /\ NRecursos \in Nat
  /\ Programas # {} /\ Programas \subseteq Seq(Instruccion)
  /\ \A s \in Programas : s # <<>> /\ s[Len(s)].op = "EXIT"
  /\ Prioridades # {} /\ Prioridades \subseteq Int
  /\ ModUint \in Nat \ {0}
  /\ Instancias \in [Recursos -> 0 .. ModUint - 1]
  /\ Algoritmo \in {"FIFO", "RR", "PRIORIDADES"}
  /\ GradoInicial \in Nat /\ Grados \subseteq Nat
  /\ MaxPausas \in Nat /\ MaxFallos \in Nat /\ MaxReloj \in Nat

VARIABLES
  pcb,                  \* t_pcb and its t_contexto_ejecucion, by pid
  generador_de_id,
  cola,                 \* the kernel's global lists of t_pcb *, but for:
  cola_block,           \* how many times each PCB is in it; nobody reads its order
  cantidad,             \* recursos_kernel[r]->cantidad
  colabloqueado,        \* recursos_kernel[r]->colabloqueado
  espera_archivo,       \* the PCBs in the colabloqueado of the entries of the open files
  perdidos,             \* history: those whose entry left the table and took its queue along
  sem,                  \* the semaphores
  frenado, iniciada, grado, consola,  \* the console and what it sets
  reloj,                \* time(NULL)
  proceso_en_ejecucion, pcbelegido,
  exec,                 \* exec_pcb: where it is, its resource, a value it read, a PCB it popped
  admision,             \* ready_pcb: its PCB and the list size it read
  salida,               \* exit_pcb and liberar_recursos
  sleepers,             \* the sleeper threads
  pf,                   \* the manejar_pf threads and memoria's request socket
  fs,                   \* recibir_op_FS and the filesystem's request socket
  interrupcion,         \* an INTERRUPT_NUEVO_PROCESO not yet taken by the CPU
  caido                 \* how the kernel process died, or "no"

vars ==
  <<pcb, generador_de_id, cola, cola_block, cantidad, colabloqueado, espera_archivo, perdidos,
    sem, frenado, iniciada, grado, consola, reloj, proceso_en_ejecucion, pcbelegido, exec, admision,
    salida, sleepers, pf, fs, interrupcion, caido>>

consolaVars == <<generador_de_id, frenado, iniciada, grado, consola, reloj>>
archivoVars == <<espera_archivo, perdidos>>
recursoVars == <<cantidad, colabloqueado, archivoVars>>
cpuVars     == <<proceso_en_ejecucion, pcbelegido, interrupcion>>
hilosVars   == <<sleepers, pf, fs>>

-----------------------------------------------------------------------------
(* Helpers *)

Listas    == {"listos", "ready", "detenidos", "exec", "exit"}
Semaforos ==
  {"listos", "ready", "exec", "exit", "detener", "detener_sleep", "FS", "reanudar"}

\* sem_post on every semaphore of S.
Post(S) == [s \in Semaforos |-> sem[s] + IF s \in S THEN 1 ELSE 0]

\* safe_pcb_remove and list_remove(l, 0): the head of a list leaves it.
SinPrimero(c, l) == [c EXCEPT ![l] = Tail(@)]

\* list_add: a PCB at the end of a list.
Agregar(c, l, p) == [c EXCEPT ![l] = Append(@, p)]

\* Mutant of SinBloqueado: remove_blocked without its test of what list_find found.
SinBloqueadoSinTest(p) == [cola_block EXCEPT ![p] = @ - 1]

\* remove_blocked: the first occurrence leaves cola_block, if there is one.
SinBloqueado(p) == [cola_block EXCEPT ![p] = IF @ > 0 THEN @ - 1 ELSE 0]

\* set_pcb_block and kwait: the PCB enters cola_block once more.
Bloqueado(p) == [cola_block EXCEPT ![p] = @ + 1]

\* list_size(cola_block).
Bloqueados == FoldFunction(LAMBDA a, b : a + b, 0, cola_block)

\* pcb_create.
Nuevo(ps, p, programa, prioridad) ==
  [ps EXCEPT ![p].programa = programa, ![p].prioridad = prioridad, ![p].estado = "NEW"]

\* set_pcb_ready on the PCB itself; it also stamps tiempo_ingreso_ready.
Listo(ps, p) == [ps EXCEPT ![p].estado = "READY", ![p].tiempo = reloj]

HayReady == cola["ready"] # <<>>

\* Mutant of PostSiHayReady: exec_pcb is not woken for the processes left in lista_ready.
PostSoloReady == Post({"ready"})

\* The end of a handler that blocked its process: one sem_post(&sem_ready), and
\* one sem_post(&sem_exec) when lista_ready is not empty.
PostSiHayReady == Post({"ready"} \cup IF HayReady THEN {"exec"} ELSE {})

\* What obtener_pcb_RR and obtener_pcb_PRIORIDAD sort lista_ready by; FIFO does not sort.
Clave(p) == CASE Algoritmo = "FIFO"        -> 0
              [] Algoritmo = "RR"          -> pcb[p].tiempo
              [] Algoritmo = "PRIORIDADES" -> pcb[p].prioridad

\* The position elegir_pcb_segun_algoritmo takes from: list_sort keeps the order
\* of equal keys, so it is the first of the least keys.  The sorted order of the
\* rest is seen by nobody but the next choice, and is left out.
Elegido(s, i) ==
  \A j \in DOMAIN s : Clave(s[i]) < Clave(s[j]) \/ (Clave(s[i]) = Clave(s[j]) /\ i <= j)

\* chekeo_desalojo_prioridades and the same test in ready_pcb: is an interrupt sent
\* for p?  A pcbelegido that exit_pcb freed is compared all the same.
Desaloja(p) ==
  CASE Algoritmo # "PRIORIDADES" \/ pcbelegido = Nada -> {FALSE}
    [] pcb[pcbelegido].estado = "DESTRUIDO"           -> BOOLEAN
    [] OTHER -> {pcb[p].prioridad < pcb[pcbelegido].prioridad}

\* The interrupt socket after that test.
Interrumpe(p) == \E d \in Desaloja(p) : interrupcion' = (interrupcion \/ d)

\* abs(pid) / 100 > 0: what exec_pcb takes for a PCB that was already freed.
EsBasura(p) == p \div 100 > 0

\* The instruction the program counter of p names.
Actual(p) == pcb[p].programa[pcb[p].pc + 1]

Esperando == [paso |-> "sem", rec |-> 0, reg |-> 0, hijo |-> Nada]
SinSalida == [paso |-> "sem", pcb |-> Nada, rec |-> 1, reg |-> 0, aux |-> <<>>, hijo |-> Nada]

-----------------------------------------------------------------------------
(* The console thread: main, iniciar_proceso, pcb_create *)

\* iniciar_proceso: the next pid, a PCB in state NEW at the end of
\* cola_listos_para_ready, one sem_post(&sem_listos_ready).
IniciarProceso ==
  /\ generador_de_id \in Pid /\ consola.paso = "libre"
  /\ \E programa \in Programas, prioridad \in Prioridades :
       pcb' = Nuevo(pcb, generador_de_id, programa, prioridad)
  /\ generador_de_id' = generador_de_id + 1
  /\ cola' = Agregar(cola, "listos", generador_de_id)
  /\ sem' = Post({"listos"})
  /\ UNCHANGED <<cola_block, recursoVars, frenado, iniciada, grado, consola, reloj, cpuVars,
                 exec, admision, salida, hilosVars, caido>>

\* iniciar_planificacion while nothing is paused: the four threads start.
IniciarPlanificacion ==
  /\ consola.paso = "libre" /\ ~frenado /\ ~iniciada
  /\ iniciada' = TRUE
  /\ UNCHANGED <<pcb, generador_de_id, cola, cola_block, recursoVars, sem, frenado, grado, consola,
                 reloj, cpuVars, exec, admision, salida, hilosVars, caido>>

\* detener_planificacion: only the flag changes.
DetenerPlanificacion ==
  /\ consola.paso = "libre" /\ ~frenado /\ consola.pausas < MaxPausas
  /\ frenado' = TRUE
  /\ consola' = [consola EXCEPT !.pausas = @ + 1]
  /\ UNCHANGED <<pcb, generador_de_id, cola, cola_block, recursoVars, sem, iniciada, grado, reloj,
                 cpuVars, exec, admision, salida, hilosVars, caido>>

\* iniciar_planificacion while paused: first the four posts ...
ReanudarPost ==
  /\ consola.paso = "libre" /\ frenado
  /\ sem' = Post({"detener", "detener_sleep", "ready", "exec"})
  /\ consola' = [consola EXCEPT !.paso = "reanudando"]
  /\ UNCHANGED <<pcb, generador_de_id, cola, cola_block, recursoVars, frenado, iniciada, grado, reloj,
                 cpuVars, exec, admision, salida, hilosVars, caido>>

\* ... then the flag.
ReanudarFlag ==
  /\ consola.paso = "reanudando"
  /\ frenado' = FALSE
  /\ consola' = [consola EXCEPT !.paso = "libre"]
  /\ UNCHANGED <<pcb, generador_de_id, cola, cola_block, recursoVars, sem, iniciada, grado, reloj,
                 cpuVars, exec, admision, salida, hilosVars, caido>>

\* modificar_grado.
ModificarGrado ==
  /\ consola.paso = "libre"
  /\ \E g \in Grados \ {grado} : grado' = g
  /\ UNCHANGED <<pcb, generador_de_id, cola, cola_block, recursoVars, sem, frenado, iniciada, consola,
                 reloj, cpuVars, exec, admision, salida, hilosVars, caido>>

\* A second goes by.
PasaSegundo ==
  /\ reloj < MaxReloj
  /\ reloj' = reloj + 1
  /\ UNCHANGED <<pcb, generador_de_id, cola, cola_block, recursoVars, sem, frenado, iniciada, grado,
                 consola, cpuVars, exec, admision, salida, hilosVars, caido>>

-----------------------------------------------------------------------------
(* ready_pcb: admission under the degree of multiprogramming *)

\* The new PCB and the size of lista_ready; both lists are read without their mutex.
AdmisionToma ==
  /\ iniciada /\ admision.paso = "sem" /\ sem["listos"] > 0 /\ cola["listos"] # <<>>
  /\ sem' = [sem EXCEPT !["listos"] = @ - 1]
  /\ cola' = SinPrimero(cola, "listos")
  /\ admision' = [paso |-> "contar", pcb |-> Head(cola["listos"]), ready |-> Len(cola["ready"])]
  /\ UNCHANGED <<cola_block, pcb, consolaVars, recursoVars, cpuVars, exec, salida, hilosVars, caido>>

\* lista_ready plus cola_block against the degree: the executing process is not counted.
HayLugar == admision.ready + Bloqueados < grado

AdmisionAcepta ==
  /\ admision.paso = "contar" /\ HayLugar
  /\ pcb' = Listo(pcb, admision.pcb)
  /\ cola' = Agregar(cola, "ready", admision.pcb)
  /\ Interrumpe(admision.pcb)
  /\ admision' = [admision EXCEPT !.paso = "avisar", !.pcb = Nada]
  /\ UNCHANGED <<cola_block, consolaVars, recursoVars, sem, proceso_en_ejecucion, pcbelegido, exec,
                 salida, hilosVars, caido>>

AdmisionDetiene ==
  /\ admision.paso = "contar" /\ ~HayLugar
  /\ cola' = Agregar(cola, "detenidos", admision.pcb)
  /\ admision' = [admision EXCEPT !.paso = "sem", !.pcb = Nada]
  /\ UNCHANGED <<cola_block, pcb, consolaVars, recursoVars, sem, cpuVars, exec, salida, hilosVars,
                 caido>>

\* Only sem_ready is posted here, and only while not paused.
AdmisionAvisa ==
  /\ admision.paso = "avisar"
  /\ sem' = IF frenado THEN sem ELSE Post({"ready"})
  /\ admision' = [admision EXCEPT !.paso = "sem"]
  /\ UNCHANGED <<pcb, consolaVars, cola, cola_block, recursoVars, cpuVars, exec, salida, hilosVars,
                 caido>>

-----------------------------------------------------------------------------
(* exec_pcb: dispatch, the CPU's turn, and what comes back from it *)

\* Mutant of ExecDespierta: without the test of lista_ready and proceso_en_ejecucion.
ExecDespiertaSinTest ==
  /\ iniciada /\ exec.paso = "sem" /\ sem["ready"] > 0 /\ sem["exec"] > 0
  /\ sem' = [sem EXCEPT !["ready"] = @ - 1, !["exec"] = @ - 1]
  /\ exec' = [exec EXCEPT !.paso = "elegir"]
  /\ UNCHANGED <<pcb, consolaVars, cola, cola_block, recursoVars, cpuVars, admision, salida,
                 hilosVars, caido>>

\* sem_wait on both semaphores, and the test for having nothing to do.
ExecDespierta ==
  /\ iniciada /\ exec.paso = "sem" /\ sem["ready"] > 0 /\ sem["exec"] > 0
  /\ sem' = [sem EXCEPT !["ready"] = @ - 1, !["exec"] = @ - 1]
  /\ exec' = IF HayReady \/ proceso_en_ejecucion # Nada
             THEN [exec EXCEPT !.paso = "elegir"] ELSE exec
  /\ UNCHANGED <<pcb, consolaVars, cola, cola_block, recursoVars, cpuVars, admision, salida, hilosVars,
                 caido>>

\* A process whose last system call did not block goes on executing.
Continua ==
  /\ proceso_en_ejecucion # Nada
  /\ pcb[proceso_en_ejecucion].motivo \in {"SYSCALL", "PAGE_FAULT"}

ExecContinua ==
  /\ exec.paso = "elegir" /\ Continua
  /\ pcbelegido' = proceso_en_ejecucion
  /\ exec' = [exec EXCEPT !.paso = IF EsBasura(pcbelegido') THEN "basura" ELSE "cpu"]
  /\ UNCHANGED <<pcb, consolaVars, cola, cola_block, recursoVars, sem, proceso_en_ejecucion,
                 interrupcion, admision, salida, hilosVars, caido>>

\* elegir_pcb_segun_algoritmo, which calls exit(1) on an empty lista_ready, and
\* proceso_admitido.
ExecElige ==
  /\ exec.paso = "elegir" /\ ~Continua
  /\ IF HayReady
     THEN \E i \in DOMAIN cola["ready"] :
            LET p == cola["ready"][i]
            IN /\ Elegido(cola["ready"], i)
               /\ pcbelegido' = p
               /\ pcb' = [pcb EXCEPT ![p].estado = "EXEC"]
               /\ cola' = [cola EXCEPT !["ready"] = RemoveAt(@, i), !["exec"] = Append(@, p)]
               /\ exec' = [exec EXCEPT !.paso = IF EsBasura(p) THEN "basura" ELSE "cpu"]
               /\ UNCHANGED caido
     ELSE caido' = "lista_vacia" /\ UNCHANGED <<pcbelegido, pcb, cola, exec>>
  /\ UNCHANGED <<cola_block, consolaVars, recursoVars, sem, proceso_en_ejecucion, interrupcion,
                 admision, salida, hilosVars>>

\* A pid of 100 or more: the PCB is dropped, the next one gets its turn.
ExecDescarta ==
  /\ exec.paso = "basura"
  /\ sem' = PostSiHayReady
  /\ exec' = Esperando
  /\ UNCHANGED <<pcb, consolaVars, cola, cola_block, recursoVars, cpuVars, admision, salida, hilosVars,
                 caido>>

\* The CPU executes one instruction that is not a system call and finds its page.
CpuEjecuta ==
  /\ exec.paso = "cpu" /\ Actual(pcbelegido).op \in {"SET", "MOV"}
  /\ pcb' = [pcb EXCEPT ![pcbelegido].pc = @ + 1]
  /\ UNCHANGED <<consolaVars, cola, cola_block, recursoVars, sem, cpuVars, exec, admision, salida,
                 hilosVars, caido>>

\* The CPU or its socket drops an interrupt: no context loaded, or the flag cleared
\* after a system call.
InterrupcionPerdida ==
  /\ interrupcion
  /\ interrupcion' = FALSE
  /\ UNCHANGED <<pcb, consolaVars, cola, cola_block, recursoVars, sem, proceso_en_ejecucion, pcbelegido,
                 exec, admision, salida, hilosVars, caido>>

\* The CPU sees an interrupt between two instructions, perhaps before the first: a
\* quantum that ended (RR) or a new process (PRIORIDADES).  exec_pcb's default case:
\* the PCB goes to the end of lista_ready without set_pcb_ready.
ExecDesalojo ==
  /\ exec.paso = "cpu" /\ (Algoritmo = "RR" \/ interrupcion)
  /\ pcb' = [pcb EXCEPT ![pcbelegido].motivo = "INTERRUPT"]
  /\ proceso_en_ejecucion' = pcbelegido
  /\ interrupcion' = FALSE
  /\ cola' = Agregar(SinPrimero(cola, "exec"), "ready", pcbelegido)
  /\ sem' = IF frenado THEN sem ELSE Post({"ready", "exec"})
  /\ exec' = Esperando
  /\ UNCHANGED <<cola_block, consolaVars, recursoVars, pcbelegido, admision, salida, hilosVars, caido>>

\* The page of a MOV, or of the buffer of an F_READ or F_WRITE, is missing: set_pcb_block
\* and a manejar_pf thread.  The instruction will be executed again.  F_IO is also
\* F_TRUNCATE, which has no buffer: for it the fault is an excess of the model.
ExecPageFault ==
  /\ exec.paso = "cpu" /\ Actual(pcbelegido).op \in {"MOV", "F_IO"}
  /\ pcb[pcbelegido].fallos < MaxFallos
  /\ pcb' = [pcb EXCEPT ![pcbelegido].motivo = "PAGE_FAULT", ![pcbelegido].estado = "BLOCK",
                        ![pcbelegido].fallos = @ + 1]
  /\ proceso_en_ejecucion' = Nada
  /\ cola' = SinPrimero(cola, "exec")
  /\ cola_block' = Bloqueado(pcbelegido)
  /\ pf' = [pf EXCEPT !.nuevos = @ \cup {pcbelegido}]
  /\ exec' = Esperando
  /\ UNCHANGED <<consolaVars, recursoVars, sem, pcbelegido, interrupcion, admision, salida,
                 sleepers, fs, caido>>

\* A system call ends the CPU's turn: exec_pcb enters the handler of its code.
ExecSyscall ==
  /\ exec.paso = "cpu" /\ Actual(pcbelegido).op \in Syscalls
  /\ pcb' = [pcb EXCEPT ![pcbelegido].pc = @ + 1, ![pcbelegido].motivo = "SYSCALL"]
  /\ proceso_en_ejecucion' = pcbelegido
  /\ exec' = [exec EXCEPT !.paso = Actual(pcbelegido).op]
  /\ UNCHANGED <<consolaVars, cola, cola_block, recursoVars, sem, pcbelegido, interrupcion, admision,
                 salida, hilosVars, caido>>

-----------------------------------------------------------------------------
(* The system calls, in the exec_pcb thread *)

\* The resource named by the system call being handled, and whether buscar_recurso
\* finds it.
Pedido == pcb[pcbelegido].programa[pcb[pcbelegido].pc].rec
Existe == Pedido \in Recursos

\* The end of every path that sends the executing process to cola_exit.
AlExit(ps, c) ==
  /\ pcb' = [ps EXCEPT ![pcbelegido].estado = "FINISH_EXIT"]
  /\ cola' = Agregar(c, "exit", pcbelegido)
  /\ proceso_en_ejecucion' = Nada
  /\ exec' = Esperando

\* Mutant of Kexit: without sem_post(&sem_exit).
KexitSinPost ==
  /\ exec.paso = "EXIT"
  /\ AlExit(pcb, cola)
  /\ UNCHANGED <<cola_block, consolaVars, recursoVars, sem, pcbelegido, interrupcion, admision,
                 salida, hilosVars, caido>>

\* kexit: the PCB stays in cola_exec.
Kexit ==
  /\ exec.paso = "EXIT"
  /\ AlExit(pcb, cola)
  /\ sem' = Post({"exit"})
  /\ UNCHANGED <<cola_block, consolaVars, recursoVars, pcbelegido, interrupcion, admision, salida,
                 hilosVars, caido>>

\* The end of a handler that lets its process go on.
SigueEnCpu ==
  /\ sem' = Post({"ready", "exec"})
  /\ exec' = Esperando
  /\ UNCHANGED <<pcb, consolaVars, cola, cola_block, cpuVars, admision, salida, hilosVars, caido>>

KfSeek == exec.paso = "F_SEEK" /\ SigueEnCpu /\ UNCHANGED recursoVars

\* ksleep: blocked, a sleeper thread started; a paused kernel then waits.
Ksleep ==
  /\ exec.paso = "SLEEP"
  /\ pcb' = [pcb EXCEPT ![pcbelegido].estado = "BLOCK"]
  /\ cola' = SinPrimero(cola, "exec")
  /\ cola_block' = Bloqueado(pcbelegido)
  /\ proceso_en_ejecucion' = Nada
  /\ sleepers' = [sleepers EXCEPT !.durmiendo = @ \cup {pcbelegido}]
  /\ exec' = [exec EXCEPT !.paso = IF frenado THEN "sleep_detenido" ELSE "sleep_avisar"]
  /\ UNCHANGED <<consolaVars, recursoVars, sem, pcbelegido, interrupcion, admision, salida,
                 pf, fs, caido>>

KsleepSigue ==
  /\ exec.paso = "sleep_detenido" /\ sem["detener"] > 0
  /\ sem' = [sem EXCEPT !["detener"] = @ - 1]
  /\ exec' = [exec EXCEPT !.paso = "sleep_avisar"]
  /\ UNCHANGED <<pcb, consolaVars, cola, cola_block, recursoVars, cpuVars, admision, salida, hilosVars,
                 caido>>

KsleepAvisa ==
  /\ exec.paso = "sleep_avisar"
  /\ sem' = PostSiHayReady
  /\ exec' = Esperando
  /\ UNCHANGED <<pcb, consolaVars, cola, cola_block, recursoVars, cpuVars, admision, salida, hilosVars,
                 caido>>

\* kf_open: what the table of open files answers is Archivos' subject, and a choice here.
\* No entry: the request goes out and exec_pcb waits for reanudaar_exec ...
KfOpenPide ==
  /\ exec.paso = "F_OPEN"
  /\ sem' = Post({"FS"})
  /\ exec' = [exec EXCEPT !.paso = "abrir_fs"]
  /\ UNCHANGED <<pcb, consolaVars, cola, cola_block, recursoVars, cpuVars, admision, salida,
                 hilosVars, caido>>

\* ... and creates the entry.
KfOpenCrea ==
  /\ exec.paso = "abrir_fs" /\ sem["reanudar"] > 0
  /\ sem' = [Post({"ready", "exec"}) EXCEPT !["reanudar"] = @ - 1]
  /\ exec' = Esperando
  /\ UNCHANGED <<pcb, consolaVars, cola, cola_block, recursoVars, cpuVars, admision, salida,
                 hilosVars, caido>>

\* A reader joins readers.
KfOpenComparte == exec.paso = "F_OPEN" /\ SigueEnCpu /\ UNCHANGED recursoVars

\* Mutant of KfOpenEspera: without queue_push.
KfOpenEsperaSinPush ==
  /\ exec.paso = "F_OPEN"
  /\ pcb' = [pcb EXCEPT ![pcbelegido].estado = "BLOCK"]
  /\ cola' = SinPrimero(cola, "exec")
  /\ cola_block' = Bloqueado(pcbelegido)
  /\ proceso_en_ejecucion' = Nada
  /\ sem' = PostSiHayReady
  /\ exec' = Esperando
  /\ UNCHANGED <<consolaVars, recursoVars, pcbelegido, interrupcion, admision, salida,
                 hilosVars, caido>>

\* One of the two writes: the PCB enters the entry's queue, and exec_block_fs.
KfOpenEspera ==
  /\ exec.paso = "F_OPEN"
  /\ espera_archivo' = espera_archivo \cup {pcbelegido}
  /\ pcb' = [pcb EXCEPT ![pcbelegido].estado = "BLOCK"]
  /\ cola' = SinPrimero(cola, "exec")
  /\ cola_block' = Bloqueado(pcbelegido)
  /\ proceso_en_ejecucion' = Nada
  /\ sem' = PostSiHayReady
  /\ exec' = Esperando
  /\ UNCHANGED <<consolaVars, cantidad, colabloqueado, perdidos, pcbelegido, interrupcion,
                 admision, salida, hilosVars, caido>>

\* The queue of an entry goes with it when it leaves the table.
Pierde(S) == espera_archivo' = espera_archivo \ S /\ perdidos' = perdidos \cup S

\* kf_close: those whom it lets in leave the queue one by one.  Like set_pcb_ready after
\* a sleep, this leaves them in cola_block.
KfCloseAbre ==
  /\ exec.paso \in {"F_CLOSE", "cerrar"}
  /\ \E p \in espera_archivo :
       /\ espera_archivo' = espera_archivo \ {p}
       /\ pcb' = Listo(pcb, p)
       /\ cola' = Agregar(cola, "ready", p)
  /\ exec' = [exec EXCEPT !.paso = "cerrar"]
  /\ UNCHANGED <<consolaVars, cola_block, cantidad, colabloqueado, perdidos, sem, cpuVars,
                 admision, salida, hilosVars, caido>>

\* Nobody waits, or everybody whom it lets in is READY.
KfCloseFin == exec.paso \in {"F_CLOSE", "cerrar"} /\ SigueEnCpu /\ UNCHANGED recursoVars

\* Readers are left: a new entry takes the place of the one where others wait.
KfCloseDeVarios ==
  /\ exec.paso = "F_CLOSE" /\ SigueEnCpu
  /\ \E S \in SUBSET espera_archivo : Pierde(S)
  /\ UNCHANGED <<cantidad, colabloqueado>>

\* kf_write of a file open to read: finalizar_proceso_en_ejecucion.
KfWriteLector ==
  /\ exec.paso = "F_IO"
  /\ AlExit(pcb, SinPrimero(cola, "exec"))
  /\ sem' = Post({"exit"})
  /\ UNCHANGED <<cola_block, consolaVars, recursoVars, pcbelegido, interrupcion, admision, salida,
                 hilosVars, caido>>

\* kf_read, kf_write, kf_truncate: the request goes out before the process is blocked ...
KfPide ==
  /\ exec.paso = "F_IO"
  /\ fs' = [fs EXCEPT !.pedidos = @ \cup {pcbelegido}]
  /\ exec' = [exec EXCEPT !.paso = "fs_bloquear"]
  /\ UNCHANGED <<pcb, consolaVars, cola, cola_block, recursoVars, sem, cpuVars, admision, salida,
                 sleepers, pf, caido>>

\* ... fs_interaction and exec_block_fs: neither sem_ready nor sem_exec is posted.
KfBloquea ==
  /\ exec.paso = "fs_bloquear"
  /\ pcb' = [pcb EXCEPT ![pcbelegido].estado = "BLOCK"]
  /\ cola' = SinPrimero(cola, "exec")
  /\ cola_block' = Bloqueado(pcbelegido)
  /\ proceso_en_ejecucion' = Nada
  /\ sem' = Post({"FS"})
  /\ exec' = Esperando
  /\ UNCHANGED <<consolaVars, recursoVars, pcbelegido, interrupcion, admision, salida,
                 hilosVars, caido>>

\* kwait on a name that is not in the config: the head of cola_exec is marked as
\* finished (a write to freed memory if exit_pcb destroyed it), the executing
\* process goes to cola_exit.
KwaitInexistente ==
  /\ exec.paso = "WAIT" /\ ~Existe
  /\ pcb' = [pcb EXCEPT ![Head(cola["exec"])].estado =
                IF @ = "DESTRUIDO" THEN @ ELSE "FINISH_EXIT"]
  /\ cola' = Agregar(SinPrimero(cola, "exec"), "exit", pcbelegido)
  /\ proceso_en_ejecucion' = Nada
  /\ sem' = Post({"exit"})
  /\ exec' = Esperando
  /\ UNCHANGED <<cola_block, consolaVars, recursoVars, pcbelegido, interrupcion, admision, salida,
                 hilosVars, caido>>

\* Mutant of KwaitMira: safe_pcb_remove(cola_exec) before the test.
KwaitMiraSinTest ==
  /\ exec.paso = "WAIT" /\ Existe
  /\ cola' = SinPrimero(cola, "exec")
  /\ exec' = [exec EXCEPT !.rec = Pedido,
                  !.paso = IF cantidad[Pedido] > 0 THEN "wait_leer"
                           ELSE IF frenado THEN "wait_detenido" ELSE "wait_encolar"]
  /\ UNCHANGED <<cola_block, pcb, consolaVars, recursoVars, sem, cpuVars, admision, salida,
                 hilosVars, caido>>

\* kwait: the test of cantidad <= 0 on a uint32_t.
KwaitMira ==
  /\ exec.paso = "WAIT" /\ Existe
  /\ IF cantidad[Pedido] = 0
     THEN /\ cola' = SinPrimero(cola, "exec")
          /\ exec' = [exec EXCEPT !.paso = IF frenado THEN "wait_detenido" ELSE "wait_encolar",
                                 !.rec = Pedido]
     ELSE /\ exec' = [exec EXCEPT !.paso = "wait_leer", !.rec = Pedido]
          /\ UNCHANGED cola
  /\ UNCHANGED <<cola_block, pcb, consolaVars, recursoVars, sem, cpuVars, admision, salida, hilosVars,
                 caido>>

KwaitSigue ==
  /\ exec.paso = "wait_detenido" /\ sem["detener"] > 0
  /\ sem' = [sem EXCEPT !["detener"] = @ - 1]
  /\ exec' = [exec EXCEPT !.paso = "wait_encolar"]
  /\ UNCHANGED <<pcb, consolaVars, cola, cola_block, recursoVars, cpuVars, admision, salida, hilosVars,
                 caido>>

\* Mutant of KwaitEncola: without queue_push.
KwaitEncolaSinPush ==
  /\ exec.paso = "wait_encolar"
  /\ pcb' = [pcb EXCEPT ![pcbelegido].estado = "BLOCK"]
  /\ exec' = [exec EXCEPT !.paso = "wait_bloquear"]
  /\ UNCHANGED <<consolaVars, cola, cola_block, recursoVars, sem, cpuVars, admision, salida,
                 hilosVars, caido>>

\* The process enters the resource's queue; exit_pcb takes from it without the mutex ...
KwaitEncola ==
  /\ exec.paso = "wait_encolar"
  /\ pcb' = [pcb EXCEPT ![pcbelegido].estado = "BLOCK"]
  /\ colabloqueado' = [colabloqueado EXCEPT ![exec.rec] = Append(@, pcbelegido)]
  /\ exec' = [exec EXCEPT !.paso = "wait_bloquear"]
  /\ UNCHANGED <<consolaVars, cola, cola_block, cantidad, archivoVars, sem, cpuVars, admision, salida,
                 hilosVars, caido>>

\* Mutant of KwaitBloquea: without proceso_en_ejecucion = NULL.
KwaitBloqueaSinNull ==
  /\ exec.paso = "wait_bloquear"
  /\ cola_block' = Bloqueado(pcbelegido)
  /\ sem' = PostSiHayReady
  /\ exec' = Esperando
  /\ UNCHANGED <<cola, pcb, consolaVars, recursoVars, cpuVars, admision, salida, hilosVars,
                 caido>>

\* ... and only then cola_block.  hay_deadlock only writes to the log.
KwaitBloquea ==
  /\ exec.paso = "wait_bloquear"
  /\ cola_block' = Bloqueado(pcbelegido)
  /\ proceso_en_ejecucion' = Nada
  /\ sem' = PostSiHayReady
  /\ exec' = Esperando
  /\ UNCHANGED <<cola, pcb, consolaVars, recursoVars, pcbelegido, interrupcion, admision, salida,
                 hilosVars, caido>>

\* cantidad -= 1, without a mutex: the read ...
KwaitLee ==
  /\ exec.paso = "wait_leer"
  /\ exec' = [exec EXCEPT !.paso = "wait_tomar", !.reg = cantidad[exec.rec]]
  /\ UNCHANGED <<pcb, consolaVars, cola, cola_block, recursoVars, sem, cpuVars, admision, salida,
                 hilosVars, caido>>

\* ... and the write; the process owns one more instance.
KwaitToma ==
  /\ exec.paso = "wait_tomar"
  /\ cantidad' = [cantidad EXCEPT ![exec.rec] = (exec.reg - 1) % ModUint]
  /\ pcb' = [pcb EXCEPT ![pcbelegido].asignados[exec.rec] = (@ + 1) % ModUint]
  /\ sem' = Post({"ready", "exec"})
  /\ exec' = Esperando
  /\ UNCHANGED <<consolaVars, cola, cola_block, colabloqueado, archivoVars, cpuVars, admision, salida,
                 hilosVars, caido>>

\* ksignal on a name that is not in the config: the PCB stays in cola_exec.
KsignalInexistente ==
  /\ exec.paso = "SIGNAL" /\ ~Existe
  /\ AlExit(pcb, cola)
  /\ sem' = Post({"exit"})
  /\ UNCHANGED <<cola_block, consolaVars, recursoVars, pcbelegido, interrupcion, admision, salida,
                 hilosVars, caido>>

\* ksignal of an instance the process does not hold: finalizar_proceso_en_ejecucion
\* posts sem_exit, and ksignal posts it again.
KsignalAjeno ==
  /\ exec.paso = "SIGNAL" /\ Existe /\ pcb[pcbelegido].asignados[Pedido] = 0
  /\ AlExit(pcb, SinPrimero(cola, "exec"))
  /\ sem' = [s \in Semaforos |->
               sem[s] + CASE s = "exit"  -> 2
                          [] s = "ready" -> 1
                          [] s = "exec"  -> IF HayReady THEN 1 ELSE 0
                          [] OTHER       -> 0]
  /\ UNCHANGED <<cola_block, consolaVars, recursoVars, pcbelegido, interrupcion, admision, salida,
                 hilosVars, caido>>

\* ksignal of an instance it holds: cantidad + 1, the read ...
KsignalLee ==
  /\ exec.paso = "SIGNAL" /\ Existe /\ pcb[pcbelegido].asignados[Pedido] > 0
  /\ exec' = [exec EXCEPT !.paso = "signal_devolver", !.rec = Pedido, !.reg = cantidad[Pedido]]
  /\ UNCHANGED <<pcb, consolaVars, cola, cola_block, recursoVars, sem, cpuVars, admision, salida,
                 hilosVars, caido>>

\* ... and the write.
KsignalDevuelve ==
  /\ exec.paso = "signal_devolver"
  /\ cantidad' = [cantidad EXCEPT ![exec.rec] = (exec.reg + 1) % ModUint]
  /\ pcb' = [pcb EXCEPT ![pcbelegido].asignados[exec.rec] = (@ - 1) % ModUint]
  /\ exec' = [exec EXCEPT !.paso = "signal_cola"]
  /\ UNCHANGED <<consolaVars, cola, cola_block, colabloqueado, archivoVars, sem, cpuVars, admision,
                 salida, hilosVars, caido>>

\* queue_size(colabloqueado) > 0?
KsignalMira ==
  /\ exec.paso = "signal_cola"
  /\ IF colabloqueado[exec.rec] # <<>>
     THEN exec' = [exec EXCEPT !.paso = "signal_pop"] /\ UNCHANGED sem
     ELSE exec' = Esperando /\ sem' = Post({"ready", "exec"})
  /\ UNCHANGED <<pcb, consolaVars, cola, cola_block, recursoVars, cpuVars, admision, salida, hilosVars,
                 caido>>

\* queue_pop: the first waiter gets an instance, and cantidad stays as it is.  If
\* exit_pcb emptied the queue since the test, a NULL PCB is used.
KsignalPop ==
  /\ exec.paso = "signal_pop"
  /\ IF colabloqueado[exec.rec] # <<>>
     THEN LET p == Head(colabloqueado[exec.rec])
          IN /\ colabloqueado' = [colabloqueado EXCEPT ![exec.rec] = Tail(@)]
             /\ pcb' = [pcb EXCEPT ![p].asignados[exec.rec] = (@ + 1) % ModUint]
             /\ cola_block' = SinBloqueado(p)
             /\ exec' = [exec EXCEPT !.paso = "signal_listo", !.hijo = p]
             /\ UNCHANGED caido
     ELSE caido' = "pcb_nulo" /\ UNCHANGED <<colabloqueado, pcb, cola_block, exec>>
  /\ UNCHANGED <<cola, consolaVars, cantidad, archivoVars, sem, cpuVars, admision, salida, hilosVars>>

KsignalListo ==
  /\ exec.paso = "signal_listo"
  /\ pcb' = Listo(pcb, exec.hijo)
  /\ cola' = Agregar(cola, "ready", exec.hijo)
  /\ sem' = Post({"ready", "exec"})
  /\ exec' = Esperando
  /\ UNCHANGED <<cola_block, consolaVars, recursoVars, cpuVars, admision, salida, hilosVars, caido>>

-----------------------------------------------------------------------------
(* exit_pcb and liberar_recursos *)

\* The resource liberar_recursos is working on.
Rec == salida.rec

SalidaEn(paso) == salida' = [salida EXCEPT !.paso = paso]

\* The finished PCB.  Each sem_post of sem_exit should have one in cola_exit; the
\* head of an empty list is a NULL that liberar_recursos dereferences.
SalidaToma ==
  /\ iniciada /\ salida.paso = "sem" /\ sem["exit"] > 0
  /\ sem' = [sem EXCEPT !["exit"] = @ - 1]
  /\ IF cola["exit"] # <<>>
     THEN /\ salida' = [SinSalida EXCEPT !.paso = "recurso", !.pcb = Head(cola["exit"])]
          /\ cola' = SinPrimero(cola, "exit")
          /\ UNCHANGED caido
     ELSE caido' = "pcb_nulo" /\ UNCHANGED <<salida, cola>>
  /\ UNCHANGED <<cola_block, pcb, consolaVars, recursoVars, cpuVars, exec, admision, hilosVars>>

\* The next resource the process holds: cantidad += its instances, the read ...
LiberarLee ==
  /\ salida.paso = "recurso"
  /\ LET tiene == {r \in Recursos : r >= Rec /\ pcb[salida.pcb].asignados[r] > 0}
     IN IF tiene = {}
        THEN SalidaEn("destruir")
        ELSE \E r \in tiene :
               /\ \A q \in tiene : r <= q
               /\ salida' = [salida EXCEPT !.paso = "sumar", !.rec = r, !.reg = cantidad[r]]
  /\ UNCHANGED <<pcb, consolaVars, cola, cola_block, recursoVars, sem, cpuVars, exec, admision,
                 hilosVars, caido>>

\* ... and the write.
LiberarSuma ==
  /\ salida.paso = "sumar"
  /\ cantidad' = [cantidad EXCEPT ![Rec] = (salida.reg + pcb[salida.pcb].asignados[Rec]) % ModUint]
  /\ pcb' = [pcb EXCEPT ![salida.pcb].asignados[Rec] = 0]
  /\ SalidaEn("vaciar")
  /\ UNCHANGED <<consolaVars, cola, cola_block, colabloqueado, archivoVars, sem, cpuVars, exec,
                 admision, hilosVars, caido>>

\* The queue of waiters is emptied into colaAux: the test ...
LiberarMira ==
  /\ salida.paso = "vaciar"
  /\ SalidaEn(IF colabloqueado[Rec] # <<>> THEN "vaciar_pop" ELSE "rellenar")
  /\ UNCHANGED <<pcb, consolaVars, cola, cola_block, recursoVars, sem, cpuVars, exec, admision,
                 hilosVars, caido>>

\* ... and the pop, without a mutex: ksignal may have emptied the queue meanwhile.
LiberarVacia ==
  /\ salida.paso = "vaciar_pop"
  /\ IF colabloqueado[Rec] # <<>>
     THEN LET p == Head(colabloqueado[Rec])
          IN /\ colabloqueado' = [colabloqueado EXCEPT ![Rec] = Tail(@)]
             /\ salida' = [salida EXCEPT !.paso = "vaciar",
                             !.aux = IF p = salida.pcb THEN @ ELSE Append(@, p)]
             /\ UNCHANGED caido
     ELSE caido' = "pcb_nulo" /\ UNCHANGED <<colabloqueado, salida>>
  /\ UNCHANGED <<pcb, consolaVars, cola, cola_block, cantidad, archivoVars, sem, cpuVars, exec,
                 admision, hilosVars>>

\* colaAux goes back one by one; then the second test of the queue's size.
LiberarRellena ==
  /\ salida.paso = "rellenar"
  /\ IF salida.aux # <<>>
     THEN /\ colabloqueado' = [colabloqueado EXCEPT ![Rec] = Append(@, Head(salida.aux))]
          /\ salida' = [salida EXCEPT !.aux = Tail(@)]
     ELSE /\ salida' = IF colabloqueado[Rec] # <<>>
                       THEN [salida EXCEPT !.paso = "desbloquear"]
                       ELSE [salida EXCEPT !.paso = "recurso", !.rec = @ + 1]
          /\ UNCHANGED colabloqueado
  /\ UNCHANGED <<pcb, consolaVars, cola, cola_block, cantidad, archivoVars, sem, cpuVars, exec,
                 admision, hilosVars, caido>>

\* The first waiter gets an instance; cantidad -= 1, the read ...
LiberarDesbloquea ==
  /\ salida.paso = "desbloquear"
  /\ IF colabloqueado[Rec] # <<>>
     THEN LET p == Head(colabloqueado[Rec])
          IN /\ colabloqueado' = [colabloqueado EXCEPT ![Rec] = Tail(@)]
             /\ cola_block' = SinBloqueado(p)
             /\ pcb' = [pcb EXCEPT ![p].asignados[Rec] = (@ + 1) % ModUint]
             /\ salida' = [salida EXCEPT !.paso = "restar", !.hijo = p, !.reg = cantidad[Rec]]
             /\ UNCHANGED caido
     ELSE caido' = "pcb_nulo" /\ UNCHANGED <<colabloqueado, cola_block, pcb, salida>>
  /\ UNCHANGED <<cola, consolaVars, cantidad, archivoVars, sem, cpuVars, exec, admision, hilosVars>>

\* ... and the write.
LiberarResta ==
  /\ salida.paso = "restar"
  /\ cantidad' = [cantidad EXCEPT ![Rec] = (salida.reg - 1) % ModUint]
  /\ SalidaEn("despertar")
  /\ UNCHANGED <<pcb, consolaVars, cola, cola_block, colabloqueado, archivoVars, sem, cpuVars, exec,
                 admision, hilosVars, caido>>

\* It becomes READY, or waits in lista_ready_detenidos for another process to end.
LiberarDespierta ==
  /\ salida.paso = "despertar"
  /\ IF frenado
     THEN /\ cola' = Agregar(cola, "detenidos", salida.hijo)
          /\ salida' = [salida EXCEPT !.paso = "recurso", !.rec = @ + 1, !.hijo = Nada]
          /\ UNCHANGED pcb
     ELSE /\ cola' = Agregar(cola, "ready", salida.hijo)
          /\ pcb' = Listo(pcb, salida.hijo)
          /\ salida' = [salida EXCEPT !.paso = "avisar_hijo", !.hijo = Nada]
  /\ UNCHANGED <<cola_block, consolaVars, recursoVars, sem, cpuVars, exec, admision, hilosVars, caido>>

LiberarAvisa ==
  /\ salida.paso = "avisar_hijo"
  /\ sem' = PostSiHayReady
  /\ salida' = [salida EXCEPT !.paso = "recurso", !.rec = @ + 1]
  /\ UNCHANGED <<pcb, consolaVars, cola, cola_block, recursoVars, cpuVars, exec, admision, hilosVars,
                 caido>>

\* pcb_destroy, which frees the entries that nobody else has open with whoever waits in
\* their queues; one process held back by the degree becomes READY in its place.
SalidaDestruye ==
  /\ salida.paso = "destruir"
  /\ LET ps == [pcb EXCEPT ![salida.pcb].estado = "DESTRUIDO"]
     IN IF cola["detenidos"] # <<>>
        THEN /\ pcb' = Listo(ps, Head(cola["detenidos"]))
             /\ cola' = Agregar(SinPrimero(cola, "detenidos"), "ready", Head(cola["detenidos"]))
        ELSE pcb' = ps /\ UNCHANGED cola
  /\ salida' = [SinSalida EXCEPT !.paso = "avisar"]
  /\ \E S \in SUBSET espera_archivo : Pierde(S)
  /\ UNCHANGED <<cola_block, consolaVars, cantidad, colabloqueado, sem, cpuVars, exec, admision,
                 hilosVars, caido>>

SalidaAvisa ==
  /\ salida.paso = "avisar"
  /\ sem' = IF frenado THEN Post({"ready"}) ELSE PostSiHayReady
  /\ salida' = SinSalida
  /\ UNCHANGED <<pcb, consolaVars, cola, cola_block, recursoVars, cpuVars, exec, admision, hilosVars,
                 caido>>

-----------------------------------------------------------------------------
(* The sleeper threads *)

\* sleep() returns.  The PCB goes to lista_ready as it is: it stays in cola_block.
SleeperDespierta ==
  \E p \in sleepers.durmiendo :
    /\ IF frenado
       THEN /\ sleepers' = [sleepers EXCEPT !.durmiendo = @ \ {p}, !.detenidos = @ \cup {p}]
            /\ UNCHANGED cola
       ELSE /\ sleepers' = [sleepers EXCEPT !.durmiendo = @ \ {p}, !.avisos = @ + 1]
            /\ cola' = Agregar(cola, "ready", p)
    /\ UNCHANGED <<cola_block, pcb, consolaVars, recursoVars, sem, cpuVars, exec, admision, salida, pf,
                   fs, caido>>

SleeperSigue ==
  /\ sem["detener_sleep"] > 0
  /\ \E p \in sleepers.detenidos :
       /\ sleepers' = [sleepers EXCEPT !.detenidos = @ \ {p}, !.avisos = @ + 1]
       /\ cola' = Agregar(cola, "ready", p)
  /\ sem' = [sem EXCEPT !["detener_sleep"] = @ - 1]
  /\ UNCHANGED <<cola_block, pcb, consolaVars, recursoVars, cpuVars, exec, admision, salida, pf, fs,
                 caido>>

SleeperAvisa ==
  /\ sleepers.avisos > 0
  /\ sleepers' = [sleepers EXCEPT !.avisos = @ - 1]
  /\ sem' = Post({"ready", "exec"})
  /\ UNCHANGED <<pcb, consolaVars, cola, cola_block, recursoVars, cpuVars, exec, admision, salida, pf,
                 fs, caido>>

-----------------------------------------------------------------------------
(* The manejar_pf threads *)

\* The CPU is free: wake exec_pcb if somebody is READY.
PfArranca ==
  \E p \in pf.nuevos :
    /\ sem' = IF ~frenado /\ HayReady THEN Post({"ready", "exec"}) ELSE sem
    /\ pf' = [pf EXCEPT !.nuevos = @ \ {p}, !.pedir = @ \cup {p}]
    /\ UNCHANGED <<pcb, consolaVars, cola, cola_block, recursoVars, cpuVars, exec, admision, salida,
                   sleepers, fs, caido>>

\* enviar_pf.
PfPide ==
  \E p \in pf.pedir :
    /\ pf' = [pf EXCEPT !.pedir = @ \ {p}, !.pedidos = Append(@, p)]
    /\ UNCHANGED <<pcb, consolaVars, cola, cola_block, recursoVars, sem, cpuVars, exec, admision,
                   salida, sleepers, fs, caido>>

\* Memoria loads the pages in the order of the requests.
MemoriaCarga ==
  /\ pf.pedidos # <<>>
  /\ pf' = [pf EXCEPT !.pedidos = Tail(@), !.respuestas = Append(@, Head(pf.pedidos))]
  /\ UNCHANGED <<pcb, consolaVars, cola, cola_block, recursoVars, sem, cpuVars, exec, admision, salida,
                 sleepers, fs, caido>>

\* Whichever thread gets mutex_PF handles the next answer, its own or another's.
PfRecibe ==
  /\ pf.respuestas # <<>>
  /\ LET p == Head(pf.respuestas)
     IN /\ pcb' = [pcb EXCEPT ![p].motivo = "PAGE_FAULT_RESUELTO"]
        /\ cola_block' = SinBloqueado(p)
        /\ pf' = [pf EXCEPT !.respuestas = Tail(@), !.resueltos = @ \cup {p}]
  /\ UNCHANGED <<cola, consolaVars, recursoVars, sem, cpuVars, exec, admision, salida, sleepers, fs,
                 caido>>

PfListo ==
  \E p \in pf.resueltos :
    /\ pcb' = Listo(pcb, p)
    /\ cola' = Agregar(cola, "ready", p)
    /\ Interrumpe(p)
    /\ pf' = [pf EXCEPT !.resueltos = @ \ {p}, !.avisos = @ + 1]
    /\ UNCHANGED <<cola_block, consolaVars, recursoVars, sem, proceso_en_ejecucion, pcbelegido, exec,
                   admision, salida, sleepers, fs, caido>>

PfAvisa ==
  /\ pf.avisos > 0
  /\ pf' = [pf EXCEPT !.avisos = @ - 1]
  /\ sem' = IF frenado THEN sem ELSE Post({"ready", "exec"})
  /\ UNCHANGED <<pcb, consolaVars, cola, cola_block, recursoVars, cpuVars, exec, admision, salida,
                 sleepers, fs, caido>>

-----------------------------------------------------------------------------
(* recibir_op_FS *)

\* The filesystem serves each request in a thread of its own: any order.
FilesystemAtiende ==
  \E p \in fs.pedidos :
    /\ fs' = [fs EXCEPT !.pedidos = @ \ {p}, !.respuestas = Append(@, p)]
    /\ UNCHANGED <<pcb, consolaVars, cola, cola_block, recursoVars, sem, cpuVars, exec, admision,
                   salida, sleepers, pf, caido>>

\* sem_hilo_FS, then the next answer.  The post may be for the request of one process
\* and the answer for another, whose exec_block_fs has not run yet.
FsRecibe ==
  /\ fs.paso = "sem" /\ sem["FS"] > 0 /\ fs.respuestas # <<>>
  /\ sem' = [sem EXCEPT !["FS"] = @ - 1]
  /\ LET p == Head(fs.respuestas)
     IN /\ cola_block' = SinBloqueado(p)
        /\ fs' = [fs EXCEPT !.paso = "listo", !.pcb = p, !.respuestas = Tail(@)]
  /\ UNCHANGED <<cola, pcb, consolaVars, recursoVars, cpuVars, exec, admision, salida, sleepers, pf,
                 caido>>

FsListo ==
  /\ fs.paso = "listo"
  /\ pcb' = Listo(pcb, fs.pcb)
  /\ cola' = Agregar(cola, "ready", fs.pcb)
  /\ Interrumpe(fs.pcb)
  /\ fs' = [fs EXCEPT !.paso = "avisar", !.pcb = Nada]
  /\ UNCHANGED <<cola_block, consolaVars, recursoVars, sem, proceso_en_ejecucion, pcbelegido, exec,
                 admision, salida, sleepers, pf, caido>>

\* F_OPEN_SUCCESS, or FILE_DOESNT_EXISTS and then F_CREATE_SUCCESS: the answer kf_open
\* waits for, which comes once.
FsAbre ==
  /\ fs.paso = "sem" /\ sem["FS"] > 0 /\ exec.paso = "abrir_fs" /\ sem["reanudar"] = 0
  /\ sem' = [sem EXCEPT !["FS"] = @ - 1, !["reanudar"] = @ + 1]
  /\ UNCHANGED <<pcb, consolaVars, cola, cola_block, recursoVars, cpuVars, exec, admision, salida,
                 hilosVars, caido>>

\* Mutant of FsAvisa: without sem_post(&sem_exec).
FsAvisaSinExec ==
  /\ fs.paso = "avisar"
  /\ fs' = [fs EXCEPT !.paso = "sem"]
  /\ sem' = Post({"ready"})
  /\ UNCHANGED <<pcb, consolaVars, cola, cola_block, recursoVars, cpuVars, exec, admision, salida,
                 sleepers, pf, caido>>

FsAvisa ==
  /\ fs.paso = "avisar"
  /\ fs' = [fs EXCEPT !.paso = "sem"]
  /\ sem' = Post({"ready", "exec"})
  /\ UNCHANGED <<pcb, consolaVars, cola, cola_block, recursoVars, cpuVars, exec, admision, salida,
                 sleepers, pf, caido>>

-----------------------------------------------------------------------------
(* The system *)

\* A pid nobody created yet: the values of malloc'ed fields that nothing reads.
SinCrear == [programa |-> <<>>, prioridad |-> 0, pc |-> 0, motivo |-> "NINGUNO",
             estado |-> "SIN_CREAR", tiempo |-> 0, fallos |-> 0,
             asignados |-> [r \in Recursos |-> 0]]

\* main up to the first command.
Init ==
  /\ pcb = [p \in Pid |-> SinCrear]
  /\ generador_de_id = PrimerPid
  /\ cola = [l \in Listas |-> <<>>]
  /\ cola_block = [p \in Pid |-> 0]
  /\ cantidad = Instancias
  /\ colabloqueado = [r \in Recursos |-> <<>>]
  /\ espera_archivo = {} /\ perdidos = {}
  /\ sem = [s \in Semaforos |-> IF s = "exec" THEN 1 ELSE 0]
  /\ frenado = FALSE /\ iniciada = FALSE
  /\ grado = GradoInicial
  /\ consola = [paso |-> "libre", pausas |-> 0]
  /\ reloj = 0
  /\ proceso_en_ejecucion = Nada /\ pcbelegido = Nada
  /\ exec = Esperando
  /\ admision = [paso |-> "sem", pcb |-> Nada, ready |-> 0]
  /\ salida = SinSalida
  /\ sleepers = [durmiendo |-> {}, detenidos |-> {}, avisos |-> 0]
  /\ pf = [nuevos |-> {}, pedir |-> {}, pedidos |-> <<>>, respuestas |-> <<>>,
           resueltos |-> {}, avisos |-> 0]
  /\ fs = [pedidos |-> {}, respuestas |-> <<>>, paso |-> "sem", pcb |-> Nada]
  /\ interrupcion = FALSE
  /\ caido = "no"

Consola ==
  \/ IniciarProceso \/ IniciarPlanificacion \/ DetenerPlanificacion
  \/ ReanudarPost \/ ReanudarFlag \/ ModificarGrado

Admision == AdmisionToma \/ AdmisionAcepta \/ AdmisionDetiene \/ AdmisionAvisa

Despacho == ExecDespierta \/ ExecContinua \/ ExecElige \/ ExecDescarta

Cpu == CpuEjecuta \/ ExecDesalojo \/ ExecPageFault \/ ExecSyscall

Llamadas ==
  \/ Kexit \/ Ksleep \/ KsleepSigue \/ KsleepAvisa
  \/ KfOpenPide \/ KfOpenCrea \/ KfOpenComparte \/ KfOpenEspera
  \/ KfCloseAbre \/ KfCloseFin \/ KfCloseDeVarios
  \/ KfSeek \/ KfPide \/ KfBloquea \/ KfWriteLector
  \/ KwaitInexistente \/ KwaitMira \/ KwaitSigue \/ KwaitEncola \/ KwaitBloquea
  \/ KwaitLee \/ KwaitToma
  \/ KsignalInexistente \/ KsignalAjeno \/ KsignalLee \/ KsignalDevuelve
  \/ KsignalMira \/ KsignalPop \/ KsignalListo

Liberacion ==
  \/ LiberarLee \/ LiberarSuma \/ LiberarMira \/ LiberarVacia \/ LiberarRellena
  \/ LiberarDesbloquea \/ LiberarResta \/ LiberarDespierta \/ LiberarAvisa

Salida == SalidaToma \/ Liberacion \/ SalidaDestruye \/ SalidaAvisa

Sleepers == SleeperDespierta \/ SleeperSigue \/ SleeperAvisa

PageFaults == PfArranca \/ PfPide \/ MemoriaCarga \/ PfRecibe \/ PfListo \/ PfAvisa

OpFS == FilesystemAtiende \/ FsAbre \/ FsRecibe \/ FsListo \/ FsAvisa

Next ==
  /\ caido = "no"
  /\ \/ Consola \/ PasaSegundo \/ Admision \/ Despacho \/ Cpu \/ InterrupcionPerdida
     \/ Llamadas \/ Salida \/ Sleepers \/ PageFaults \/ OpFS

Spec == Init /\ [][Next]_vars

\* Every thread is a POSIX thread the system goes on scheduling; nobody has to type
\* a command, and a quantum may be longer than any program.
Justicia ==
  /\ WF_vars(caido = "no" /\ ReanudarFlag)
  /\ WF_vars(caido = "no" /\ Admision)
  /\ WF_vars(caido = "no" /\ (Despacho \/ Cpu \/ Llamadas))
  /\ WF_vars(caido = "no" /\ Salida)
  /\ WF_vars(caido = "no" /\ Sleepers)
  /\ WF_vars(caido = "no" /\ PageFaults)
  /\ WF_vars(caido = "no" /\ OpFS)

FairSpec == Spec /\ Justicia

-----------------------------------------------------------------------------
(* Type invariant *)

PidNulo == Pid \cup {Nada}

PasosExec ==
  {"sem", "elegir", "basura", "cpu", "EXIT", "F_OPEN", "F_CLOSE", "F_SEEK", "F_IO", "SLEEP",
   "WAIT", "SIGNAL", "abrir_fs", "cerrar", "sleep_detenido", "sleep_avisar", "fs_bloquear",
   "wait_detenido", "wait_encolar",
   "wait_bloquear", "wait_leer", "wait_tomar", "signal_devolver", "signal_cola",
   "signal_pop", "signal_listo"}

PasosSalida ==
  {"sem", "recurso", "sumar", "vaciar", "vaciar_pop", "rellenar", "desbloquear", "restar",
   "despertar", "avisar_hijo", "destruir", "avisar"}

Pcb == [programa : Programas \cup {<<>>}, prioridad : Int, pc : Nat,
        motivo : {"NINGUNO", "SYSCALL", "INTERRUPT", "PAGE_FAULT", "PAGE_FAULT_RESUELTO"},
        estado : {"SIN_CREAR", "NEW", "READY", "EXEC", "BLOCK", "FINISH_EXIT", "DESTRUIDO"},
        tiempo : Nat, fallos : Nat, asignados : [Recursos -> 0 .. ModUint - 1]]

TipoProcesos == pcb \in [Pid -> Pcb] /\ generador_de_id \in Nat

TipoListas ==
  /\ cola \in [Listas -> Seq(Pid)] /\ cola_block \in [Pid -> Nat]
  /\ cantidad \in [Recursos -> 0 .. ModUint - 1] /\ colabloqueado \in [Recursos -> Seq(Pid)]
  /\ espera_archivo \subseteq Pid /\ perdidos \subseteq Pid

TipoConsola ==
  /\ frenado \in BOOLEAN /\ iniciada \in BOOLEAN /\ interrupcion \in BOOLEAN
  /\ grado \in Nat /\ reloj \in Nat
  /\ consola \in [paso : {"libre", "reanudando"}, pausas : Nat]
  /\ caido \in {"no", "lista_vacia", "pcb_nulo"}

TipoExec ==
  /\ proceso_en_ejecucion \in PidNulo /\ pcbelegido \in PidNulo
  /\ exec \in [paso : PasosExec, rec : 0 .. NRecursos, reg : Nat, hijo : PidNulo]

TipoAdmision ==
  admision \in [paso : {"sem", "contar", "avisar"}, pcb : PidNulo, ready : Nat]

TipoSalida ==
  salida \in [paso : PasosSalida, pcb : PidNulo, rec : Nat, reg : Nat, aux : Seq(Pid),
              hijo : PidNulo]

TipoSleepers ==
  sleepers \in [durmiendo : SUBSET Pid, detenidos : SUBSET Pid, avisos : Nat]

TipoPf ==
  pf \in [nuevos : SUBSET Pid, pedir : SUBSET Pid, pedidos : Seq(Pid),
          respuestas : Seq(Pid), resueltos : SUBSET Pid, avisos : Nat]

TipoFs ==
  fs \in [pedidos : SUBSET Pid, respuestas : Seq(Pid),
          paso : {"sem", "listo", "avisar"}, pcb : PidNulo]

\* Every variable keeps its type: pids in the lists, counters in the range of their C type.
TypeOK ==
  /\ TipoProcesos
  /\ TipoListas
  /\ sem \in [Semaforos -> Nat]
  /\ TipoConsola
  /\ TipoExec
  /\ TipoAdmision /\ TipoSalida
  /\ TipoSleepers /\ TipoPf /\ TipoFs

-----------------------------------------------------------------------------
(* Safety *)

\* The steps that work on exec.rec, on salida.rec, and on the head of cola_exec.
PasosConRecurso ==
  {"wait_detenido", "wait_encolar", "wait_bloquear", "wait_leer", "wait_tomar",
   "signal_devolver", "signal_cola", "signal_pop", "signal_listo"}

PasosConRec ==
  {"sumar", "vaciar", "vaciar_pop", "rellenar", "desbloquear", "restar", "despertar",
   "avisar_hijo"}

PasosConExec ==
  {"cpu", "EXIT", "F_OPEN", "F_CLOSE", "F_SEEK", "F_IO", "SLEEP", "WAIT", "SIGNAL",
   "abrir_fs", "cerrar", "fs_bloquear", "wait_leer", "wait_tomar", "signal_devolver",
   "signal_cola", "signal_pop", "signal_listo"}

\* exec_pcb and its handlers have their PCB, the resource they found and the PCB they popped.
PunterosExec ==
  /\ exec.paso \notin {"sem", "elegir"} => pcbelegido # Nada
  /\ exec.paso \in PasosConRecurso => exec.rec \in Recursos
  /\ exec.paso = "signal_listo" => exec.hijo # Nada

\* So do ready_pcb, exit_pcb and recibir_op_FS.
PunterosHilos ==
  /\ admision.paso = "contar" => admision.pcb # Nada
  /\ salida.paso \notin {"sem", "avisar"} => salida.pcb # Nada
  /\ salida.paso \in PasosConRec => salida.rec \in Recursos
  /\ salida.paso \in {"restar", "despertar"} => salida.hijo # Nada
  /\ fs.paso = "listo" => fs.pcb # Nada

\* Whoever has the CPU, or will get it back after its system call, has a PCB in cola_exec
\* to remove.
ExecOcupada ==
  /\ exec.paso \in PasosConExec => cola["exec"] # <<>>
  /\ proceso_en_ejecucion # Nada =>
       /\ pcb[proceso_en_ejecucion].motivo # "PAGE_FAULT"
       /\ pcb[proceso_en_ejecucion].motivo = "SYSCALL"
            /\ exec.paso \notin {"wait_detenido", "wait_encolar", "wait_bloquear"}
          => cola["exec"] # <<>>

\* Outside of liberar_recursos and of the pop in ksignal, no thread uses a NULL t_pcb *,
\* a resource it did not find, or the head of an empty cola_exec, although exit_pcb,
\* kexit and half of ksignal leave finished PCBs in cola_exec and the others remove its
\* head unseen.
PunterosValidos == PunterosExec /\ PunterosHilos /\ ExecOcupada

\* The steps at which exec_pcb and its handlers still hold pcbelegido: from the
\* election to the hand-over to a queue, a thread or a request.
PasosConPcb ==
  {"cpu", "EXIT", "F_OPEN", "F_CLOSE", "F_SEEK", "F_IO", "SLEEP", "WAIT", "SIGNAL",
   "abrir_fs", "cerrar", "wait_detenido", "wait_encolar", "wait_leer", "wait_tomar",
   "signal_devolver", "signal_cola",
   "signal_pop", "signal_listo"}

EnCpu(p) ==
  \/ exec.paso \in PasosConPcb /\ pcbelegido = p
  \/ exec.paso \in {"sem", "elegir"} /\ proceso_en_ejecucion = p /\ pcb[p].motivo = "SYSCALL"

\* The lists a PCB can wait in, and the pointers to a PCB a thread will go on with.
\* cola_exec and cola_block are left out: nobody takes a PCB out of them to use it.
Colas ==
  {"listos", "ready", "detenidos", "exit", "aux", "pf_pedidos", "pf_respuestas",
   "fs_respuestas"} \X {0}
    \cup {"recurso"} \X Recursos

Cola(c) ==
  CASE c[1] \in Listas        -> cola[c[1]]
    [] c[1] = "recurso"       -> colabloqueado[c[2]]
    [] c[1] = "aux"           -> salida.aux
    [] c[1] = "pf_pedidos"    -> pf.pedidos
    [] c[1] = "pf_respuestas" -> pf.respuestas
    [] c[1] = "fs_respuestas" -> fs.respuestas

Punteros ==
  {"cpu", "signal", "admision", "salida", "desbloqueado", "durmiendo", "sueno_detenido",
   "pf_nuevo", "pf_pedir", "pf_resuelto", "fs_pedido", "fs", "archivo"}

Apunta(l, p) ==
  CASE l = "cpu"            -> EnCpu(p)
    [] l = "signal"         -> exec.hijo = p
    [] l = "admision"       -> admision.pcb = p
    [] l = "salida"         -> salida.pcb = p
    [] l = "desbloqueado"   -> salida.hijo = p
    [] l = "durmiendo"      -> p \in sleepers.durmiendo
    [] l = "sueno_detenido" -> p \in sleepers.detenidos
    [] l = "pf_nuevo"       -> p \in pf.nuevos
    [] l = "pf_pedir"       -> p \in pf.pedir
    [] l = "pf_resuelto"    -> p \in pf.resueltos
    [] l = "fs_pedido"      -> p \in fs.pedidos
    [] l = "fs"             -> fs.pcb = p
    [] l = "archivo"        -> p \in espera_archivo

\* The lists and pointers that have p.
Duenos(p) ==
  {c \in Colas : \E i \in DOMAIN Cola(c) : Cola(c)[i] = p}
    \cup {c \in Punteros \X {0} : Apunta(c[1], p)}

\* No two threads, lists or requests ever have the same PCB, and no list has it twice:
\* a process cannot be executed while it waits, wait for two things, be made READY
\* twice or be freed while somebody will use it.  The PCB moves between a dozen lists
\* under different mutexes, or none.
UnSoloDueno ==
  /\ \A p \in Pid : \A c, d \in Duenos(p) : c = d
  /\ \A c \in Colas : IsInjective(Cola(c))

\* Until pcb_destroy somebody has each process, but for the ones that the code does lose:
\* a PCB that looks freed to exec_pcb, and whoever waits for a file in an entry that
\* kf_close replaces or pcb_destroy frees.  No other interleaving loses one.
NadieSePierde ==
  \A p \in Pid :
    p < generador_de_id /\ pcb[p].estado # "DESTRUIDO" /\ ~EsBasura(p) /\ p \notin perdidos =>
      Duenos(p) # {}

\* exit(1) in elegir_pcb_segun_algoritmo is never reached, although exec_pcb tests for an
\* empty lista_ready only when proceso_en_ejecucion is NULL: a process that came back
\* from the CPU without a system call is in lista_ready by then.
ElegirConAlguien == caido # "lista_vacia"

\* Nobody waits in cola_listos_para_ready or in cola_exit without a sem_post that will
\* wake the thread that takes from it.
ColasConFicha ==
  /\ sem["listos"] = Len(cola["listos"])
  /\ sem["exit"] >= Len(cola["exit"])

\* exec_pcb cannot wake and no thread has anything left to do but wait for the console.
Quieto ==
  /\ exec.paso = "sem" /\ (sem["ready"] = 0 \/ sem["exec"] = 0)
  /\ admision.paso = "sem" /\ sem["listos"] = 0
  /\ salida.paso = "sem" /\ sem["exit"] = 0
  /\ sleepers.durmiendo = {} /\ sleepers.detenidos = {} /\ sleepers.avisos = 0
  /\ pf.nuevos \cup pf.pedir \cup pf.resueltos = {} /\ pf.avisos = 0
  /\ pf.pedidos = <<>> /\ pf.respuestas = <<>>
  /\ fs.paso = "sem" /\ fs.pedidos = {} /\ fs.respuestas = <<>>
  /\ consola.paso = "libre"

\* While nobody pauses the kernel, the only process that can be left in lista_ready with
\* exec_pcb asleep is one that was just admitted: whoever executed once is never
\* stranded there, whatever the order of the posts of the two semaphores.
VaradosSonNuevos ==
  iniciada /\ consola.pausas = 0 /\ Quieto =>
    \A i \in DOMAIN cola["ready"] : pcb[cola["ready"][i]].pc = 0

-----------------------------------------------------------------------------
(* What the repository says and the code does not do *)

\* The instances of r that processes have.
Asignadas(r) == FoldFunction(LAMBDA a, b : a + b, 0, [p \in Pid |-> pcb[p].asignados[r]])

\* INSTANCIAS_RECURSOS is how many instances of each resource there are, so no more are
\* in the hands of processes.  ksignal hands its instance to the first waiter and also
\* leaves it in cantidad.
InstanciasAcotadas == \A r \in Recursos : Asignadas(r) <= Instancias[r]

\* Round robin: who lost the CPU to the end of its quantum is not elected again before
\* the processes that were in lista_ready when it came back.  exec_pcb puts it at the end
\* of the list without stamping it, and obtener_pcb_RR sorts by the stamp.
RotaElTurno ==
  [][\A p \in Pid :
       /\ exec.paso = "elegir" /\ exec'.paso = "cpu" /\ pcbelegido' = p
       /\ proceso_en_ejecucion = p /\ pcb[p].motivo = "INTERRUPT"
       => cola["ready"][1] = p]_vars

-----------------------------------------------------------------------------
(* Liveness *)

\* Asleep, waiting for a page or for the filesystem, or back in lista_ready after any
\* of the three or after a preemption.
PorVolver(p) ==
  \/ p \in sleepers.durmiendo \cup pf.nuevos \cup fs.pedidos
  \/ pcb[p].pc > 0 /\ \E i \in DOMAIN cola["ready"] : cola["ready"][i] = p

\* Whoever executed once and is waiting for time, for a page, for the filesystem or for
\* the CPU gets the CPU again, as long as nobody pauses the kernel.
ElQueEjecutoVuelve ==
  \A p \in Pid : PorVolver(p) ~> (EnCpu(p) \/ frenado \/ caido # "no")

\* Every finished process is destroyed, and with it what it held goes back.
TerminadoSeDestruye ==
  \A p \in Pid :
    (\E i \in DOMAIN cola["exit"] : cola["exit"][i] = p)
      ~> (pcb[p].estado = "DESTRUIDO" \/ caido # "no")
====

------------------------------- MODULE Archivos -------------------------------
(***************************************************************************)
(* The kernel's table of open files: kf_open, kf_close, kf_seek, kf_read,  *)
(* kf_write and kf_truncate (kernel/src/instructions.c), the entries they  *)
(* use (kernel/src/kernel.c), and pcb_destroy, which closes what a process *)
(* leaves open when it ends (kernel/src/plani.c).                          *)
(*                                                                         *)
(* Three threads meet here without a lock: exec_pcb runs the system calls, *)
(* exit_pcb destroys the processes that ended, recibir_op_FS brings the    *)
(* answers of the filesystem.  An entry of the table is an object that is  *)
(* freed while another thread may hold a pointer to it.                    *)
(*                                                                         *)
(* Abstracted: one file (entries are found by name, those of two files     *)
(* never meet); exec_pcb takes any ready process, and loses it between two *)
(* calls: which one runs, and when, is Planificador's subject.             *)
(* A program closes and uses only what its F_OPEN gave it, until its       *)
(* F_CLOSE, and does not open it again before.                             *)
(*                                                                         *)
(* fuera is a history variable: what has happened that the table may not   *)
(* be able to serve.                                                       *)
(*   lector_sumado         a second reader joined, without its own entry   *)
(*   lector_tardio         it joined an entry that nobody held any more    *)
(*   lector_olvidado       it ended without F_CLOSE, and stays counted     *)
(*   lector_escribe        a reader did F_WRITE, and ended                 *)
(*   cierra_uno_de_varios  F_CLOSE with other readers left                 *)
(*   lector_con_escritor   F_CLOSE let in a writer and readers at once     *)
(*   escritor_espera_detras  F_CLOSE left writers in the old entry         *)
(*   muere_con_espera      an entry was freed with processes in its queue  *)
(*   muere_abierto         a process ended with the file open              *)
(***************************************************************************)
EXTENDS Integers, SequencesExt, Cola

CONSTANTS
  Procesos,
  MaxUsos     \* bound: how often each process makes a file system call other than
              \* F_CLOSE, or leaves the CPU between two calls

Nadie == "nadie"
NULL  == 0                       \* a NULL t_archivo_global *
Modos == {"R", "W"}

ASSUME ArchivosSupuestos == Nadie \notin Procesos /\ MaxUsos \in Nat

VARIABLES
  globales,   \* the t_archivo_global ever created; a pointer is its place
  lista_archivos_abiertos,          \* pointers to the entries in the table
  archivos_abiertos,                \* whether each process has its own entry
  abierto,    \* what each program has the file open for, "no" if it has not
  estado,     \* where the PCB is
  exec,       \* exec_pcb: its process, where it is, the mode asked, an entry it found
  cola_exit,
  salida,     \* exit_pcb inside pcb_destroy, alike
  usos,       \* how many of those each process made
  fuera,      \* how the use has left the contract
  caido       \* how the kernel died, or "no"

vars ==
  <<globales, lista_archivos_abiertos, archivos_abiertos, abierto, estado, exec, cola_exit,
    salida, usos, fuera, caido>>
tablaVars  == <<globales, lista_archivos_abiertos, archivos_abiertos>>
salidaVars == <<cola_exit, salida>>

-----------------------------------------------------------------------------
(* The table *)

\* buscarArchivoGlobal: the first entry with the name.
buscarArchivoGlobal ==
  IF lista_archivos_abiertos = <<>> THEN NULL ELSE Head(lista_archivos_abiertos)

\* crear_archivo_global and crear_archivo_global_con_contador.
Entrada(lock, contador) ==
  [lock |-> lock, contador |-> contador, colabloqueado |-> <<>>, liberada |-> FALSE]

\* crear_archivo_proceso, for each of them.
ConEntrada(quienes) == [q \in Procesos |-> archivos_abiertos[q] \/ q \in quienes]

\* What a pointer kept for a while leads to.
PunteroRoto(g) ==
  IF g = NULL THEN "nulo" ELSE IF globales[g].liberada THEN "uso_liberado" ELSE "no"

EjecutorLibre == [proceso |-> Nadie, paso |-> "elegir", modo |-> "R", g |-> NULL]
SalidaLibre   == [proceso |-> Nadie, paso |-> "esperar", g |-> NULL]

\* exec_pcb is about to run the next call of p.
EnTurno(p) == exec.proceso = p /\ exec.paso = "seguir" /\ caido = "no"
EnPaso(p, paso) == exec.proceso = p /\ exec.paso = paso /\ caido = "no"
Llamada(p) == EnTurno(p) /\ usos[p] < MaxUsos /\ usos' = [usos EXCEPT ![p] = @ + 1]
Sigue      == exec' = [exec EXCEPT !.paso = "seguir", !.g = NULL]

\* Mutant: proceso_en_ejecucion is left as it was.
DejaSinSoltar(p, lugar) ==
  exec' = [exec EXCEPT !.paso = "elegir"] /\ estado' = [estado EXCEPT ![p] = lugar]

\* exec_pcb loses its process, which goes to another place.
Deja(p, lugar) ==
  exec' = EjecutorLibre /\ estado' = [estado EXCEPT ![p] = lugar]

-----------------------------------------------------------------------------
(* exec_pcb *)

Elegir(p) ==
  /\ exec.proceso = Nadie /\ estado[p] = "ready" /\ caido = "no"
  /\ exec' = [EjecutorLibre EXCEPT !.proceso = p, !.paso = "seguir"]
  /\ estado' = [estado EXCEPT ![p] = "exec"]
  /\ UNCHANGED <<tablaVars, abierto, salidaVars, usos, fuera, caido>>

\* kf_open finds the entry, or asks the filesystem when there is none.
Abrir(p, modo) ==
  /\ Llamada(p) /\ abierto[p] = "no"
  /\ exec' = [exec EXCEPT !.modo = modo, !.g = buscarArchivoGlobal,
                !.paso = IF buscarArchivoGlobal = NULL THEN "abrir_fs" ELSE "abrir"]
  /\ UNCHANGED <<tablaVars, abierto, estado, salidaVars, fuera, caido>>

\* The answer came (reanudaar_exec).  open_file looks in lista_global_archivos, which is
\* always empty, so kf_open creates the entry whatever others did while it waited.
AbrirNuevo(p) ==
  /\ EnPaso(p, "abrir_fs")
  /\ globales' = Append(globales, Entrada(exec.modo, 1))
  /\ lista_archivos_abiertos' = Append(lista_archivos_abiertos, Len(globales'))
  /\ archivos_abiertos' = ConEntrada({p})
  /\ abierto' = [abierto EXCEPT ![p] = exec.modo]
  /\ Sigue
  /\ UNCHANGED <<estado, salidaVars, usos, fuera, caido>>

\* Mutant: a writer does not wait for readers.
HayQueEsperarEscritor(e, modo) == e.lock = "W"

HayQueEsperar(e, modo) == e.lock = "W" \/ modo = "W"

\* kf_open with an entry: wait if one of the two writes; a second reader is counted and
\* gets no entry of its own.
AbrirCompartido(p) ==
  /\ EnPaso(p, "abrir")
  /\ LET g == exec.g IN
     \/ /\ PunteroRoto(g) # "no"
        /\ caido' = PunteroRoto(g)
        /\ UNCHANGED <<globales, abierto, estado, exec, fuera>>
     \/ /\ PunteroRoto(g) = "no"
        /\ HayQueEsperar(globales[g], exec.modo)
        /\ globales' = [globales EXCEPT ![g].colabloqueado =
             Append(@, [proceso |-> p, modo |-> exec.modo])]
        /\ Deja(p, "archivo")
        /\ UNCHANGED <<abierto, fuera, caido>>
     \/ /\ PunteroRoto(g) = "no"
        /\ ~HayQueEsperar(globales[g], exec.modo)
        /\ globales' = [globales EXCEPT ![g].contador = @ + 1]
        /\ abierto' = [abierto EXCEPT ![p] = exec.modo]
        /\ fuera' = fuera \cup {"lector_sumado"}
             \cup (IF globales[g].contador <= 0 THEN {"lector_tardio"} ELSE {})
        /\ Sigue
        /\ UNCHANGED <<estado, caido>>
  /\ UNCHANGED <<lista_archivos_abiertos, archivos_abiertos, salidaVars, usos>>

\* kf_seek, and kf_read and kf_truncate, which block the process until the filesystem
\* answers: all of them follow the pointer to the process's own entry.
Usar(p, bloquea) ==
  /\ Llamada(p) /\ abierto[p] # "no"
  /\ \/ ~archivos_abiertos[p] /\ caido' = "nulo" /\ UNCHANGED <<exec, estado>>
     \/ archivos_abiertos[p] /\ bloquea /\ Deja(p, "fs") /\ UNCHANGED caido
     \/ archivos_abiertos[p] /\ ~bloquea /\ UNCHANGED <<exec, estado, caido>>
  /\ UNCHANGED <<tablaVars, abierto, salidaVars, fuera>>

\* p ends with the file open.  Without an entry of its own nobody takes it off the counter.
MuereAbierto(p) ==
  {"muere_abierto"} \cup (IF archivos_abiertos[p] THEN {} ELSE {"lector_olvidado"})

\* kf_write: with the file open to read the process ends, after one decrement of the
\* counter that pcb_destroy makes again.
Escribir(p) ==
  /\ Llamada(p) /\ abierto[p] # "no"
  /\ LET g == buscarArchivoGlobal IN
     \/ g = NULL /\ caido' = "nulo" /\ UNCHANGED <<globales, estado, exec, cola_exit, fuera>>
     \/ /\ g # NULL /\ globales[g].lock = "W"
        /\ IF archivos_abiertos[p] THEN Deja(p, "fs") /\ UNCHANGED caido
           ELSE caido' = "nulo" /\ UNCHANGED <<exec, estado>>
        /\ UNCHANGED <<globales, cola_exit, fuera>>
     \/ /\ g # NULL /\ globales[g].lock # "W"
        /\ globales' = [globales EXCEPT ![g].contador = @ - 1]
        /\ cola_exit' = Append(cola_exit, p)
        /\ fuera' = fuera \cup MuereAbierto(p) \cup {"lector_escribe"}
        /\ Deja(p, "exit")
        /\ UNCHANGED caido
  /\ UNCHANGED <<lista_archivos_abiertos, archivos_abiertos, abierto, salida>>

\* kf_close, first part: the entries it will work on.
Cerrar(p) ==
  /\ EnTurno(p) /\ abierto[p] # "no"
  /\ exec' = [exec EXCEPT !.paso = "cerrar", !.g = buscarArchivoGlobal]
  /\ UNCHANGED <<tablaVars, abierto, estado, salidaVars, usos, fuera, caido>>

\* Mutant: the last reader does not free the entry.
SoltadaSoloEscritor(e, propia) ==
  IF ~propia THEN e
  ELSE IF e.lock = "W" THEN [e EXCEPT !.lock = "N", !.contador = 0]
  ELSE [e EXCEPT !.contador = @ - 1]

\* The entry after the tests of lock and counter; propia says whether the process has
\* an entry of its own.
Soltada(e, propia) ==
  LET c == IF e.lock = "R" THEN e.contador - 1 ELSE e.contador IN
  IF ~propia THEN e
  ELSE IF e.lock = "W" \/ c = 0 THEN [e EXCEPT !.lock = "N", !.contador = 0]
  ELSE [e EXCEPT !.contador = c]

CerrarRoto(p) ==
  /\ EnPaso(p, "cerrar") /\ PunteroRoto(exec.g) # "no"
  /\ caido' = PunteroRoto(exec.g)
  /\ UNCHANGED <<tablaVars, abierto, estado, exec, salidaVars, usos, fuera>>

\* Mutant: whoever kf_close lets in stays among the blocked ones.
SueltaSinReady(p, abren) ==
  /\ archivos_abiertos' = [ConEntrada(DOMAIN abren) EXCEPT ![p] = FALSE]
  /\ abierto' = [q \in Procesos |->
       IF q = p THEN "no" ELSE IF q \in DOMAIN abren THEN abren[q] ELSE abierto[q]]
  /\ Sigue
  /\ UNCHANGED <<estado, salidaVars, usos, caido>>

\* Mutant: whoever kf_close lets in gets no entry of its own, like a reader that joins.
SueltaSinEntrada(p, abren) ==
  /\ archivos_abiertos' = [archivos_abiertos EXCEPT ![p] = FALSE]
  /\ abierto' = [q \in Procesos |->
       IF q = p THEN "no" ELSE IF q \in DOMAIN abren THEN abren[q] ELSE abierto[q]]
  /\ estado' = [q \in Procesos |-> IF q \in DOMAIN abren THEN "ready" ELSE estado[q]]
  /\ Sigue
  /\ UNCHANGED <<salidaVars, usos, caido>>

\* What all ways to finish kf_close do: the process loses its entry and g leaves the table.
Suelta(p, abren) ==
  /\ archivos_abiertos' = [ConEntrada(DOMAIN abren) EXCEPT ![p] = FALSE]
  /\ abierto' = [q \in Procesos |->
       IF q = p THEN "no" ELSE IF q \in DOMAIN abren THEN abren[q] ELSE abierto[q]]
  /\ estado' = [q \in Procesos |-> IF q \in DOMAIN abren THEN "ready" ELSE estado[q]]
  /\ Sigue
  /\ UNCHANGED <<salidaVars, usos, caido>>

\* The entry once its first waiter and the readers have left its queue.
Queda(e, escritores) ==
  [e EXCEPT !.colabloqueado = escritores, !.lock = IF escritores = <<>> THEN @ ELSE "W"]

\* The file is free and there are waiters: the first gets a new entry and the readers
\* behind it share that one.  If writers are left, the old entry goes back to the table,
\* behind the new one.
CerrarEntrega(p) ==
  /\ EnPaso(p, "cerrar") /\ PunteroRoto(exec.g) = "no"
  /\ LET g         == exec.g
         e         == Soltada(globales[g], archivos_abiertos[p])
         resto     == Tail(e.colabloqueado)
         lectores  == Los(resto, "R")
         escritores == Los(resto, "W")
         entran    == <<Head(e.colabloqueado)>> \o lectores
         tabla     == Append(RemoveFirst(lista_archivos_abiertos, g), Len(globales) + 1)
         nuevas    == Append([globales EXCEPT ![g] = Queda(e, escritores)],
                             Entrada(Head(entran).modo, e.contador + 1))
     IN /\ e.lock = "N" /\ e.colabloqueado # <<>>
        /\ globales' = [nuevas EXCEPT ![Head(tabla)].contador = @ + Len(lectores)]
        /\ lista_archivos_abiertos' =
             IF escritores = <<>> THEN tabla ELSE Append(tabla, g)
        /\ Suelta(p, [q \in {c.proceso : c \in ToSet(entran)} |->
             (CHOOSE c \in ToSet(entran) : c.proceso = q).modo])
        /\ fuera' = fuera
             \cup (IF escritores # <<>> THEN {"escritor_espera_detras"} ELSE {})
             \cup (IF Head(entran).modo = "W" /\ lectores # <<>>
                   THEN {"lector_con_escritor"} ELSE {})

\* The counter is still positive: a new entry takes the place of g, with one more
\* reader than there are and without the queue.
CerrarDeVarios(p) ==
  /\ EnPaso(p, "cerrar") /\ PunteroRoto(exec.g) = "no"
  /\ LET e == Soltada(globales[exec.g], archivos_abiertos[p]) IN
       /\ e.lock # "N" /\ e.contador > 0
       /\ globales' = Append([globales EXCEPT ![exec.g] = e], Entrada("R", e.contador + 1))
  /\ lista_archivos_abiertos' = Append(RemoveFirst(lista_archivos_abiertos, exec.g), Len(globales'))
  /\ Suelta(p, <<>>)
  /\ fuera' = fuera \cup {"cierra_uno_de_varios"}

\* Nobody is left, nobody waits.
CerrarFin(p) ==
  /\ EnPaso(p, "cerrar") /\ PunteroRoto(exec.g) = "no"
  /\ LET e == Soltada(globales[exec.g], archivos_abiertos[p]) IN
       /\ IF e.lock = "N" THEN e.colabloqueado = <<>> ELSE e.contador <= 0
       /\ globales' = [globales EXCEPT ![exec.g] = e]
  /\ lista_archivos_abiertos' = RemoveFirst(lista_archivos_abiertos, exec.g)
  /\ Suelta(p, <<>>)
  /\ UNCHANGED fuera

\* The process leaves the CPU with calls still to make: its quantum ended, another one has
\* more priority, or it waits for something that is not a file.
Desalojar(p) ==
  /\ Llamada(p) /\ Deja(p, "ready")
  /\ UNCHANGED <<tablaVars, abierto, salidaVars, fuera, caido>>

\* EXIT: kexit, whatever the program left open.
Terminar(p) ==
  /\ EnTurno(p)
  /\ cola_exit' = Append(cola_exit, p)
  /\ fuera' = IF abierto[p] = "no" THEN fuera ELSE fuera \cup MuereAbierto(p)
  /\ Deja(p, "exit")
  /\ UNCHANGED <<tablaVars, abierto, salida, usos, caido>>

-----------------------------------------------------------------------------
(* recibir_op_FS and exit_pcb *)

\* F_READ_SUCCESS, F_WRITE_SUCCESS, F_TRUNCATE_SUCCESS, in any order.
RecibirOpFS(p) ==
  /\ estado[p] = "fs" /\ caido = "no"
  /\ estado' = [estado EXCEPT ![p] = "ready"]
  /\ UNCHANGED <<tablaVars, abierto, exec, salidaVars, usos, fuera, caido>>

Muere(p) ==
  /\ estado' = [estado EXCEPT ![p] = "fin"]
  /\ abierto' = [abierto EXCEPT ![p] = "no"]
  /\ archivos_abiertos' = [archivos_abiertos EXCEPT ![p] = FALSE]
  /\ salida' = SalidaLibre

\* exit_pcb takes a process; pcb_destroy takes one off the counter of its file, before it
\* tests that there is an entry.  With others left, that is all it takes to leave the file.
Destruir(p) ==
  /\ salida = SalidaLibre /\ cola_exit # <<>> /\ Head(cola_exit) = p /\ caido = "no"
  /\ cola_exit' = Tail(cola_exit)
  /\ LET g == buscarArchivoGlobal IN
     \/ ~archivos_abiertos[p] /\ Muere(p) /\ UNCHANGED <<globales, caido>>
     \/ archivos_abiertos[p] /\ g = NULL /\ caido' = "nulo"
        /\ UNCHANGED <<globales, archivos_abiertos, abierto, estado, salida>>
     \/ /\ archivos_abiertos[p] /\ g # NULL
        /\ globales' = [globales EXCEPT ![g].contador = @ - 1]
        /\ salida' = [proceso |-> p, paso |-> "probar", g |-> g]
        /\ abierto' = IF globales[g].contador > 1 THEN [abierto EXCEPT ![p] = "no"] ELSE abierto
        /\ UNCHANGED <<archivos_abiertos, estado, caido>>
  /\ UNCHANGED <<lista_archivos_abiertos, exec, usos, fuera>>

\* Then it frees the entry if nobody is left, with whoever waits in its queue and under
\* the pointer that exec_pcb may have found.
LiberarEntrada(p) ==
  /\ salida.proceso = p /\ salida.paso = "probar" /\ caido = "no"
  /\ LET g == salida.g IN
     \/ /\ globales[g].contador <= 0
        /\ lista_archivos_abiertos' = RemoveFirst(lista_archivos_abiertos, g)
        /\ globales' = [globales EXCEPT ![g].liberada = TRUE]
        /\ fuera' = IF globales[g].colabloqueado = <<>> THEN fuera
                    ELSE fuera \cup {"muere_con_espera"}
     \/ globales[g].contador > 0 /\ UNCHANGED <<lista_archivos_abiertos, globales, fuera>>
  /\ Muere(p)
  /\ UNCHANGED <<exec, cola_exit, usos, caido>>

-----------------------------------------------------------------------------

Init ==
  /\ globales = <<>> /\ lista_archivos_abiertos = <<>>
  /\ archivos_abiertos = [p \in Procesos |-> FALSE]
  /\ abierto = [p \in Procesos |-> "no"]
  /\ estado = [p \in Procesos |-> "ready"]
  /\ exec = EjecutorLibre /\ cola_exit = <<>> /\ salida = SalidaLibre
  /\ usos = [p \in Procesos |-> 0] /\ fuera = {} /\ caido = "no"

Ejecutar(p) ==
  \/ Elegir(p)
  \/ \E modo \in Modos : Abrir(p, modo)
  \/ AbrirNuevo(p) \/ AbrirCompartido(p)
  \/ \E bloquea \in BOOLEAN : Usar(p, bloquea)
  \/ Escribir(p)
  \/ Cerrar(p) \/ CerrarRoto(p) \/ CerrarEntrega(p) \/ CerrarDeVarios(p) \/ CerrarFin(p)
  \/ Desalojar(p) \/ Terminar(p)

Salida(p) == Destruir(p) \/ LiberarEntrada(p)

Next == \E p \in Procesos : Ejecutar(p) \/ RecibirOpFS(p) \/ Salida(p)

Spec == Init /\ [][Next]_vars

\* The threads run whenever they can; the filesystem answers.
FairSpec ==
  /\ Spec
  /\ \A p \in Procesos : WF_vars(RecibirOpFS(p)) /\ WF_vars(Salida(p))
  /\ WF_vars(\E p \in Procesos : Ejecutar(p))

-----------------------------------------------------------------------------
(* Properties *)

\* Type invariant.
TypeOK ==
  /\ \A g \in DOMAIN globales :
       /\ globales[g].lock \in {"R", "W", "N"} /\ globales[g].contador \in Int
       /\ ToSet(globales[g].colabloqueado) \subseteq [proceso : Procesos, modo : Modos]
  /\ ToSet(lista_archivos_abiertos) \subseteq DOMAIN globales
  /\ archivos_abiertos \in [Procesos -> BOOLEAN]
  /\ abierto \in [Procesos -> Modos \cup {"no"}]
  /\ estado \in [Procesos -> {"ready", "exec", "fs", "archivo", "exit", "fin"}]
  /\ exec \in [proceso : Procesos \cup {Nadie}, modo : Modos, g : 0 .. Len(globales),
               paso : {"elegir", "seguir", "abrir", "abrir_fs", "cerrar"}]
  /\ exec.proceso # Nadie => estado[exec.proceso] = "exec"
  /\ ToSet(cola_exit) \subseteq Procesos
  /\ salida.proceso \in Procesos \cup {Nadie} /\ salida.g \in 0 .. Len(globales)
  /\ usos \in [Procesos -> 0 .. MaxUsos]
  /\ caido \in {"no", "nulo", "uso_liberado"}

\* A writer is alone: whoever holds the file to write shares it with no other process
\* that still runs, even when entries are lost, replaced or freed under those who wait.
\* What breaks it: kf_close handing the file to a writer with readers behind it, kf_close
\* leaving two entries of the file in the table, and a reader that writes next to others.
EscritorSolo ==
  fuera \cap {"lector_con_escritor", "escritor_espera_detras", "lector_escribe"} = {} =>
    \A p, q \in {r \in Procesos : abierto[r] # "no" /\ estado[r] # "exit"} :
      p # q => abierto[p] = "R"

\* The kernel only follows a bad pointer to an entry if a second reader joined without
\* an entry of its own, a process ended with the file open, or kf_close handed the file
\* to a writer and a reader at once or left two entries of it in the table: waiting, and
\* being left behind by an F_CLOSE of one of several readers, never bring it down.
SoloCaeSi ==
  caido # "no" =>
    fuera \cap {"lector_sumado", "muere_abierto", "lector_con_escritor",
                "escritor_espera_detras"} # {}

\* The table is a lock of one writer or many readers while nobody leaves the contract
\* and no process that ended was destroyed under another's pointer.
EnContrato == fuera \subseteq {"muere_abierto", "lector_sumado"} /\ caido = "no"

Esperando ==
  IF buscarArchivoGlobal = NULL THEN <<>> ELSE globales[buscarArchivoGlobal].colabloqueado

Contrato == INSTANCE Cerrojo WITH
  tiene <- abierto,
  cola  <- Esperando,
  vale  <- EnContrato

EsUnCerrojo == Contrato!Spec

\* Whoever waits for the file gets it in the end, as long as the use keeps to the
\* contract: the lock is handed on by each F_CLOSE, however the processes interleave.
EsperaTermina ==
  \A p \in Procesos :
    estado[p] = "archivo" ~>
      (estado[p] # "archivo" \/ ~EnContrato)
=============================================================================

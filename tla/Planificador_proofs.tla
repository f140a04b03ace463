------------------------ MODULE Planificador_proofs ------------------------
(***************************************************************************)
(* Proofs about Planificador for every number of processes and resources,  *)
(* every set of programs, every algorithm and every bound.                 *)
(***************************************************************************)
EXTENDS Planificador, SequenceTheorems, TLAPS

-----------------------------------------------------------------------------
(* The helpers keep the types *)

\* uint32_t arithmetic stays in range.
LEMMA Modulo == ASSUME NEW a \in Int PROVE a % ModUint \in 0 .. ModUint - 1
  BY PlanificadorSupuestos

\* sem_wait on a semaphore that is not zero.
LEMMA EsperarTipo ==
  ASSUME sem \in [Semaforos -> Nat], NEW s \in Semaforos, sem[s] > 0
  PROVE  [sem EXCEPT ![s] = @ - 1] \in [Semaforos -> Nat]
  OBVIOUS

\* sem_post on any set of semaphores, and what the end of a handler posts.
LEMMA PostTipo ==
  ASSUME sem \in [Semaforos -> Nat]
  PROVE  /\ \A S : Post(S) \in [Semaforos -> Nat]
         /\ PostSiHayReady \in [Semaforos -> Nat]
  BY DEF Post, PostSiHayReady

\* A non-empty list has a head, and what is left of it is a list.
LEMMA CabezaTipo ==
  ASSUME NEW s \in Seq(Pid), s # <<>>
  PROVE  Head(s) \in Pid /\ Tail(s) \in Seq(Pid) /\ Len(Tail(s)) = Len(s) - 1
  OBVIOUS

\* list_add and list_remove(l, 0).
LEMMA AgregarTipo ==
  ASSUME NEW c \in [Listas -> Seq(Pid)], NEW l \in Listas, NEW p \in Pid
  PROVE  Agregar(c, l, p) \in [Listas -> Seq(Pid)]
  BY DEF Agregar

\* The head of a non-empty list leaves it: the lists keep their type.
LEMMA SinPrimeroTipo ==
  ASSUME NEW c \in [Listas -> Seq(Pid)], NEW l \in Listas, c[l] # <<>>
  PROVE  SinPrimero(c, l) \in [Listas -> Seq(Pid)]
  BY DEF SinPrimero

\* cola_block keeps its type when a PCB enters or leaves it.
LEMMA BloqueadoTipo ==
  ASSUME cola_block \in [Pid -> Nat], NEW p
  PROVE  Bloqueado(p) \in [Pid -> Nat] /\ SinBloqueado(p) \in [Pid -> Nat]
  <1>1. CASE p \in Pid
    BY <1>1 DEF Bloqueado, SinBloqueado
  <1>2. CASE p \notin Pid
    BY <1>2 DEF Bloqueado, SinBloqueado
  <1> QED BY <1>1, <1>2

\* What elegir_pcb_segun_algoritmo leaves in lista_ready.
LEMMA RemoveAtTipo ==
  ASSUME NEW s \in Seq(Pid), NEW i \in DOMAIN s
  PROVE  RemoveAt(s, i) \in Seq(Pid)
  <1>1. i \in 1 .. Len(s) /\ Len(s) \in Nat
    OBVIOUS
  <1>2. SubSeq(s, 1, i - 1) \in Seq(Pid)
    BY <1>1, SubSeqProperties
  <1>3. SubSeq(s, i + 1, Len(s)) \in Seq(Pid)
    BY <1>1, SubSeqProperties
  <1> QED
    BY <1>2, <1>3, ConcatProperties DEF RemoveAt

Motivos == {"NINGUNO", "SYSCALL", "INTERRUPT", "PAGE_FAULT", "PAGE_FAULT_RESUELTO"}
Estados == {"SIN_CREAR", "NEW", "READY", "EXEC", "BLOCK", "FINISH_EXIT", "DESTRUIDO"}

\* One field of a PCB changes.
LEMMA CampoTipo ==
  ASSUME NEW q \in Pcb
  PROVE  /\ \A e \in Estados : [q EXCEPT !.estado = e] \in Pcb
         /\ \A m \in Motivos : [q EXCEPT !.motivo = m] \in Pcb
         /\ \A n \in Nat : [q EXCEPT !.pc = n] \in Pcb
         /\ \A n \in Nat : [q EXCEPT !.fallos = n] \in Pcb
         /\ \A n \in Nat : [q EXCEPT !.tiempo = n] \in Pcb
         /\ \A a \in [Recursos -> 0 .. ModUint - 1] : [q EXCEPT !.asignados = a] \in Pcb
         /\ q.pc \in Nat /\ q.fallos \in Nat /\ q.asignados \in [Recursos -> 0 .. ModUint - 1]
         /\ q.estado \in Estados
  BY DEF Pcb, Estados, Motivos

\* The same, of one PCB among all of them.
LEMMA ProcesosTipo ==
  ASSUME NEW f \in [Pid -> Pcb], NEW p \in Pid
  PROVE  /\ \A e \in Estados : [f EXCEPT ![p].estado = e] \in [Pid -> Pcb]
         /\ \A m \in Motivos : [f EXCEPT ![p].motivo = m] \in [Pid -> Pcb]
         /\ [f EXCEPT ![p].pc = @ + 1] \in [Pid -> Pcb]
         /\ [f EXCEPT ![p].fallos = @ + 1] \in [Pid -> Pcb]
         /\ \A n \in Nat : [f EXCEPT ![p].tiempo = n] \in [Pid -> Pcb]
         /\ \A a \in [Recursos -> 0 .. ModUint - 1] :
              [f EXCEPT ![p].asignados = a] \in [Pid -> Pcb]
  <1> DEFINE q == f[p]
  <1>1. q \in Pcb
    OBVIOUS
  <1> HIDE DEF q
  <1>2. /\ \A e \in Estados : [q EXCEPT !.estado = e] \in Pcb
        /\ \A m \in Motivos : [q EXCEPT !.motivo = m] \in Pcb
        /\ \A n \in Nat : [q EXCEPT !.tiempo = n] \in Pcb
        /\ \A a \in [Recursos -> 0 .. ModUint - 1] : [q EXCEPT !.asignados = a] \in Pcb
    BY <1>1, CampoTipo
  <1>3. q.pc + 1 \in Nat /\ q.fallos + 1 \in Nat
    BY <1>1, CampoTipo
  <1>4. [q EXCEPT !.pc = q.pc + 1] \in Pcb /\ [q EXCEPT !.fallos = q.fallos + 1] \in Pcb
    BY <1>1, <1>3, CampoTipo
  <1> QED BY <1>2, <1>4 DEF q

\* Changing how many instances a process holds keeps the type of the table of PCBs.
LEMMA AsignadosTipo ==
  ASSUME NEW f \in [Pid -> Pcb], NEW p \in Pid, NEW r \in Recursos, NEW n \in 0 .. ModUint - 1
  PROVE  [f EXCEPT ![p].asignados[r] = n] \in [Pid -> Pcb]
  <1>1. [f[p].asignados EXCEPT ![r] = n] \in [Recursos -> 0 .. ModUint - 1]
    BY CampoTipo
  <1> QED BY <1>1, ProcesosTipo

\* set_pcb_ready keeps the type of the table of PCBs.
LEMMA ListoTipo ==
  ASSUME NEW f \in [Pid -> Pcb], NEW p \in Pid, reloj \in Nat
  PROVE  Listo(f, p) \in [Pid -> Pcb]
  <1>1. [f EXCEPT ![p].estado = "READY"] \in [Pid -> Pcb]
    BY ProcesosTipo DEF Estados
  <1> QED BY <1>1, ProcesosTipo DEF Listo

\* A pid is never the NULL of the model.
LEMMA PidNoNulo == \A p \in Pid : p # Nada
  BY PlanificadorSupuestos DEF Pid, Nada

\* The pointers and lists the threads are about to use.
LEMMA PunterosPid ==
  ASSUME TypeOK, PunterosValidos
  PROVE  /\ exec.paso \notin {"sem", "elegir"} => pcbelegido \in Pid
         /\ exec.paso \in PasosConRecurso => exec.rec \in Recursos
         /\ exec.paso = "signal_listo" => exec.hijo \in Pid
         /\ exec.paso \in PasosConExec => cola["exec"] # <<>>
         /\ proceso_en_ejecucion # Nada => proceso_en_ejecucion \in Pid
         /\ admision.paso = "contar" => admision.pcb \in Pid
         /\ salida.paso \notin {"sem", "avisar"} => salida.pcb \in Pid
         /\ salida.paso \in PasosConRec => salida.rec \in Recursos
         /\ salida.paso \in {"restar", "despertar"} => salida.hijo \in Pid
         /\ fs.paso = "listo" => fs.pcb \in Pid
  <1>1. /\ proceso_en_ejecucion \in PidNulo /\ pcbelegido \in PidNulo /\ exec.hijo \in PidNulo
        /\ admision.pcb \in PidNulo /\ salida.pcb \in PidNulo /\ salida.hijo \in PidNulo
        /\ fs.pcb \in PidNulo
    BY DEF TypeOK, TipoExec, TipoAdmision, TipoSalida, TipoFs
  <1> QED
    BY <1>1 DEF PunterosValidos, PunterosExec, PunterosHilos, ExecOcupada, PidNulo

\* What TipoListas says of one list and of one queue of waiters.
LEMMA ListasTipo ==
  ASSUME TipoListas
  PROVE  /\ cola \in [Listas -> Seq(Pid)] /\ \A l \in Listas : cola[l] \in Seq(Pid)
         /\ \A r \in Recursos : colabloqueado[r] \in Seq(Pid)
  BY DEF TipoListas

\* A part of TypeOK holds after a step that leaves its variables alone.
LEMMA TipoIgual ==
  ASSUME TypeOK
  PROVE  /\ UNCHANGED <<pcb, generador_de_id>> => TipoProcesos'
         /\ UNCHANGED <<cola, cola_block, cantidad, colabloqueado, espera_archivo, perdidos>> => TipoListas'
         /\ UNCHANGED sem => sem' \in [Semaforos -> Nat]
         /\ UNCHANGED <<frenado, iniciada, interrupcion, grado, reloj, consola, caido>>
              => TipoConsola'
         /\ UNCHANGED <<proceso_en_ejecucion, pcbelegido, exec>> => TipoExec'
         /\ UNCHANGED admision => TipoAdmision'
         /\ UNCHANGED salida => TipoSalida'
         /\ UNCHANGED sleepers => TipoSleepers'
         /\ UNCHANGED pf => TipoPf'
         /\ UNCHANGED fs => TipoFs'
  <1>1. UNCHANGED <<pcb, generador_de_id>> => TipoProcesos'
    BY DEF TypeOK, TipoProcesos
  <1>2. UNCHANGED <<cola, cola_block, cantidad, colabloqueado, espera_archivo, perdidos>> => TipoListas'
    BY DEF TypeOK, TipoListas
  <1>3. UNCHANGED <<frenado, iniciada, interrupcion, grado, reloj, consola, caido>> => TipoConsola'
    BY DEF TypeOK, TipoConsola
  <1>4. UNCHANGED <<proceso_en_ejecucion, pcbelegido, exec>> => TipoExec'
    BY DEF TypeOK, TipoExec
  <1>5. UNCHANGED admision => TipoAdmision'
    BY DEF TypeOK, TipoAdmision
  <1>6. UNCHANGED salida => TipoSalida'
    BY DEF TypeOK, TipoSalida
  <1>7. UNCHANGED sleepers => TipoSleepers'
    BY DEF TypeOK, TipoSleepers
  <1>8. UNCHANGED pf => TipoPf'
    BY DEF TypeOK, TipoPf
  <1>9. UNCHANGED fs => TipoFs'
    BY DEF TypeOK, TipoFs
  <1>10. UNCHANGED sem => sem' \in [Semaforos -> Nat]
    BY DEF TypeOK
  <1> QED BY <1>1, <1>2, <1>3, <1>4, <1>5, <1>6, <1>7, <1>8, <1>9, <1>10

\* A step that leaves exec_pcb, cola_exec and the reasons alone.
LEMMA ExecIgual ==
  ASSUME TypeOK, ExecOcupada, exec' = exec, proceso_en_ejecucion' = proceso_en_ejecucion,
         cola'["exec"] = cola["exec"],
         \A p \in Pid : pcb'[p].motivo = pcb[p].motivo
  PROVE  ExecOcupada'
  BY DEF ExecOcupada, TypeOK, TipoExec, PidNulo

\* set_pcb_ready leaves the reason alone, and list_add the other lists.
LEMMA ListoMotivo ==
  ASSUME NEW f \in [Pid -> Pcb], NEW p \in Pid
  PROVE  \A q \in Pid : Listo(f, p)[q].motivo = f[q].motivo
  BY DEF Listo, Pcb

\* Adding to a list, or taking its head, leaves the other lists as they were.
LEMMA AgregarOtra ==
  ASSUME NEW c \in [Listas -> Seq(Pid)], NEW l \in Listas, NEW p \in Pid, NEW m \in Listas,
         l # m
  PROVE  Agregar(c, l, p)[m] = c[m] /\ SinPrimero(c, l)[m] = c[m]
  BY DEF Agregar, SinPrimero

\* What pcb_create writes.
LEMMA NuevoTipo ==
  ASSUME NEW f \in [Pid -> Pcb], NEW p \in Pid,
         NEW programa \in Programas, NEW prioridad \in Prioridades
  PROVE  /\ Nuevo(f, p, programa, prioridad) \in [Pid -> Pcb]
         /\ \A q \in Pid : Nuevo(f, p, programa, prioridad)[q].motivo = f[q].motivo
  <1> DEFINE q == [f[p] EXCEPT !.programa = programa, !.prioridad = prioridad, !.estado = "NEW"]
  <1>1. f[p] \in Pcb /\ prioridad \in Int
    BY PlanificadorSupuestos
  <1>2. q \in Pcb /\ q.motivo = f[p].motivo
    BY <1>1 DEF Pcb
  <1>3. Nuevo(f, p, programa, prioridad) = [f EXCEPT ![p] = q]
    BY DEF Nuevo
  <1> HIDE DEF q
  <1> QED BY <1>2, <1>3

\* A PCB gains, loses or gives back instances.
LEMMA InstanciasTipo ==
  ASSUME NEW f \in [Pid -> Pcb], NEW p \in Pid, NEW r \in Recursos
  PROVE  /\ [f EXCEPT ![p].asignados[r] = (@ + 1) % ModUint] \in [Pid -> Pcb]
         /\ [f EXCEPT ![p].asignados[r] = (@ - 1) % ModUint] \in [Pid -> Pcb]
         /\ [f EXCEPT ![p].asignados[r] = 0] \in [Pid -> Pcb]
         /\ f[p].asignados[r] \in Nat
  <1>1. f[p].asignados[r] \in Nat
    <2>1. f[p] \in Pcb
      OBVIOUS
    <2>2. f[p].asignados \in [Recursos -> 0 .. ModUint - 1]
      BY <2>1, CampoTipo
    <2> QED BY <2>2, PlanificadorSupuestos
  <1>2. /\ (f[p].asignados[r] + 1) % ModUint \in 0 .. ModUint - 1
        /\ (f[p].asignados[r] - 1) % ModUint \in 0 .. ModUint - 1
        /\ 0 \in 0 .. ModUint - 1
    <2> DEFINE k == f[p].asignados[r]
    <2>1. k \in Nat
      BY <1>1
    <2> HIDE DEF k
    <2>2. k + 1 \in Int /\ k - 1 \in Int /\ 0 \in 0 .. ModUint - 1
      BY <2>1, PlanificadorSupuestos
    <2>3. (k + 1) % ModUint \in 0 .. ModUint - 1
      BY <2>2, Modulo
    <2>4. (k - 1) % ModUint \in 0 .. ModUint - 1
      BY <2>2, Modulo
    <2> QED BY <2>2, <2>3, <2>4 DEF k
  <1> QED BY <1>1, <1>2, AsignadosTipo

\* A change of asignados leaves the motivo of every PCB.
LEMMA InstanciasMotivo ==
  ASSUME NEW f \in [Pid -> Pcb], NEW p \in Pid, NEW r, NEW n
  PROVE  \A q \in Pid : [f EXCEPT ![p].asignados[r] = n][q].motivo = f[q].motivo
  BY DEF Pcb

\* The write half of an unlocked cantidad += x keeps cantidad in its range.
LEMMA CantidadTipo ==
  ASSUME TipoListas, NEW r \in Recursos, NEW n \in Int
  PROVE  /\ [cantidad EXCEPT ![r] = n % ModUint] \in [Recursos -> 0 .. ModUint - 1]
         /\ cantidad[r] \in Nat
  <1>1. n % ModUint \in 0 .. ModUint - 1
    BY Modulo
  <1>2. cantidad[r] \in Nat
    BY PlanificadorSupuestos DEF TipoListas
  <1> QED BY <1>1, <1>2 DEF TipoListas

\* What exit_pcb starts from.
LEMMA SinSalidaTipo ==
  SinSalida \in [paso : PasosSalida, pcb : PidNulo, rec : Nat, reg : Nat, aux : Seq(Pid),
                hijo : PidNulo]
  <1>1. <<>> \in Seq(Pid) /\ Nada \in PidNulo
    BY DEF PidNulo
  <1> QED BY <1>1 DEF SinSalida, PasosSalida

\* The console: iniciar_proceso, iniciar_planificacion, detener_planificacion, modificar_grado.
LEMMA PasoConsola ==
  ASSUME TypeOK, PunterosValidos, Consola
  PROVE  TypeOK' /\ PunterosValidos'
  <1>1. CASE IniciarProceso
    <2>1. /\ pcb' \in [Pid -> Pcb] /\ \A q \in Pid : pcb'[q].motivo = pcb[q].motivo
      <3>1. PICK programa \in Programas, prioridad \in Prioridades :
              pcb' = Nuevo(pcb, generador_de_id, programa, prioridad)
        BY <1>1 DEF IniciarProceso
      <3>2. pcb \in [Pid -> Pcb] /\ generador_de_id \in Pid
        BY <1>1 DEF IniciarProceso, TypeOK, TipoProcesos
      <3> QED BY <3>1, <3>2, NuevoTipo
    <2>2. cola'["exec"] = cola["exec"]
      BY <1>1, AgregarOtra DEF TypeOK, TipoListas, Listas, IniciarProceso
    <2>3. generador_de_id' \in Nat
      BY <1>1 DEF TypeOK, TipoProcesos, IniciarProceso
    <2>4. TipoProcesos'
      BY <2>1, <2>3 DEF TipoProcesos
    <2>5. TipoListas'
      BY <1>1, <2>1, <2>2, <2>3, AgregarTipo, ListasTipo DEF TypeOK, TipoListas,
         IniciarProceso, Listas, recursoVars, archivoVars
    <2>6. sem' \in [Semaforos -> Nat]
      BY <1>1, <2>1, <2>2, <2>3, PostTipo DEF TypeOK, IniciarProceso
    <2>7. TipoConsola' /\ TipoExec' /\ TipoAdmision' /\ TipoSalida' /\ TipoSleepers' /\
          TipoPf' /\ TipoFs'
      BY <1>1, TipoIgual DEF IniciarProceso, cpuVars, hilosVars
    <2>8. ExecOcupada'
      BY <1>1, <2>1, <2>2, ExecIgual DEF PunterosValidos, IniciarProceso, cpuVars
    <2>9. PunterosExec' /\ PunterosHilos'
      BY <1>1 DEF PunterosValidos, PunterosExec, PunterosHilos, IniciarProceso, cpuVars,
         hilosVars
    <2> QED BY <2>4, <2>5, <2>6, <2>7, <2>8, <2>9 DEF TypeOK, PunterosValidos
  <1>2. CASE IniciarPlanificacion
    <2>1. TipoConsola'
      BY <1>2 DEF TypeOK, TipoConsola, IniciarPlanificacion, cpuVars
    <2>2. TipoProcesos' /\ TipoListas' /\ sem' \in [Semaforos -> Nat] /\ TipoExec' /\
          TipoAdmision' /\ TipoSalida' /\ TipoSleepers' /\ TipoPf' /\ TipoFs'
      BY <1>2, TipoIgual DEF IniciarPlanificacion, recursoVars, archivoVars, cpuVars, hilosVars
    <2>3. PunterosExec' /\ PunterosHilos' /\ ExecOcupada'
      BY <1>2 DEF PunterosValidos, PunterosExec, PunterosHilos, ExecOcupada,
         IniciarPlanificacion, cpuVars, hilosVars
    <2> QED BY <2>1, <2>2, <2>3 DEF TypeOK, PunterosValidos
  <1>3. CASE DetenerPlanificacion
    <2>1. TipoConsola'
      BY <1>3 DEF TypeOK, TipoConsola, DetenerPlanificacion, cpuVars
    <2>2. TipoProcesos' /\ TipoListas' /\ sem' \in [Semaforos -> Nat] /\ TipoExec' /\
          TipoAdmision' /\ TipoSalida' /\ TipoSleepers' /\ TipoPf' /\ TipoFs'
      BY <1>3, TipoIgual DEF DetenerPlanificacion, recursoVars, archivoVars, cpuVars, hilosVars
    <2>3. PunterosExec' /\ PunterosHilos' /\ ExecOcupada'
      BY <1>3 DEF PunterosValidos, PunterosExec, PunterosHilos, ExecOcupada,
         DetenerPlanificacion, cpuVars, hilosVars
    <2> QED BY <2>1, <2>2, <2>3 DEF TypeOK, PunterosValidos
  <1>4. CASE ReanudarPost
    <2>1. sem' \in [Semaforos -> Nat]
      BY <1>4, PostTipo DEF TypeOK, ReanudarPost
    <2>2. TipoConsola'
      BY <1>4 DEF TypeOK, TipoConsola, ReanudarPost, cpuVars
    <2>3. TipoProcesos' /\ TipoListas' /\ TipoExec' /\ TipoAdmision' /\ TipoSalida' /\
          TipoSleepers' /\ TipoPf' /\ TipoFs'
      BY <1>4, TipoIgual DEF ReanudarPost, recursoVars, archivoVars, cpuVars, hilosVars
    <2>4. PunterosExec' /\ PunterosHilos' /\ ExecOcupada'
      BY <1>4 DEF PunterosValidos, PunterosExec, PunterosHilos, ExecOcupada, ReanudarPost,
         cpuVars, hilosVars
    <2> QED BY <2>1, <2>2, <2>3, <2>4 DEF TypeOK, PunterosValidos
  <1>5. CASE ReanudarFlag
    <2>1. TipoConsola'
      BY <1>5 DEF TypeOK, TipoConsola, ReanudarFlag, cpuVars
    <2>2. TipoProcesos' /\ TipoListas' /\ sem' \in [Semaforos -> Nat] /\ TipoExec' /\
          TipoAdmision' /\ TipoSalida' /\ TipoSleepers' /\ TipoPf' /\ TipoFs'
      BY <1>5, TipoIgual DEF ReanudarFlag, recursoVars, archivoVars, cpuVars, hilosVars
    <2>3. PunterosExec' /\ PunterosHilos' /\ ExecOcupada'
      BY <1>5 DEF PunterosValidos, PunterosExec, PunterosHilos, ExecOcupada, ReanudarFlag,
         cpuVars, hilosVars
    <2> QED BY <2>1, <2>2, <2>3 DEF TypeOK, PunterosValidos
  <1>6. CASE ModificarGrado
    <2>1. TipoConsola'
      BY <1>6, PlanificadorSupuestos DEF TypeOK, TipoConsola, ModificarGrado, cpuVars
    <2>2. TipoProcesos' /\ TipoListas' /\ sem' \in [Semaforos -> Nat] /\ TipoExec' /\
          TipoAdmision' /\ TipoSalida' /\ TipoSleepers' /\ TipoPf' /\ TipoFs'
      BY <1>6, TipoIgual DEF ModificarGrado, recursoVars, archivoVars, cpuVars, hilosVars
    <2>3. PunterosExec' /\ PunterosHilos' /\ ExecOcupada'
      BY <1>6 DEF PunterosValidos, PunterosExec, PunterosHilos, ExecOcupada,
         ModificarGrado, cpuVars, hilosVars
    <2> QED BY <2>1, <2>2, <2>3 DEF TypeOK, PunterosValidos
  <1> QED BY <1>1, <1>2, <1>3, <1>4, <1>5, <1>6 DEF Consola

\* ready_pcb.
LEMMA PasoAdmision ==
  ASSUME TypeOK, PunterosValidos, Admision
  PROVE  TypeOK' /\ PunterosValidos'
  <1>1. CASE AdmisionToma
    <2>1. Head(cola["listos"]) \in Pid
      BY <1>1, CabezaTipo DEF AdmisionToma, TypeOK, TipoListas, Listas
    <2>2. TipoListas'
      BY <1>1, <2>1, SinPrimeroTipo, ListasTipo DEF TypeOK, TipoListas, AdmisionToma,
         Listas, recursoVars, archivoVars
    <2>3. sem' \in [Semaforos -> Nat]
      BY <1>1, <2>1, EsperarTipo DEF TypeOK, AdmisionToma, Semaforos
    <2>4. TipoAdmision'
      BY <1>1, <2>1, CabezaTipo DEF TypeOK, TipoAdmision, AdmisionToma, PidNulo,
         TipoListas, Listas
    <2>5. TipoProcesos' /\ TipoConsola' /\ TipoExec' /\ TipoSalida' /\ TipoSleepers' /\
          TipoPf' /\ TipoFs'
      BY <1>1, TipoIgual DEF AdmisionToma, consolaVars, cpuVars, hilosVars
    <2>6. PunterosHilos'
      BY <1>1, <2>1, PlanificadorSupuestos DEF PunterosHilos, PunterosValidos,
         AdmisionToma, PidNulo, Nada, Pid, TypeOK, TipoAdmision, TipoSalida, hilosVars
    <2>7. ExecOcupada'
      BY <1>1, <2>1, ExecIgual, AgregarOtra DEF TypeOK, PunterosValidos, AdmisionToma,
         TipoListas, Listas, cpuVars
    <2>8. PunterosExec'
      BY <1>1 DEF PunterosValidos, PunterosExec, AdmisionToma, cpuVars
    <2> QED BY <2>2, <2>3, <2>4, <2>5, <2>6, <2>7, <2>8 DEF TypeOK, PunterosValidos
  <1>2. CASE AdmisionAcepta
    <2>1. admision.pcb \in Pid
      BY <1>2, PunterosPid DEF AdmisionAcepta
    <2>2. \A q \in Pid : pcb'[q].motivo = pcb[q].motivo
      BY <1>2, <2>1, ListoMotivo DEF AdmisionAcepta, TypeOK, TipoProcesos
    <2>3. TipoProcesos'
      BY <1>2, <2>1, <2>2, ListoTipo, ProcesosTipo DEF TypeOK, TipoProcesos,
         AdmisionAcepta, TipoConsola, Estados, Motivos, consolaVars
    <2>4. TipoListas'
      BY <1>2, <2>1, <2>2, AgregarTipo, ListasTipo DEF TypeOK, TipoListas, AdmisionAcepta,
         Listas, recursoVars, archivoVars
    <2>5. TipoConsola'
      BY <1>2, <2>1, <2>2 DEF TypeOK, TipoConsola, AdmisionAcepta, Interrumpe, Desaloja,
         consolaVars
    <2>6. TipoAdmision'
      BY <1>2, <2>1, <2>2 DEF TypeOK, TipoAdmision, AdmisionAcepta, PidNulo, TipoListas,
         Listas
    <2>7. sem' \in [Semaforos -> Nat] /\ TipoExec' /\ TipoSalida' /\ TipoSleepers' /\
          TipoPf' /\ TipoFs'
      BY <1>2, TipoIgual DEF AdmisionAcepta, hilosVars
    <2>8. PunterosHilos'
      BY <1>2, <2>1, <2>2, PlanificadorSupuestos DEF PunterosHilos, PunterosValidos,
         AdmisionAcepta, PidNulo, Nada, Pid, TypeOK, TipoAdmision, TipoSalida, hilosVars
    <2>9. ExecOcupada'
      BY <1>2, <2>1, <2>2, ExecIgual, AgregarOtra DEF TypeOK, TipoListas, Listas,
         PunterosValidos, AdmisionAcepta
    <2>10. PunterosExec'
      BY <1>2 DEF PunterosValidos, PunterosExec, AdmisionAcepta
    <2> QED BY <2>3, <2>4, <2>5, <2>6, <2>7, <2>8, <2>9, <2>10 DEF TypeOK, PunterosValidos
  <1>3. CASE AdmisionDetiene
    <2>1. admision.pcb \in Pid
      BY <1>3, PunterosPid DEF AdmisionDetiene
    <2>2. TipoListas'
      BY <1>3, <2>1, AgregarTipo, ListasTipo DEF TypeOK, TipoListas, AdmisionDetiene,
         Listas, recursoVars, archivoVars
    <2>3. TipoAdmision'
      BY <1>3, <2>1 DEF TypeOK, TipoAdmision, AdmisionDetiene, PidNulo
    <2>4. TipoProcesos' /\ sem' \in [Semaforos -> Nat] /\ TipoConsola' /\ TipoExec' /\
          TipoSalida' /\ TipoSleepers' /\ TipoPf' /\ TipoFs'
      BY <1>3, TipoIgual DEF AdmisionDetiene, consolaVars, cpuVars, hilosVars
    <2>5. PunterosHilos'
      BY <1>3, <2>1, PlanificadorSupuestos DEF PunterosHilos, PunterosValidos,
         AdmisionDetiene, PidNulo, Nada, Pid, TypeOK, TipoAdmision, TipoSalida, hilosVars
    <2>6. ExecOcupada'
      BY <1>3, <2>1, ExecIgual, AgregarOtra DEF TypeOK, PunterosValidos, AdmisionDetiene,
         TipoListas, Listas, cpuVars
    <2>7. PunterosExec'
      BY <1>3 DEF PunterosValidos, PunterosExec, AdmisionDetiene, cpuVars
    <2> QED BY <2>2, <2>3, <2>4, <2>5, <2>6, <2>7 DEF TypeOK, PunterosValidos
  <1>4. CASE AdmisionAvisa
    <2>1. sem' \in [Semaforos -> Nat]
      BY <1>4, PostTipo DEF TypeOK, AdmisionAvisa
    <2>2. TipoAdmision'
      BY <1>4 DEF TypeOK, TipoAdmision, AdmisionAvisa, PidNulo, TipoListas, Listas
    <2>3. TipoProcesos' /\ TipoListas' /\ TipoConsola' /\ TipoExec' /\ TipoSalida' /\
          TipoSleepers' /\ TipoPf' /\ TipoFs'
      BY <1>4, TipoIgual DEF AdmisionAvisa, consolaVars, recursoVars, archivoVars, cpuVars, hilosVars
    <2>4. PunterosHilos'
      BY <1>4, PlanificadorSupuestos DEF PunterosHilos, PunterosValidos, AdmisionAvisa,
         PidNulo, Nada, Pid, TypeOK, TipoAdmision, TipoSalida, hilosVars
    <2>5. PunterosExec' /\ ExecOcupada'
      BY <1>4 DEF PunterosValidos, PunterosExec, ExecOcupada, AdmisionAvisa, cpuVars
    <2> QED BY <2>1, <2>2, <2>3, <2>4, <2>5 DEF TypeOK, PunterosValidos
  <1> QED BY <1>1, <1>2, <1>3, <1>4 DEF Admision

\* exec_pcb up to the CPU.
LEMMA PasoDespacho ==
  ASSUME TypeOK, PunterosValidos, Despacho
  PROVE  TypeOK' /\ PunterosValidos'
  <1>1. CASE ExecDespierta
    <2>1. sem' \in [Semaforos -> Nat]
      BY <1>1, EsperarTipo DEF TypeOK, ExecDespierta, Semaforos
    <2>2. TipoExec'
      BY <1>1, PlanificadorSupuestos DEF TypeOK, TipoExec, ExecDespierta, PidNulo,
         PasosExec, cpuVars
    <2>3. TipoProcesos' /\ TipoListas' /\ TipoConsola' /\ TipoAdmision' /\ TipoSalida' /\
          TipoSleepers' /\ TipoPf' /\ TipoFs'
      BY <1>1, TipoIgual DEF ExecDespierta, consolaVars, recursoVars, archivoVars, cpuVars, hilosVars
    <2>4. PunterosExec'
      BY <1>1 DEF PunterosExec, PunterosValidos, ExecDespierta, PasosConRecurso, PidNulo,
         Nada, cpuVars
    <2>5. ExecOcupada'
      BY <1>1 DEF TypeOK, PunterosValidos, ExecOcupada, ExecDespierta, PasosConExec,
         PidNulo, Nada, HayReady, TipoExec, cpuVars
    <2>6. PunterosHilos'
      BY <1>1 DEF PunterosValidos, PunterosHilos, ExecDespierta, hilosVars
    <2> QED BY <2>1, <2>2, <2>3, <2>4, <2>5, <2>6 DEF TypeOK, PunterosValidos
  <1>2. CASE ExecContinua
    <2>1. proceso_en_ejecucion \in Pid
      BY <1>2, PunterosPid DEF ExecContinua, Continua
    <2>2. TipoExec'
      BY <1>2, <2>1, PlanificadorSupuestos DEF TypeOK, TipoExec, ExecContinua, PidNulo,
         PasosExec
    <2>3. TipoProcesos' /\ TipoListas' /\ sem' \in [Semaforos -> Nat] /\ TipoConsola' /\
          TipoAdmision' /\ TipoSalida' /\ TipoSleepers' /\ TipoPf' /\ TipoFs'
      BY <1>2, TipoIgual DEF ExecContinua, consolaVars, recursoVars, archivoVars, hilosVars
    <2>4. PunterosExec'
      BY <1>2, <2>1, PlanificadorSupuestos DEF PunterosExec, PunterosValidos, ExecContinua,
         PasosConRecurso, PidNulo, Nada, Pid
    <2>5. ExecOcupada'
      BY <1>2, <2>1 DEF TypeOK, PunterosValidos, ExecOcupada, ExecContinua, PasosConExec,
         PidNulo, Nada, Continua, TipoExec
    <2>6. PunterosHilos'
      BY <1>2 DEF PunterosValidos, PunterosHilos, ExecContinua, hilosVars
    <2> QED BY <2>2, <2>3, <2>4, <2>5, <2>6 DEF TypeOK, PunterosValidos
  <1>3. CASE ExecElige
    <2>1. sem' \in [Semaforos -> Nat] /\ TipoAdmision' /\ TipoSalida' /\ TipoSleepers' /\
          TipoPf' /\ TipoFs'
        /\ PunterosHilos'
      BY <1>3, TipoIgual DEF PunterosValidos, PunterosHilos, ExecElige, consolaVars,
         recursoVars, archivoVars, hilosVars
    <2>2. CASE HayReady
      <3>1. PICK i \in DOMAIN cola["ready"] :
              /\ pcbelegido' = cola["ready"][i]
              /\ pcb' = [pcb EXCEPT ![cola["ready"][i]].estado = "EXEC"]
              /\ cola' = [cola EXCEPT !["ready"] = RemoveAt(@, i),
                                      !["exec"] = Append(@, cola["ready"][i])]
              /\ exec' = [exec EXCEPT !.paso = IF EsBasura(cola["ready"][i])
                                               THEN "basura" ELSE "cpu"]
              /\ caido' = caido
        BY <1>3, <2>2 DEF ExecElige
      <3> DEFINE p == cola["ready"][i]
      <3>2. p \in Pid /\ RemoveAt(cola["ready"], i) \in Seq(Pid)
        BY RemoveAtTipo DEF TypeOK, TipoListas, Listas
      <3>3. p = cola["ready"][i]
        OBVIOUS
      <3> HIDE DEF p
      <3>4. TipoProcesos'
        BY <1>3, <3>1, <3>2, <3>3, ProcesosTipo
           DEF TypeOK, TipoProcesos, Estados, ExecElige, consolaVars
      <3>5. TipoListas' /\ cola'["exec"] # <<>>
        <4>1. cola["exec"] \in Seq(Pid) /\ cola \in [Listas -> Seq(Pid)]
          BY DEF TypeOK, TipoListas, Listas
        <4>2. Append(cola["exec"], p) \in Seq(Pid) /\ Len(Append(cola["exec"], p)) =
              Len(cola["exec"]) + 1
          BY <3>2, <4>1, AppendProperties
        <4>3. Append(cola["exec"], p) # <<>>
          BY <4>1, <4>2
        <4>4. cola' \in [Listas -> Seq(Pid)] /\ cola'["exec"] # <<>>
          BY <3>1, <3>2, <3>3, <4>1, <4>2, <4>3 DEF Listas
        <4> QED BY <1>3, <4>4 DEF TypeOK, TipoListas, ExecElige, recursoVars, archivoVars
      <3>6. TipoExec'
        BY <1>3, <3>1, <3>2, <3>3 DEF TypeOK, TipoExec, PidNulo, PasosExec, ExecElige
      <3>7. PunterosExec'
        BY <3>1, <3>2, <3>3, PlanificadorSupuestos
           DEF TypeOK, TipoExec, PunterosExec, PasosConRecurso, Pid, Nada
      <3>8. \A q \in Pid : pcb'[q].motivo = pcb[q].motivo
        BY <3>1, <3>2, <3>3 DEF TypeOK, TipoProcesos, Pcb
      <3>9. ExecOcupada'
        BY <1>3, <3>5, <3>8 DEF ExecOcupada, PunterosValidos, ExecElige, TypeOK, TipoExec,
           PidNulo
      <3>10. TipoConsola'
        BY <1>3, <3>1 DEF TypeOK, TipoConsola, ExecElige, consolaVars
      <3> QED BY <2>1, <3>4, <3>5, <3>6, <3>7, <3>9, <3>10 DEF TypeOK, PunterosValidos
    <2>3. CASE ~HayReady
      <3>1. caido' = "lista_vacia" /\ UNCHANGED <<pcbelegido, pcb, cola, exec>>
        BY <1>3, <2>3 DEF ExecElige
      <3>2. TipoProcesos' /\ TipoListas' /\ TipoExec'
        BY <1>3, <3>1, TipoIgual DEF ExecElige, consolaVars, recursoVars, archivoVars
      <3>4. TipoConsola'
        BY <1>3, <3>1 DEF TypeOK, TipoConsola, ExecElige, consolaVars
      <3>3. PunterosExec' /\ ExecOcupada'
        BY <1>3, <3>1 DEF PunterosValidos, PunterosExec, ExecOcupada, ExecElige
      <3> QED BY <2>1, <3>2, <3>3, <3>4 DEF TypeOK, PunterosValidos
    <2> QED BY <2>2, <2>3
  <1>4. CASE ExecDescarta
    <2>1. sem' \in [Semaforos -> Nat]
      BY <1>4, PostTipo DEF TypeOK, ExecDescarta
    <2>2. TipoExec'
      BY <1>4, PlanificadorSupuestos DEF TypeOK, TipoExec, ExecDescarta, PidNulo,
         PasosExec, Esperando, cpuVars
    <2>3. TipoProcesos' /\ TipoListas' /\ TipoConsola' /\ TipoAdmision' /\ TipoSalida' /\
          TipoSleepers' /\ TipoPf' /\ TipoFs'
      BY <1>4, TipoIgual DEF ExecDescarta, consolaVars, recursoVars, archivoVars, cpuVars, hilosVars
    <2>4. PunterosExec'
      BY <1>4 DEF PunterosExec, PunterosValidos, ExecDescarta, PasosConRecurso, PidNulo,
         Nada, Esperando, cpuVars
    <2>5. ExecOcupada'
      BY <1>4 DEF TypeOK, PunterosValidos, ExecOcupada, ExecDescarta, PasosConExec,
         PidNulo, Nada, Esperando, HayReady, TipoExec, cpuVars
    <2>6. PunterosHilos'
      BY <1>4 DEF PunterosValidos, PunterosHilos, ExecDescarta, hilosVars
    <2> QED BY <2>1, <2>2, <2>3, <2>4, <2>5, <2>6 DEF TypeOK, PunterosValidos
  <1> QED BY <1>1, <1>2, <1>3, <1>4 DEF Despacho

\* The end of the CPU's turn.
LEMMA PasoCpu ==
  ASSUME TypeOK, PunterosValidos, Cpu
  PROVE  TypeOK' /\ PunterosValidos'
  <1>1. CASE CpuEjecuta
    <2>1. pcbelegido \in Pid
      BY <1>1, PunterosPid DEF CpuEjecuta, PasosConExec, PasosConRecurso
    <2>2. TipoProcesos'
      BY <1>1, <2>1, ProcesosTipo DEF TypeOK, TipoProcesos, CpuEjecuta, Estados, Motivos,
         consolaVars
    <2>3. TipoListas' /\ sem' \in [Semaforos -> Nat] /\ TipoConsola' /\ TipoExec' /\
          TipoAdmision' /\ TipoSalida' /\ TipoSleepers' /\ TipoPf' /\ TipoFs'
      BY <1>1, TipoIgual DEF CpuEjecuta, consolaVars, recursoVars, archivoVars, cpuVars, hilosVars
    <2>4. ExecOcupada'
      BY <1>1, <2>1, ExecIgual DEF TypeOK, PunterosValidos, CpuEjecuta, TipoProcesos, Pcb,
         cpuVars
    <2>5. PunterosExec' /\ PunterosHilos'
      BY <1>1 DEF PunterosValidos, PunterosExec, PunterosHilos, CpuEjecuta, cpuVars,
         hilosVars
    <2> QED BY <2>2, <2>3, <2>4, <2>5 DEF TypeOK, PunterosValidos
  <1>2. CASE ExecDesalojo
    <2>1. pcbelegido \in Pid /\ cola["exec"] # <<>>
      BY <1>2, PunterosPid DEF ExecDesalojo, PasosConExec, PasosConRecurso
    <2>2. TipoProcesos'
      BY <1>2, <2>1, ProcesosTipo DEF TypeOK, TipoProcesos, ExecDesalojo, Estados, Motivos,
         consolaVars
    <2>3. TipoListas'
      BY <1>2, <2>1, AgregarTipo, SinPrimeroTipo, ListasTipo DEF TypeOK, TipoListas,
         ExecDesalojo, Listas, recursoVars, archivoVars
    <2>4. sem' \in [Semaforos -> Nat]
      BY <1>2, <2>1, PostTipo DEF TypeOK, ExecDesalojo
    <2>5. TipoConsola'
      BY <1>2, <2>1 DEF TypeOK, TipoConsola, ExecDesalojo, consolaVars
    <2>6. TipoExec'
      BY <1>2, <2>1, PlanificadorSupuestos DEF TypeOK, TipoExec, ExecDesalojo, PidNulo,
         PasosExec, Esperando
    <2>7. TipoAdmision' /\ TipoSalida' /\ TipoSleepers' /\ TipoPf' /\ TipoFs'
      BY <1>2, TipoIgual DEF ExecDesalojo, hilosVars
    <2>8. PunterosExec'
      BY <1>2, <2>1 DEF PunterosExec, PunterosValidos, ExecDesalojo, PasosConRecurso,
         PidNulo, Nada, Esperando
    <2>9. ExecOcupada'
      <3>1. exec'.paso = "sem" /\ proceso_en_ejecucion' = pcbelegido
        BY <1>2 DEF ExecDesalojo, Esperando
      <3>2. pcb \in [Pid -> Pcb]
        BY DEF TypeOK, TipoProcesos
      <3>3. pcb'[pcbelegido].motivo = "INTERRUPT"
        BY <1>2, <2>1, <3>2 DEF ExecDesalojo, Pcb
      <3> QED BY <3>1, <3>3 DEF ExecOcupada, PasosConExec
    <2>10. PunterosHilos'
      BY <1>2 DEF PunterosValidos, PunterosHilos, ExecDesalojo, hilosVars
    <2> QED BY <2>2, <2>3, <2>4, <2>5, <2>6, <2>7, <2>8, <2>9, <2>10 DEF TypeOK,
          PunterosValidos
  <1>3. CASE ExecPageFault
    <2>1. pcbelegido \in Pid /\ cola["exec"] # <<>>
      BY <1>3, PunterosPid DEF ExecPageFault, PasosConExec, PasosConRecurso
    <2>2. TipoProcesos'
      <3> DEFINE f == [pcb EXCEPT ![pcbelegido].motivo = "PAGE_FAULT"]
                 g == [f EXCEPT ![pcbelegido].estado = "BLOCK"]
      <3>1. f \in [Pid -> Pcb]
        BY <2>1, ProcesosTipo DEF TypeOK, TipoProcesos, Motivos
      <3>2. pcb' = [g EXCEPT ![pcbelegido].fallos = @ + 1]
        BY <1>3 DEF ExecPageFault
      <3> HIDE DEF f
      <3>3. g \in [Pid -> Pcb]
        BY <2>1, <3>1, ProcesosTipo DEF Estados
      <3> HIDE DEF g
      <3>4. pcb' \in [Pid -> Pcb]
        BY <2>1, <3>2, <3>3, ProcesosTipo
      <3> QED BY <1>3, <3>4 DEF TypeOK, TipoProcesos, ExecPageFault, consolaVars
    <2>3. TipoListas'
      BY <1>3, <2>1, SinPrimeroTipo, BloqueadoTipo, ListasTipo DEF TypeOK, TipoListas,
         ExecPageFault, Listas, recursoVars, archivoVars
    <2>4. TipoExec'
      BY <1>3, <2>1, PlanificadorSupuestos DEF TypeOK, TipoExec, ExecPageFault, PidNulo,
         PasosExec, Esperando
    <2>5. TipoPf'
      BY <1>3, <2>1 DEF TypeOK, TipoPf, ExecPageFault, PidNulo
    <2>6. sem' \in [Semaforos -> Nat] /\ TipoConsola' /\ TipoAdmision' /\ TipoSalida' /\
          TipoSleepers' /\ TipoFs'
      BY <1>3, TipoIgual DEF ExecPageFault, consolaVars
    <2>7. PunterosExec'
      BY <1>3, <2>1 DEF PunterosExec, PunterosValidos, ExecPageFault, PasosConRecurso,
         PidNulo, Nada, Esperando
    <2>8. ExecOcupada'
      BY <1>3, <2>1, TipoIgual DEF PunterosValidos, ExecOcupada, ExecPageFault,
         PasosConExec, PidNulo, Nada, Esperando, Listas, Agregar, SinPrimero, Pcb
    <2>9. PunterosHilos'
      BY <1>3 DEF PunterosValidos, PunterosHilos, ExecPageFault
    <2> QED BY <2>2, <2>3, <2>4, <2>5, <2>6, <2>7, <2>8, <2>9 DEF TypeOK, PunterosValidos
  <1>4. CASE ExecSyscall
    <2>1. pcbelegido \in Pid
      BY <1>4, PunterosPid DEF ExecSyscall, PasosConExec, PasosConRecurso
    <2>2. exec' = [exec EXCEPT !.paso = exec'.paso] /\ exec'.paso \in Syscalls
      BY <1>4 DEF ExecSyscall, TypeOK, TipoExec
    <2>3. TipoProcesos'
      BY <1>4, <2>1, <2>2, ProcesosTipo DEF TypeOK, TipoProcesos, ExecSyscall, Estados,
         Motivos, consolaVars
    <2>4. TipoExec'
      BY <1>4, <2>1, <2>2, PlanificadorSupuestos DEF TypeOK, TipoExec, ExecSyscall,
         PidNulo, PasosExec, Syscalls, Operaciones
    <2>5. TipoListas' /\ sem' \in [Semaforos -> Nat] /\ TipoConsola' /\ TipoAdmision' /\
          TipoSalida' /\ TipoSleepers' /\ TipoPf' /\ TipoFs'
      BY <1>4, TipoIgual DEF ExecSyscall, consolaVars, recursoVars, archivoVars, hilosVars
    <2>6. PunterosExec'
      BY <1>4, <2>1, <2>2, PlanificadorSupuestos DEF PunterosExec, PunterosValidos,
         ExecSyscall, PasosConRecurso, Syscalls, Operaciones, Nada, Pid
    <2>7. ExecOcupada'
      BY <1>4, <2>1, <2>2 DEF TypeOK, PunterosValidos, ExecOcupada, ExecSyscall,
         PasosConExec, PidNulo, Nada, TipoExec, TipoProcesos, Pcb
    <2>8. PunterosHilos'
      BY <1>4 DEF PunterosValidos, PunterosHilos, ExecSyscall, hilosVars
    <2> QED BY <2>3, <2>4, <2>5, <2>6, <2>7, <2>8 DEF TypeOK, PunterosValidos
  <1> QED BY <1>1, <1>2, <1>3, <1>4 DEF Cpu

\* The end of a handler that lets its process go on: only the two semaphores and exec change.
LEMMA SigueTipo ==
  ASSUME TypeOK, PunterosValidos, exec.paso \in PasosConExec, SigueEnCpu, TipoListas'
  PROVE  TypeOK' /\ PunterosValidos'
  <1>1. sem' \in [Semaforos -> Nat]
    BY PostTipo DEF TypeOK, SigueEnCpu
  <1>2. TipoExec'
    BY PlanificadorSupuestos DEF TypeOK, TipoExec, SigueEnCpu, PidNulo, PasosExec, Esperando, cpuVars
  <1>3. TipoProcesos' /\ TipoConsola' /\ TipoAdmision' /\ TipoSalida' /\ TipoSleepers' /\
        TipoPf' /\ TipoFs'
    BY TipoIgual DEF SigueEnCpu, consolaVars, cpuVars, hilosVars
  <1>4. PunterosExec'
    BY DEF PunterosExec, PunterosValidos, SigueEnCpu, PasosConRecurso, PidNulo, Nada, Esperando,
       cpuVars
  <1>5. ExecOcupada'
    BY DEF TypeOK, PunterosValidos, ExecOcupada, SigueEnCpu, PasosConExec, PidNulo, Nada,
       Esperando, TipoExec, cpuVars
  <1>6. PunterosHilos'
    BY DEF PunterosValidos, PunterosHilos, SigueEnCpu, hilosVars
  <1> QED BY <1>1, <1>2, <1>3, <1>4, <1>5, <1>6 DEF TypeOK, PunterosValidos

\* The system calls.
LEMMA PasoLlamadas ==
  ASSUME TypeOK, PunterosValidos, Llamadas
  PROVE  TypeOK' /\ PunterosValidos'
  <1>1. CASE Kexit
    <2>1. pcbelegido \in Pid
      BY <1>1, PunterosPid DEF Kexit, PasosConExec, PasosConRecurso
    <2>2. TipoProcesos'
      BY <1>1, <2>1, ProcesosTipo DEF TypeOK, TipoProcesos, Kexit, AlExit, Estados,
         Motivos, consolaVars
    <2>3. TipoListas'
      BY <1>1, <2>1, AgregarTipo, ListasTipo DEF TypeOK, TipoListas, Kexit, AlExit, Listas,
         recursoVars, archivoVars
    <2>4. sem' \in [Semaforos -> Nat]
      BY <1>1, <2>1, PostTipo DEF TypeOK, Kexit, AlExit
    <2>5. TipoExec'
      BY <1>1, <2>1, PlanificadorSupuestos DEF TypeOK, TipoExec, Kexit, AlExit, PidNulo,
         PasosExec, Esperando
    <2>6. TipoConsola' /\ TipoAdmision' /\ TipoSalida' /\ TipoSleepers' /\ TipoPf' /\
          TipoFs'
      BY <1>1, TipoIgual DEF Kexit, consolaVars, hilosVars
    <2>7. PunterosExec'
      BY <1>1, <2>1 DEF PunterosExec, PunterosValidos, Kexit, AlExit, PasosConRecurso,
         PidNulo, Nada, Esperando
    <2>8. ExecOcupada'
      BY <1>1, <2>1, TipoIgual DEF PunterosValidos, ExecOcupada, Kexit, AlExit,
         PasosConExec, PidNulo, Nada, Esperando, Listas, Agregar, SinPrimero, Pcb
    <2>9. PunterosHilos'
      BY <1>1 DEF PunterosValidos, PunterosHilos, Kexit, hilosVars
    <2> QED BY <2>2, <2>3, <2>4, <2>5, <2>6, <2>7, <2>8, <2>9 DEF TypeOK, PunterosValidos
  <1>2. CASE KfSeek \/ KfOpenComparte \/ KfCloseFin
    BY <1>2, TipoIgual, SigueTipo DEF KfSeek, KfOpenComparte, KfCloseFin, SigueEnCpu, recursoVars,
       archivoVars, PasosConExec
  <1>3. CASE Ksleep
    <2>1. pcbelegido \in Pid /\ cola["exec"] # <<>>
      BY <1>3, PunterosPid DEF Ksleep, PasosConExec, PasosConRecurso
    <2>2. TipoProcesos'
      BY <1>3, <2>1, ProcesosTipo DEF TypeOK, TipoProcesos, Ksleep, Estados, Motivos,
         consolaVars
    <2>3. TipoListas'
      BY <1>3, <2>1, SinPrimeroTipo, BloqueadoTipo, ListasTipo DEF TypeOK, TipoListas,
         Ksleep, Listas, recursoVars, archivoVars
    <2>4. TipoExec'
      BY <1>3, <2>1, PlanificadorSupuestos DEF TypeOK, TipoExec, Ksleep, PidNulo, PasosExec
    <2>5. TipoSleepers'
      BY <1>3, <2>1 DEF TypeOK, TipoSleepers, Ksleep, PidNulo
    <2>6. sem' \in [Semaforos -> Nat] /\ TipoConsola' /\ TipoAdmision' /\ TipoSalida' /\
          TipoPf' /\ TipoFs'
      BY <1>3, TipoIgual DEF Ksleep, consolaVars
    <2>7. PunterosExec'
      BY <1>3, <2>1 DEF PunterosExec, PunterosValidos, Ksleep, PasosConRecurso, PidNulo,
         Nada
    <2>8. ExecOcupada'
      BY <1>3, <2>1, TipoIgual DEF PunterosValidos, ExecOcupada, Ksleep, PasosConExec,
         PidNulo, Nada, Listas, Agregar, SinPrimero, Pcb
    <2>9. PunterosHilos'
      BY <1>3 DEF PunterosValidos, PunterosHilos, Ksleep
    <2> QED BY <2>2, <2>3, <2>4, <2>5, <2>6, <2>7, <2>8, <2>9 DEF TypeOK, PunterosValidos
  <1>4. CASE KsleepSigue
    <2>1. sem' \in [Semaforos -> Nat]
      BY <1>4, EsperarTipo DEF TypeOK, KsleepSigue, Semaforos
    <2>2. TipoExec'
      BY <1>4, PlanificadorSupuestos DEF TypeOK, TipoExec, KsleepSigue, PidNulo, PasosExec,
         cpuVars
    <2>3. TipoProcesos' /\ TipoListas' /\ TipoConsola' /\ TipoAdmision' /\ TipoSalida' /\
          TipoSleepers' /\ TipoPf' /\ TipoFs'
      BY <1>4, TipoIgual DEF KsleepSigue, consolaVars, recursoVars, archivoVars, cpuVars, hilosVars
    <2>4. PunterosExec'
      BY <1>4 DEF PunterosExec, PunterosValidos, KsleepSigue, PasosConRecurso, PidNulo,
         Nada, cpuVars
    <2>5. ExecOcupada'
      BY <1>4 DEF TypeOK, PunterosValidos, ExecOcupada, KsleepSigue, PasosConExec, PidNulo,
         Nada, TipoExec, cpuVars
    <2>6. PunterosHilos'
      BY <1>4 DEF PunterosValidos, PunterosHilos, KsleepSigue, hilosVars
    <2> QED BY <2>1, <2>2, <2>3, <2>4, <2>5, <2>6 DEF TypeOK, PunterosValidos
  <1>5. CASE KsleepAvisa
    <2>1. sem' \in [Semaforos -> Nat]
      BY <1>5, PostTipo DEF TypeOK, KsleepAvisa
    <2>2. TipoExec'
      BY <1>5, PlanificadorSupuestos DEF TypeOK, TipoExec, KsleepAvisa, PidNulo, PasosExec,
         Esperando, cpuVars
    <2>3. TipoProcesos' /\ TipoListas' /\ TipoConsola' /\ TipoAdmision' /\ TipoSalida' /\
          TipoSleepers' /\ TipoPf' /\ TipoFs'
      BY <1>5, TipoIgual DEF KsleepAvisa, consolaVars, recursoVars, archivoVars, cpuVars, hilosVars
    <2>4. PunterosExec'
      BY <1>5 DEF PunterosExec, PunterosValidos, KsleepAvisa, PasosConRecurso, PidNulo,
         Nada, Esperando, cpuVars
    <2>5. ExecOcupada'
      BY <1>5 DEF TypeOK, PunterosValidos, ExecOcupada, KsleepAvisa, PasosConExec, PidNulo,
         Nada, Esperando, HayReady, TipoExec, cpuVars
    <2>6. PunterosHilos'
      BY <1>5 DEF PunterosValidos, PunterosHilos, KsleepAvisa, hilosVars
    <2> QED BY <2>1, <2>2, <2>3, <2>4, <2>5, <2>6 DEF TypeOK, PunterosValidos
  <1>6. CASE KfPide
    <2>1. pcbelegido \in Pid
      BY <1>6, PunterosPid DEF KfPide, PasosConExec, PasosConRecurso
    <2>2. TipoExec'
      BY <1>6, <2>1, PlanificadorSupuestos DEF TypeOK, TipoExec, KfPide, PidNulo,
         PasosExec, cpuVars
    <2>3. TipoFs'
      BY <1>6, <2>1 DEF TypeOK, TipoFs, KfPide, PidNulo
    <2>4. TipoProcesos' /\ TipoListas' /\ sem' \in [Semaforos -> Nat] /\ TipoConsola' /\
          TipoAdmision' /\ TipoSalida' /\ TipoSleepers' /\ TipoPf'
      BY <1>6, TipoIgual DEF KfPide, consolaVars, recursoVars, archivoVars, cpuVars
    <2>5. PunterosExec'
      BY <1>6, <2>1 DEF PunterosExec, PunterosValidos, KfPide, PasosConRecurso, PidNulo,
         Nada, cpuVars
    <2>6. PunterosHilos'
      BY <1>6, <2>1, PlanificadorSupuestos DEF PunterosHilos, PunterosValidos, KfPide,
         PidNulo, Nada, Pid, TypeOK, TipoFs
    <2>7. ExecOcupada'
      BY <1>6, <2>1 DEF TypeOK, PunterosValidos, ExecOcupada, KfPide, PasosConExec,
         PidNulo, Nada, TipoExec, cpuVars
    <2> QED BY <2>2, <2>3, <2>4, <2>5, <2>6, <2>7 DEF TypeOK, PunterosValidos
  <1>7. CASE KfBloquea
    <2>1. pcbelegido \in Pid /\ cola["exec"] # <<>>
      BY <1>7, PunterosPid DEF KfBloquea, PasosConExec, PasosConRecurso
    <2>2. TipoProcesos'
      BY <1>7, <2>1, ProcesosTipo DEF TypeOK, TipoProcesos, KfBloquea, Estados, Motivos,
         consolaVars
    <2>3. TipoListas'
      BY <1>7, <2>1, SinPrimeroTipo, BloqueadoTipo, ListasTipo DEF TypeOK, TipoListas,
         KfBloquea, Listas, recursoVars, archivoVars
    <2>4. sem' \in [Semaforos -> Nat]
      BY <1>7, <2>1, PostTipo DEF TypeOK, KfBloquea
    <2>5. TipoExec'
      BY <1>7, <2>1, PlanificadorSupuestos DEF TypeOK, TipoExec, KfBloquea, PidNulo,
         PasosExec, Esperando
    <2>6. TipoConsola' /\ TipoAdmision' /\ TipoSalida' /\ TipoSleepers' /\ TipoPf' /\
          TipoFs'
      BY <1>7, TipoIgual DEF KfBloquea, consolaVars, hilosVars
    <2>7. PunterosExec'
      BY <1>7, <2>1 DEF PunterosExec, PunterosValidos, KfBloquea, PasosConRecurso, PidNulo,
         Nada, Esperando
    <2>8. ExecOcupada'
      BY <1>7, <2>1, TipoIgual DEF PunterosValidos, ExecOcupada, KfBloquea, PasosConExec,
         PidNulo, Nada, Esperando, Listas, Agregar, SinPrimero, Pcb
    <2>9. PunterosHilos'
      BY <1>7 DEF PunterosValidos, PunterosHilos, KfBloquea, hilosVars
    <2> QED BY <2>2, <2>3, <2>4, <2>5, <2>6, <2>7, <2>8, <2>9 DEF TypeOK, PunterosValidos
  <1>8. CASE KwaitInexistente
    <2>1. pcbelegido \in Pid /\ cola["exec"] # <<>>
      BY <1>8, PunterosPid DEF KwaitInexistente, PasosConExec, PasosConRecurso
    <2>2. Head(cola["exec"]) \in Pid
      BY <1>8, CabezaTipo, <2>1 DEF KwaitInexistente, TypeOK, TipoListas, Listas
    <2>3. TipoProcesos'
      BY <1>8, <2>1, <2>2, ProcesosTipo DEF TypeOK, TipoProcesos, KwaitInexistente,
         Estados, Motivos, consolaVars
    <2>4. TipoListas'
      BY <1>8, <2>1, <2>2, AgregarTipo, SinPrimeroTipo, ListasTipo DEF TypeOK, TipoListas,
         KwaitInexistente, Listas, recursoVars, archivoVars
    <2>5. sem' \in [Semaforos -> Nat]
      BY <1>8, <2>1, <2>2, PostTipo DEF TypeOK, KwaitInexistente
    <2>6. TipoExec'
      BY <1>8, <2>1, <2>2, PlanificadorSupuestos DEF TypeOK, TipoExec, KwaitInexistente,
         PidNulo, PasosExec, Esperando
    <2>7. TipoConsola' /\ TipoAdmision' /\ TipoSalida' /\ TipoSleepers' /\ TipoPf' /\
          TipoFs'
      BY <1>8, TipoIgual DEF KwaitInexistente, consolaVars, hilosVars
    <2>8. PunterosExec'
      BY <1>8, <2>1, <2>2 DEF PunterosExec, PunterosValidos, KwaitInexistente,
         PasosConRecurso, PidNulo, Nada, Esperando
    <2>9. ExecOcupada'
      BY <1>8, <2>1, <2>2, TipoIgual DEF PunterosValidos, ExecOcupada, KwaitInexistente,
         PasosConExec, PidNulo, Nada, Esperando, Listas, Agregar, SinPrimero, Pcb
    <2>10. PunterosHilos'
      BY <1>8 DEF PunterosValidos, PunterosHilos, KwaitInexistente, hilosVars
    <2> QED BY <2>3, <2>4, <2>5, <2>6, <2>7, <2>8, <2>9, <2>10 DEF TypeOK, PunterosValidos
  <1>9. CASE KwaitMira
    <2>1. cola["exec"] # <<>>
      BY <1>9, PunterosPid DEF KwaitMira, PasosConExec, PasosConRecurso
    <2>2. Pedido \in Recursos /\ Pedido \in 0 .. NRecursos
      BY <1>9, PlanificadorSupuestos DEF KwaitMira, Existe, Recursos
    <2>3. \E q \in {"wait_detenido", "wait_encolar", "wait_leer"} : exec' = [exec EXCEPT
          !.paso = q, !.rec = Pedido]
      BY <1>9 DEF KwaitMira
    <2>4. TipoListas'
      BY <1>9, <2>1, <2>2, <2>3, SinPrimeroTipo, ListasTipo DEF TypeOK, TipoListas,
         KwaitMira, Listas, recursoVars, archivoVars
    <2>5. TipoExec'
      BY <1>9, <2>2, <2>3 DEF TypeOK, TipoExec, KwaitMira, PasosExec, cpuVars
    <2>6. TipoProcesos' /\ sem' \in [Semaforos -> Nat] /\ TipoConsola' /\ TipoAdmision' /\
          TipoSalida' /\ TipoSleepers' /\ TipoPf' /\ TipoFs'
      BY <1>9, TipoIgual DEF KwaitMira, consolaVars, cpuVars, hilosVars
    <2>7. PunterosExec'
      BY <1>9, <2>2, <2>3 DEF TypeOK, TipoExec, PunterosExec, PunterosValidos, KwaitMira,
         PasosConRecurso, cpuVars
    <2>8. ExecOcupada'
      BY <1>9, <2>1, <2>2, <2>3 DEF TypeOK, PunterosValidos, ExecOcupada, KwaitMira,
         PasosConExec, PidNulo, Nada, TipoExec, TipoListas, Listas, Agregar, SinPrimero,
         cpuVars
    <2>9. PunterosHilos'
      BY <1>9 DEF PunterosValidos, PunterosHilos, KwaitMira, hilosVars
    <2> QED BY <2>4, <2>5, <2>6, <2>7, <2>8, <2>9 DEF TypeOK, PunterosValidos
  <1>10. CASE KwaitSigue
    <2>1. sem' \in [Semaforos -> Nat]
      BY <1>10, EsperarTipo DEF TypeOK, KwaitSigue, Semaforos
    <2>2. TipoExec'
      BY <1>10, PlanificadorSupuestos DEF TypeOK, TipoExec, KwaitSigue, PidNulo, PasosExec,
         cpuVars
    <2>3. TipoProcesos' /\ TipoListas' /\ TipoConsola' /\ TipoAdmision' /\ TipoSalida' /\
          TipoSleepers' /\ TipoPf' /\ TipoFs'
      BY <1>10, TipoIgual DEF KwaitSigue, consolaVars, recursoVars, archivoVars, cpuVars, hilosVars
    <2>4. PunterosExec'
      BY <1>10 DEF PunterosExec, PunterosValidos, KwaitSigue, PasosConRecurso, PidNulo,
         Nada, cpuVars
    <2>5. ExecOcupada'
      BY <1>10 DEF TypeOK, PunterosValidos, ExecOcupada, KwaitSigue, PasosConExec, PidNulo,
         Nada, TipoExec, cpuVars
    <2>6. PunterosHilos'
      BY <1>10 DEF PunterosValidos, PunterosHilos, KwaitSigue, hilosVars
    <2> QED BY <2>1, <2>2, <2>3, <2>4, <2>5, <2>6 DEF TypeOK, PunterosValidos
  <1>11. CASE KwaitEncola
    <2>1. pcbelegido \in Pid
      BY <1>11, PunterosPid DEF KwaitEncola, PasosConExec, PasosConRecurso
    <2>2. exec.rec \in Recursos
      BY <1>11, PunterosPid DEF KwaitEncola, PasosConExec, PasosConRecurso
    <2>3. TipoProcesos'
      BY <1>11, <2>1, <2>2, ProcesosTipo DEF TypeOK, TipoProcesos, KwaitEncola, Estados,
         Motivos, consolaVars
    <2>4. TipoListas'
      BY <1>11, <2>1, <2>2, ListasTipo DEF TypeOK, TipoListas, KwaitEncola, archivoVars
    <2>5. TipoExec'
      BY <1>11, <2>1, <2>2, PlanificadorSupuestos DEF TypeOK, TipoExec, KwaitEncola,
         PidNulo, PasosExec, cpuVars
    <2>6. sem' \in [Semaforos -> Nat] /\ TipoConsola' /\ TipoAdmision' /\ TipoSalida' /\
          TipoSleepers' /\ TipoPf' /\ TipoFs'
      BY <1>11, TipoIgual DEF KwaitEncola, consolaVars, cpuVars, hilosVars
    <2>7. PunterosExec'
      BY <1>11, <2>1, <2>2 DEF PunterosExec, PunterosValidos, KwaitEncola, PasosConRecurso,
         PidNulo, Nada, cpuVars
    <2>8. ExecOcupada'
      BY <1>11, <2>1, <2>2 DEF TypeOK, PunterosValidos, ExecOcupada, KwaitEncola,
         PasosConExec, PidNulo, Nada, TipoExec, TipoProcesos, Pcb, cpuVars
    <2>9. PunterosHilos'
      BY <1>11 DEF PunterosValidos, PunterosHilos, KwaitEncola, hilosVars
    <2> QED BY <2>3, <2>4, <2>5, <2>6, <2>7, <2>8, <2>9 DEF TypeOK, PunterosValidos
  <1>12. CASE KwaitBloquea
    <2>1. pcbelegido \in Pid
      BY <1>12, PunterosPid DEF KwaitBloquea, PasosConExec, PasosConRecurso
    <2>2. TipoListas'
      BY <1>12, <2>1, BloqueadoTipo, ListasTipo DEF TypeOK, TipoListas, KwaitBloquea,
         recursoVars, archivoVars
    <2>3. sem' \in [Semaforos -> Nat]
      BY <1>12, <2>1, PostTipo DEF TypeOK, KwaitBloquea
    <2>4. TipoExec'
      BY <1>12, <2>1, PlanificadorSupuestos DEF TypeOK, TipoExec, KwaitBloquea, PidNulo,
         PasosExec, Esperando
    <2>5. TipoProcesos' /\ TipoConsola' /\ TipoAdmision' /\ TipoSalida' /\ TipoSleepers' /\
          TipoPf' /\ TipoFs'
      BY <1>12, TipoIgual DEF KwaitBloquea, consolaVars, hilosVars
    <2>6. PunterosExec'
      BY <1>12, <2>1 DEF PunterosExec, PunterosValidos, KwaitBloquea, PasosConRecurso,
         PidNulo, Nada, Esperando
    <2>7. ExecOcupada'
      BY <1>12, <2>1 DEF TypeOK, PunterosValidos, ExecOcupada, KwaitBloquea, PasosConExec,
         PidNulo, Nada, Esperando, HayReady, TipoExec
    <2>8. PunterosHilos'
      BY <1>12 DEF PunterosValidos, PunterosHilos, KwaitBloquea, hilosVars
    <2> QED BY <2>2, <2>3, <2>4, <2>5, <2>6, <2>7, <2>8 DEF TypeOK, PunterosValidos
  <1>13. CASE KwaitLee
    <2>1. cola["exec"] # <<>>
      BY <1>13, PunterosPid DEF KwaitLee, PasosConExec, PasosConRecurso
    <2>2. exec.rec \in Recursos
      BY <1>13, PunterosPid DEF KwaitLee, PasosConExec, PasosConRecurso
    <2>3. cantidad[exec.rec] \in Nat
      BY <2>2, CantidadTipo DEF TypeOK
    <2>4. TipoExec'
      BY <1>13, <2>1, <2>2, <2>3, PlanificadorSupuestos DEF TypeOK, TipoExec, KwaitLee,
         PidNulo, PasosExec, cpuVars
    <2>5. TipoProcesos' /\ TipoListas' /\ sem' \in [Semaforos -> Nat] /\ TipoConsola' /\
          TipoAdmision' /\ TipoSalida' /\ TipoSleepers' /\ TipoPf' /\ TipoFs'
      BY <1>13, TipoIgual DEF KwaitLee, consolaVars, recursoVars, archivoVars, cpuVars, hilosVars
    <2>6. PunterosExec'
      BY <1>13, <2>1, <2>2, <2>3 DEF PunterosExec, PunterosValidos, KwaitLee,
         PasosConRecurso, PidNulo, Nada, cpuVars
    <2>7. ExecOcupada'
      BY <1>13, <2>1, <2>2, <2>3 DEF TypeOK, PunterosValidos, ExecOcupada, KwaitLee,
         PasosConExec, PidNulo, Nada, TipoExec, cpuVars
    <2>8. PunterosHilos'
      BY <1>13 DEF PunterosValidos, PunterosHilos, KwaitLee, hilosVars
    <2> QED BY <2>4, <2>5, <2>6, <2>7, <2>8 DEF TypeOK, PunterosValidos
  <1>14. CASE KwaitToma
    <2>1. pcbelegido \in Pid
      BY <1>14, PunterosPid DEF KwaitToma, PasosConExec, PasosConRecurso
    <2>2. cola["exec"] # <<>>
      BY <1>14, PunterosPid DEF KwaitToma, PasosConExec, PasosConRecurso
    <2>3. exec.rec \in Recursos
      BY <1>14, PunterosPid DEF KwaitToma, PasosConExec, PasosConRecurso
    <2>4. exec.reg - 1 \in Int
      BY DEF TypeOK, TipoExec
    <2>5. TipoProcesos'
      BY <1>14, <2>1, <2>3, InstanciasTipo DEF TypeOK, TipoProcesos, KwaitToma, consolaVars
    <2>6. TipoListas'
      BY <1>14, <2>3, <2>4, CantidadTipo DEF TypeOK, TipoListas, KwaitToma, archivoVars
    <2>7. sem' \in [Semaforos -> Nat]
      BY <1>14, <2>1, <2>2, <2>3, <2>4, PostTipo DEF TypeOK, KwaitToma
    <2>8. TipoExec'
      BY <1>14, <2>1, <2>2, <2>3, <2>4, PlanificadorSupuestos DEF TypeOK, TipoExec,
         KwaitToma, PidNulo, PasosExec, Esperando, cpuVars
    <2>9. TipoConsola' /\ TipoAdmision' /\ TipoSalida' /\ TipoSleepers' /\ TipoPf' /\
          TipoFs'
      BY <1>14, TipoIgual DEF KwaitToma, consolaVars, cpuVars, hilosVars
    <2>10. PunterosExec'
      BY <1>14, <2>1, <2>2, <2>3, <2>4 DEF PunterosExec, PunterosValidos, KwaitToma,
         PasosConRecurso, PidNulo, Nada, Esperando, cpuVars
    <2>11. ExecOcupada'
      BY <1>14, <2>1, <2>2, <2>3, <2>4 DEF TypeOK, PunterosValidos, ExecOcupada, KwaitToma,
         PasosConExec, PidNulo, Nada, Esperando, TipoExec, TipoProcesos, Pcb, cpuVars
    <2>12. PunterosHilos'
      BY <1>14 DEF PunterosValidos, PunterosHilos, KwaitToma, hilosVars
    <2> QED BY <2>5, <2>6, <2>7, <2>8, <2>9, <2>10, <2>11, <2>12 DEF TypeOK, PunterosValidos
  <1>15. CASE KsignalInexistente
    <2>1. pcbelegido \in Pid
      BY <1>15, PunterosPid DEF KsignalInexistente, PasosConExec, PasosConRecurso
    <2>2. TipoProcesos'
      BY <1>15, <2>1, ProcesosTipo DEF TypeOK, TipoProcesos, KsignalInexistente, AlExit,
         Estados, Motivos, consolaVars
    <2>3. TipoListas'
      BY <1>15, <2>1, AgregarTipo, ListasTipo DEF TypeOK, TipoListas, KsignalInexistente,
         AlExit, Listas, recursoVars, archivoVars
    <2>4. sem' \in [Semaforos -> Nat]
      BY <1>15, <2>1, PostTipo DEF TypeOK, KsignalInexistente, AlExit
    <2>5. TipoExec'
      BY <1>15, <2>1, PlanificadorSupuestos DEF TypeOK, TipoExec, KsignalInexistente,
         AlExit, PidNulo, PasosExec, Esperando
    <2>6. TipoConsola' /\ TipoAdmision' /\ TipoSalida' /\ TipoSleepers' /\ TipoPf' /\
          TipoFs'
      BY <1>15, TipoIgual DEF KsignalInexistente, consolaVars, hilosVars
    <2>7. PunterosExec'
      BY <1>15, <2>1 DEF PunterosExec, PunterosValidos, KsignalInexistente, AlExit,
         PasosConRecurso, PidNulo, Nada, Esperando
    <2>8. ExecOcupada'
      BY <1>15, <2>1, TipoIgual DEF PunterosValidos, ExecOcupada, KsignalInexistente,
         AlExit, PasosConExec, PidNulo, Nada, Esperando, Listas, Agregar, SinPrimero, Pcb
    <2>9. PunterosHilos'
      BY <1>15 DEF PunterosValidos, PunterosHilos, KsignalInexistente, hilosVars
    <2> QED BY <2>2, <2>3, <2>4, <2>5, <2>6, <2>7, <2>8, <2>9 DEF TypeOK, PunterosValidos
  <1>16. CASE KsignalAjeno
    <2>1. pcbelegido \in Pid /\ cola["exec"] # <<>>
      BY <1>16, PunterosPid DEF KsignalAjeno, PasosConExec, PasosConRecurso
    <2>2. TipoProcesos'
      BY <1>16, <2>1, ProcesosTipo, AsignadosTipo, Modulo, CampoTipo DEF TypeOK,
         TipoProcesos, KsignalAjeno, AlExit, Estados, Motivos, consolaVars
    <2>3. TipoListas'
      BY <1>16, <2>1, AgregarTipo, SinPrimeroTipo, ListasTipo DEF TypeOK, TipoListas,
         KsignalAjeno, AlExit, Listas, recursoVars, archivoVars
    <2>4. sem' \in [Semaforos -> Nat]
      BY <1>16 DEF TypeOK, KsignalAjeno, Semaforos, HayReady
    <2>5. TipoExec'
      BY <1>16, <2>1, PlanificadorSupuestos DEF TypeOK, TipoExec, KsignalAjeno, AlExit,
         PidNulo, PasosExec, Esperando
    <2>6. TipoConsola' /\ TipoAdmision' /\ TipoSalida' /\ TipoSleepers' /\ TipoPf' /\
          TipoFs'
      BY <1>16, TipoIgual DEF KsignalAjeno, consolaVars, hilosVars
    <2>7. PunterosExec'
      BY <1>16, <2>1 DEF PunterosExec, PunterosValidos, KsignalAjeno, AlExit,
         PasosConRecurso, PidNulo, Nada, Esperando, Existe
    <2>8. ExecOcupada'
      BY <1>16, <2>1, TipoIgual DEF PunterosValidos, ExecOcupada, KsignalAjeno, AlExit,
         PasosConExec, PidNulo, Nada, Esperando, HayReady, Listas, Agregar, SinPrimero, Pcb
    <2>9. PunterosHilos'
      BY <1>16 DEF PunterosValidos, PunterosHilos, KsignalAjeno, hilosVars
    <2> QED BY <2>2, <2>3, <2>4, <2>5, <2>6, <2>7, <2>8, <2>9 DEF TypeOK, PunterosValidos
  <1>17. CASE KsignalLee
    <2>1. cola["exec"] # <<>>
      BY <1>17, PunterosPid DEF KsignalLee, PasosConExec, PasosConRecurso
    <2>2. Pedido \in Recursos /\ Pedido \in 0 .. NRecursos
      BY <1>17, PlanificadorSupuestos DEF KsignalLee, Existe, Recursos
    <2>3. cantidad[Pedido] \in Nat
      BY <2>2, CantidadTipo DEF TypeOK
    <2>4. TipoExec'
      BY <1>17, <2>2, <2>3 DEF TypeOK, TipoExec, KsignalLee, PasosExec, cpuVars
    <2>5. TipoProcesos' /\ TipoListas' /\ sem' \in [Semaforos -> Nat] /\ TipoConsola' /\
          TipoAdmision' /\ TipoSalida' /\ TipoSleepers' /\ TipoPf' /\ TipoFs'
      BY <1>17, TipoIgual DEF KsignalLee, consolaVars, recursoVars, archivoVars, cpuVars, hilosVars
    <2>6. PunterosExec'
      BY <1>17, <2>2 DEF TypeOK, TipoExec, PunterosExec, PunterosValidos, KsignalLee,
         PasosConRecurso, cpuVars
    <2>7. ExecOcupada'
      BY <1>17, <2>1, <2>2, <2>3 DEF TypeOK, PunterosValidos, ExecOcupada, KsignalLee,
         PasosConExec, PidNulo, Nada, TipoExec, cpuVars
    <2>8. PunterosHilos'
      BY <1>17 DEF PunterosValidos, PunterosHilos, KsignalLee, hilosVars
    <2> QED BY <2>4, <2>5, <2>6, <2>7, <2>8 DEF TypeOK, PunterosValidos
  <1>18. CASE KsignalDevuelve
    <2>1. pcbelegido \in Pid
      BY <1>18, PunterosPid DEF KsignalDevuelve, PasosConExec, PasosConRecurso
    <2>2. cola["exec"] # <<>>
      BY <1>18, PunterosPid DEF KsignalDevuelve, PasosConExec, PasosConRecurso
    <2>3. exec.rec \in Recursos
      BY <1>18, PunterosPid DEF KsignalDevuelve, PasosConExec, PasosConRecurso
    <2>4. exec.reg + 1 \in Int
      BY DEF TypeOK, TipoExec
    <2>5. TipoProcesos'
      BY <1>18, <2>1, <2>3, InstanciasTipo DEF TypeOK, TipoProcesos, KsignalDevuelve,
         consolaVars
    <2>6. TipoListas'
      BY <1>18, <2>3, <2>4, CantidadTipo DEF TypeOK, TipoListas, KsignalDevuelve, archivoVars
    <2>7. TipoExec'
      BY <1>18, <2>1, <2>2, <2>3, <2>4, PlanificadorSupuestos DEF TypeOK, TipoExec,
         KsignalDevuelve, PidNulo, PasosExec, cpuVars
    <2>8. sem' \in [Semaforos -> Nat] /\ TipoConsola' /\ TipoAdmision' /\ TipoSalida' /\
          TipoSleepers' /\ TipoPf' /\ TipoFs'
      BY <1>18, TipoIgual DEF KsignalDevuelve, consolaVars, cpuVars, hilosVars
    <2>9. PunterosExec'
      BY <1>18, <2>1, <2>2, <2>3, <2>4 DEF PunterosExec, PunterosValidos, KsignalDevuelve,
         PasosConRecurso, PidNulo, Nada, cpuVars
    <2>10. ExecOcupada'
      BY <1>18, <2>1, <2>2, <2>3, <2>4 DEF TypeOK, PunterosValidos, ExecOcupada,
         KsignalDevuelve, PasosConExec, PidNulo, Nada, TipoExec, TipoProcesos, Pcb, cpuVars
    <2>11. PunterosHilos'
      BY <1>18 DEF PunterosValidos, PunterosHilos, KsignalDevuelve, hilosVars
    <2> QED BY <2>5, <2>6, <2>7, <2>8, <2>9, <2>10, <2>11 DEF TypeOK, PunterosValidos
  <1>19. CASE KsignalMira
    <2>1. cola["exec"] # <<>>
      BY <1>19, PunterosPid DEF KsignalMira, PasosConExec, PasosConRecurso
    <2>2. exec.rec \in Recursos
      BY <1>19, PunterosPid DEF KsignalMira, PasosConExec, PasosConRecurso
    <2>3. exec' = Esperando \/ exec' = [exec EXCEPT !.paso = "signal_pop"]
      BY <1>19 DEF KsignalMira
    <2>4. sem' \in [Semaforos -> Nat]
      BY <1>19, <2>1, <2>2, <2>3, PostTipo DEF TypeOK, KsignalMira
    <2>5. TipoExec'
      <3>1. Esperando \in [paso : PasosExec, rec : 0 .. NRecursos, reg : Nat, hijo :
            PidNulo]
        BY PlanificadorSupuestos DEF Esperando, PasosExec, PidNulo
      <3> QED BY <1>19, <2>3, <3>1 DEF TypeOK, TipoExec, KsignalMira, PasosExec, cpuVars
    <2>6. TipoProcesos' /\ TipoListas' /\ TipoConsola' /\ TipoAdmision' /\ TipoSalida' /\
          TipoSleepers' /\ TipoPf' /\ TipoFs'
      BY <1>19, TipoIgual DEF KsignalMira, consolaVars, recursoVars, archivoVars, cpuVars, hilosVars
    <2>7. PunterosExec'
      BY <1>19, <2>2, <2>3 DEF TypeOK, TipoExec, PunterosExec, PunterosValidos,
         KsignalMira, PasosConRecurso, Esperando, cpuVars
    <2>8. ExecOcupada'
      BY <1>19, <2>1, <2>2, <2>3 DEF TypeOK, PunterosValidos, ExecOcupada, KsignalMira,
         PasosConExec, PidNulo, Nada, Esperando, TipoExec, cpuVars
    <2>9. PunterosHilos'
      BY <1>19 DEF PunterosValidos, PunterosHilos, KsignalMira, hilosVars
    <2> QED BY <2>4, <2>5, <2>6, <2>7, <2>8, <2>9 DEF TypeOK, PunterosValidos
  <1>20. CASE KsignalPop
    <2>1. exec.rec \in Recursos /\ cola["exec"] # <<>>
      BY <1>20, PunterosPid DEF KsignalPop, PasosConRecurso, PasosConExec
    <2>2. sem' \in [Semaforos -> Nat] /\ TipoAdmision' /\ TipoSalida' /\ TipoSleepers' /\
          TipoPf' /\ TipoFs'
          /\ PunterosHilos'
      BY <1>20, TipoIgual DEF PunterosValidos, PunterosHilos, KsignalPop, hilosVars
    <2>3. CASE colabloqueado[exec.rec] # <<>>
      <3> DEFINE p == Head(colabloqueado[exec.rec])
      <3>1. p \in Pid /\ Tail(colabloqueado[exec.rec]) \in Seq(Pid)
        BY <2>1, <2>3, CabezaTipo, ListasTipo DEF TypeOK
      <3>2. /\ colabloqueado' = [colabloqueado EXCEPT ![exec.rec] = Tail(@)]
            /\ pcb' = [pcb EXCEPT ![p].asignados[exec.rec] = (@ + 1) % ModUint]
            /\ cola_block' = SinBloqueado(p)
            /\ exec' = [exec EXCEPT !.paso = "signal_listo", !.hijo = p]
            /\ caido' = caido
        BY <1>20, <2>3 DEF KsignalPop
      <3> HIDE DEF p
      <3>3. TipoProcesos'
        BY <1>20, <2>1, <3>1, <3>2, InstanciasTipo
           DEF TypeOK, TipoProcesos, KsignalPop, consolaVars
      <3>4. TipoListas'
        BY <1>20, <2>1, <3>1, <3>2, BloqueadoTipo DEF TypeOK, TipoListas, KsignalPop, archivoVars
      <3>5. TipoExec'
        BY <1>20, <3>1, <3>2 DEF TypeOK, TipoExec, PidNulo, PasosExec, KsignalPop, cpuVars
      <3>6. TipoConsola'
        BY <1>20, <3>2 DEF TypeOK, TipoConsola, KsignalPop, consolaVars, cpuVars
      <3>7. p # Nada /\ pcbelegido # Nada
        <4>1. exec.paso = "signal_pop"
          BY <1>20 DEF KsignalPop
        <4>2. pcbelegido \in Pid
          BY <4>1, PunterosPid
        <4> QED BY <3>1, <4>2, PidNoNulo
      <3>8. PunterosExec'
        BY <1>20, <2>1, <3>2, <3>7 DEF TypeOK, TipoExec, PunterosExec, KsignalPop, cpuVars
      <3>9. \A q \in Pid : pcb'[q].motivo = pcb[q].motivo
        BY <3>1, <3>2, InstanciasMotivo DEF TypeOK, TipoProcesos
      <3>10. ExecOcupada'
        BY <1>20, <2>1, <3>2, <3>9
           DEF ExecOcupada, PunterosValidos, KsignalPop, TypeOK, TipoExec, PidNulo, cpuVars
      <3> QED BY <2>2, <3>3, <3>4, <3>5, <3>6, <3>8, <3>10 DEF TypeOK, PunterosValidos
    <2>4. CASE colabloqueado[exec.rec] = <<>>
      <3>1. caido' = "pcb_nulo" /\ UNCHANGED <<colabloqueado, pcb, cola_block, exec>>
        BY <1>20, <2>4 DEF KsignalPop
      <3>2. TipoProcesos' /\ TipoListas' /\ TipoExec'
        BY <1>20, <3>1, TipoIgual DEF KsignalPop, consolaVars, cpuVars, archivoVars
      <3>4. TipoConsola'
        BY <1>20, <3>1 DEF TypeOK, TipoConsola, KsignalPop, consolaVars, cpuVars
      <3>3. PunterosExec' /\ ExecOcupada'
        BY <1>20, <3>1 DEF PunterosValidos, PunterosExec, ExecOcupada, KsignalPop, cpuVars
      <3> QED BY <2>2, <3>2, <3>3, <3>4 DEF TypeOK, PunterosValidos
    <2> QED BY <2>3, <2>4
  <1>21. CASE KsignalListo
    <2>1. exec.hijo \in Pid
      BY <1>21, PunterosPid DEF KsignalListo, PasosConExec, PasosConRecurso, PasosConRec
    <2>2. \A q \in Pid : pcb'[q].motivo = pcb[q].motivo
      BY <1>21, <2>1, ListoMotivo DEF KsignalListo, TypeOK, TipoProcesos
    <2>3. cola'["exec"] = cola["exec"] /\ cola["exec"] # <<>>
      BY <1>21, <2>1, AgregarOtra, PunterosPid DEF KsignalListo, TypeOK, TipoListas,
         Listas, PasosConExec
    <2>4. TipoProcesos'
      BY <1>21, <2>1, <2>2, <2>3, ListoTipo DEF TypeOK, TipoProcesos, KsignalListo,
         TipoConsola, consolaVars
    <2>5. TipoListas'
      BY <1>21, <2>1, <2>2, <2>3, AgregarTipo, ListasTipo DEF TypeOK, TipoListas,
         KsignalListo, Listas, recursoVars, archivoVars
    <2>6. sem' \in [Semaforos -> Nat]
      BY <1>21, <2>1, <2>2, <2>3, PostTipo DEF TypeOK, KsignalListo
    <2>7. TipoExec'
      BY <1>21, <2>1, <2>2, <2>3, PlanificadorSupuestos DEF TypeOK, TipoExec, KsignalListo,
         PidNulo, PasosExec, Esperando, cpuVars
    <2>8. TipoConsola' /\ TipoAdmision' /\ TipoSalida' /\ TipoSleepers' /\ TipoPf' /\
          TipoFs'
      BY <1>21, TipoIgual DEF KsignalListo, consolaVars, cpuVars, hilosVars
    <2>9. PunterosExec'
      BY <1>21, <2>1, <2>2, <2>3, PlanificadorSupuestos DEF PunterosExec, PunterosValidos,
         KsignalListo, PasosConRecurso, PidNulo, Nada, Esperando, Pid, cpuVars
    <2>10. ExecOcupada'
      BY <1>21, <2>2, <2>3 DEF TypeOK, TipoExec, PidNulo, ExecOcupada, PunterosValidos,
         KsignalListo, cpuVars
    <2>11. PunterosHilos'
      BY <1>21 DEF PunterosValidos, PunterosHilos, KsignalListo, hilosVars
    <2> QED BY <2>4, <2>5, <2>6, <2>7, <2>8, <2>9, <2>10, <2>11 DEF TypeOK, PunterosValidos
  <1>22. CASE KfOpenPide
    <2>1. sem' \in [Semaforos -> Nat]
      BY <1>22, PostTipo DEF TypeOK, KfOpenPide
    <2>2. TipoExec'
      BY <1>22, PlanificadorSupuestos DEF TypeOK, TipoExec, KfOpenPide, PidNulo, PasosExec,
         cpuVars
    <2>3. TipoProcesos' /\ TipoListas' /\ TipoConsola' /\ TipoAdmision' /\ TipoSalida' /\
          TipoSleepers' /\ TipoPf' /\ TipoFs'
      BY <1>22, TipoIgual DEF KfOpenPide, consolaVars, recursoVars, archivoVars, cpuVars, hilosVars
    <2>4. PunterosExec'
      BY <1>22 DEF PunterosExec, PunterosValidos, KfOpenPide, PasosConRecurso, PidNulo,
         Nada, cpuVars
    <2>5. ExecOcupada'
      BY <1>22 DEF TypeOK, PunterosValidos, ExecOcupada, KfOpenPide, PasosConExec, PidNulo,
         Nada, TipoExec, cpuVars
    <2>6. PunterosHilos'
      BY <1>22 DEF PunterosValidos, PunterosHilos, KfOpenPide, hilosVars
    <2> QED BY <2>1, <2>2, <2>3, <2>4, <2>5, <2>6 DEF TypeOK, PunterosValidos
  <1>23. CASE KfOpenCrea
    <2>1. sem' \in [Semaforos -> Nat]
      <3>1. sem \in [Semaforos -> Nat] /\ "reanudar" \in Semaforos /\ sem["reanudar"] > 0
        BY <1>23 DEF TypeOK, KfOpenCrea, Semaforos
      <3>2. /\ Post({"ready", "exec"}) \in [Semaforos -> Nat]
            /\ Post({"ready", "exec"})["reanudar"] = sem["reanudar"]
        BY <3>1, PostTipo DEF Post
      <3> QED BY <1>23, <3>1, <3>2 DEF KfOpenCrea
    <2>2. TipoExec'
      BY <1>23, PlanificadorSupuestos DEF TypeOK, TipoExec, KfOpenCrea, PidNulo, PasosExec,
         Esperando, cpuVars
    <2>3. TipoProcesos' /\ TipoListas' /\ TipoConsola' /\ TipoAdmision' /\ TipoSalida' /\
          TipoSleepers' /\ TipoPf' /\ TipoFs'
      BY <1>23, TipoIgual DEF KfOpenCrea, consolaVars, recursoVars, archivoVars, cpuVars, hilosVars
    <2>4. PunterosExec'
      BY <1>23 DEF PunterosExec, PunterosValidos, KfOpenCrea, PasosConRecurso, PidNulo,
         Nada, Esperando, cpuVars
    <2>5. ExecOcupada'
      BY <1>23 DEF TypeOK, PunterosValidos, ExecOcupada, KfOpenCrea, PasosConExec, PidNulo,
         Nada, Esperando, TipoExec, cpuVars
    <2>6. PunterosHilos'
      BY <1>23 DEF PunterosValidos, PunterosHilos, KfOpenCrea, hilosVars
    <2> QED BY <2>1, <2>2, <2>3, <2>4, <2>5, <2>6 DEF TypeOK, PunterosValidos
  <1>24. CASE KfOpenEspera
    <2>1. pcbelegido \in Pid /\ cola["exec"] # <<>>
      BY <1>24, PunterosPid DEF KfOpenEspera, PasosConExec, PasosConRecurso
    <2>2. TipoProcesos'
      BY <1>24, <2>1, ProcesosTipo DEF TypeOK, TipoProcesos, KfOpenEspera, Estados, Motivos,
         consolaVars
    <2>3. TipoListas'
      BY <1>24, <2>1, SinPrimeroTipo, BloqueadoTipo, ListasTipo DEF TypeOK, TipoListas,
         KfOpenEspera, Listas
    <2>4. sem' \in [Semaforos -> Nat]
      BY <1>24, <2>1, PostTipo DEF TypeOK, KfOpenEspera
    <2>5. TipoExec'
      BY <1>24, <2>1, PlanificadorSupuestos DEF TypeOK, TipoExec, KfOpenEspera, PidNulo,
         PasosExec, Esperando
    <2>6. TipoConsola' /\ TipoAdmision' /\ TipoSalida' /\ TipoSleepers' /\ TipoPf' /\
          TipoFs'
      BY <1>24, TipoIgual DEF KfOpenEspera, consolaVars, hilosVars
    <2>7. PunterosExec'
      BY <1>24, <2>1 DEF PunterosExec, PunterosValidos, KfOpenEspera, PasosConRecurso, PidNulo,
         Nada, Esperando
    <2>8. ExecOcupada'
      BY <1>24, <2>1, TipoIgual DEF PunterosValidos, ExecOcupada, KfOpenEspera, PasosConExec,
         PidNulo, Nada, Esperando, Listas, Agregar, SinPrimero, Pcb
    <2>9. PunterosHilos'
      BY <1>24 DEF PunterosValidos, PunterosHilos, KfOpenEspera, hilosVars
    <2> QED BY <2>2, <2>3, <2>4, <2>5, <2>6, <2>7, <2>8, <2>9 DEF TypeOK, PunterosValidos
  <1>25. CASE KfCloseAbre
    <2>1. PICK p \in espera_archivo : /\ espera_archivo' = espera_archivo \ {p}
                                     /\ pcb' = Listo(pcb, p)
                                     /\ cola' = Agregar(cola, "ready", p)
      BY <1>25 DEF KfCloseAbre
    <2>2. /\ p \in Pid /\ pcb \in [Pid -> Pcb] /\ reloj \in Nat /\ cola \in [Listas -> Seq(Pid)]
          /\ {"ready", "exec"} \subseteq Listas
      BY <2>1 DEF TypeOK, TipoListas, TipoProcesos, TipoConsola, Listas
    <2>3. \A q \in Pid : pcb'[q].motivo = pcb[q].motivo
      BY <2>1, <2>2, ListoMotivo
    <2>4. cola'["exec"] = cola["exec"] /\ cola["exec"] # <<>>
      BY <1>25, <2>1, <2>2, AgregarOtra, PunterosPid DEF KfCloseAbre, PasosConExec
    <2>5. TipoProcesos'
      BY <1>25, <2>1, <2>2, ListoTipo DEF TypeOK, TipoProcesos, KfCloseAbre, consolaVars
    <2>6. TipoListas'
      BY <1>25, <2>1, <2>2, AgregarTipo DEF TypeOK, TipoListas, KfCloseAbre
    <2>7. TipoExec'
      BY <1>25, PlanificadorSupuestos DEF TypeOK, TipoExec, KfCloseAbre, PidNulo, PasosExec,
         cpuVars
    <2>8. sem' \in [Semaforos -> Nat] /\ TipoConsola' /\ TipoAdmision' /\ TipoSalida' /\
          TipoSleepers' /\ TipoPf' /\ TipoFs'
      BY <1>25, TipoIgual DEF KfCloseAbre, consolaVars, cpuVars, hilosVars
    <2>9. PunterosExec'
      BY <1>25 DEF PunterosExec, PunterosValidos, KfCloseAbre, PasosConRecurso, PidNulo, Nada,
         cpuVars
    <2>10. ExecOcupada'
      BY <1>25, <2>3, <2>4 DEF TypeOK, TipoExec, PidNulo, ExecOcupada, PunterosValidos,
         KfCloseAbre, PasosConExec, cpuVars
    <2>11. PunterosHilos'
      BY <1>25 DEF PunterosValidos, PunterosHilos, KfCloseAbre, hilosVars
    <2> QED BY <2>5, <2>6, <2>7, <2>8, <2>9, <2>10, <2>11 DEF TypeOK, PunterosValidos
  <1>26. CASE KfCloseDeVarios
    <2>1. TipoListas'
      BY <1>26 DEF TypeOK, TipoListas, KfCloseDeVarios, SigueEnCpu, Pierde
    <2> QED BY <1>26, <2>1, SigueTipo DEF KfCloseDeVarios, PasosConExec
  <1>27. CASE KfWriteLector
    <2>1. pcbelegido \in Pid /\ cola["exec"] # <<>>
      BY <1>27, PunterosPid DEF KfWriteLector, PasosConExec, PasosConRecurso
    <2>2. TipoProcesos'
      BY <1>27, <2>1, ProcesosTipo DEF TypeOK, TipoProcesos, KfWriteLector, AlExit, Estados,
         Motivos, consolaVars
    <2>3. TipoListas'
      BY <1>27, <2>1, SinPrimeroTipo, AgregarTipo, ListasTipo DEF TypeOK, TipoListas,
         KfWriteLector, AlExit, Listas, recursoVars, archivoVars
    <2>4. sem' \in [Semaforos -> Nat]
      BY <1>27, <2>1, PostTipo DEF TypeOK, KfWriteLector
    <2>5. TipoExec'
      BY <1>27, <2>1, PlanificadorSupuestos DEF TypeOK, TipoExec, KfWriteLector, AlExit, PidNulo,
         PasosExec, Esperando
    <2>6. TipoConsola' /\ TipoAdmision' /\ TipoSalida' /\ TipoSleepers' /\ TipoPf' /\
          TipoFs'
      BY <1>27, TipoIgual DEF KfWriteLector, AlExit, consolaVars, hilosVars
    <2>7. PunterosExec'
      BY <1>27, <2>1 DEF PunterosExec, PunterosValidos, KfWriteLector, AlExit, PasosConRecurso,
         PidNulo, Nada, Esperando
    <2>8. ExecOcupada'
      BY <1>27, <2>1 DEF PunterosValidos, ExecOcupada, KfWriteLector, AlExit, PasosConExec,
         PidNulo, Nada, Esperando
    <2>9. PunterosHilos'
      BY <1>27 DEF PunterosValidos, PunterosHilos, KfWriteLector, hilosVars
    <2> QED BY <2>2, <2>3, <2>4, <2>5, <2>6, <2>7, <2>8, <2>9 DEF TypeOK, PunterosValidos
  <1> QED BY <1>1, <1>2, <1>3, <1>4, <1>5, <1>6, <1>7, <1>8, <1>9, <1>10, <1>11, <1>12,
        <1>13, <1>14, <1>15, <1>16, <1>17, <1>18, <1>19, <1>20, <1>21, <1>22, <1>23, <1>24,
        <1>25, <1>26, <1>27 DEF Llamadas

\* liberar_recursos.
LEMMA PasoLiberacion ==
  ASSUME TypeOK, PunterosValidos, Liberacion
  PROVE  TypeOK' /\ PunterosValidos'
  <1>1. CASE LiberarLee
    <2>1. salida.pcb \in Pid
      BY <1>1, PunterosPid DEF LiberarLee
    <2>2. salida' = [salida EXCEPT !.paso = "destruir"]
          \/ \E r \in Recursos : salida' = [salida EXCEPT !.paso = "sumar", !.rec = r,
                                                         !.reg = cantidad[r]]
      BY <1>1 DEF LiberarLee, SalidaEn
    <2>3. \A r \in Recursos : r \in Nat /\ cantidad[r] \in Nat
      BY PlanificadorSupuestos DEF TypeOK, TipoListas, Recursos
    <2>4. TipoSalida'
      BY <2>2, <2>3 DEF TypeOK, TipoSalida, PasosSalida
    <2>5. TipoProcesos' /\ TipoListas' /\ sem' \in [Semaforos -> Nat] /\ TipoConsola' /\
          TipoExec' /\ TipoAdmision' /\ TipoSleepers' /\ TipoPf' /\ TipoFs'
      BY <1>1, TipoIgual DEF LiberarLee, consolaVars, recursoVars, archivoVars, cpuVars, hilosVars
    <2>6. PunterosHilos'
      BY <1>1, <2>1, <2>2, PlanificadorSupuestos DEF TypeOK, TipoSalida, PunterosHilos,
         PunterosValidos, LiberarLee, PasosConRec, Pid, Nada, hilosVars
    <2>7. PunterosExec' /\ ExecOcupada'
      BY <1>1 DEF PunterosValidos, PunterosExec, ExecOcupada, LiberarLee, cpuVars
    <2> QED BY <2>4, <2>5, <2>6, <2>7 DEF TypeOK, PunterosValidos
  <1>2. CASE LiberarSuma
    <2>1. Rec \in Recursos
      BY <1>2, PunterosPid DEF LiberarSuma, Rec, PasosConRec
    <2>2. salida.pcb \in Pid
      BY <1>2, PunterosPid DEF LiberarSuma
    <2>3. pcb[salida.pcb].asignados[Rec] \in Nat
      BY <2>1, <2>2, InstanciasTipo DEF TypeOK, TipoProcesos
    <2>4. salida.reg \in Nat
      BY DEF TypeOK, TipoSalida
    <2>5. salida.reg + pcb[salida.pcb].asignados[Rec] \in Int
      BY <2>3, <2>4
    <2>6. TipoProcesos'
      BY <1>2, <2>1, <2>2, InstanciasTipo DEF TypeOK, TipoProcesos, LiberarSuma, consolaVars
    <2>7. TipoListas'
      BY <1>2, <2>1, <2>5, CantidadTipo DEF TypeOK, TipoListas, LiberarSuma, archivoVars
    <2>8. TipoSalida'
      BY <1>2, <2>1, <2>2, <2>3, <2>4, <2>5 DEF TypeOK, TipoSalida, LiberarSuma, PidNulo,
         PasosSalida, SalidaEn
    <2>9. sem' \in [Semaforos -> Nat] /\ TipoConsola' /\ TipoExec' /\ TipoAdmision' /\
          TipoSleepers' /\ TipoPf' /\ TipoFs'
      BY <1>2, TipoIgual DEF LiberarSuma, consolaVars, cpuVars, hilosVars
    <2>10. PunterosHilos'
      BY <1>2, <2>1, <2>2, <2>3, <2>4, <2>5, PlanificadorSupuestos DEF PunterosHilos,
         PunterosValidos, LiberarSuma, PidNulo, Nada, Pid, TypeOK, TipoAdmision,
         TipoSalida, PasosConRec, SalidaEn, Rec, hilosVars
    <2>11. ExecOcupada'
      BY <1>2, <2>1, <2>2, ExecIgual, InstanciasMotivo DEF TypeOK, TipoProcesos,
         PunterosValidos, LiberarSuma, cpuVars
    <2>12. PunterosExec'
      BY <1>2 DEF PunterosValidos, PunterosExec, LiberarSuma, cpuVars
    <2> QED BY <2>6, <2>7, <2>8, <2>9, <2>10, <2>11, <2>12 DEF TypeOK, PunterosValidos
  <1>3. CASE LiberarMira
    <2>1. Rec \in Recursos
      BY <1>3, PunterosPid DEF LiberarMira, Rec, PasosConRec
    <2>2. TipoSalida'
      BY <1>3, <2>1 DEF TypeOK, TipoSalida, LiberarMira, PidNulo, PasosSalida, SalidaEn
    <2>3. TipoProcesos' /\ TipoListas' /\ sem' \in [Semaforos -> Nat] /\ TipoConsola' /\
          TipoExec' /\ TipoAdmision' /\ TipoSleepers' /\ TipoPf' /\ TipoFs'
      BY <1>3, TipoIgual DEF LiberarMira, consolaVars, recursoVars, archivoVars, cpuVars, hilosVars
    <2>4. PunterosHilos'
      BY <1>3, <2>1, PlanificadorSupuestos DEF PunterosHilos, PunterosValidos, LiberarMira,
         PidNulo, Nada, Pid, TypeOK, TipoAdmision, TipoSalida, PasosConRec, SalidaEn, Rec,
         hilosVars
    <2>5. PunterosExec' /\ ExecOcupada'
      BY <1>3 DEF PunterosValidos, PunterosExec, ExecOcupada, LiberarMira, cpuVars
    <2> QED BY <2>2, <2>3, <2>4, <2>5 DEF TypeOK, PunterosValidos
  <1>4. CASE LiberarVacia
    <2>1. Rec \in Recursos
      BY <1>4, PunterosPid DEF LiberarVacia, Rec, PasosConRec
    <2>2. colabloqueado[Rec] \in Seq(Pid) /\ salida.aux \in Seq(Pid)
      BY <2>1, ListasTipo DEF TypeOK, TipoSalida
    <2>3. salida' = salida
          \/ \E a \in Seq(Pid) : salida' = [salida EXCEPT !.paso = "vaciar", !.aux = a]
      BY <1>4, <2>2, CabezaTipo, AppendProperties DEF LiberarVacia
    <2>4. TipoListas'
      BY <1>4, <2>1, <2>2, <2>3, CabezaTipo, ListasTipo DEF TypeOK, TipoListas, LiberarVacia, archivoVars
    <2>5. TipoConsola'
      BY <1>4, <2>1, <2>2, <2>3 DEF TypeOK, TipoConsola, LiberarVacia, consolaVars, cpuVars
    <2>6. TipoSalida'
      BY <2>3 DEF TypeOK, TipoSalida, PasosSalida
    <2>7. TipoProcesos' /\ sem' \in [Semaforos -> Nat] /\ TipoExec' /\ TipoAdmision' /\
          TipoSleepers' /\ TipoPf' /\ TipoFs'
      BY <1>4, TipoIgual DEF LiberarVacia, consolaVars, cpuVars, hilosVars
    <2>8. PunterosHilos'
      BY <1>4, <2>1, <2>3, PlanificadorSupuestos DEF TypeOK, TipoSalida, PunterosHilos,
         PunterosValidos, LiberarVacia, PasosConRec, Rec, hilosVars
    <2>9. PunterosExec' /\ ExecOcupada'
      BY <1>4 DEF PunterosValidos, PunterosExec, ExecOcupada, LiberarVacia, cpuVars
    <2> QED BY <2>4, <2>5, <2>6, <2>7, <2>8, <2>9 DEF TypeOK, PunterosValidos
  <1>5. CASE LiberarRellena
    <2>1. Rec \in Recursos /\ colabloqueado[Rec] \in Seq(Pid) /\ salida.aux \in Seq(Pid)
      BY <1>5, PunterosPid, ListasTipo DEF LiberarRellena, PasosConRec, Rec, TypeOK,
         TipoSalida
    <2>2. UNCHANGED <<pcb, consolaVars, cola, cola_block, cantidad, archivoVars, sem, cpuVars, exec,
                      admision, hilosVars, caido>>
      BY <1>5 DEF LiberarRellena
    <2>3. ASSUME salida.aux # <<>>
          PROVE  TipoListas' /\ TipoSalida' /\ PunterosHilos'
      <3>1. /\ colabloqueado' = [colabloqueado EXCEPT ![Rec] = Append(@, Head(salida.aux))]
            /\ salida' = [salida EXCEPT !.aux = Tail(@)]
        BY <1>5, <2>3 DEF LiberarRellena
      <3>2. Head(salida.aux) \in Pid /\ Tail(salida.aux) \in Seq(Pid)
        BY <2>1, <2>3, CabezaTipo
      <3>3. Append(colabloqueado[Rec], Head(salida.aux)) \in Seq(Pid)
        BY <2>1, <3>2, AppendProperties
      <3>4. TipoListas'
        BY <2>1, <2>2, <3>1, <3>3 DEF TypeOK, TipoListas, archivoVars
      <3>5. TipoSalida'
        BY <3>1, <3>2 DEF TypeOK, TipoSalida
      <3>6. PunterosHilos'
        BY <1>5, <2>2, <3>1 DEF LiberarRellena, PunterosHilos, PunterosValidos, TypeOK,
           TipoSalida,
           hilosVars
      <3> QED BY <3>4, <3>5, <3>6
    <2>4. ASSUME salida.aux = <<>>
          PROVE  TipoListas' /\ TipoSalida' /\ PunterosHilos'
      <3>1. /\ colabloqueado' = colabloqueado
            /\ \/ salida' = [salida EXCEPT !.paso = "desbloquear"]
               \/ salida' = [salida EXCEPT !.paso = "recurso", !.rec = @ + 1]
        BY <1>5, <2>4 DEF LiberarRellena
      <3>2. TipoListas'
        BY <2>2, <3>1 DEF TypeOK, TipoListas, archivoVars
      <3>3. TipoSalida'
        <4>1. salida.rec + 1 \in Nat
          BY DEF TypeOK, TipoSalida
        <4> QED BY <3>1, <4>1 DEF TypeOK, TipoSalida, PasosSalida
      <3>4. PunterosHilos'
        BY <1>5, <2>2, <3>1 DEF LiberarRellena, PunterosHilos, PunterosValidos, TypeOK,
           TipoSalida,
           PasosConRec, hilosVars
      <3> QED BY <3>2, <3>3, <3>4
    <2>5. TipoListas' /\ TipoSalida' /\ PunterosHilos'
      BY <2>3, <2>4
    <2>6. TypeOK'
      BY <2>2, <2>5, TipoIgual DEF TypeOK, consolaVars, cpuVars, hilosVars
    <2> QED BY <2>2, <2>5, <2>6 DEF PunterosValidos, PunterosExec, ExecOcupada, cpuVars
  <1>6. CASE LiberarDesbloquea
    <2>1. Rec \in Recursos /\ salida.pcb \in Pid
      BY <1>6, PunterosPid DEF LiberarDesbloquea, PasosConRec, Rec
    <2>2. UNCHANGED <<cola, consolaVars, cantidad, archivoVars, sem, cpuVars, exec, admision, hilosVars>>
      BY <1>6 DEF LiberarDesbloquea
    <2>3. ASSUME colabloqueado[Rec] # <<>>
          PROVE  /\ TipoProcesos' /\ TipoListas' /\ TipoSalida' /\ TipoConsola'
                 /\ PunterosHilos' /\ ExecOcupada'
      <3> DEFINE p == Head(colabloqueado[Rec])
      <3>1. p \in Pid /\ Tail(colabloqueado[Rec]) \in Seq(Pid) /\ cantidad[Rec] \in Nat
        BY <2>1, <2>3, CabezaTipo, ListasTipo, CantidadTipo DEF TypeOK
      <3>2. /\ colabloqueado' = [colabloqueado EXCEPT ![Rec] = Tail(@)]
            /\ cola_block' = SinBloqueado(p)
            /\ pcb' = [pcb EXCEPT ![p].asignados[Rec] = (@ + 1) % ModUint]
            /\ salida' = [salida EXCEPT !.paso = "restar", !.hijo = p, !.reg = cantidad[Rec]]
            /\ caido' = caido
        BY <1>6, <2>3 DEF LiberarDesbloquea
      <3> HIDE DEF p
      <3>3. TipoProcesos'
        BY <2>1, <2>2, <3>1, <3>2, InstanciasTipo DEF TypeOK, TipoProcesos, consolaVars
      <3>4. TipoListas'
        BY <2>1, <2>2, <3>1, <3>2, BloqueadoTipo DEF TypeOK, TipoListas, archivoVars
      <3>5. TipoSalida'
        BY <3>1, <3>2 DEF TypeOK, TipoSalida, PidNulo, PasosSalida
      <3>6. p # Nada /\ salida.pcb # Nada
        BY <2>1, <3>1, PlanificadorSupuestos DEF Pid, Nada
      <3>7. PunterosHilos'
        BY <2>1, <2>2, <3>2, <3>6
           DEF TypeOK, TipoSalida, PunterosHilos, PunterosValidos, Rec, hilosVars
      <3>8. \A q \in Pid : pcb'[q].motivo = pcb[q].motivo
        BY <3>1, <3>2, InstanciasMotivo DEF TypeOK, TipoProcesos
      <3>9. ExecOcupada'
        BY <2>2, <3>8, ExecIgual DEF PunterosValidos, cpuVars
      <3>10. TipoConsola'
        BY <2>2, <3>2 DEF TypeOK, TipoConsola, consolaVars, cpuVars
      <3> QED BY <3>3, <3>4, <3>5, <3>7, <3>9, <3>10
    <2>4. ASSUME colabloqueado[Rec] = <<>>
          PROVE  /\ TipoProcesos' /\ TipoListas' /\ TipoSalida' /\ TipoConsola'
                 /\ PunterosHilos' /\ ExecOcupada'
      <3>1. caido' = "pcb_nulo" /\ UNCHANGED <<colabloqueado, cola_block, pcb, salida>>
        BY <1>6, <2>4 DEF LiberarDesbloquea
      <3>2. TipoProcesos' /\ TipoListas' /\ TipoSalida'
        BY <2>2, <3>1, TipoIgual DEF consolaVars, cpuVars, archivoVars
      <3>3. TipoConsola'
        BY <2>2, <3>1 DEF TypeOK, TipoConsola, consolaVars, cpuVars
      <3> QED BY <2>2, <3>1, <3>2, <3>3 DEF PunterosValidos, PunterosHilos, ExecOcupada, cpuVars,
            hilosVars
    <2>5. /\ TipoProcesos' /\ TipoListas' /\ TipoSalida' /\ TipoConsola'
          /\ PunterosHilos' /\ ExecOcupada'
      BY <2>3, <2>4
    <2>6. TypeOK' /\ PunterosExec'
      BY <2>2, <2>5, TipoIgual DEF TypeOK, PunterosValidos, PunterosExec, cpuVars, hilosVars
    <2> QED BY <2>5, <2>6 DEF PunterosValidos
  <1>7. CASE LiberarResta
    <2>1. Rec \in Recursos
      BY <1>7, PunterosPid DEF LiberarResta, Rec, PasosConRec
    <2>2. salida.reg - 1 \in Int
      BY DEF TypeOK, TipoSalida
    <2>3. TipoListas'
      BY <1>7, <2>1, <2>2, CantidadTipo DEF TypeOK, TipoListas, LiberarResta, archivoVars
    <2>4. TipoSalida'
      BY <1>7, <2>1, <2>2 DEF TypeOK, TipoSalida, LiberarResta, PidNulo, PasosSalida,
         SalidaEn
    <2>5. TipoProcesos' /\ sem' \in [Semaforos -> Nat] /\ TipoConsola' /\ TipoExec' /\
          TipoAdmision' /\ TipoSleepers' /\ TipoPf' /\ TipoFs'
      BY <1>7, TipoIgual DEF LiberarResta, consolaVars, cpuVars, hilosVars
    <2>6. PunterosHilos'
      BY <1>7, <2>1, <2>2, PlanificadorSupuestos DEF PunterosHilos, PunterosValidos,
         LiberarResta, PidNulo, Nada, Pid, TypeOK, TipoAdmision, TipoSalida, PasosConRec,
         SalidaEn, Rec, hilosVars
    <2>7. PunterosExec' /\ ExecOcupada'
      BY <1>7 DEF PunterosValidos, PunterosExec, ExecOcupada, LiberarResta, cpuVars
    <2> QED BY <2>3, <2>4, <2>5, <2>6, <2>7 DEF TypeOK, PunterosValidos
  <1>8. CASE LiberarDespierta
    <2>1. salida.hijo \in Pid /\ salida.rec + 1 \in Nat
      BY <1>8, PunterosPid DEF LiberarDespierta, TypeOK, TipoSalida
    <2>2. UNCHANGED <<cola_block, consolaVars, recursoVars, sem, cpuVars, exec, admision,
                      hilosVars, caido>>
      BY <1>8 DEF LiberarDespierta
    <2>3. /\ \E l \in {"detenidos", "ready"} : cola' = Agregar(cola, l, salida.hijo)
          /\ pcb' = pcb \/ pcb' = Listo(pcb, salida.hijo)
          /\ \/ salida' = [salida EXCEPT !.paso = "recurso", !.rec = @ + 1, !.hijo = Nada]
             \/ salida' = [salida EXCEPT !.paso = "avisar_hijo", !.hijo = Nada]
      BY <1>8 DEF LiberarDespierta
    <2>4. cola' \in [Listas -> Seq(Pid)] /\ cola'["exec"] = cola["exec"]
      <3>1. cola \in [Listas -> Seq(Pid)] /\ {"detenidos", "ready", "exec"} \subseteq Listas
        BY DEF TypeOK, TipoListas, Listas
      <3>2. PICK l \in {"detenidos", "ready"} : cola' = Agregar(cola, l, salida.hijo)
        BY <2>3
      <3>3. l \in Listas /\ "exec" \in Listas /\ l # "exec"
        BY <3>1
      <3>4. Agregar(cola, l, salida.hijo) \in [Listas -> Seq(Pid)]
        BY <2>1, <3>1, <3>3, AgregarTipo
      <3>5. Agregar(cola, l, salida.hijo)["exec"] = cola["exec"]
        BY <2>1, <3>1, <3>3, AgregarOtra
      <3> QED BY <3>2, <3>4, <3>5
    <2>5. pcb' \in [Pid -> Pcb] /\ \A q \in Pid : pcb'[q].motivo = pcb[q].motivo
      BY <2>1, <2>3, ListoTipo, ListoMotivo DEF TypeOK, TipoProcesos, TipoConsola
    <2>6. TipoSalida'
      BY <2>1, <2>3 DEF TypeOK, TipoSalida, PasosSalida, PidNulo
    <2>7. TypeOK'
      BY <2>2, <2>4, <2>5, <2>6, TipoIgual DEF TypeOK, TipoProcesos, TipoListas, consolaVars,
         recursoVars, archivoVars, cpuVars, hilosVars
    <2>8. ExecOcupada'
      BY <2>2, <2>4, <2>5, ExecIgual DEF PunterosValidos, cpuVars
    <2>9. PunterosHilos'
      BY <1>8, <2>2, <2>3 DEF LiberarDespierta, TypeOK, TipoSalida, PunterosHilos,
         PunterosValidos,
         PasosConRec, hilosVars
    <2> QED BY <2>2, <2>7, <2>8, <2>9 DEF PunterosValidos, PunterosExec, cpuVars
  <1>9. CASE LiberarAvisa
    <2>1. salida.rec + 1 \in Nat
      BY DEF TypeOK, TipoSalida
    <2>2. sem' \in [Semaforos -> Nat]
      BY <1>9, <2>1, PostTipo DEF TypeOK, LiberarAvisa
    <2>3. TipoSalida'
      BY <1>9, <2>1 DEF TypeOK, TipoSalida, PasosSalida, LiberarAvisa
    <2>4. TipoProcesos' /\ TipoListas' /\ TipoConsola' /\ TipoExec' /\ TipoAdmision' /\
          TipoSleepers' /\ TipoPf' /\ TipoFs'
      BY <1>9, TipoIgual DEF LiberarAvisa, consolaVars, recursoVars, archivoVars, cpuVars, hilosVars
    <2>5. PunterosHilos'
      BY <1>9, <2>1, PlanificadorSupuestos DEF PunterosHilos, PunterosValidos,
         LiberarAvisa, PidNulo, Nada, Pid, TypeOK, TipoAdmision, TipoSalida, PasosConRec,
         hilosVars
    <2>6. PunterosExec' /\ ExecOcupada'
      BY <1>9 DEF PunterosValidos, PunterosExec, ExecOcupada, LiberarAvisa, cpuVars
    <2> QED BY <2>2, <2>3, <2>4, <2>5, <2>6 DEF TypeOK, PunterosValidos
  <1> QED BY <1>1, <1>2, <1>3, <1>4, <1>5, <1>6, <1>7, <1>8, <1>9 DEF Liberacion

\* exit_pcb.
LEMMA PasoSalida ==
  ASSUME TypeOK, PunterosValidos, Salida
  PROVE  TypeOK' /\ PunterosValidos'
  <1>1. CASE SalidaToma
    <2>1. UNCHANGED <<cola_block, pcb, consolaVars, recursoVars, cpuVars, exec, admision,
                      hilosVars>>
      BY <1>1 DEF SalidaToma
    <2>2. sem' \in [Semaforos -> Nat]
      BY <1>1, EsperarTipo DEF TypeOK, SalidaToma, Semaforos
    <2>3. /\ cola' \in [Listas -> Seq(Pid)] /\ cola'["exec"] = cola["exec"]
          /\ TipoSalida' /\ PunterosHilos' /\ caido' \in {"no", "lista_vacia", "pcb_nulo"}
      <3>1. CASE cola["exit"] # <<>>
        <4>1. cola \in [Listas -> Seq(Pid)] /\ "exit" \in Listas /\ "exec" \in Listas
          BY DEF TypeOK, TipoListas, Listas
        <4>2. /\ Head(cola["exit"]) \in Pid /\ SinPrimero(cola, "exit") \in [Listas -> Seq(Pid)]
              /\ SinPrimero(cola, "exit")["exec"] = cola["exec"]
          BY <3>1, <4>1, CabezaTipo, SinPrimeroTipo DEF SinPrimero
        <4>3. /\ salida' = [SinSalida EXCEPT !.paso = "recurso", !.pcb = Head(cola["exit"])]
              /\ cola' = SinPrimero(cola, "exit") /\ caido' = caido
          BY <1>1, <3>1 DEF SalidaToma
        <4>4. TipoSalida'
          BY <4>2, <4>3, SinSalidaTipo DEF TipoSalida, PasosSalida, PidNulo
        <4>5. PunterosHilos'
          BY <2>1, <4>2, <4>3, PlanificadorSupuestos
             DEF PunterosHilos, PunterosValidos, SinSalida, PasosConRec, Pid, Nada,
                   hilosVars
        <4> QED BY <4>2, <4>3, <4>4, <4>5 DEF TypeOK, TipoConsola
      <3>2. CASE cola["exit"] = <<>>
        <4>1. caido' = "pcb_nulo" /\ UNCHANGED <<salida, cola>>
          BY <1>1, <3>2 DEF SalidaToma
        <4> QED BY <2>1, <4>1 DEF TypeOK, TipoListas, TipoSalida, PunterosHilos,
              PunterosValidos, hilosVars
      <3> QED BY <3>1, <3>2
    <2>4. TypeOK'
      BY <2>1, <2>2, <2>3, TipoIgual DEF TypeOK, TipoProcesos, TipoListas, TipoConsola,
         consolaVars, recursoVars, archivoVars, cpuVars, hilosVars
    <2>5. ExecOcupada'
      BY <2>1, <2>3, ExecIgual DEF PunterosValidos, cpuVars
    <2> QED BY <2>1, <2>3, <2>4, <2>5 DEF PunterosValidos, PunterosExec, cpuVars
  <1>2. CASE Liberacion
    BY <1>2, PasoLiberacion
  <1>3. CASE SalidaDestruye
    <2>1. salida.pcb \in Pid
      BY <1>3, PunterosPid DEF SalidaDestruye
    <2>2. /\ UNCHANGED <<cola_block, consolaVars, cantidad, colabloqueado, sem, cpuVars, exec,
                         admision, hilosVars, caido>>
          /\ \E S \in SUBSET espera_archivo : Pierde(S)
      BY <1>3 DEF SalidaDestruye
    <2> DEFINE ps == [pcb EXCEPT ![salida.pcb].estado = "DESTRUIDO"]
    <2>3. ps \in [Pid -> Pcb] /\ \A q \in Pid : ps[q].motivo = pcb[q].motivo
      <3>1. ps \in [Pid -> Pcb]
        BY <2>1, ProcesosTipo DEF TypeOK, TipoProcesos, Estados
      <3>2. \A q \in Pid : ps[q].motivo = pcb[q].motivo
        BY DEF TypeOK, TipoProcesos, Pcb
      <3> QED BY <3>1, <3>2
    <2>4. /\ salida' = [SinSalida EXCEPT !.paso = "avisar"]
          /\ \/ pcb' = ps /\ cola' = cola
             \/ /\ cola["detenidos"] # <<>>
                /\ pcb' = Listo(ps, Head(cola["detenidos"]))
                /\ cola' = Agregar(SinPrimero(cola, "detenidos"), "ready", Head(cola["detenidos"]))
      BY <1>3 DEF SalidaDestruye
    <2> HIDE DEF ps
    <2>5. cola \in [Listas -> Seq(Pid)] /\ {"detenidos", "ready", "exec"} \subseteq Listas
      BY DEF TypeOK, TipoListas, Listas
    <2>6. ASSUME cola["detenidos"] # <<>>
          PROVE  Head(cola["detenidos"]) \in Pid /\ SinPrimero(cola, "detenidos") \in
                [Listas -> Seq(Pid)]
      BY <2>5, <2>6, CabezaTipo, SinPrimeroTipo
    <2>7. pcb' \in [Pid -> Pcb] /\ \A q \in Pid : pcb'[q].motivo = pcb[q].motivo
      <3>1. CASE pcb' = ps
        BY <2>3, <3>1
      <3>2. CASE cola["detenidos"] # <<>> /\ pcb' = Listo(ps, Head(cola["detenidos"]))
        <4>1. Head(cola["detenidos"]) \in Pid /\ reloj \in Nat
          BY <2>6, <3>2 DEF TypeOK, TipoConsola
        <4> QED BY <2>3, <3>2, <4>1, ListoTipo, ListoMotivo
      <3> QED BY <2>4, <3>1, <3>2
    <2>8. cola' \in [Listas -> Seq(Pid)] /\ cola'["exec"] = cola["exec"]
      <3>1. CASE cola' = cola
        BY <2>5, <3>1
      <3>2. CASE /\ cola["detenidos"] # <<>>
                 /\ cola' = Agregar(SinPrimero(cola, "detenidos"), "ready", Head(cola["detenidos"]))
        <4> DEFINE c == SinPrimero(cola, "detenidos")
                   p == Head(cola["detenidos"])
        <4>1. p \in Pid /\ c \in [Listas -> Seq(Pid)]
          BY <2>6, <3>2
        <4>2. c["exec"] = cola["exec"]
          BY <2>5 DEF SinPrimero
        <4>3. cola' = Agregar(c, "ready", p)
          BY <3>2
        <4> HIDE DEF c, p
        <4>4. cola' \in [Listas -> Seq(Pid)]
          BY <2>5, <4>1, <4>3, AgregarTipo
        <4>5. cola'["exec"] = c["exec"]
          BY <2>5, <4>1, <4>3, AgregarOtra
        <4> QED BY <4>2, <4>4, <4>5
      <3> QED BY <2>4, <3>1, <3>2
    <2>9. TipoSalida'
      BY <2>4, SinSalidaTipo DEF TipoSalida, PasosSalida, PidNulo
    <2>10. TypeOK'
      <3>1. espera_archivo' \subseteq Pid /\ perdidos' \subseteq Pid
        BY <2>2 DEF TypeOK, TipoListas, Pierde
      <3> QED BY <2>2, <2>7, <2>8, <2>9, <3>1, TipoIgual DEF TypeOK, TipoProcesos, TipoListas,
            consolaVars, cpuVars, hilosVars
    <2>11. ExecOcupada'
      BY <2>2, <2>7, <2>8, ExecIgual DEF PunterosValidos, cpuVars
    <2>12. PunterosHilos'
      BY <2>2, <2>4 DEF PunterosHilos, PunterosValidos, SinSalida, PasosConRec, hilosVars
    <2> QED BY <2>2, <2>10, <2>11, <2>12 DEF PunterosValidos, PunterosExec, cpuVars
  <1>4. CASE SalidaAvisa
    <2>1. sem' \in [Semaforos -> Nat]
      BY <1>4, PostTipo DEF TypeOK, SalidaAvisa
    <2>2. TipoSalida'
      BY <1>4 DEF TypeOK, TipoSalida, SalidaAvisa, PidNulo, PasosSalida, SinSalida
    <2>3. TipoProcesos' /\ TipoListas' /\ TipoConsola' /\ TipoExec' /\ TipoAdmision' /\
          TipoSleepers' /\ TipoPf' /\ TipoFs'
      BY <1>4, TipoIgual DEF SalidaAvisa, consolaVars, recursoVars, archivoVars, cpuVars, hilosVars
    <2>4. PunterosHilos'
      BY <1>4, PlanificadorSupuestos DEF PunterosHilos, PunterosValidos, SalidaAvisa,
         PidNulo, Nada, Pid, TypeOK, TipoAdmision, TipoSalida, PasosConRec, SinSalida,
         hilosVars
    <2>5. PunterosExec' /\ ExecOcupada'
      BY <1>4 DEF PunterosValidos, PunterosExec, ExecOcupada, SalidaAvisa, cpuVars
    <2> QED BY <2>1, <2>2, <2>3, <2>4, <2>5 DEF TypeOK, PunterosValidos
  <1> QED BY <1>1, <1>2, <1>3, <1>4 DEF Salida

\* The sleeper threads.
LEMMA PasoSleepers ==
  ASSUME TypeOK, PunterosValidos, Sleepers
  PROVE  TypeOK' /\ PunterosValidos'
  <1>1. CASE SleeperDespierta
    <2>1. PICK p \in sleepers.durmiendo :
            \/ /\ sleepers' = [sleepers EXCEPT !.durmiendo = @ \ {p}, !.detenidos = @ \cup
                  {p}]
               /\ cola' = cola
            \/ /\ sleepers' = [sleepers EXCEPT !.durmiendo = @ \ {p}, !.avisos = @ + 1]
               /\ cola' = Agregar(cola, "ready", p)
      BY <1>1 DEF SleeperDespierta
    <2>2. p \in Pid
      BY DEF TypeOK, TipoSleepers
    <2>3. TipoSleepers'
      <3>1. /\ sleepers.durmiendo \ {p} \in SUBSET Pid
            /\ sleepers.detenidos \cup {p} \in SUBSET Pid
            /\ sleepers.avisos + 1 \in Nat
        BY <2>2 DEF TypeOK, TipoSleepers
      <3> QED BY <2>1, <3>1 DEF TypeOK, TipoSleepers
    <2>4. cola' \in [Listas -> Seq(Pid)] /\ cola'["exec"] = cola["exec"]
      <3>1. cola \in [Listas -> Seq(Pid)] /\ "ready" \in Listas /\ "exec" \in Listas
        BY DEF TypeOK, TipoListas, Listas
      <3>2. Agregar(cola, "ready", p) \in [Listas -> Seq(Pid)]
        BY <2>2, <3>1, AgregarTipo
      <3>3. Agregar(cola, "ready", p)["exec"] = cola["exec"]
        BY <2>2, <3>1, AgregarOtra
      <3> QED BY <2>1, <3>1, <3>2, <3>3
    <2>5. UNCHANGED <<pcb, generador_de_id, cola_block, cantidad, colabloqueado, archivoVars, sem,
                      consolaVars, cpuVars, exec, admision, salida, pf, fs, caido>>
      BY <1>1 DEF SleeperDespierta, consolaVars, recursoVars, archivoVars, cpuVars
    <2>6. TypeOK'
      BY <2>3, <2>4, <2>5, TipoIgual DEF TypeOK, TipoListas, consolaVars, cpuVars, archivoVars
    <2>7. ExecOcupada'
      BY <2>4, <2>5, ExecIgual DEF PunterosValidos, cpuVars
    <2> QED BY <2>5, <2>6, <2>7 DEF PunterosValidos, PunterosExec, PunterosHilos, cpuVars
  <1>2. CASE SleeperSigue
    <2>1. PICK p \in sleepers.detenidos :
            /\ sleepers' = [sleepers EXCEPT !.detenidos = @ \ {p}, !.avisos = @ + 1]
            /\ cola' = Agregar(cola, "ready", p)
      BY <1>2 DEF SleeperSigue
    <2>2. p \in Pid
      BY DEF TypeOK, TipoSleepers
    <2>3. TipoSleepers'
      <3>1. sleepers.detenidos \ {p} \in SUBSET Pid /\ sleepers.avisos + 1 \in Nat
        BY <2>2 DEF TypeOK, TipoSleepers
      <3> QED BY <2>1, <3>1 DEF TypeOK, TipoSleepers
    <2>4. cola' \in [Listas -> Seq(Pid)] /\ cola'["exec"] = cola["exec"]
      BY <2>1, <2>2, AgregarTipo, AgregarOtra DEF TypeOK, TipoListas, Listas
    <2>5. sem' \in [Semaforos -> Nat]
      BY <1>2, EsperarTipo DEF TypeOK, SleeperSigue, Semaforos
    <2>6. UNCHANGED <<pcb, generador_de_id, cola_block, cantidad, colabloqueado, archivoVars,
                      consolaVars, cpuVars, exec, admision, salida, pf, fs, caido>>
      BY <1>2 DEF SleeperSigue, consolaVars, recursoVars, archivoVars, cpuVars
    <2>7. TypeOK'
      BY <2>3, <2>4, <2>5, <2>6, TipoIgual DEF TypeOK, TipoListas, consolaVars, cpuVars, archivoVars
    <2>8. ExecOcupada'
      BY <2>4, <2>6, ExecIgual DEF PunterosValidos, cpuVars
    <2> QED BY <2>6, <2>7, <2>8 DEF PunterosValidos, PunterosExec, PunterosHilos, cpuVars
  <1>3. CASE SleeperAvisa
    <2>1. sleepers' = [sleepers EXCEPT !.avisos = @ - 1] /\ sleepers.avisos - 1 \in Nat
      BY <1>3 DEF SleeperAvisa, TypeOK, TipoSleepers
    <2>2. sem' \in [Semaforos -> Nat]
      BY <1>3, <2>1, PostTipo DEF TypeOK, SleeperAvisa
    <2>3. TipoSleepers'
      BY <2>1 DEF TypeOK, TipoSleepers
    <2>4. TipoProcesos' /\ TipoListas' /\ TipoConsola' /\ TipoExec' /\ TipoAdmision' /\
          TipoSalida' /\ TipoPf' /\ TipoFs'
      BY <1>3, TipoIgual DEF SleeperAvisa, consolaVars, recursoVars, archivoVars, cpuVars
    <2>5. PunterosExec' /\ PunterosHilos' /\ ExecOcupada'
      BY <1>3 DEF PunterosValidos, PunterosExec, PunterosHilos, ExecOcupada, SleeperAvisa,
         cpuVars
    <2> QED BY <2>2, <2>3, <2>4, <2>5 DEF TypeOK, PunterosValidos
  <1> QED BY <1>1, <1>2, <1>3 DEF Sleepers

\* The manejar_pf threads.
LEMMA PasoPageFaults ==
  ASSUME TypeOK, PunterosValidos, PageFaults
  PROVE  TypeOK' /\ PunterosValidos'
  <1>1. CASE PfArranca
    <2>1. sem' \in [Semaforos -> Nat]
      BY <1>1, PostTipo DEF TypeOK, PfArranca
    <2>2. TipoPf'
      <3>1. PICK p \in pf.nuevos : pf' = [pf EXCEPT !.nuevos = @ \ {p}, !.pedir = @ \cup
            {p}]
        BY <1>1 DEF PfArranca
      <3>2. pf.nuevos \ {p} \in SUBSET Pid /\ pf.pedir \cup {p} \in SUBSET Pid
        BY DEF TypeOK, TipoPf
      <3> QED BY <3>1, <3>2 DEF TypeOK, TipoPf
    <2>3. TipoProcesos' /\ TipoListas' /\ TipoConsola' /\ TipoExec' /\ TipoAdmision' /\
          TipoSalida' /\ TipoSleepers' /\ TipoFs'
      BY <1>1, TipoIgual DEF PfArranca, consolaVars, recursoVars, archivoVars, cpuVars
    <2>4. PunterosExec' /\ PunterosHilos' /\ ExecOcupada'
      BY <1>1 DEF PunterosValidos, PunterosExec, PunterosHilos, ExecOcupada, PfArranca,
         cpuVars
    <2> QED BY <2>1, <2>2, <2>3, <2>4 DEF TypeOK, PunterosValidos
  <1>2. CASE PfPide
    <2>1. TipoPf'
      <3>1. PICK p \in pf.pedir : pf' = [pf EXCEPT !.pedir = @ \ {p}, !.pedidos = Append(@,
            p)]
        BY <1>2 DEF PfPide
      <3>2. pf.pedir \ {p} \in SUBSET Pid /\ Append(pf.pedidos, p) \in Seq(Pid)
        BY DEF TypeOK, TipoPf
      <3> QED BY <3>1, <3>2 DEF TypeOK, TipoPf
    <2>2. TipoProcesos' /\ TipoListas' /\ sem' \in [Semaforos -> Nat] /\ TipoConsola' /\
          TipoExec' /\ TipoAdmision' /\ TipoSalida' /\ TipoSleepers' /\ TipoFs'
      BY <1>2, TipoIgual DEF PfPide, consolaVars, recursoVars, archivoVars, cpuVars
    <2>3. PunterosExec' /\ PunterosHilos' /\ ExecOcupada'
      BY <1>2 DEF PunterosValidos, PunterosExec, PunterosHilos, ExecOcupada, PfPide, cpuVars
    <2> QED BY <2>1, <2>2, <2>3 DEF TypeOK, PunterosValidos
  <1>3. CASE MemoriaCarga
    <2>1. TipoPf'
      <3>1. Tail(pf.pedidos) \in Seq(Pid) /\ Append(pf.respuestas, Head(pf.pedidos)) \in
            Seq(Pid)
        BY <1>3, CabezaTipo DEF TypeOK, TipoPf, MemoriaCarga
      <3> QED BY <1>3, <3>1 DEF TypeOK, TipoPf, MemoriaCarga
    <2>2. TipoProcesos' /\ TipoListas' /\ sem' \in [Semaforos -> Nat] /\ TipoConsola' /\
          TipoExec' /\ TipoAdmision' /\ TipoSalida' /\ TipoSleepers' /\ TipoFs'
      BY <1>3, TipoIgual DEF MemoriaCarga, consolaVars, recursoVars, archivoVars, cpuVars
    <2>3. PunterosExec' /\ PunterosHilos' /\ ExecOcupada'
      BY <1>3 DEF PunterosValidos, PunterosExec, PunterosHilos, ExecOcupada, MemoriaCarga,
         cpuVars
    <2> QED BY <2>1, <2>2, <2>3 DEF TypeOK, PunterosValidos
  <1>4. CASE PfRecibe
    <2>1. Head(pf.respuestas) \in Pid
      BY <1>4, CabezaTipo DEF PfRecibe, TypeOK, TipoPf
    <2>2. pcb' = [pcb EXCEPT ![Head(pf.respuestas)].motivo = "PAGE_FAULT_RESUELTO"]
      BY <1>4 DEF PfRecibe
    <2>3. pcb' \in [Pid -> Pcb]
      BY <2>1, <2>2, ProcesosTipo DEF TypeOK, TipoProcesos, Motivos
    <2>4. TipoProcesos'
      BY <1>4, <2>3 DEF TypeOK, TipoProcesos, PfRecibe, consolaVars
    <2>5. TipoListas'
      BY <1>4, <2>1, <2>2, <2>3, CabezaTipo, BloqueadoTipo, ListasTipo DEF TypeOK,
         TipoListas, PfRecibe, recursoVars, archivoVars
    <2>6. TipoPf'
      BY <1>4, <2>1, <2>2, <2>3, CabezaTipo DEF TypeOK, TipoPf, PfRecibe, PidNulo
    <2>7. sem' \in [Semaforos -> Nat] /\ TipoConsola' /\ TipoExec' /\ TipoAdmision' /\
          TipoSalida' /\ TipoSleepers' /\ TipoFs'
      BY <1>4, TipoIgual DEF PfRecibe, consolaVars, cpuVars
    <2>8. ExecOcupada'
      BY <1>4, <2>1, <2>2 DEF TypeOK, TipoProcesos, TipoExec, PidNulo, Pcb,
         PunterosValidos, ExecOcupada, PfRecibe, cpuVars
    <2>9. PunterosExec' /\ PunterosHilos'
      BY <1>4 DEF PunterosValidos, PunterosExec, PunterosHilos, PfRecibe, cpuVars
    <2> QED BY <2>4, <2>5, <2>6, <2>7, <2>8, <2>9 DEF TypeOK, PunterosValidos
  <1>5. CASE PfListo
    <2>1. PICK p \in pf.resueltos :
            /\ pcb' = Listo(pcb, p)
            /\ cola' = Agregar(cola, "ready", p)
            /\ \E d \in Desaloja(p) : interrupcion' = (interrupcion \/ d)
            /\ pf' = [pf EXCEPT !.resueltos = @ \ {p}, !.avisos = @ + 1]
      BY <1>5 DEF PfListo, Interrumpe
    <2>2. p \in Pid
      BY DEF TypeOK, TipoPf
    <2>3. pcb' \in [Pid -> Pcb] /\ \A q \in Pid : pcb'[q].motivo = pcb[q].motivo
      BY <2>1, <2>2, ListoTipo, ListoMotivo DEF TypeOK, TipoProcesos, TipoConsola
    <2>4. cola' \in [Listas -> Seq(Pid)] /\ cola'["exec"] = cola["exec"]
      BY <2>1, <2>2, AgregarTipo, AgregarOtra DEF TypeOK, TipoListas, Listas
    <2>5. interrupcion' \in BOOLEAN
      BY <2>1 DEF Desaloja, TypeOK, TipoConsola
    <2>6. TipoPf'
      <3>1. pf.resueltos \ {p} \in SUBSET Pid /\ pf.avisos + 1 \in Nat
        BY DEF TypeOK, TipoPf
      <3> QED BY <2>1, <3>1 DEF TypeOK, TipoPf
    <2>7. UNCHANGED <<generador_de_id, cola_block, cantidad, colabloqueado, archivoVars, sem,
                      consolaVars, proceso_en_ejecucion, pcbelegido, exec, admision, salida,
                      sleepers, fs, caido>>
      BY <1>5 DEF PfListo, consolaVars, recursoVars, archivoVars
    <2>8. TypeOK'
      BY <2>3, <2>4, <2>5, <2>6, <2>7, TipoIgual DEF TypeOK, TipoProcesos, TipoListas,
         TipoConsola, consolaVars, archivoVars
    <2>9. ExecOcupada'
      BY <2>3, <2>4, <2>7, ExecIgual DEF PunterosValidos
    <2> QED BY <2>7, <2>8, <2>9 DEF PunterosValidos, PunterosExec, PunterosHilos
  <1>6. CASE PfAvisa
    <2>1. pf' = [pf EXCEPT !.avisos = @ - 1] /\ pf.avisos - 1 \in Nat
      BY <1>6 DEF PfAvisa, TypeOK, TipoPf
    <2>2. sem' \in [Semaforos -> Nat]
      BY <1>6, <2>1, PostTipo DEF TypeOK, PfAvisa
    <2>3. TipoPf'
      BY <2>1 DEF TypeOK, TipoPf
    <2>4. TipoProcesos' /\ TipoListas' /\ TipoConsola' /\ TipoExec' /\ TipoAdmision' /\
          TipoSalida' /\ TipoSleepers' /\ TipoFs'
      BY <1>6, TipoIgual DEF PfAvisa, consolaVars, recursoVars, archivoVars, cpuVars
    <2>5. PunterosExec' /\ PunterosHilos' /\ ExecOcupada'
      BY <1>6 DEF PunterosValidos, PunterosExec, PunterosHilos, ExecOcupada, PfAvisa,
         cpuVars
    <2> QED BY <2>2, <2>3, <2>4, <2>5 DEF TypeOK, PunterosValidos
  <1> QED BY <1>1, <1>2, <1>3, <1>4, <1>5, <1>6 DEF PageFaults

\* recibir_op_FS.
LEMMA PasoOpFS ==
  ASSUME TypeOK, PunterosValidos, OpFS
  PROVE  TypeOK' /\ PunterosValidos'
  <1>1. CASE FilesystemAtiende
    <2>1. TipoFs'
      <3>1. PICK p \in fs.pedidos : fs' = [fs EXCEPT !.pedidos = @ \ {p}, !.respuestas =
            Append(@, p)]
        BY <1>1 DEF FilesystemAtiende
      <3>2. fs.pedidos \ {p} \in SUBSET Pid /\ Append(fs.respuestas, p) \in Seq(Pid)
        BY DEF TypeOK, TipoFs
      <3> QED BY <3>1, <3>2 DEF TypeOK, TipoFs
    <2>2. TipoProcesos' /\ TipoListas' /\ sem' \in [Semaforos -> Nat] /\ TipoConsola' /\
          TipoExec' /\ TipoAdmision' /\ TipoSalida' /\ TipoSleepers' /\ TipoPf'
      BY <1>1, TipoIgual DEF FilesystemAtiende, consolaVars, recursoVars, archivoVars, cpuVars
    <2>3. PunterosHilos'
      BY <1>1, PlanificadorSupuestos DEF PunterosHilos, PunterosValidos, FilesystemAtiende,
         PidNulo, Nada, Pid, TypeOK, TipoFs
    <2>4. PunterosExec' /\ ExecOcupada'
      BY <1>1 DEF PunterosValidos, PunterosExec, ExecOcupada, FilesystemAtiende, cpuVars
    <2> QED BY <2>1, <2>2, <2>3, <2>4 DEF TypeOK, PunterosValidos
  <1>2. CASE FsRecibe
    <2>1. Head(fs.respuestas) \in Pid
      BY <1>2, CabezaTipo DEF FsRecibe, TypeOK, TipoFs
    <2>2. TipoListas'
      BY <1>2, <2>1, CabezaTipo, BloqueadoTipo, ListasTipo DEF TypeOK, TipoListas,
         FsRecibe, recursoVars, archivoVars
    <2>3. sem' \in [Semaforos -> Nat]
      BY <1>2, <2>1, EsperarTipo DEF TypeOK, FsRecibe, Semaforos
    <2>4. TipoFs'
      BY <1>2, <2>1, CabezaTipo DEF TypeOK, TipoFs, FsRecibe, PidNulo
    <2>5. TipoProcesos' /\ TipoConsola' /\ TipoExec' /\ TipoAdmision' /\ TipoSalida' /\
          TipoSleepers' /\ TipoPf'
      BY <1>2, TipoIgual DEF FsRecibe, consolaVars, cpuVars
    <2>6. PunterosHilos'
      <3>1. fs'.pcb = Head(fs.respuestas)
        BY <1>2 DEF FsRecibe, TypeOK, TipoFs
      <3>2. UNCHANGED <<admision, salida>>
        BY <1>2 DEF FsRecibe
      <3> QED BY <2>1, <3>1, <3>2, PidNoNulo DEF PunterosHilos, PunterosValidos
    <2>7. PunterosExec' /\ ExecOcupada'
      BY <1>2 DEF PunterosValidos, PunterosExec, ExecOcupada, FsRecibe, cpuVars
    <2> QED BY <2>2, <2>3, <2>4, <2>5, <2>6, <2>7 DEF TypeOK, PunterosValidos
  <1>3. CASE FsListo
    <2>1. fs.pcb \in Pid
      BY <1>3, PunterosPid DEF FsListo
    <2>2. TipoProcesos'
      <3>1. reloj \in Nat /\ pcb \in [Pid -> Pcb] /\ generador_de_id \in Nat
        BY DEF TypeOK, TipoProcesos, TipoConsola
      <3>2. pcb' = Listo(pcb, fs.pcb) /\ UNCHANGED generador_de_id
        BY <1>3 DEF FsListo, consolaVars
      <3> QED BY <2>1, <3>1, <3>2, ListoTipo DEF TipoProcesos
    <2>3. TipoListas'
      BY <1>3, <2>1, AgregarTipo, ListasTipo DEF TypeOK, TipoListas, FsListo, Listas,
         recursoVars, archivoVars
    <2>4. TipoConsola'
      BY <1>3, <2>1 DEF TypeOK, TipoConsola, FsListo, Interrumpe, Desaloja, consolaVars
    <2>5. TipoFs'
      BY <1>3, <2>1 DEF TypeOK, TipoFs, FsListo, PidNulo
    <2>6. sem' \in [Semaforos -> Nat] /\ TipoExec' /\ TipoAdmision' /\ TipoSalida' /\
          TipoSleepers' /\ TipoPf'
      BY <1>3, TipoIgual DEF FsListo
    <2>7. PunterosHilos'
      BY <1>3 DEF PunterosHilos, PunterosValidos, FsListo
    <2>8. ExecOcupada'
      <3>1. pcb \in [Pid -> Pcb] /\ cola \in [Listas -> Seq(Pid)]
        BY DEF TypeOK, TipoProcesos, TipoListas
      <3>2. cola'["exec"] = cola["exec"]
        BY <1>3, <2>1, <3>1, AgregarOtra DEF FsListo, Listas
      <3>3. \A q \in Pid : pcb'[q].motivo = pcb[q].motivo
        BY <1>3, <2>1, <3>1, ListoMotivo DEF FsListo
      <3>4. UNCHANGED <<exec, proceso_en_ejecucion>>
        BY <1>3 DEF FsListo
      <3> QED BY <3>2, <3>3, <3>4, ExecIgual DEF PunterosValidos
    <2>9. PunterosExec'
      BY <1>3 DEF PunterosValidos, PunterosExec, FsListo
    <2> QED BY <2>2, <2>3, <2>4, <2>5, <2>6, <2>7, <2>8, <2>9 DEF TypeOK, PunterosValidos
  <1>4. CASE FsAvisa
    <2>1. sem' \in [Semaforos -> Nat]
      BY <1>4, PostTipo DEF TypeOK, FsAvisa
    <2>2. TipoFs'
      BY <1>4 DEF TypeOK, TipoFs, FsAvisa, PidNulo
    <2>3. TipoProcesos' /\ TipoListas' /\ TipoConsola' /\ TipoExec' /\ TipoAdmision' /\
          TipoSalida' /\ TipoSleepers' /\ TipoPf'
      BY <1>4, TipoIgual DEF FsAvisa, consolaVars, recursoVars, archivoVars, cpuVars
    <2>4. PunterosHilos'
      BY <1>4, PlanificadorSupuestos DEF PunterosHilos, PunterosValidos, FsAvisa, PidNulo,
         Nada, Pid, TypeOK, TipoFs
    <2>5. PunterosExec' /\ ExecOcupada'
      BY <1>4 DEF PunterosValidos, PunterosExec, ExecOcupada, FsAvisa, cpuVars
    <2> QED BY <2>1, <2>2, <2>3, <2>4, <2>5 DEF TypeOK, PunterosValidos
  <1>5. CASE FsAbre
    <2>1. sem' \in [Semaforos -> Nat]
      BY <1>5 DEF TypeOK, FsAbre, Semaforos
    <2>2. TipoProcesos' /\ TipoListas' /\ TipoConsola' /\ TipoExec' /\ TipoAdmision' /\
          TipoSalida' /\ TipoSleepers' /\ TipoPf' /\ TipoFs'
      BY <1>5, TipoIgual DEF FsAbre, consolaVars, recursoVars, archivoVars, cpuVars, hilosVars
    <2>3. PunterosHilos' /\ PunterosExec' /\ ExecOcupada'
      BY <1>5 DEF PunterosValidos, PunterosHilos, PunterosExec, ExecOcupada, FsAbre, cpuVars,
         hilosVars
    <2> QED BY <2>1, <2>2, <2>3 DEF TypeOK, PunterosValidos
  <1> QED BY <1>1, <1>2, <1>3, <1>4, <1>5 DEF OpFS

\* A second goes by; the CPU drops an interrupt.
LEMMA PasoReloj ==
  ASSUME TypeOK, PunterosValidos, PasaSegundo \/ InterrupcionPerdida
  PROVE  TypeOK' /\ PunterosValidos'
  <1>1. CASE PasaSegundo
    <2>1. TipoConsola'
      BY <1>1 DEF TypeOK, TipoConsola, PasaSegundo, cpuVars
    <2>2. TipoProcesos' /\ TipoListas' /\ sem' \in [Semaforos -> Nat] /\ TipoExec' /\
          TipoAdmision' /\ TipoSalida' /\ TipoSleepers' /\ TipoPf' /\ TipoFs'
      BY <1>1, TipoIgual DEF PasaSegundo, recursoVars, archivoVars, cpuVars, hilosVars
    <2>3. PunterosExec' /\ PunterosHilos' /\ ExecOcupada'
      BY <1>1 DEF PunterosValidos, PunterosExec, PunterosHilos, ExecOcupada, PasaSegundo,
         cpuVars, hilosVars
    <2> QED BY <2>1, <2>2, <2>3 DEF TypeOK, PunterosValidos
  <1>2. CASE InterrupcionPerdida
    <2>1. TipoConsola'
      BY <1>2 DEF TypeOK, TipoConsola, InterrupcionPerdida, consolaVars
    <2>2. TipoProcesos' /\ TipoListas' /\ sem' \in [Semaforos -> Nat] /\ TipoExec' /\
          TipoAdmision' /\ TipoSalida' /\ TipoSleepers' /\ TipoPf' /\ TipoFs'
      BY <1>2, TipoIgual DEF InterrupcionPerdida, consolaVars, recursoVars, archivoVars, hilosVars
    <2>3. PunterosExec' /\ PunterosHilos' /\ ExecOcupada'
      BY <1>2 DEF PunterosValidos, PunterosExec, PunterosHilos, ExecOcupada,
         InterrupcionPerdida, hilosVars
    <2> QED BY <2>1, <2>2, <2>3 DEF TypeOK, PunterosValidos
  <1> QED BY <1>1, <1>2

-----------------------------------------------------------------------------
(* Type correctness and valid pointers *)

\* The initial states satisfy the invariant.
LEMMA InicioTipo == Init => TypeOK /\ PunterosValidos
  <1> SUFFICES ASSUME Init PROVE TypeOK /\ PunterosValidos
    OBVIOUS
  <1>1. \A S : <<>> \in Seq(S)
    OBVIOUS
  <1>2. SinCrear \in Pcb
    <2>1. [r \in Recursos |-> 0] \in [Recursos -> 0 .. ModUint - 1]
      BY PlanificadorSupuestos
    <2> QED BY <2>1 DEF SinCrear, Pcb
  <1>3. TipoProcesos
    BY <1>2, PlanificadorSupuestos DEF Init, TipoProcesos
  <1>4. TipoListas
    BY <1>1, PlanificadorSupuestos DEF Init, TipoListas
  <1>5. sem \in [Semaforos -> Nat] /\ TipoConsola
    BY PlanificadorSupuestos DEF Init, TipoConsola
  <1>6. TipoExec
    BY PlanificadorSupuestos DEF Init, TipoExec, Esperando, PasosExec, PidNulo
  <1>7. TipoAdmision /\ TipoSalida
    BY SinSalidaTipo DEF Init, TipoAdmision, TipoSalida, PidNulo
  <1>8. TipoSleepers /\ TipoPf /\ TipoFs
    BY <1>1 DEF Init, TipoSleepers, TipoPf, TipoFs, PidNulo
  <1>9. PunterosValidos
    BY DEF Init, PunterosValidos, PunterosExec, PunterosHilos, ExecOcupada, Esperando,
       SinSalida, PasosConRecurso, PasosConRec, PasosConExec
  <1> QED BY <1>3, <1>4, <1>5, <1>6, <1>7, <1>8, <1>9 DEF TypeOK

\* Every step of Next, and every stutter, preserves the invariant.
LEMMA PasoTipo ==
  ASSUME TypeOK, PunterosValidos, [Next]_vars
  PROVE  TypeOK' /\ PunterosValidos'
  <1>1. CASE Next
    BY <1>1, PasoConsola, PasoReloj, PasoAdmision, PasoDespacho, PasoCpu, PasoLlamadas,
       PasoSalida, PasoSleepers, PasoPageFaults, PasoOpFS DEF Next
  <1>2. CASE UNCHANGED vars
    <2>1. TypeOK'
      BY <1>2, TipoIgual DEF TypeOK, vars
    <2>2. PunterosValidos'
      BY <1>2 DEF vars, PunterosValidos, PunterosExec, PunterosHilos, ExecOcupada
    <2> QED BY <2>1, <2>2
  <1> QED BY <1>1, <1>2

\* Every variable keeps its type, and every thread that is about to use a PCB, a resource
\* or the head of cola_exec has one: the two invariants need each other.
THEOREM TipoYPunteros == Spec => [](TypeOK /\ PunterosValidos)
  <1>1. Init => TypeOK /\ PunterosValidos
    BY InicioTipo
  <1>2. TypeOK /\ PunterosValidos /\ [Next]_vars => (TypeOK /\ PunterosValidos)'
    BY PasoTipo
  <1> QED BY <1>1, <1>2, PTL DEF Spec

\* Every variable keeps its type: the lists hold pids, cantidad and the instances of each
\* process stay in the range of a uint32_t.
THEOREM TipoCorrecto == Spec => []TypeOK
  BY TipoYPunteros, PTL

\* Outside of liberar_recursos and of the pop in ksignal, no thread of the kernel uses a
\* NULL PCB, an unknown resource or the head of an empty cola_exec.
THEOREM PunterosCorrectos == Spec => []PunterosValidos
  BY TipoYPunteros, PTL

-----------------------------------------------------------------------------
(* Nobody waits for the long-term scheduler without its sem_post *)

\* A step that touches neither the two lists nor their semaphores.
LEMMA FichasIguales ==
  ASSUME ColasConFicha, sem'["listos"] = sem["listos"], sem'["exit"] = sem["exit"],
         cola'["listos"] = cola["listos"], cola'["exit"] = cola["exit"]
  PROVE  ColasConFicha'
  BY DEF ColasConFicha

\* A process enters one of the lists, and its semaphore is posted.
LEMMA AgregarLargo ==
  ASSUME NEW c \in [Listas -> Seq(Pid)], NEW l \in Listas, NEW p \in Pid
  PROVE  /\ Len(Agregar(c, l, p)[l]) = Len(c[l]) + 1
         /\ \A m \in Listas \ {l} : Agregar(c, l, p)[m] = c[m]
  BY AppendProperties DEF Agregar

\* What every step does to the two lists and the two semaphores.
LEMMA PasoFichas ==
  ASSUME TypeOK, PunterosValidos, ColasConFicha, Next
  PROVE  ColasConFicha'
  <1>0. /\ cola \in [Listas -> Seq(Pid)] /\ {"listos", "exit", "ready", "exec"} \subseteq Listas
        /\ cola["listos"] \in Seq(Pid) /\ cola["exit"] \in Seq(Pid)
        /\ sem \in [Semaforos -> Nat] /\ sem["listos"] \in Nat /\ sem["exit"] \in Nat
    BY DEF TypeOK, TipoListas, Listas, Semaforos
  <1>1. CASE
         \/ PasaSegundo \/ InterrupcionPerdida \/ IniciarPlanificacion
         \/ DetenerPlanificacion \/ ReanudarFlag \/ ModificarGrado \/ ExecContinua
         \/ CpuEjecuta \/ ExecSyscall \/ KfPide \/ KwaitEncola \/ KwaitLee \/ KsignalLee
         \/ KsignalDevuelve \/ KsignalPop \/ LiberarLee \/ LiberarSuma \/ LiberarMira
         \/ LiberarVacia \/ LiberarRellena \/ LiberarDesbloquea \/ LiberarResta
         \/ PfPide \/ MemoriaCarga \/ PfRecibe \/ FilesystemAtiende
    BY <1>1, FichasIguales DEF PasaSegundo, InterrupcionPerdida, IniciarPlanificacion,
       DetenerPlanificacion, ReanudarFlag, ModificarGrado, ExecContinua, CpuEjecuta,
       ExecSyscall, KfPide, KwaitEncola, KwaitLee, KsignalLee, KsignalDevuelve, KsignalPop,
       LiberarLee, LiberarSuma, LiberarMira, LiberarVacia, LiberarRellena,
       LiberarDesbloquea, LiberarResta, PfPide, MemoriaCarga, PfRecibe, FilesystemAtiende
  <1>2. CASE ReanudarPost
    BY <1>0, <1>2, FichasIguales DEF ReanudarPost, Post, Semaforos
  <1>3. CASE AdmisionAvisa
    BY <1>0, <1>3, FichasIguales DEF AdmisionAvisa, Post, Semaforos
  <1>4. CASE ExecDespierta
    BY <1>0, <1>4, FichasIguales DEF ExecDespierta, Semaforos
  <1>5. CASE ExecDescarta
    BY <1>0, <1>5, FichasIguales DEF ExecDescarta, Post, Semaforos, PostSiHayReady
  <1>6. CASE KfSeek \/ KfOpenComparte \/ KfCloseFin \/ KfCloseDeVarios
    BY <1>0, <1>6, FichasIguales DEF KfSeek, KfOpenComparte, KfCloseFin, KfCloseDeVarios,
       SigueEnCpu, Post, Semaforos
  <1>7. CASE KsleepSigue
    BY <1>0, <1>7, FichasIguales DEF KsleepSigue, Semaforos
  <1>8. CASE KsleepAvisa
    BY <1>0, <1>8, FichasIguales DEF KsleepAvisa, Post, Semaforos, PostSiHayReady
  <1>9. CASE KwaitSigue
    BY <1>0, <1>9, FichasIguales DEF KwaitSigue, Semaforos
  <1>10. CASE KwaitBloquea
    BY <1>0, <1>10, FichasIguales DEF KwaitBloquea, Post, Semaforos, PostSiHayReady
  <1>11. CASE KwaitToma
    BY <1>0, <1>11, FichasIguales DEF KwaitToma, Post, Semaforos
  <1>12. CASE KsignalMira
    BY <1>0, <1>12, FichasIguales DEF KsignalMira, Post, Semaforos
  <1>13. CASE LiberarAvisa
    BY <1>0, <1>13, FichasIguales DEF LiberarAvisa, Post, Semaforos, PostSiHayReady
  <1>14. CASE SalidaAvisa
    BY <1>0, <1>14, FichasIguales DEF SalidaAvisa, Post, Semaforos, PostSiHayReady
  <1>15. CASE SleeperAvisa
    BY <1>0, <1>15, FichasIguales DEF SleeperAvisa, Post, Semaforos
  <1>16. CASE PfArranca
    BY <1>0, <1>16, FichasIguales DEF PfArranca, Post, Semaforos
  <1>17. CASE PfAvisa
    BY <1>0, <1>17, FichasIguales DEF PfAvisa, Post, Semaforos
  <1>18. CASE FsRecibe
    BY <1>0, <1>18, FichasIguales DEF FsRecibe, Semaforos
  <1>19. CASE FsAvisa
    BY <1>0, <1>19, FichasIguales DEF FsAvisa, Post, Semaforos
  <1>20. CASE AdmisionAcepta
    BY <1>0, <1>20, FichasIguales DEF AdmisionAcepta, Agregar
  <1>21. CASE AdmisionDetiene
    BY <1>0, <1>21, FichasIguales DEF AdmisionDetiene, Agregar
  <1>22. CASE ExecElige
    BY <1>0, <1>22, FichasIguales DEF ExecElige
  <1>23. CASE ExecDesalojo
    BY <1>0, <1>23, FichasIguales DEF ExecDesalojo, Post, Semaforos, Agregar, SinPrimero
  <1>24. CASE ExecPageFault
    BY <1>0, <1>24, FichasIguales DEF ExecPageFault, SinPrimero
  <1>25. CASE Ksleep
    BY <1>0, <1>25, FichasIguales DEF Ksleep, SinPrimero
  <1>26. CASE KfBloquea
    BY <1>0, <1>26, FichasIguales DEF KfBloquea, Post, Semaforos, SinPrimero
  <1>27. CASE KwaitMira
    BY <1>0, <1>27, FichasIguales DEF KwaitMira, SinPrimero
  <1>28. CASE KsignalListo
    BY <1>0, <1>28, FichasIguales DEF KsignalListo, Post, Semaforos, Agregar
  <1>29. CASE LiberarDespierta
    BY <1>0, <1>29, FichasIguales DEF LiberarDespierta, Agregar
  <1>30. CASE SalidaDestruye
    BY <1>0, <1>30, FichasIguales DEF SalidaDestruye, Agregar, SinPrimero
  <1>31. CASE SleeperDespierta
    BY <1>0, <1>31, FichasIguales DEF SleeperDespierta, Agregar
  <1>32. CASE SleeperSigue
    BY <1>0, <1>32, FichasIguales DEF SleeperSigue, Agregar, Semaforos
  <1>33. CASE PfListo
    BY <1>0, <1>33, FichasIguales DEF PfListo, Agregar
  <1>34. CASE FsListo
    BY <1>0, <1>34, FichasIguales DEF FsListo, Agregar
  <1>35. CASE IniciarProceso
    <2>1. /\ Len(cola'["listos"]) = Len(cola["listos"]) + 1 /\ cola'["exit"] = cola["exit"]
      <3>1. cola' = Agregar(cola, "listos", generador_de_id) /\ generador_de_id \in Pid
        BY <1>35 DEF IniciarProceso
      <3>2. cola \in [Listas -> Seq(Pid)] /\ {"listos", "exit"} \subseteq Listas
        BY <1>0 DEF TypeOK, TipoListas, Listas
      <3> QED BY <3>1, <3>2, AgregarLargo
    <2>2. sem'["listos"] = sem["listos"] + 1 /\ sem'["exit"] = sem["exit"]
      BY <1>0, <1>35 DEF IniciarProceso, Post, Semaforos
    <2> QED BY <2>1, <2>2 DEF ColasConFicha
  <1>36. CASE AdmisionToma
    <2>1. Len(cola'["listos"]) = Len(cola["listos"]) - 1 /\ cola'["exit"] = cola["exit"]
      BY <1>0, <1>36 DEF AdmisionToma, SinPrimero
    <2>2. sem'["listos"] = sem["listos"] - 1 /\ sem'["exit"] = sem["exit"]
      BY <1>0, <1>36 DEF AdmisionToma, Semaforos
    <2> QED BY <2>1, <2>2 DEF ColasConFicha
  <1>37. CASE SalidaToma
    <2>1. /\ cola'["listos"] = cola["listos"]
          /\ \/ cola["exit"] = <<>> /\ cola'["exit"] = cola["exit"]
             \/ cola["exit"] # <<>> /\ Len(cola'["exit"]) = Len(cola["exit"]) - 1
      BY <1>0, <1>37 DEF SalidaToma, SinPrimero
    <2>2. sem'["listos"] = sem["listos"] /\ sem'["exit"] = sem["exit"] - 1 /\ sem["exit"] > 0
      BY <1>0, <1>37 DEF SalidaToma, Semaforos
    <2> QED BY <1>0, <2>1, <2>2 DEF ColasConFicha
  <1>38. CASE Kexit \/ KsignalInexistente \/ KwaitInexistente \/ KsignalAjeno \/ KfWriteLector
    <2>1. pcbelegido \in Pid /\
          (KwaitInexistente \/ KsignalAjeno \/ KfWriteLector => cola["exec"] # <<>>)
      BY <1>38, PunterosPid DEF Kexit, KsignalInexistente, KwaitInexistente, KsignalAjeno,
         KfWriteLector, PasosConExec
    <2>2. /\ \E c \in {cola, SinPrimero(cola, "exec")} : cola' = Agregar(c, "exit", pcbelegido)
          /\ \/ KwaitInexistente \/ KsignalAjeno \/ KfWriteLector
             \/ cola' = Agregar(cola, "exit", pcbelegido)
      BY <1>38 DEF Kexit, KsignalInexistente, KwaitInexistente, KsignalAjeno, KfWriteLector,
         AlExit
    <2>3. PICK c \in [Listas -> Seq(Pid)] :
            /\ cola' = Agregar(c, "exit", pcbelegido)
            /\ c["listos"] = cola["listos"] /\ c["exit"] = cola["exit"]
      BY <1>0, <2>1, <2>2, SinPrimeroTipo DEF SinPrimero
    <2>4. cola'["listos"] = cola["listos"] /\ Len(cola'["exit"]) = Len(cola["exit"]) + 1
      <3>1. "exit" \in Listas /\ "listos" \in Listas \ {"exit"}
        BY <1>0
      <3>2. /\ Len(Agregar(c, "exit", pcbelegido)["exit"]) = Len(c["exit"]) + 1
            /\ Agregar(c, "exit", pcbelegido)["listos"] = c["listos"]
        BY <2>1, <3>1, AgregarLargo
      <3> QED BY <2>3, <3>2
    <2>5. sem'["listos"] = sem["listos"] /\ \E k \in {1, 2} : sem'["exit"] = sem["exit"] + k
      <3>1. CASE KsignalAjeno
        BY <1>0, <3>1 DEF KsignalAjeno, Semaforos
      <3>2. CASE ~KsignalAjeno
        <4>1. sem' = Post({"exit"})
          BY <1>38, <3>2 DEF Kexit, KsignalInexistente, KwaitInexistente, KfWriteLector
        <4> QED BY <1>0, <4>1 DEF Post, Semaforos
      <3> QED BY <3>1, <3>2
    <2> QED BY <1>0, <2>4, <2>5 DEF ColasConFicha
  <1>49. CASE KfOpenPide
    BY <1>0, <1>49, FichasIguales DEF KfOpenPide, Post, Semaforos
  <1>50. CASE KfOpenCrea
    BY <1>0, <1>50, FichasIguales DEF KfOpenCrea, Post, Semaforos
  <1>51. CASE KfOpenEspera
    BY <1>0, <1>51, FichasIguales DEF KfOpenEspera, Post, Semaforos, SinPrimero, PostSiHayReady
  <1>52. CASE KfCloseAbre
    BY <1>0, <1>52, FichasIguales DEF KfCloseAbre, Agregar
  <1>53. CASE FsAbre
    BY <1>0, <1>53, FichasIguales DEF FsAbre, Semaforos
  <1>39. CASE Consola
    BY <1>1, <1>2, <1>35, <1>39 DEF Consola
  <1>40. CASE Admision
    BY <1>3, <1>20, <1>21, <1>36, <1>40 DEF Admision
  <1>41. CASE Despacho
    BY <1>1, <1>4, <1>5, <1>22, <1>41 DEF Despacho
  <1>42. CASE Cpu
    BY <1>1, <1>23, <1>24, <1>42 DEF Cpu
  <1>43. CASE Llamadas
    BY <1>1, <1>6, <1>7, <1>8, <1>9, <1>10, <1>11, <1>12, <1>25, <1>26, <1>27, <1>28,
       <1>38, <1>43, <1>49, <1>50, <1>51, <1>52 DEF Llamadas
  <1>44. CASE Liberacion
    BY <1>1, <1>13, <1>29, <1>44 DEF Liberacion
  <1>45. CASE Salida
    BY <1>14, <1>30, <1>37, <1>44, <1>45 DEF Salida
  <1>46. CASE Sleepers
    BY <1>15, <1>31, <1>32, <1>46 DEF Sleepers
  <1>47. CASE PageFaults
    BY <1>1, <1>16, <1>17, <1>33, <1>47 DEF PageFaults
  <1>48. CASE OpFS
    BY <1>1, <1>18, <1>19, <1>34, <1>48, <1>53 DEF OpFS
  <1> QED BY <1>1, <1>39, <1>40, <1>41, <1>42, <1>43, <1>45, <1>46, <1>47, <1>48 DEF Next

\* Every process in cola_listos_para_ready has exactly one sem_post of its own that ready_pcb
\* has not taken, and every process in cola_exit at least one that exit_pcb has not: neither
\* thread can sleep while somebody waits for it.
THEOREM FichasCorrectas == Spec => []ColasConFicha
  <1>1. Init => ColasConFicha
    BY DEF Init, ColasConFicha, Listas, Semaforos
  <1>2. TypeOK /\ PunterosValidos /\ ColasConFicha /\ [Next]_vars => ColasConFicha'
    BY PasoFichas DEF ColasConFicha, vars
  <1> QED BY <1>1, <1>2, TipoYPunteros, PTL DEF Spec
=============================================================================

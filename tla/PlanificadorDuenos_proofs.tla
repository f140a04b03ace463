---------------------- MODULE PlanificadorDuenos_proofs ----------------------
(***************************************************************************)
(* Proofs about Planificador for every number of processes and resources,  *)
(* every program and every algorithm: who has each PCB (UnSoloDueno), that *)
(* only exec_pcb's test of a freed PCB and an entry of an open file that   *)
(* leaves the table with its queue lose one (NadieSePierde), whom          *)
(* elegir_pcb_segun_algoritmo finds (ElegirConAlguien) and who wakes       *)
(* exec_pcb (VaradosSonNuevos).                                            *)
(***************************************************************************)
EXTENDS Planificador_proofs

-----------------------------------------------------------------------------
(* Who has each PCB *)

Lugares == Colas \cup (Punteros \X {0})

\* The PCBs in a list, and the ones a place has.
Contenido(s) == {s[i] : i \in DOMAIN s}

Hay(c) == IF c \in Colas THEN Contenido(Cola(c)) ELSE {p \in Pid : Apunta(c[1], p)}

ConDueno == {p \in Pid : \E c \in Lugares : p \in Hay(c)}

\* UnSoloDueno, place by place.
SinCompartir ==
  /\ \A c, d \in Lugares : c # d => Hay(c) \cap Hay(d) = {}
  /\ \A c \in Colas : IsInjective(Cola(c))

\* The pointers of a thread are only set while it works on them: what they have is neither
\* overwritten nor forgotten.
Huecos ==
  /\ exec.paso # "signal_listo" => exec.hijo = Nada
  /\ admision.paso # "contar" => admision.pcb = Nada
  /\ salida.paso \in {"sem", "avisar"} => salida.pcb = Nada
  /\ salida.paso \notin {"restar", "despertar"} => salida.hijo = Nada
  /\ salida.paso \notin {"vaciar", "vaciar_pop", "rellenar"} => salida.aux = <<>>
  /\ fs.paso # "listo" => fs.pcb = Nada

\* What exec_pcb has at each step, and what it will find when it goes back to its loop.
Turno ==
  /\ exec.paso \in PasosConPcb \ {"cpu"} =>
       proceso_en_ejecucion = pcbelegido /\ pcb[pcbelegido].motivo = "SYSCALL"
  /\ exec.paso \in {"sleep_detenido", "sleep_avisar"} => proceso_en_ejecucion = Nada
  /\ exec.paso \in {"sem", "elegir", "basura"} /\ proceso_en_ejecucion # Nada
       /\ pcb[proceso_en_ejecucion].motivo # "SYSCALL"
     => proceso_en_ejecucion \in Contenido(cola["ready"])
  /\ exec.paso = "basura" /\ proceso_en_ejecucion # Nada =>
       pcb[proceso_en_ejecucion].motivo # "SYSCALL"
  /\ exec.paso = "elegir" /\ proceso_en_ejecucion = Nada => HayReady
  /\ exec.paso = "fs_bloquear" =>
       \E l \in {"ready", "fs_pedido", "fs_respuestas", "fs"} : pcbelegido \in Hay(<<l, 0>>)
  /\ \A p \in Pid : EnCpu(p) => ~EsBasura(p)
  /\ proceso_en_ejecucion # Nada => ~EsBasura(proceso_en_ejecucion)
  /\ caido # "lista_vacia"

\* Who was created has an owner until it is destroyed or lost with an entry of the open
\* files, and nobody else.
Vivos ==
  /\ \A p \in ConDueno : p < generador_de_id
  /\ \A p \in Pid :
       p < generador_de_id /\ pcb[p].estado # "DESTRUIDO" /\ ~EsBasura(p) /\ p \notin perdidos =>
         p \in ConDueno

Duenez == SinCompartir /\ Huecos /\ Turno /\ Vivos

-----------------------------------------------------------------------------
(* The places *)

Cuatro == {"listos", "ready", "detenidos", "exit"}

\* What each place is, before and after a step.
LEMMA SitiosCola ==
  /\ \A l \in Cuatro : /\ <<l, 0>> \in Colas /\ Cola(<<l, 0>>) = cola[l] /\ Cola(<<l, 0>>)' = cola'[l]
                       /\ Hay(<<l, 0>>) = Contenido(cola[l]) /\ Hay(<<l, 0>>)' = Contenido(cola'[l])
  /\ \A r \in Recursos :
       /\ <<"recurso", r>> \in Colas
       /\ Cola(<<"recurso", r>>) = colabloqueado[r] /\ Cola(<<"recurso", r>>)' = colabloqueado'[r]
       /\ Hay(<<"recurso", r>>) = Contenido(colabloqueado[r])
       /\ Hay(<<"recurso", r>>)' = Contenido(colabloqueado'[r])
  /\ /\ <<"aux", 0>> \in Colas /\ Cola(<<"aux", 0>>) = salida.aux /\ Cola(<<"aux", 0>>)' = salida'.aux
     /\ Hay(<<"aux", 0>>) = Contenido(salida.aux) /\ Hay(<<"aux", 0>>)' = Contenido(salida'.aux)
  <1>1. ASSUME NEW l \in Cuatro
        PROVE  <<l, 0>> \in Colas /\ Cola(<<l, 0>>) = cola[l] /\ Cola(<<l, 0>>)' = cola'[l]
    BY DEF Cuatro, Colas, Cola, Listas
  <1>2. ASSUME NEW r \in Recursos
        PROVE  /\ <<"recurso", r>> \in Colas
               /\ Cola(<<"recurso", r>>) = colabloqueado[r] /\ Cola(<<"recurso", r>>)' = colabloqueado'[r]
    BY DEF Colas, Cola, Listas
  <1>3. <<"aux", 0>> \in Colas /\ Cola(<<"aux", 0>>) = salida.aux /\ Cola(<<"aux", 0>>)' = salida'.aux
    BY DEF Colas, Cola, Listas
  <1> QED BY <1>1, <1>2, <1>3 DEF Hay

\* The lists of answers and of requests to memoria.
LEMMA SitiosPf ==
  /\ /\ <<"pf_pedidos", 0>> \in Colas
     /\ Cola(<<"pf_pedidos", 0>>) = pf.pedidos /\ Cola(<<"pf_pedidos", 0>>)' = pf'.pedidos
     /\ Hay(<<"pf_pedidos", 0>>) = Contenido(pf.pedidos)
     /\ Hay(<<"pf_pedidos", 0>>)' = Contenido(pf'.pedidos)
  /\ /\ <<"pf_respuestas", 0>> \in Colas
     /\ Cola(<<"pf_respuestas", 0>>) = pf.respuestas /\ Cola(<<"pf_respuestas", 0>>)' = pf'.respuestas
     /\ Hay(<<"pf_respuestas", 0>>) = Contenido(pf.respuestas)
     /\ Hay(<<"pf_respuestas", 0>>)' = Contenido(pf'.respuestas)
  /\ /\ <<"fs_respuestas", 0>> \in Colas
     /\ Cola(<<"fs_respuestas", 0>>) = fs.respuestas /\ Cola(<<"fs_respuestas", 0>>)' = fs'.respuestas
     /\ Hay(<<"fs_respuestas", 0>>) = Contenido(fs.respuestas)
     /\ Hay(<<"fs_respuestas", 0>>)' = Contenido(fs'.respuestas)
  <1>1. /\ <<"pf_pedidos", 0>> \in Colas
        /\ Cola(<<"pf_pedidos", 0>>) = pf.pedidos /\ Cola(<<"pf_pedidos", 0>>)' = pf'.pedidos
    BY DEF Colas, Cola, Listas
  <1>2. /\ <<"pf_respuestas", 0>> \in Colas
        /\ Cola(<<"pf_respuestas", 0>>) = pf.respuestas /\ Cola(<<"pf_respuestas", 0>>)' = pf'.respuestas
    BY DEF Colas, Cola, Listas
  <1>3. /\ <<"fs_respuestas", 0>> \in Colas
        /\ Cola(<<"fs_respuestas", 0>>) = fs.respuestas /\ Cola(<<"fs_respuestas", 0>>)' = fs'.respuestas
    BY DEF Colas, Cola, Listas
  <1> QED BY <1>1, <1>2, <1>3 DEF Hay

\* The pointers of the threads.
LEMMA SitiosPuntero ==
  /\ \A l \in Punteros : /\ <<l, 0>> \notin Colas /\ <<l, 0>> \in Lugares
                         /\ Hay(<<l, 0>>) = {p \in Pid : Apunta(l, p)}
                         /\ Hay(<<l, 0>>)' = {p \in Pid : Apunta(l, p)'}
  /\ Colas \subseteq Lugares
  BY DEF Lugares, Punteros, Colas, Hay

\* The pointers that have one PCB at most.
LEMMA SitiosHilos ==
  /\ Hay(<<"cpu", 0>>) = {p \in Pid : EnCpu(p)} /\ Hay(<<"cpu", 0>>)' = {p \in Pid : EnCpu(p)'}
  /\ Hay(<<"signal", 0>>) = {p \in Pid : exec.hijo = p}
  /\ Hay(<<"signal", 0>>)' = {p \in Pid : exec'.hijo = p}
  /\ Hay(<<"admision", 0>>) = {p \in Pid : admision.pcb = p}
  /\ Hay(<<"admision", 0>>)' = {p \in Pid : admision'.pcb = p}
  /\ Hay(<<"salida", 0>>) = {p \in Pid : salida.pcb = p}
  /\ Hay(<<"salida", 0>>)' = {p \in Pid : salida'.pcb = p}
  /\ Hay(<<"desbloqueado", 0>>) = {p \in Pid : salida.hijo = p}
  /\ Hay(<<"desbloqueado", 0>>)' = {p \in Pid : salida'.hijo = p}
  /\ Hay(<<"fs", 0>>) = {p \in Pid : fs.pcb = p} /\ Hay(<<"fs", 0>>)' = {p \in Pid : fs'.pcb = p}
  BY SitiosPuntero DEF Punteros, Apunta

\* The threads and requests that are sets.
LEMMA SitiosEspera ==
  /\ Hay(<<"durmiendo", 0>>) = Pid \cap sleepers.durmiendo
  /\ Hay(<<"durmiendo", 0>>)' = Pid \cap sleepers'.durmiendo
  /\ Hay(<<"sueno_detenido", 0>>) = Pid \cap sleepers.detenidos
  /\ Hay(<<"sueno_detenido", 0>>)' = Pid \cap sleepers'.detenidos
  /\ Hay(<<"pf_nuevo", 0>>) = Pid \cap pf.nuevos /\ Hay(<<"pf_nuevo", 0>>)' = Pid \cap pf'.nuevos
  /\ Hay(<<"pf_pedir", 0>>) = Pid \cap pf.pedir /\ Hay(<<"pf_pedir", 0>>)' = Pid \cap pf'.pedir
  /\ Hay(<<"pf_resuelto", 0>>) = Pid \cap pf.resueltos
  /\ Hay(<<"pf_resuelto", 0>>)' = Pid \cap pf'.resueltos
  /\ Hay(<<"fs_pedido", 0>>) = Pid \cap fs.pedidos /\ Hay(<<"fs_pedido", 0>>)' = Pid \cap fs'.pedidos
  /\ Hay(<<"archivo", 0>>) = Pid \cap espera_archivo
  /\ Hay(<<"archivo", 0>>)' = Pid \cap espera_archivo'
  BY SitiosPuntero DEF Punteros, Apunta

\* Every place is one of these.
LEMMA SitiosTodos ==
  ASSUME NEW c \in Lugares
  PROVE  \/ \E l \in Cuatro : c = <<l, 0>>
         \/ \E r \in Recursos : c = <<"recurso", r>>
         \/ c = <<"aux", 0>> \/ c = <<"pf_pedidos", 0>> \/ c = <<"pf_respuestas", 0>>
         \/ c = <<"fs_respuestas", 0>>
         \/ c = <<"cpu", 0>> \/ c = <<"signal", 0>> \/ c = <<"admision", 0>> \/ c = <<"salida", 0>>
         \/ c = <<"desbloqueado", 0>> \/ c = <<"durmiendo", 0>> \/ c = <<"sueno_detenido", 0>>
         \/ c = <<"pf_nuevo", 0>> \/ c = <<"pf_pedir", 0>> \/ c = <<"pf_resuelto", 0>>
         \/ c = <<"fs_pedido", 0>> \/ c = <<"fs", 0>> \/ c = <<"archivo", 0>>
  <1>1. CASE c \in Colas
    BY <1>1 DEF Colas, Cuatro
  <1>2. CASE c \in Punteros \X {0}
    BY <1>2 DEF Punteros
  <1> QED BY <1>1, <1>2 DEF Lugares

\* A step leaves a place as it was.
Igual(c) == Hay(c)' = Hay(c) /\ (c \in Colas => Cola(c)' = Cola(c))

\* A step leaves alone the variables of every place that is not in S.
FueraDe(S) ==
  /\ \A l \in Cuatro : <<l, 0>> \in S \/ cola'[l] = cola[l]
  /\ \A r \in Recursos : <<"recurso", r>> \in S \/ colabloqueado'[r] = colabloqueado[r]
  /\ <<"cpu", 0>> \in S \/ \A p \in Pid : EnCpu(p)' <=> EnCpu(p)
  /\ <<"signal", 0>> \in S \/ exec'.hijo = exec.hijo
  /\ <<"admision", 0>> \in S \/ admision'.pcb = admision.pcb
  /\ <<"archivo", 0>> \in S \/ espera_archivo' = espera_archivo
  /\ \/ UNCHANGED salida
     \/ /\ <<"aux", 0>> \in S \/ salida'.aux = salida.aux
        /\ <<"salida", 0>> \in S \/ salida'.pcb = salida.pcb
        /\ <<"desbloqueado", 0>> \in S \/ salida'.hijo = salida.hijo
  /\ \/ UNCHANGED sleepers
     \/ /\ <<"durmiendo", 0>> \in S \/ sleepers'.durmiendo = sleepers.durmiendo
        /\ <<"sueno_detenido", 0>> \in S \/ sleepers'.detenidos = sleepers.detenidos
  /\ \/ UNCHANGED pf
     \/ /\ <<"pf_nuevo", 0>> \in S \/ pf'.nuevos = pf.nuevos
        /\ <<"pf_pedir", 0>> \in S \/ pf'.pedir = pf.pedir
        /\ <<"pf_pedidos", 0>> \in S \/ pf'.pedidos = pf.pedidos
        /\ <<"pf_respuestas", 0>> \in S \/ pf'.respuestas = pf.respuestas
        /\ <<"pf_resuelto", 0>> \in S \/ pf'.resueltos = pf.resueltos
  /\ \/ UNCHANGED fs
     \/ /\ <<"fs_pedido", 0>> \in S \/ fs'.pedidos = fs.pedidos
        /\ <<"fs_respuestas", 0>> \in S \/ fs'.respuestas = fs.respuestas
        /\ <<"fs", 0>> \in S \/ fs'.pcb = fs.pcb

\* What a step that leaves the variables of a place alone does to it.
LEMMA Fuera ==
  ASSUME NEW S, FueraDe(S), NEW c \in Lugares, c \notin S
  PROVE  Igual(c)
  <1>1. ASSUME NEW l \in Cuatro, c = <<l, 0>> PROVE Igual(c)
    BY <1>1, SitiosCola DEF FueraDe, Igual
  <1>2. ASSUME NEW r \in Recursos, c = <<"recurso", r>> PROVE Igual(c)
    BY <1>2, SitiosCola DEF FueraDe, Igual
  <1>3. CASE c = <<"aux", 0>>
    BY <1>3, SitiosCola DEF FueraDe, Igual
  <1>4. CASE c = <<"pf_pedidos", 0>> \/ c = <<"pf_respuestas", 0>> \/ c = <<"fs_respuestas", 0>>
    BY <1>4, SitiosPf DEF FueraDe, Igual
  <1>5. ASSUME NEW l \in Punteros, c = <<l, 0>> PROVE c \notin Colas
    BY <1>5, SitiosPuntero
  <1>6. CASE \/ c = <<"cpu", 0>> \/ c = <<"signal", 0>> \/ c = <<"admision", 0>> \/ c = <<"salida", 0>>
             \/ c = <<"desbloqueado", 0>> \/ c = <<"fs", 0>>
    <2>1. c \notin Colas
      BY <1>5, <1>6 DEF Punteros
    <2>2. CASE c = <<"cpu", 0>>
      <3>1. \A p \in Pid : EnCpu(p)' <=> EnCpu(p)
        BY <2>2 DEF FueraDe
      <3>2. {p \in Pid : EnCpu(p)'} = {p \in Pid : EnCpu(p)}
        BY <3>1
      <3> QED BY <2>1, <2>2, <3>2, SitiosHilos DEF Igual
    <2>3. CASE c = <<"signal", 0>> \/ c = <<"admision", 0>> \/ c = <<"fs", 0>>
      <3>1. /\ c = <<"signal", 0>> => exec'.hijo = exec.hijo
            /\ c = <<"admision", 0>> => admision'.pcb = admision.pcb
            /\ c = <<"fs", 0>> => fs'.pcb = fs.pcb
        BY DEF FueraDe
      <3>2. Hay(c)' = Hay(c)
        BY <2>3, <3>1, SitiosHilos
      <3> QED BY <2>1, <3>2 DEF Igual
    <2>4. CASE c = <<"salida", 0>> \/ c = <<"desbloqueado", 0>>
      <3>1. /\ c = <<"salida", 0>> => salida'.pcb = salida.pcb
            /\ c = <<"desbloqueado", 0>> => salida'.hijo = salida.hijo
        BY DEF FueraDe
      <3>2. Hay(c)' = Hay(c)
        BY <2>4, <3>1, SitiosHilos
      <3> QED BY <2>1, <3>2 DEF Igual
    <2> QED BY <1>6, <2>2, <2>3, <2>4
  <1>7. CASE \/ c = <<"durmiendo", 0>> \/ c = <<"sueno_detenido", 0>> \/ c = <<"pf_nuevo", 0>>
             \/ c = <<"pf_pedir", 0>> \/ c = <<"pf_resuelto", 0>> \/ c = <<"fs_pedido", 0>>
             \/ c = <<"archivo", 0>>
    <2>1. c \notin Colas
      BY <1>5, <1>7 DEF Punteros
    <2> QED BY <1>7, <2>1, SitiosEspera DEF FueraDe, Igual
  <1> QED BY <1>1, <1>2, <1>3, <1>4, <1>6, <1>7, SitiosTodos

\* The lists that places name hold pids.
LEMMA ColaTipo ==
  ASSUME TypeOK, NEW c \in Colas
  PROVE  Cola(c) \in Seq(Pid)
  <1>1. c \in Lugares
    BY DEF Lugares
  <1>2. ASSUME NEW l \in Punteros PROVE c # <<l, 0>>
    BY SitiosPuntero
  <1>3. ASSUME NEW l \in Cuatro, c = <<l, 0>> PROVE Cola(c) \in Seq(Pid)
    BY <1>3, SitiosCola, ListasTipo DEF Cuatro, Listas, TypeOK
  <1>4. ASSUME NEW r \in Recursos, c = <<"recurso", r>> PROVE Cola(c) \in Seq(Pid)
    BY <1>4, SitiosCola, ListasTipo DEF TypeOK
  <1>5. CASE \/ c = <<"aux", 0>> \/ c = <<"pf_pedidos", 0>> \/ c = <<"pf_respuestas", 0>>
             \/ c = <<"fs_respuestas", 0>>
    BY <1>5, SitiosCola, SitiosPf DEF TypeOK, TipoSalida, TipoPf, TipoFs
  <1> QED BY <1>1, <1>2, <1>3, <1>4, <1>5, SitiosTodos DEF Punteros

\* What a place has is a pid.
LEMMA HayPid ==
  ASSUME TypeOK, NEW c
  PROVE  Hay(c) \subseteq Pid
  BY ColaTipo DEF Hay, Contenido

-----------------------------------------------------------------------------
(* How a PCB moves *)

\* Taking the head of a list that has nobody twice, and adding at its end.
LEMMA Contenidos ==
  ASSUME NEW s \in Seq(Pid), IsInjective(s)
  PROVE  /\ Contenido(s) \subseteq Pid
         /\ s # <<>> => /\ Head(s) \in Contenido(s) /\ Head(s) \in Pid
                        /\ Contenido(Tail(s)) = Contenido(s) \ {Head(s)} /\ IsInjective(Tail(s))
         /\ \A p \in Pid : /\ Contenido(Append(s, p)) = Contenido(s) \cup {p}
                           /\ p \notin Contenido(s) => IsInjective(Append(s, p))
  <1>1. Contenido(s) \subseteq Pid
    BY DEF Contenido
  <1>2. ASSUME s # <<>>
        PROVE  /\ Head(s) \in Contenido(s) /\ Head(s) \in Pid
               /\ Contenido(Tail(s)) = Contenido(s) \ {Head(s)} /\ IsInjective(Tail(s))
    <2>1. /\ Len(s) \in Nat /\ Len(s) >= 1 /\ Head(s) = s[1] /\ s[1] \in Pid
          /\ DOMAIN Tail(s) = 1 .. Len(s) - 1 /\ DOMAIN s = 1 .. Len(s)
          /\ \A i \in 1 .. Len(s) - 1 : Tail(s)[i] = s[i + 1]
      BY <1>2
    <2>2. \A i, j \in 1 .. Len(s) : s[i] = s[j] => i = j
      BY <2>1 DEF IsInjective
    <2>3. IsInjective(Tail(s))
      BY <2>1, <2>2 DEF IsInjective
    <2>4. ASSUME NEW p \in Contenido(Tail(s)) PROVE p \in Contenido(s) \ {Head(s)}
      <3>1. PICK i \in 1 .. Len(s) - 1 : p = s[i + 1]
        BY <2>1 DEF Contenido
      <3> QED BY <2>1, <2>2, <3>1 DEF Contenido
    <2>5. ASSUME NEW p \in Contenido(s), p # Head(s) PROVE p \in Contenido(Tail(s))
      <3>1. PICK i \in 1 .. Len(s) : p = s[i]
        BY <2>1 DEF Contenido
      <3>2. i - 1 \in 1 .. Len(s) - 1 /\ Tail(s)[i - 1] = p
        BY <2>1, <2>5, <3>1
      <3> QED BY <2>1, <3>2 DEF Contenido
    <2>6. Head(s) \in Contenido(s) /\ Head(s) \in Pid
      BY <2>1 DEF Contenido
    <2>7. Contenido(Tail(s)) = Contenido(s) \ {Head(s)}
      BY <2>4, <2>5
    <2> QED BY <2>3, <2>6, <2>7
  <1>3. ASSUME NEW p \in Pid
        PROVE  /\ Contenido(Append(s, p)) = Contenido(s) \cup {p}
               /\ p \notin Contenido(s) => IsInjective(Append(s, p))
    <2>1. /\ Len(s) \in Nat /\ DOMAIN s = 1 .. Len(s) /\ DOMAIN Append(s, p) = 1 .. Len(s) + 1
          /\ Append(s, p)[Len(s) + 1] = p /\ \A i \in 1 .. Len(s) : Append(s, p)[i] = s[i]
      OBVIOUS
    <2> DEFINE t == Append(s, p)
    <2> HIDE DEF t
    <2>2. Contenido(t) = Contenido(s) \cup {p}
      BY <2>1 DEF Contenido, t
    <2>3. p \notin Contenido(s) => IsInjective(t)
      BY <2>1 DEF Contenido, IsInjective, t
    <2> QED BY <2>2, <2>3 DEF t
  <1> QED BY <1>1, <1>2, <1>3

\* A PCB leaves a place: the head of a list, or what a thread has.
Sale(c, p) ==
  IF c \in Colas THEN Cola(c) # <<>> /\ p = Head(Cola(c)) /\ Cola(c)' = Tail(Cola(c))
  ELSE p \in Hay(c) /\ Hay(c)' = Hay(c) \ {p}

\* It enters a place: at the end of a list, or a thread has it.
Entra(c, p) ==
  IF c \in Colas THEN Cola(c)' = Append(Cola(c), p) ELSE Hay(c)' = Hay(c) \cup {p}

\* Nobody's owner changes.
Pasa == SinCompartir' /\ ConDueno' = ConDueno

\* What leaves a place is not in it any more.
LEMMA SaleEs ==
  ASSUME TypeOK, SinCompartir, NEW c \in Lugares, NEW p, Sale(c, p)
  PROVE  /\ p \in Hay(c) /\ p \in Pid /\ Hay(c)' = Hay(c) \ {p}
         /\ c \in Colas => IsInjective(Cola(c)')
  <1>1. CASE c \in Colas
    <2>1. Cola(c) \in Seq(Pid) /\ IsInjective(Cola(c))
      BY <1>1, ColaTipo DEF SinCompartir
    <2>2. Hay(c) = Contenido(Cola(c)) /\ Hay(c)' = Contenido(Cola(c)')
      BY <1>1 DEF Hay
    <2> QED BY <1>1, <2>1, <2>2, Contenidos DEF Sale
  <1>2. CASE c \notin Colas
    BY <1>2, HayPid DEF Sale
  <1> QED BY <1>1, <1>2

\* What enters a place is in it, and not twice.
LEMMA EntraEs ==
  ASSUME TypeOK, SinCompartir, NEW c \in Lugares, NEW p \in Pid, p \notin Hay(c), Entra(c, p)
  PROVE  /\ Hay(c)' = Hay(c) \cup {p}
         /\ c \in Colas => IsInjective(Cola(c)')
  <1>1. CASE c \in Colas
    <2>1. Cola(c) \in Seq(Pid) /\ IsInjective(Cola(c))
      BY <1>1, ColaTipo DEF SinCompartir
    <2>2. Hay(c) = Contenido(Cola(c)) /\ Hay(c)' = Contenido(Cola(c)')
      BY <1>1 DEF Hay
    <2>3. /\ Contenido(Append(Cola(c), p)) = Contenido(Cola(c)) \cup {p}
          /\ p \notin Contenido(Cola(c)) => IsInjective(Append(Cola(c), p))
      BY <2>1, Contenidos
    <2>4. Cola(c)' = Append(Cola(c), p)
      BY <1>1 DEF Entra
    <2> QED BY <2>2, <2>3, <2>4
  <1>2. CASE c \notin Colas
    BY <1>2 DEF Entra
  <1> QED BY <1>1, <1>2

\* A PCB is not in a place any more.
Deja(c, p) ==
  /\ p \in Hay(c) /\ p \in Pid /\ Hay(c)' = Hay(c) \ {p}
  /\ c \in Colas => IsInjective(Cola(c)')

\* A PCB moves from one place to another, and nothing else moves.
LEMMA MudaDe ==
  ASSUME TypeOK, SinCompartir, NEW a \in Lugares, NEW b \in Lugares, a # b, NEW p, Deja(a, p), Entra(b, p),
         FueraDe({a, b})
  PROVE  Pasa /\ p \in ConDueno
  <1>1. /\ p \in Hay(a) /\ p \in Pid /\ Hay(a)' = Hay(a) \ {p}
        /\ a \in Colas => IsInjective(Cola(a)')
    BY DEF Deja
  <1>2. p \notin Hay(b)
    BY <1>1 DEF SinCompartir
  <1>3. Hay(b)' = Hay(b) \cup {p} /\ (b \in Colas => IsInjective(Cola(b)'))
    BY <1>1, <1>2, EntraEs
  <1>4. \A c \in Lugares : c # a /\ c # b => Igual(c)
    BY Fuera
  <1>5. \A c \in Lugares : c # a /\ c # b => Hay(c)' = Hay(c) /\ p \notin Hay(c)
    BY <1>1, <1>4 DEF Igual, SinCompartir
  <1>6. \A c \in Colas : IsInjective(Cola(c)')
    BY <1>1, <1>3, <1>4 DEF Igual, SinCompartir, Lugares
  <1>7. ASSUME NEW c \in Lugares, NEW d \in Lugares, c # d PROVE Hay(c)' \cap Hay(d)' = {}
    <2>1. Hay(c) \cap Hay(d) = {}
      BY <1>7 DEF SinCompartir
    <2> QED BY <1>1, <1>3, <1>5, <1>7, <2>1
  <1>8. ASSUME NEW q \in Pid
        PROVE (\E c \in Lugares : q \in Hay(c)) <=> \E c \in Lugares : q \in Hay(c)'
    BY <1>1, <1>3, <1>5
  <1> QED BY <1>1, <1>6, <1>7, <1>8 DEF Pasa, SinCompartir, ConDueno

\* The same, for the head of a list or what a thread has.
LEMMA Muda ==
  ASSUME TypeOK, SinCompartir, NEW a \in Lugares, NEW b \in Lugares, a # b, NEW p, Sale(a, p), Entra(b, p),
         FueraDe({a, b})
  PROVE  Pasa /\ p \in ConDueno
  BY SaleEs, MudaDe DEF Deja

\* A PCB that nobody had enters a place.
LEMMA Aparece ==
  ASSUME TypeOK, SinCompartir, NEW b \in Lugares, NEW p \in Pid, p \notin ConDueno,
          Entra(b, p), FueraDe({b})
  PROVE  SinCompartir' /\ ConDueno' = ConDueno \cup {p}
  <1>1. \A c \in Lugares : p \notin Hay(c)
    BY DEF ConDueno
  <1>2. Hay(b)' = Hay(b) \cup {p} /\ (b \in Colas => IsInjective(Cola(b)'))
    BY <1>1, EntraEs
  <1>3. \A c \in Lugares : c # b => Igual(c)
    BY Fuera
  <1>4. \A c \in Colas : IsInjective(Cola(c)')
    BY <1>2, <1>3 DEF Igual, SinCompartir, Lugares
  <1>5. ASSUME NEW c \in Lugares, NEW d \in Lugares, c # d PROVE Hay(c)' \cap Hay(d)' = {}
    <2>1. Hay(c) \cap Hay(d) = {}
      BY <1>5 DEF SinCompartir
    <2> QED BY <1>1, <1>2, <1>3, <1>5, <2>1 DEF Igual
  <1>6. ASSUME NEW q \in Pid
        PROVE (\E c \in Lugares : q \in Hay(c)') <=> q = p \/ \E c \in Lugares : q \in Hay(c)
    BY <1>2, <1>3 DEF Igual
  <1> QED BY <1>4, <1>5, <1>6 DEF SinCompartir, ConDueno

\* A place loses its PCB, which nobody has after that.
LEMMA Desaparece ==
  ASSUME TypeOK, SinCompartir, NEW a \in Lugares, NEW p, Deja(a, p), FueraDe({a})
  PROVE  SinCompartir' /\ ConDueno' = ConDueno \ {p}
  <1>1. /\ p \in Hay(a) /\ p \in Pid /\ Hay(a)' = Hay(a) \ {p}
        /\ a \in Colas => IsInjective(Cola(a)')
    BY DEF Deja
  <1>2. \A c \in Lugares : c # a => Igual(c) /\ p \notin Hay(c)
    BY <1>1, Fuera DEF SinCompartir
  <1>3. \A c \in Colas : IsInjective(Cola(c)')
    BY <1>1, <1>2 DEF Igual, SinCompartir, Lugares
  <1>4. ASSUME NEW c \in Lugares, NEW d \in Lugares, c # d PROVE Hay(c)' \cap Hay(d)' = {}
    <2>1. Hay(c) \cap Hay(d) = {}
      BY <1>4 DEF SinCompartir
    <2> QED BY <1>1, <1>2, <1>4, <2>1 DEF Igual
  <1>5. ASSUME NEW q \in Pid
        PROVE (\E c \in Lugares : q \in Hay(c)') <=> q # p /\ \E c \in Lugares : q \in Hay(c)
    BY <1>1, <1>2 DEF Igual
  <1> QED BY <1>3, <1>4, <1>5 DEF SinCompartir, ConDueno

\* A place keeps the PCBs it has, but for some.
Quedan(c, T) == Hay(c)' = Hay(c) \ T /\ (c \in Colas => IsInjective(Cola(c)'))

\* Some PCBs are lost: they leave their places, and nobody has them after that.
LEMMA SeVan ==
  ASSUME SinCompartir, NEW T, \A c \in Lugares : Quedan(c, T)
  PROVE  SinCompartir' /\ ConDueno' = ConDueno \ T
  <1>1. ASSUME NEW c \in Lugares, NEW d \in Lugares, c # d PROVE Hay(c)' \cap Hay(d)' = {}
    <2>1. Hay(c) \cap Hay(d) = {}
      BY <1>1 DEF SinCompartir
    <2> QED BY <2>1 DEF Quedan
  <1>2. ASSUME NEW q \in Pid
        PROVE (\E c \in Lugares : q \in Hay(c)') <=> q \notin T /\ \E c \in Lugares : q \in Hay(c)
    BY DEF Quedan
  <1>3. \A c \in Colas : IsInjective(Cola(c)')
    BY DEF Lugares, Quedan
  <1> QED BY <1>1, <1>2, <1>3 DEF SinCompartir, ConDueno

\* They do in every place but two, which have none of those.
QuedanSalvo(a, b, T) ==
  /\ T \cap (Hay(a) \cup Hay(b)) = {}
  /\ \A c \in Lugares : c # a /\ c # b => Quedan(c, T)

\* One PCB moves while others are lost.
LEMMA MudaYSeVan ==
  ASSUME TypeOK, SinCompartir, NEW a \in Lugares, NEW b \in Lugares, a # b, NEW p, NEW T,
         Deja(a, p), Entra(b, p), QuedanSalvo(a, b, T)
  PROVE  SinCompartir' /\ ConDueno' = ConDueno \ T /\ p \in ConDueno \ T
  <1>1. /\ p \in Hay(a) /\ p \in Pid /\ Hay(a)' = Hay(a) \ {p}
        /\ a \in Colas => IsInjective(Cola(a)')
    BY DEF Deja
  <1>2. p \notin Hay(b) /\ p \notin T
    BY <1>1 DEF SinCompartir, QuedanSalvo
  <1>3. Hay(b)' = Hay(b) \cup {p} /\ (b \in Colas => IsInjective(Cola(b)'))
    BY <1>1, <1>2, EntraEs
  <1>4. \A c \in Lugares : c # a /\ c # b => Hay(c)' = Hay(c) \ T /\ p \notin Hay(c)
    BY <1>1 DEF SinCompartir, Quedan, QuedanSalvo
  <1>5. \A c \in Colas : IsInjective(Cola(c)')
    BY <1>1, <1>3 DEF Lugares, Quedan, QuedanSalvo
  <1>6. ASSUME NEW c \in Lugares, NEW d \in Lugares, c # d PROVE Hay(c)' \cap Hay(d)' = {}
    <2>1. Hay(c) \cap Hay(d) = {}
      BY <1>6 DEF SinCompartir
    <2> QED BY <1>1, <1>3, <1>4, <1>6, <2>1
  <1>7. ASSUME NEW q \in Pid
        PROVE (\E c \in Lugares : q \in Hay(c)') <=> q \notin T /\ \E c \in Lugares : q \in Hay(c)
    BY <1>1, <1>2, <1>3, <1>4 DEF QuedanSalvo
  <1> QED BY <1>1, <1>2, <1>5, <1>6, <1>7 DEF SinCompartir, ConDueno

\* Nothing moves.
LEMMA NadieMuda ==
  ASSUME SinCompartir, FueraDe({})
  PROVE  Pasa
  <1>1. \A c \in Lugares : Igual(c)
    BY Fuera
  <1> QED BY <1>1 DEF Igual, SinCompartir, ConDueno, Pasa, Lugares

\* list_add to a list that processes wait in, and list_remove of its head.
LEMMA ListaGana ==
  ASSUME TypeOK, NEW l \in Cuatro, NEW p \in Pid,
         cola' = Agregar(cola, l, p) \/ cola' = Agregar(SinPrimero(cola, "exec"), l, p)
  PROVE  Entra(<<l, 0>>, p) /\ \A m \in Cuatro : m # l => cola'[m] = cola[m]
  <1>1. cola'[l] = Append(cola[l], p) /\ \A m \in Cuatro : m # l => cola'[m] = cola[m]
    BY DEF TypeOK, TipoListas, Agregar, SinPrimero, Cuatro, Listas
  <1>2. <<l, 0>> \in Colas /\ Cola(<<l, 0>>) = cola[l] /\ Cola(<<l, 0>>)' = cola'[l]
    BY SitiosCola
  <1> QED BY <1>1, <1>2 DEF Entra

\* list_remove(l, 0).
LEMMA ListaPierde ==
  ASSUME TypeOK, NEW l \in Cuatro, cola[l] # <<>>, cola' = SinPrimero(cola, l)
  PROVE  /\ Sale(<<l, 0>>, Head(cola[l])) /\ Head(cola[l]) \in Pid
         /\ \A m \in Cuatro : m # l => cola'[m] = cola[m]
  <1>1. cola'[l] = Tail(cola[l]) /\ \A m \in Cuatro : m # l => cola'[m] = cola[m]
    BY DEF TypeOK, TipoListas, SinPrimero, Cuatro, Listas
  <1>2. <<l, 0>> \in Colas /\ Cola(<<l, 0>>) = cola[l] /\ Cola(<<l, 0>>)' = cola'[l]
    BY SitiosCola
  <1>3. Head(cola[l]) \in Pid
    BY CabezaTipo, ListasTipo DEF TypeOK, Cuatro, Listas
  <1> QED BY <1>1, <1>2, <1>3 DEF Sale

\* What the places of a thread's pointer gain and lose.
LEMMA PunteroGana ==
  ASSUME NEW l \in Punteros, NEW p \in Pid, \A q \in Pid : ~Apunta(l, q),
         \A q \in Pid : Apunta(l, q)' <=> q = p
  PROVE  Entra(<<l, 0>>, p)
  BY SitiosPuntero DEF Entra

\* A pointer is set to NULL.
LEMMA PunteroPierde ==
  ASSUME NEW l \in Punteros, NEW p \in Pid, \A q \in Pid : Apunta(l, q) <=> q = p,
         \A q \in Pid : ~Apunta(l, q)'
  PROVE  Sale(<<l, 0>>, p)
  BY SitiosPuntero DEF Sale

\* A thread starts with a PCB, or a request goes out.
LEMMA ConjuntoGana ==
  ASSUME NEW l \in Punteros, NEW p \in Pid,
         \A q \in Pid : Apunta(l, q)' <=> Apunta(l, q) \/ q = p
  PROVE  Entra(<<l, 0>>, p)
  BY SitiosPuntero DEF Entra

\* It ends, or is served.
LEMMA ConjuntoPierde ==
  ASSUME NEW l \in Punteros, NEW p \in Pid, Apunta(l, p),
         \A q \in Pid : Apunta(l, q)' <=> Apunta(l, q) /\ q # p
  PROVE  Sale(<<l, 0>>, p)
  BY SitiosPuntero DEF Sale

\* exec_pcb stays where it is, and the reason of the process it remembers stays too.
LEMMA CpuIgual ==
  ASSUME exec'.paso = exec.paso, UNCHANGED <<pcbelegido, proceso_en_ejecucion>>,
         \A q \in Pid : pcb'[q].motivo = pcb[q].motivo
  PROVE  \A q \in Pid : EnCpu(q)' <=> EnCpu(q)
  BY DEF EnCpu

\* The places that actions name.
LEMMA LugaresSon ==
  /\ \A l \in Cuatro : <<l, 0>> \in Lugares
  /\ \A r \in Recursos : <<"recurso", r>> \in Lugares
  /\ <<"aux", 0>> \in Lugares /\ <<"pf_pedidos", 0>> \in Lugares /\ <<"pf_respuestas", 0>> \in Lugares
  /\ <<"fs_respuestas", 0>> \in Lugares /\ \A l \in Punteros : <<l, 0>> \in Lugares
  BY SitiosCola, SitiosPf, SitiosPuntero DEF Lugares

\* ready_pcb.
LEMMA DuenosAdmision ==
  ASSUME TypeOK, PunterosValidos, SinCompartir, Huecos, Admision
  PROVE  Pasa
  <1>1. CASE AdmisionToma
    <2> DEFINE p == Head(cola["listos"])
    <2>1. /\ Sale(<<"listos", 0>>, p) /\ p \in Pid
          /\ \A m \in Cuatro : m # "listos" => cola'[m] = cola[m]
      BY <1>1, ListaPierde DEF AdmisionToma, Cuatro
    <2>2. admision.pcb = Nada /\ admision'.pcb = p
      BY <1>1 DEF AdmisionToma, Huecos
    <2> HIDE DEF p
    <2>3. Entra(<<"admision", 0>>, p)
      BY <2>1, <2>2, PidNoNulo, PunteroGana DEF Punteros, Apunta
    <2>4. \A q \in Pid : EnCpu(q)' <=> EnCpu(q)
      BY <1>1, CpuIgual DEF AdmisionToma, cpuVars
    <2>5. FueraDe({<<"listos", 0>>, <<"admision", 0>>})
      BY <1>1, <2>1, <2>4 DEF FueraDe, AdmisionToma, recursoVars, archivoVars, hilosVars
    <2> QED BY <2>1, <2>3, <2>5, Muda, LugaresSon DEF Cuatro, Punteros
  <1>2. CASE AdmisionAcepta \/ AdmisionDetiene
    <2> DEFINE p == admision.pcb
    <2>1. p \in Pid /\ admision'.pcb = Nada
      BY <1>2, PunterosPid DEF AdmisionAcepta, AdmisionDetiene, TypeOK, TipoAdmision
    <2>2. PICK l \in {"ready", "detenidos"} : cola' = Agregar(cola, l, p)
      BY <1>2 DEF AdmisionAcepta, AdmisionDetiene
    <2>3. \A q \in Pid : EnCpu(q)' <=> EnCpu(q)
      <3>1. \A q \in Pid : pcb'[q].motivo = pcb[q].motivo
        BY <1>2, <2>1, ListoMotivo DEF AdmisionAcepta, AdmisionDetiene, TypeOK, TipoProcesos
      <3> QED BY <1>2, <3>1, CpuIgual DEF AdmisionAcepta, AdmisionDetiene, cpuVars
    <2> HIDE DEF p
    <2>4. Sale(<<"admision", 0>>, p)
      BY <2>1, PidNoNulo, PunteroPierde DEF Punteros, Apunta, p
    <2>5. Entra(<<l, 0>>, p) /\ \A m \in Cuatro : m # l => cola'[m] = cola[m]
      BY <2>1, <2>2, ListaGana DEF Cuatro
    <2>6. FueraDe({<<"admision", 0>>, <<l, 0>>})
      BY <1>2, <2>3, <2>5 DEF FueraDe, AdmisionAcepta, AdmisionDetiene, recursoVars, archivoVars, hilosVars
    <2> QED BY <2>4, <2>5, <2>6, Muda, LugaresSon DEF Cuatro, Punteros
  <1>3. CASE AdmisionAvisa
    <2>1. \A q \in Pid : EnCpu(q)' <=> EnCpu(q)
      BY <1>3, CpuIgual DEF AdmisionAvisa, cpuVars
    <2>2. admision'.pcb = admision.pcb
      BY <1>3 DEF AdmisionAvisa, TypeOK, TipoAdmision
    <2>3. FueraDe({})
      BY <1>3, <2>1, <2>2 DEF FueraDe, AdmisionAvisa, recursoVars, archivoVars, hilosVars
    <2> QED BY <2>3, NadieMuda
  <1> QED BY <1>1, <1>2, <1>3 DEF Admision

\* The sleepers.
LEMMA DuenosSleepers ==
  ASSUME TypeOK, SinCompartir, Sleepers
  PROVE  Pasa
  <1>0. \A q \in Pid : EnCpu(q)' <=> EnCpu(q)
    BY CpuIgual DEF Sleepers, SleeperDespierta, SleeperSigue, SleeperAvisa, cpuVars
  <1>1. CASE SleeperDespierta
    <2>1. PICK p \in sleepers.durmiendo :
            IF frenado
            THEN /\ sleepers' = [sleepers EXCEPT !.durmiendo = @ \ {p}, !.detenidos = @ \cup {p}]
                 /\ UNCHANGED cola
            ELSE /\ sleepers' = [sleepers EXCEPT !.durmiendo = @ \ {p}, !.avisos = @ + 1]
                 /\ cola' = Agregar(cola, "ready", p)
      BY <1>1 DEF SleeperDespierta
    <2>2. p \in Pid /\ sleepers'.durmiendo = sleepers.durmiendo \ {p}
      BY <2>1 DEF TypeOK, TipoSleepers
    <2>3. Sale(<<"durmiendo", 0>>, p)
      BY <2>1, <2>2, ConjuntoPierde DEF Punteros, Apunta
    <2>4. CASE frenado
      <3>1. sleepers'.detenidos = sleepers.detenidos \cup {p} /\ UNCHANGED cola
        BY <2>1, <2>4 DEF TypeOK, TipoSleepers
      <3>2. Entra(<<"sueno_detenido", 0>>, p)
        BY <2>2, <3>1, ConjuntoGana DEF Punteros, Apunta
      <3>3. FueraDe({<<"durmiendo", 0>>, <<"sueno_detenido", 0>>})
        BY <1>0, <1>1, <3>1 DEF FueraDe, SleeperDespierta, recursoVars, archivoVars
      <3> QED BY <2>3, <3>2, <3>3, Muda, LugaresSon DEF Punteros
    <2>5. CASE ~frenado
      <3>1. sleepers'.detenidos = sleepers.detenidos /\ cola' = Agregar(cola, "ready", p)
        BY <2>1, <2>5 DEF TypeOK, TipoSleepers
      <3>2. Entra(<<"ready", 0>>, p) /\ \A m \in Cuatro : m # "ready" => cola'[m] = cola[m]
        BY <2>2, <3>1, ListaGana DEF Cuatro
      <3>3. FueraDe({<<"durmiendo", 0>>, <<"ready", 0>>})
        BY <1>0, <1>1, <3>1, <3>2 DEF FueraDe, SleeperDespierta, recursoVars, archivoVars
      <3> QED BY <2>3, <3>2, <3>3, Muda, LugaresSon DEF Punteros, Cuatro
    <2> QED BY <2>4, <2>5
  <1>2. CASE SleeperSigue
    <2>1. PICK p \in sleepers.detenidos :
            /\ sleepers' = [sleepers EXCEPT !.detenidos = @ \ {p}, !.avisos = @ + 1]
            /\ cola' = Agregar(cola, "ready", p)
      BY <1>2 DEF SleeperSigue
    <2>2. /\ p \in Pid /\ sleepers'.detenidos = sleepers.detenidos \ {p}
          /\ sleepers'.durmiendo = sleepers.durmiendo
      BY <2>1 DEF TypeOK, TipoSleepers
    <2>3. Sale(<<"sueno_detenido", 0>>, p)
      BY <2>1, <2>2, ConjuntoPierde DEF Punteros, Apunta
    <2>4. Entra(<<"ready", 0>>, p) /\ \A m \in Cuatro : m # "ready" => cola'[m] = cola[m]
      BY <2>1, <2>2, ListaGana DEF Cuatro
    <2>5. FueraDe({<<"sueno_detenido", 0>>, <<"ready", 0>>})
      BY <1>0, <1>2, <2>2, <2>4 DEF FueraDe, SleeperSigue, recursoVars, archivoVars
    <2> QED BY <2>3, <2>4, <2>5, Muda, LugaresSon DEF Punteros, Cuatro
  <1>3. CASE SleeperAvisa
    <2>1. sleepers'.durmiendo = sleepers.durmiendo /\ sleepers'.detenidos = sleepers.detenidos
      BY <1>3 DEF SleeperAvisa, TypeOK, TipoSleepers
    <2>2. FueraDe({})
      BY <1>0, <1>3, <2>1 DEF FueraDe, SleeperAvisa, recursoVars, archivoVars
    <2> QED BY <2>2, NadieMuda
  <1> QED BY <1>1, <1>2, <1>3 DEF Sleepers

\* recibir_op_FS.
LEMMA DuenosFs ==
  ASSUME TypeOK, PunterosValidos, SinCompartir, Huecos, OpFS
  PROVE  Pasa
  <1>0. \A q \in Pid : EnCpu(q)' <=> EnCpu(q)
    <2>1. \A q \in Pid : pcb'[q].motivo = pcb[q].motivo
      <3>1. CASE FsListo
        BY <3>1, PunterosPid, ListoMotivo DEF FsListo, TypeOK, TipoProcesos
      <3>2. CASE ~FsListo
        BY <3>2 DEF OpFS, FilesystemAtiende, FsAbre, FsRecibe, FsAvisa
      <3> QED BY <3>1, <3>2
    <2> QED BY <2>1, CpuIgual DEF OpFS, FilesystemAtiende, FsAbre, FsRecibe, FsListo, FsAvisa, cpuVars
  <1>1. CASE FilesystemAtiende
    <2>1. PICK p \in fs.pedidos : fs' = [fs EXCEPT !.pedidos = @ \ {p}, !.respuestas = Append(@, p)]
      BY <1>1 DEF FilesystemAtiende
    <2>2. /\ p \in Pid /\ fs'.pedidos = fs.pedidos \ {p} /\ fs'.respuestas = Append(fs.respuestas, p)
          /\ fs'.pcb = fs.pcb
      BY <2>1 DEF TypeOK, TipoFs
    <2>3. Sale(<<"fs_pedido", 0>>, p)
      BY <2>1, <2>2, ConjuntoPierde DEF Punteros, Apunta
    <2>4. Entra(<<"fs_respuestas", 0>>, p)
      BY <2>2, SitiosPf DEF Entra
    <2>5. FueraDe({<<"fs_pedido", 0>>, <<"fs_respuestas", 0>>})
      BY <1>0, <1>1, <2>2 DEF FueraDe, FilesystemAtiende, recursoVars, archivoVars
    <2> QED BY <2>3, <2>4, <2>5, Muda, LugaresSon DEF Punteros
  <1>2. CASE FsRecibe
    <2> DEFINE p == Head(fs.respuestas)
    <2>1. /\ p \in Pid /\ fs.respuestas # <<>> /\ fs'.respuestas = Tail(fs.respuestas) /\ fs'.pcb = p
          /\ fs'.pedidos = fs.pedidos /\ fs.pcb = Nada
      BY <1>2, CabezaTipo DEF FsRecibe, TypeOK, TipoFs, Huecos
    <2> HIDE DEF p
    <2>2. Sale(<<"fs_respuestas", 0>>, p)
      BY <2>1, SitiosPf DEF Sale, p
    <2>3. Entra(<<"fs", 0>>, p)
      BY <2>1, PidNoNulo, PunteroGana DEF Punteros, Apunta
    <2>4. FueraDe({<<"fs_respuestas", 0>>, <<"fs", 0>>})
      BY <1>0, <1>2, <2>1 DEF FueraDe, FsRecibe, recursoVars, archivoVars
    <2> QED BY <2>2, <2>3, <2>4, Muda, LugaresSon DEF Punteros
  <1>3. CASE FsListo
    <2> DEFINE p == fs.pcb
    <2>1. p \in Pid /\ fs'.respuestas = fs.respuestas /\ fs'.pcb = Nada /\ fs'.pedidos = fs.pedidos
      BY <1>3, PunterosPid DEF FsListo, TypeOK, TipoFs
    <2>2. cola' = Agregar(cola, "ready", p)
      BY <1>3 DEF FsListo
    <2> HIDE DEF p
    <2>3. Sale(<<"fs", 0>>, p)
      BY <2>1, PidNoNulo, PunteroPierde DEF Punteros, Apunta, p
    <2>4. Entra(<<"ready", 0>>, p) /\ \A m \in Cuatro : m # "ready" => cola'[m] = cola[m]
      BY <2>1, <2>2, ListaGana DEF Cuatro
    <2>5. FueraDe({<<"fs", 0>>, <<"ready", 0>>})
      BY <1>0, <1>3, <2>1, <2>4 DEF FueraDe, FsListo, recursoVars, archivoVars
    <2> QED BY <2>3, <2>4, <2>5, Muda, LugaresSon DEF Punteros, Cuatro
  <1>4. CASE FsAvisa
    <2>1. fs'.pedidos = fs.pedidos /\ fs'.respuestas = fs.respuestas /\ fs'.pcb = fs.pcb
      BY <1>4 DEF FsAvisa, TypeOK, TipoFs
    <2>2. FueraDe({})
      BY <1>0, <1>4, <2>1 DEF FueraDe, FsAvisa, recursoVars, archivoVars
    <2> QED BY <2>2, NadieMuda
  <1>5. CASE FsAbre
    <2>1. FueraDe({})
      BY <1>0, <1>5 DEF FueraDe, FsAbre, recursoVars, archivoVars, hilosVars
    <2> QED BY <2>1, NadieMuda
  <1> QED BY <1>1, <1>2, <1>3, <1>4, <1>5 DEF OpFS

\* The manejar_pf threads.
LEMMA DuenosPf ==
  ASSUME TypeOK, SinCompartir, PageFaults
  PROVE  Pasa
  <1>1. CASE PfArranca
    <2>0. \A q \in Pid : EnCpu(q)' <=> EnCpu(q)
      BY <1>1, CpuIgual DEF PfArranca, cpuVars
    <2>1. PICK p \in pf.nuevos : pf' = [pf EXCEPT !.nuevos = @ \ {p}, !.pedir = @ \cup {p}]
      BY <1>1 DEF PfArranca
    <2>2. /\ p \in Pid /\ pf'.nuevos = pf.nuevos \ {p} /\ pf'.pedir = pf.pedir \cup {p}
          /\ pf'.pedidos = pf.pedidos /\ pf'.respuestas = pf.respuestas /\ pf'.resueltos = pf.resueltos
      BY <2>1 DEF TypeOK, TipoPf
    <2>3. Sale(<<"pf_nuevo", 0>>, p)
      BY <2>1, <2>2, ConjuntoPierde DEF Punteros, Apunta
    <2>4. Entra(<<"pf_pedir", 0>>, p)
      BY <2>2, ConjuntoGana DEF Punteros, Apunta
    <2>5. FueraDe({<<"pf_nuevo", 0>>, <<"pf_pedir", 0>>})
      BY <1>1, <2>0, <2>2 DEF FueraDe, PfArranca, recursoVars, archivoVars
    <2> QED BY <2>3, <2>4, <2>5, Muda, LugaresSon DEF Punteros
  <1>2. CASE PfPide
    <2>0. \A q \in Pid : EnCpu(q)' <=> EnCpu(q)
      BY <1>2, CpuIgual DEF PfPide, cpuVars
    <2>1. PICK p \in pf.pedir : pf' = [pf EXCEPT !.pedir = @ \ {p}, !.pedidos = Append(@, p)]
      BY <1>2 DEF PfPide
    <2>2. /\ p \in Pid /\ pf'.pedir = pf.pedir \ {p} /\ pf'.pedidos = Append(pf.pedidos, p)
          /\ pf'.nuevos = pf.nuevos /\ pf'.respuestas = pf.respuestas /\ pf'.resueltos = pf.resueltos
      BY <2>1 DEF TypeOK, TipoPf
    <2>3. Sale(<<"pf_pedir", 0>>, p)
      BY <2>1, <2>2, ConjuntoPierde DEF Punteros, Apunta
    <2>4. Entra(<<"pf_pedidos", 0>>, p)
      BY <2>2, SitiosPf DEF Entra
    <2>5. FueraDe({<<"pf_pedir", 0>>, <<"pf_pedidos", 0>>})
      BY <1>2, <2>0, <2>2 DEF FueraDe, PfPide, recursoVars, archivoVars
    <2> QED BY <2>3, <2>4, <2>5, Muda, LugaresSon DEF Punteros
  <1>3. CASE MemoriaCarga
    <2>0. \A q \in Pid : EnCpu(q)' <=> EnCpu(q)
      BY <1>3, CpuIgual DEF MemoriaCarga, cpuVars
    <2> DEFINE p == Head(pf.pedidos)
    <2>1. /\ p \in Pid /\ pf.pedidos # <<>> /\ pf'.pedidos = Tail(pf.pedidos)
          /\ pf'.respuestas = Append(pf.respuestas, p)
          /\ pf'.nuevos = pf.nuevos /\ pf'.pedir = pf.pedir /\ pf'.resueltos = pf.resueltos
      BY <1>3, CabezaTipo DEF MemoriaCarga, TypeOK, TipoPf
    <2> HIDE DEF p
    <2>2. Sale(<<"pf_pedidos", 0>>, p)
      BY <2>1, SitiosPf DEF Sale, p
    <2>3. Entra(<<"pf_respuestas", 0>>, p)
      BY <2>1, SitiosPf DEF Entra
    <2>4. FueraDe({<<"pf_pedidos", 0>>, <<"pf_respuestas", 0>>})
      BY <1>3, <2>0, <2>1 DEF FueraDe, MemoriaCarga, recursoVars, archivoVars
    <2> QED BY <2>1, <2>2, <2>3, <2>4, Muda, SitiosPf, LugaresSon
  <1>4. CASE PfRecibe
    <2> DEFINE p == Head(pf.respuestas)
    <2>1. /\ p \in Pid /\ pf.respuestas # <<>> /\ pf'.respuestas = Tail(pf.respuestas)
          /\ pf'.resueltos = pf.resueltos \cup {p}
          /\ pf'.nuevos = pf.nuevos /\ pf'.pedir = pf.pedir /\ pf'.pedidos = pf.pedidos
      BY <1>4, CabezaTipo DEF PfRecibe, TypeOK, TipoPf
    <2>2. pcb' = [pcb EXCEPT ![p].motivo = "PAGE_FAULT_RESUELTO"]
      BY <1>4 DEF PfRecibe
    <2> HIDE DEF p
    <2>3. Sale(<<"pf_respuestas", 0>>, p)
      BY <2>1, SitiosPf DEF Sale, p
    <2>4. Entra(<<"pf_resuelto", 0>>, p)
      BY <2>1, ConjuntoGana DEF Punteros, Apunta
    <2>5. p \in Hay(<<"pf_respuestas", 0>>)
      BY <2>3, SaleEs, LugaresSon
    <2>6. ~EnCpu(p)
      <3>1. p \notin Hay(<<"cpu", 0>>)
        BY <2>5, LugaresSon DEF SinCompartir, Punteros
      <3> QED BY <2>1, <3>1, SitiosHilos
    <2>7. \A q \in Pid : q # p => pcb'[q].motivo = pcb[q].motivo
      BY <2>2
    <2>8. pcb'[p].motivo = "PAGE_FAULT_RESUELTO"
      BY <2>1, <2>2 DEF TypeOK, TipoProcesos, Pcb
    <2>9. \A q \in Pid : EnCpu(q)' <=> EnCpu(q)
      <3>1. UNCHANGED <<exec, pcbelegido, proceso_en_ejecucion>>
        BY <1>4 DEF PfRecibe, cpuVars
      <3> QED BY <2>6, <2>7, <2>8, <3>1 DEF EnCpu
    <2>10. FueraDe({<<"pf_respuestas", 0>>, <<"pf_resuelto", 0>>})
      BY <1>4, <2>1, <2>9 DEF FueraDe, PfRecibe, recursoVars, archivoVars
    <2> QED BY <2>1, <2>3, <2>4, <2>10, Muda, LugaresSon DEF Punteros
  <1>5. CASE PfListo
    <2>1. PICK p \in pf.resueltos :
            /\ pcb' = Listo(pcb, p) /\ cola' = Agregar(cola, "ready", p)
            /\ pf' = [pf EXCEPT !.resueltos = @ \ {p}, !.avisos = @ + 1]
      BY <1>5 DEF PfListo
    <2>2. /\ p \in Pid /\ pf'.resueltos = pf.resueltos \ {p}
          /\ pf'.nuevos = pf.nuevos /\ pf'.pedir = pf.pedir /\ pf'.pedidos = pf.pedidos
          /\ pf'.respuestas = pf.respuestas
      BY <2>1 DEF TypeOK, TipoPf
    <2>3. \A q \in Pid : EnCpu(q)' <=> EnCpu(q)
      <3>1. \A q \in Pid : pcb'[q].motivo = pcb[q].motivo
        BY <2>1, <2>2, ListoMotivo DEF TypeOK, TipoProcesos
      <3> QED BY <1>5, <3>1, CpuIgual DEF PfListo
    <2>4. Sale(<<"pf_resuelto", 0>>, p)
      BY <2>1, <2>2, ConjuntoPierde DEF Punteros, Apunta
    <2>5. Entra(<<"ready", 0>>, p) /\ \A m \in Cuatro : m # "ready" => cola'[m] = cola[m]
      BY <2>1, <2>2, ListaGana DEF Cuatro
    <2>6. FueraDe({<<"pf_resuelto", 0>>, <<"ready", 0>>})
      BY <1>5, <2>2, <2>3, <2>5 DEF FueraDe, PfListo, recursoVars, archivoVars
    <2> QED BY <2>2, <2>4, <2>5, <2>6, Muda, LugaresSon DEF Punteros, Cuatro
  <1>6. CASE PfAvisa
    <2>0. \A q \in Pid : EnCpu(q)' <=> EnCpu(q)
      BY <1>6, CpuIgual DEF PfAvisa, cpuVars
    <2>1. /\ pf'.nuevos = pf.nuevos /\ pf'.pedir = pf.pedir /\ pf'.pedidos = pf.pedidos
          /\ pf'.respuestas = pf.respuestas /\ pf'.resueltos = pf.resueltos
      BY <1>6 DEF PfAvisa, TypeOK, TipoPf
    <2>2. FueraDe({})
      BY <1>6, <2>0, <2>1 DEF FueraDe, PfAvisa, recursoVars, archivoVars
    <2> QED BY <2>2, NadieMuda
  <1> QED BY <1>1, <1>2, <1>3, <1>4, <1>5, <1>6 DEF PageFaults

\* A step that writes a field of some PCB other than the reason of its last return.
LEMMA MotivoIgual ==
  ASSUME NEW f \in [Pid -> Pcb], NEW p \in Pid
  PROVE  /\ \A e : \A q \in Pid : [f EXCEPT ![p].estado = e][q].motivo = f[q].motivo
         /\ \A q \in Pid : [f EXCEPT ![p].pc = @ + 1][q].motivo = f[q].motivo
  BY DEF Pcb

\* exec_pcb is at a step at which it holds its PCB: that is the one the CPU's place has.
LEMMA CpuEs ==
  ASSUME exec.paso \in PasosConPcb
  PROVE  \A q \in Pid : EnCpu(q) <=> q = pcbelegido
  BY DEF EnCpu, PasosConPcb

\* It gives that PCB away and goes back to its loop, or posts first.
LEMMA CpuPierde ==
  ASSUME exec.paso \in PasosConPcb, pcbelegido \in Pid, exec'.paso \notin PasosConPcb,
         exec'.paso \in {"sem", "elegir"} =>
           \A q \in Pid : proceso_en_ejecucion' = q => pcb'[q].motivo # "SYSCALL"
  PROVE  Sale(<<"cpu", 0>>, pcbelegido)
  <1>1. \A q \in Pid : Apunta("cpu", q) <=> q = pcbelegido
    BY CpuEs DEF Apunta
  <1>2. \A q \in Pid : ~Apunta("cpu", q)'
    BY DEF Apunta, EnCpu
  <1> QED BY <1>1, <1>2, PunteroPierde DEF Punteros

\* It keeps it.
LEMMA CpuSigue ==
  ASSUME exec.paso \in PasosConPcb, pcbelegido' = pcbelegido,
         \/ exec'.paso \in PasosConPcb
         \/ /\ exec'.paso \in {"sem", "elegir"} /\ proceso_en_ejecucion' = pcbelegido
            /\ pcbelegido \in Pid => pcb'[pcbelegido].motivo = "SYSCALL"
  PROVE  \A q \in Pid : EnCpu(q)' <=> EnCpu(q)
  <1>1. \A q \in Pid : EnCpu(q)' <=> q = pcbelegido
    BY DEF EnCpu, PasosConPcb
  <1> QED BY <1>1, CpuEs

\* exec_pcb's loop, but for the choice of a process.
LEMMA DuenosDespacho ==
  ASSUME TypeOK, PunterosValidos, SinCompartir, Huecos, Turno,
         ExecDespierta \/ ExecContinua \/ ExecDescarta
  PROVE  Pasa
  <1>1. exec'.hijo = exec.hijo
    <2>1. CASE ExecDespierta \/ ExecContinua
      BY <2>1 DEF ExecDespierta, ExecContinua, TypeOK, TipoExec
    <2>2. CASE ExecDescarta
      BY <2>2 DEF ExecDescarta, Esperando, Huecos
    <2> QED BY <2>1, <2>2
  <1>2. \A q \in Pid : EnCpu(q)' <=> EnCpu(q)
    <2>1. CASE ExecDespierta
      <3>1. exec.paso = "sem" /\ exec'.paso \in {"sem", "elegir"}
        BY <2>1 DEF ExecDespierta, TypeOK, TipoExec
      <3> QED BY <2>1, <3>1 DEF EnCpu, ExecDespierta, cpuVars, PasosConPcb
    <2>2. CASE ExecContinua
      <3>1. /\ exec.paso = "elegir" /\ proceso_en_ejecucion \in Pid
            /\ pcb[proceso_en_ejecucion].motivo = "SYSCALL"
        BY <2>2, PunterosPid DEF ExecContinua, Continua, PunterosValidos, ExecOcupada
      <3>2. \A q \in Pid : EnCpu(q) <=> q = proceso_en_ejecucion
        BY <3>1 DEF EnCpu, PasosConPcb
      <3>3. ~EsBasura(proceso_en_ejecucion)
        BY <3>1, <3>2 DEF Turno
      <3>4. exec'.paso = "cpu" /\ pcbelegido' = proceso_en_ejecucion
        BY <2>2, <3>3 DEF ExecContinua, TypeOK, TipoExec
      <3> QED BY <3>2, <3>4 DEF EnCpu, PasosConPcb
    <2>3. CASE ExecDescarta
      <3>1. /\ exec.paso = "basura" /\ exec'.paso = "sem"
            /\ UNCHANGED <<proceso_en_ejecucion, pcbelegido, pcb>>
        BY <2>3 DEF ExecDescarta, Esperando, cpuVars
      <3>2. \A q \in Pid : q = proceso_en_ejecucion => pcb[q].motivo # "SYSCALL"
        BY <3>1, PidNoNulo DEF Turno
      <3> QED BY <3>1, <3>2 DEF EnCpu, PasosConPcb
    <2> QED BY <2>1, <2>2, <2>3
  <1>3. UNCHANGED <<cola, colabloqueado, espera_archivo, admision, salida, sleepers, pf, fs>>
    BY DEF ExecDespierta, ExecContinua, ExecDescarta, recursoVars, archivoVars, hilosVars
  <1>4. FueraDe({})
    BY <1>1, <1>2, <1>3 DEF FueraDe
  <1> QED BY <1>4, NadieMuda

\* What the CPU returns.
LEMMA DuenosCpu ==
  ASSUME TypeOK, PunterosValidos, SinCompartir, Huecos, Cpu
  PROVE  Pasa
  <1>0. exec.paso = "cpu" /\ exec.paso \in PasosConPcb /\ pcbelegido \in Pid
    <2>1. exec.paso = "cpu"
      BY DEF Cpu, CpuEjecuta, ExecDesalojo, ExecPageFault, ExecSyscall
    <2> QED BY <2>1, PunterosPid DEF PasosConPcb
  <1>a. exec.hijo = Nada /\ exec'.hijo = Nada
    <2>1. exec.hijo = Nada
      BY <1>0 DEF Huecos
    <2>2. CASE CpuEjecuta \/ ExecSyscall
      BY <2>1, <2>2 DEF CpuEjecuta, ExecSyscall, TypeOK, TipoExec
    <2>3. CASE ExecDesalojo \/ ExecPageFault
      <3>1. exec' = Esperando
        BY <2>3 DEF ExecDesalojo, ExecPageFault
      <3> QED BY <2>1, <3>1 DEF Esperando
    <2> QED BY <2>1, <2>2, <2>3 DEF Cpu
  <1>1. CASE CpuEjecuta \/ ExecSyscall
    <2>1. exec'.paso \in PasosConPcb /\ pcbelegido' = pcbelegido
      <3>1. CASE CpuEjecuta
        BY <1>0, <3>1 DEF CpuEjecuta, cpuVars
      <3>2. CASE ExecSyscall
        BY <3>2 DEF ExecSyscall, Syscalls, Operaciones, PasosConPcb, TypeOK, TipoExec
      <3> QED BY <1>1, <3>1, <3>2
    <2>2. \A q \in Pid : EnCpu(q)' <=> EnCpu(q)
      BY <1>0, <2>1, CpuSigue
    <2>3. UNCHANGED <<cola, colabloqueado, espera_archivo, admision, salida, sleepers, pf, fs>>
      BY <1>1 DEF CpuEjecuta, ExecSyscall, recursoVars, archivoVars, hilosVars
    <2>4. FueraDe({})
      BY <1>a, <2>2, <2>3 DEF FueraDe
    <2> QED BY <2>4, NadieMuda
  <1>2. CASE ExecDesalojo
    <2>1. exec'.paso = "sem" /\ pcb'[pcbelegido].motivo = "INTERRUPT" /\ proceso_en_ejecucion' = pcbelegido
      BY <1>0, <1>2 DEF ExecDesalojo, Esperando, TypeOK, TipoProcesos, Pcb
    <2>2. Sale(<<"cpu", 0>>, pcbelegido)
      BY <1>0, <2>1, CpuPierde DEF PasosConPcb
    <2>3. cola' = Agregar(SinPrimero(cola, "exec"), "ready", pcbelegido)
      BY <1>2 DEF ExecDesalojo
    <2>4. Entra(<<"ready", 0>>, pcbelegido) /\ \A m \in Cuatro : m # "ready" => cola'[m] = cola[m]
      BY <1>0, <2>3, ListaGana DEF Cuatro
    <2>5. UNCHANGED <<colabloqueado, espera_archivo, admision, salida, sleepers, pf, fs>>
      BY <1>2 DEF ExecDesalojo, recursoVars, archivoVars, hilosVars
    <2>6. FueraDe({<<"cpu", 0>>, <<"ready", 0>>})
      BY <1>a, <2>4, <2>5 DEF FueraDe
    <2> QED BY <2>2, <2>4, <2>6, Muda, LugaresSon DEF Punteros, Cuatro
  <1>3. CASE ExecPageFault
    <2>1. exec'.paso = "sem" /\ proceso_en_ejecucion' = Nada
      BY <1>3 DEF ExecPageFault, Esperando
    <2>2. Sale(<<"cpu", 0>>, pcbelegido)
      BY <1>0, <2>1, CpuPierde, PidNoNulo DEF PasosConPcb
    <2>3. /\ pf'.nuevos = pf.nuevos \cup {pcbelegido} /\ pf'.pedir = pf.pedir
          /\ pf'.pedidos = pf.pedidos /\ pf'.respuestas = pf.respuestas /\ pf'.resueltos = pf.resueltos
      BY <1>3 DEF ExecPageFault, TypeOK, TipoPf
    <2>4. Entra(<<"pf_nuevo", 0>>, pcbelegido)
      BY <1>0, <2>3, ConjuntoGana DEF Punteros, Apunta
    <2>5. \A m \in Cuatro : cola'[m] = cola[m]
      BY <1>3 DEF ExecPageFault, SinPrimero, Cuatro, Listas, TypeOK, TipoListas
    <2>6. UNCHANGED <<colabloqueado, espera_archivo, admision, salida, sleepers, fs>>
      BY <1>3 DEF ExecPageFault, recursoVars, archivoVars
    <2>7. FueraDe({<<"cpu", 0>>, <<"pf_nuevo", 0>>})
      BY <1>a, <2>3, <2>5, <2>6 DEF FueraDe
    <2> QED BY <2>2, <2>4, <2>7, Muda, LugaresSon DEF Punteros
  <1> QED BY <1>1, <1>2, <1>3 DEF Cpu

\* The system calls after which the process goes on, and their steps before the last.
LEMMA DuenosSiguen ==
  ASSUME TypeOK, PunterosValidos, SinCompartir, Huecos, Turno,
         \/ KfSeek \/ KfOpenPide \/ KfOpenCrea \/ KfOpenComparte \/ KfCloseFin
         \/ KwaitSigue \/ KwaitMira \/ KwaitLee \/ KwaitToma
         \/ KsignalLee \/ KsignalDevuelve \/ KsignalMira
  PROVE  Pasa
  <1>a. CASE KfSeek \/ KfOpenPide \/ KfOpenCrea \/ KfOpenComparte \/ KfCloseFin
    <2>1. /\ exec.paso \in {"F_SEEK", "F_OPEN", "abrir_fs", "F_CLOSE", "cerrar"}
          /\ exec' = Esperando \/ exec' = [exec EXCEPT !.paso = "abrir_fs"]
          /\ UNCHANGED <<pcb, cola, recursoVars, cpuVars, admision, salida, hilosVars>>
      BY <1>a DEF KfSeek, KfOpenPide, KfOpenCrea, KfOpenComparte, KfCloseFin, SigueEnCpu
    <2>2. exec.paso \in PasosConPcb \ {"cpu"} /\ pcbelegido \in Pid /\ exec.hijo = Nada
      BY <2>1, PunterosPid DEF PasosConPcb, Huecos
    <2>3. proceso_en_ejecucion = pcbelegido /\ pcb[pcbelegido].motivo = "SYSCALL"
      BY <2>2 DEF Turno
    <2>4. exec'.hijo = Nada /\ exec'.paso \in {"sem", "abrir_fs"}
      BY <2>1, <2>2 DEF Esperando, TypeOK, TipoExec
    <2>5. \A q \in Pid : EnCpu(q)' <=> EnCpu(q)
      BY <2>1, <2>2, <2>3, <2>4, CpuSigue DEF cpuVars, PasosConPcb
    <2>6. FueraDe({})
      BY <2>1, <2>2, <2>4, <2>5 DEF FueraDe, recursoVars, archivoVars, hilosVars
    <2> QED BY <2>6, NadieMuda
  <1> SUFFICES ASSUME \/ KwaitSigue \/ KwaitMira \/ KwaitLee \/ KwaitToma
                      \/ KsignalLee \/ KsignalDevuelve \/ KsignalMira
               PROVE  Pasa
    BY <1>a
  <1>0. /\ exec.paso \in PasosConPcb \ {"cpu"} /\ exec.paso # "signal_listo"
        /\ pcbelegido' = pcbelegido /\ proceso_en_ejecucion' = proceso_en_ejecucion
    BY DEF KwaitSigue, KwaitMira, KwaitLee, KwaitToma, KsignalLee, KsignalDevuelve, KsignalMira,
           PasosConPcb, cpuVars
  <1>1. /\ proceso_en_ejecucion' = pcbelegido /\ pcb[pcbelegido].motivo = "SYSCALL"
        /\ exec.hijo = Nada /\ pcbelegido \in Pid
    <2>1. proceso_en_ejecucion = pcbelegido /\ pcb[pcbelegido].motivo = "SYSCALL" /\ exec.hijo = Nada
      BY <1>0 DEF Turno, Huecos
    <2>2. pcbelegido \in Pid
      BY <1>0, PunterosPid DEF PasosConPcb
    <2> QED BY <1>0, <2>1, <2>2
  <1>2. pcb'[pcbelegido].motivo = "SYSCALL"
    <2>1. CASE KwaitToma \/ KsignalDevuelve
      <3>1. \E n : pcb' = [pcb EXCEPT ![pcbelegido].asignados[exec.rec] = n]
        BY <2>1 DEF KwaitToma, KsignalDevuelve
      <3> QED BY <1>1, <3>1, InstanciasMotivo DEF TypeOK, TipoProcesos
    <2>2. CASE ~(KwaitToma \/ KsignalDevuelve)
      <3>1. pcb' = pcb
        BY <2>2 DEF KwaitSigue, KwaitMira, KwaitLee, KsignalLee, KsignalMira
      <3> QED BY <1>1, <3>1
    <2> QED BY <2>1, <2>2
  <1>3. exec'.hijo = Nada /\ exec'.paso \in PasosConPcb \cup {"sem"}
    <2>1. CASE KwaitToma \/ exec' = Esperando
      BY <2>1 DEF KwaitToma, Esperando
    <2>2. CASE KwaitSigue \/ KwaitLee \/ KsignalLee \/ KsignalDevuelve
      BY <1>1, <2>2 DEF KwaitSigue, KwaitLee, KsignalLee, KsignalDevuelve, PasosConPcb, TypeOK, TipoExec
    <2>3. CASE KwaitMira
      BY <1>1, <2>3 DEF KwaitMira, PasosConPcb, TypeOK, TipoExec
    <2>4. CASE KsignalMira /\ exec' # Esperando
      BY <1>1, <2>4 DEF KsignalMira, PasosConPcb, TypeOK, TipoExec
    <2> QED BY <2>1, <2>2, <2>3, <2>4
  <1>4. \A q \in Pid : EnCpu(q)' <=> EnCpu(q)
    BY <1>0, <1>1, <1>2, <1>3, CpuSigue
  <1>5. \A l \in Cuatro : cola'[l] = cola[l]
    <2>1. UNCHANGED cola \/ cola' = SinPrimero(cola, "exec")
      BY DEF KwaitSigue, KwaitMira, KwaitLee, KwaitToma, KsignalLee, KsignalDevuelve, KsignalMira
    <2> QED BY <2>1 DEF SinPrimero, Cuatro, Listas, TypeOK, TipoListas
  <1>6. UNCHANGED <<colabloqueado, espera_archivo, admision, salida, sleepers, pf, fs>>
    <2>1. CASE KwaitSigue \/ KwaitMira \/ KwaitLee
      BY <2>1 DEF KwaitSigue, KwaitMira, KwaitLee, recursoVars, archivoVars, hilosVars
    <2>2. CASE KwaitToma \/ KsignalLee \/ KsignalDevuelve \/ KsignalMira
      BY <2>2 DEF KwaitToma, KsignalLee, KsignalDevuelve, KsignalMira, recursoVars, archivoVars, hilosVars
    <2> QED BY <2>1, <2>2
  <1>7. FueraDe({})
    BY <1>1, <1>3, <1>4, <1>5, <1>6 DEF FueraDe
  <1> QED BY <1>7, NadieMuda

\* The last steps of the ones that gave their process away before.
LEMMA DuenosTerminan ==
  ASSUME TypeOK, SinCompartir, Huecos, Turno, KsleepSigue \/ KsleepAvisa \/ KfBloquea \/ KwaitBloquea
  PROVE  Pasa
  <1>1. exec.hijo = Nada /\ exec'.hijo = Nada
    <2>1. exec.hijo = Nada
      BY DEF KsleepSigue, KsleepAvisa, KfBloquea, KwaitBloquea, Huecos
    <2>2. CASE KsleepSigue
      BY <2>1, <2>2 DEF KsleepSigue, TypeOK, TipoExec
    <2>3. CASE exec' = Esperando
      BY <2>1, <2>3 DEF Esperando
    <2> QED BY <2>2, <2>3 DEF KsleepAvisa, KfBloquea, KwaitBloquea
  <1>2. \A q \in Pid : ~EnCpu(q)
    BY DEF KsleepSigue, KsleepAvisa, KfBloquea, KwaitBloquea, EnCpu, PasosConPcb
  <1>3. \A q \in Pid : ~EnCpu(q)'
    <2>1. CASE KsleepSigue
      <3>1. exec'.paso = "sleep_avisar"
        BY <2>1 DEF KsleepSigue, TypeOK, TipoExec
      <3> QED BY <3>1 DEF EnCpu, PasosConPcb
    <2>2. CASE KsleepAvisa \/ KfBloquea \/ KwaitBloquea
      <3>1. exec'.paso = "sem"
        BY <2>2 DEF KsleepAvisa, KfBloquea, KwaitBloquea, Esperando
      <3>2. proceso_en_ejecucion' = Nada
        BY <2>2 DEF KsleepAvisa, KfBloquea, KwaitBloquea, Turno, cpuVars
      <3> QED BY <3>1, <3>2, PidNoNulo DEF EnCpu, PasosConPcb
    <2> QED BY <2>1, <2>2
  <1>4. \A l \in Cuatro : cola'[l] = cola[l]
    <2>1. UNCHANGED cola \/ cola' = SinPrimero(cola, "exec")
      BY DEF KsleepSigue, KsleepAvisa, KfBloquea, KwaitBloquea
    <2> QED BY <2>1 DEF SinPrimero, Cuatro, Listas, TypeOK, TipoListas
  <1>5. UNCHANGED <<colabloqueado, espera_archivo, admision, salida, sleepers, pf, fs>>
    BY DEF KsleepSigue, KsleepAvisa, KfBloquea, KwaitBloquea, recursoVars, archivoVars, hilosVars
  <1>6. FueraDe({})
    BY <1>1, <1>2, <1>3, <1>4, <1>5 DEF FueraDe
  <1> QED BY <1>6, NadieMuda

\* The ones that finish it.
LEMMA DuenosFin ==
  ASSUME TypeOK, PunterosValidos, SinCompartir, Huecos,
         Kexit \/ KwaitInexistente \/ KsignalInexistente \/ KsignalAjeno \/ KfWriteLector
  PROVE  Pasa
  <1>1. /\ exec.paso \in {"EXIT", "WAIT", "SIGNAL", "F_IO"} /\ exec.paso \in PasosConPcb /\ pcbelegido \in Pid
        /\ exec.hijo = Nada
    <2>1. exec.paso \in {"EXIT", "WAIT", "SIGNAL", "F_IO"}
      BY DEF Kexit, KwaitInexistente, KsignalInexistente, KsignalAjeno, KfWriteLector
    <2> QED BY <2>1, PunterosPid DEF PasosConPcb, Huecos
  <1>2. exec' = Esperando /\ proceso_en_ejecucion' = Nada
    BY DEF Kexit, KwaitInexistente, KsignalInexistente, KsignalAjeno, KfWriteLector, AlExit
  <1>3. exec'.paso = "sem" /\ exec'.hijo = Nada
    BY <1>2 DEF Esperando
  <1>4. Sale(<<"cpu", 0>>, pcbelegido)
    BY <1>1, <1>2, <1>3, CpuPierde, PidNoNulo DEF PasosConPcb
  <1>5. \/ cola' = Agregar(cola, "exit", pcbelegido)
        \/ cola' = Agregar(SinPrimero(cola, "exec"), "exit", pcbelegido)
    BY DEF Kexit, KwaitInexistente, KsignalInexistente, KsignalAjeno, KfWriteLector, AlExit
  <1>6. Entra(<<"exit", 0>>, pcbelegido) /\ \A m \in Cuatro : m # "exit" => cola'[m] = cola[m]
    BY <1>1, <1>5, ListaGana DEF Cuatro
  <1>7. UNCHANGED <<colabloqueado, espera_archivo, admision, salida, sleepers, pf, fs>>
    BY DEF Kexit, KwaitInexistente, KsignalInexistente, KsignalAjeno, KfWriteLector, recursoVars, archivoVars,
        hilosVars
  <1>8. FueraDe({<<"cpu", 0>>, <<"exit", 0>>})
    BY <1>1, <1>3, <1>6, <1>7 DEF FueraDe
  <1> QED BY <1>4, <1>6, <1>8, Muda, LugaresSon DEF Punteros, Cuatro

\* The ones that block it.
LEMMA DuenosBloquean ==
  ASSUME TypeOK, PunterosValidos, SinCompartir, Huecos,
         Ksleep \/ KfPide \/ KwaitEncola \/ KfOpenEspera
  PROVE  Pasa
  <1>1. /\ exec.paso \in {"SLEEP", "F_IO", "wait_encolar", "F_OPEN"} /\ exec.paso \in PasosConPcb
        /\ pcbelegido \in Pid /\ exec.hijo = Nada
    <2>1. exec.paso \in {"SLEEP", "F_IO", "wait_encolar", "F_OPEN"}
      BY DEF Ksleep, KfPide, KwaitEncola, KfOpenEspera
    <2> QED BY <2>1, PunterosPid DEF PasosConPcb, Huecos
  <1>2. /\ \/ exec'.paso \in {"sleep_detenido", "sleep_avisar", "fs_bloquear", "wait_bloquear"}
           \/ exec'.paso = "sem" /\ proceso_en_ejecucion' = Nada
        /\ exec'.hijo = Nada
    BY <1>1 DEF Ksleep, KfPide, KwaitEncola, KfOpenEspera, Esperando, TypeOK, TipoExec
  <1>3. Sale(<<"cpu", 0>>, pcbelegido)
    BY <1>1, <1>2, CpuPierde, PidNoNulo DEF PasosConPcb
  <1>4. CASE Ksleep
    <2>1. /\ sleepers'.durmiendo = sleepers.durmiendo \cup {pcbelegido}
          /\ sleepers'.detenidos = sleepers.detenidos
      BY <1>4 DEF Ksleep, TypeOK, TipoSleepers
    <2>2. Entra(<<"durmiendo", 0>>, pcbelegido)
      BY <1>1, <2>1, ConjuntoGana DEF Punteros, Apunta
    <2>3. \A m \in Cuatro : cola'[m] = cola[m]
      BY <1>4 DEF Ksleep, SinPrimero, Cuatro, Listas, TypeOK, TipoListas
    <2>4. UNCHANGED <<colabloqueado, espera_archivo, admision, salida, pf, fs>>
      BY <1>4 DEF Ksleep, recursoVars, archivoVars
    <2>5. FueraDe({<<"cpu", 0>>, <<"durmiendo", 0>>})
      BY <1>1, <1>2, <2>1, <2>3, <2>4 DEF FueraDe
    <2> QED BY <1>3, <2>2, <2>5, Muda, LugaresSon DEF Punteros
  <1>5. CASE KfPide
    <2>1. /\ fs'.pedidos = fs.pedidos \cup {pcbelegido} /\ fs'.respuestas = fs.respuestas
          /\ fs'.pcb = fs.pcb
      BY <1>5 DEF KfPide, TypeOK, TipoFs
    <2>2. Entra(<<"fs_pedido", 0>>, pcbelegido)
      BY <1>1, <2>1, ConjuntoGana DEF Punteros, Apunta
    <2>3. UNCHANGED <<cola, colabloqueado, espera_archivo, admision, salida, sleepers, pf>>
      BY <1>5 DEF KfPide, recursoVars, archivoVars
    <2>4. FueraDe({<<"cpu", 0>>, <<"fs_pedido", 0>>})
      BY <1>1, <1>2, <2>1, <2>3 DEF FueraDe
    <2> QED BY <1>3, <2>2, <2>4, Muda, LugaresSon DEF Punteros
  <1>6. CASE KwaitEncola
    <2>1. PICK r \in Recursos : r = exec.rec
      BY <1>6, PunterosPid DEF KwaitEncola, PasosConRecurso
    <2>2. /\ colabloqueado'[r] = Append(colabloqueado[r], pcbelegido)
          /\ \A s \in Recursos : s # r => colabloqueado'[s] = colabloqueado[s]
      BY <1>6, <2>1 DEF KwaitEncola, TypeOK, TipoListas
    <2>3. Entra(<<"recurso", r>>, pcbelegido)
      BY <2>1, <2>2, SitiosCola DEF Entra
    <2>4. UNCHANGED <<cola, espera_archivo, admision, salida, sleepers, pf, fs>>
      BY <1>6 DEF KwaitEncola, archivoVars, hilosVars
    <2>5. FueraDe({<<"cpu", 0>>, <<"recurso", r>>})
      BY <1>1, <1>2, <2>2, <2>4 DEF FueraDe
    <2> QED BY <1>3, <2>1, <2>3, <2>5, Muda, LugaresSon DEF Punteros
  <1>7. CASE KfOpenEspera
    <2>1. Entra(<<"archivo", 0>>, pcbelegido)
      BY <1>1, <1>7, ConjuntoGana DEF KfOpenEspera, Punteros, Apunta
    <2>2. \A m \in Cuatro : cola'[m] = cola[m]
      BY <1>7 DEF KfOpenEspera, SinPrimero, Cuatro, Listas, TypeOK, TipoListas
    <2>3. UNCHANGED <<colabloqueado, admision, salida, sleepers, pf, fs>>
      BY <1>7 DEF KfOpenEspera, hilosVars
    <2>4. FueraDe({<<"cpu", 0>>, <<"archivo", 0>>})
      BY <1>1, <1>2, <2>2, <2>3 DEF FueraDe
    <2> QED BY <1>3, <2>1, <2>4, Muda, LugaresSon DEF Punteros
  <1> QED BY <1>4, <1>5, <1>6, <1>7

\* ksignal hands the resource to its first waiter.
LEMMA DuenosSignal ==
  ASSUME TypeOK, PunterosValidos, SinCompartir, Huecos, Turno, KsignalPop \/ KsignalListo
  PROVE  Pasa
  <1>0. /\ exec.paso \in {"signal_pop", "signal_listo"} /\ exec.paso \in PasosConPcb /\ pcbelegido \in Pid
        /\ pcbelegido' = pcbelegido /\ proceso_en_ejecucion' = pcbelegido
        /\ pcb[pcbelegido].motivo = "SYSCALL"
    <2>1. exec.paso \in {"signal_pop", "signal_listo"}
      BY DEF KsignalPop, KsignalListo
    <2>2. UNCHANGED <<pcbelegido, proceso_en_ejecucion>>
      BY DEF KsignalPop, KsignalListo, cpuVars
    <2> QED BY <2>1, <2>2, PunterosPid DEF PasosConPcb, Turno
  <1>1. CASE KsignalPop /\ colabloqueado[exec.rec] # <<>>
    <2>0. PICK r \in Recursos : r = exec.rec
      BY <1>1, PunterosPid DEF KsignalPop, PasosConRecurso
    <2> DEFINE p == Head(colabloqueado[r])
    <2>1. p \in Pid /\ exec.hijo = Nada /\ colabloqueado[r] # <<>>
      BY <1>1, <2>0, CabezaTipo, ListasTipo DEF KsignalPop, Huecos, TypeOK
    <2>2. /\ colabloqueado'[r] = Tail(colabloqueado[r])
          /\ \A s \in Recursos : s # r => colabloqueado'[s] = colabloqueado[s]
      BY <1>1, <2>0, <2>1 DEF KsignalPop, TypeOK, TipoListas
    <2>3. exec'.paso = "signal_listo" /\ exec'.hijo = p
      BY <1>1, <2>0 DEF KsignalPop, TypeOK, TipoExec
    <2>4. \A q \in Pid : EnCpu(q)' <=> EnCpu(q)
      BY <1>0, <2>3, CpuSigue DEF PasosConPcb
    <2>5. Sale(<<"recurso", r>>, p)
      BY <1>1, <2>1, <2>2, SitiosCola DEF Sale
    <2> HIDE DEF p
    <2>6. Entra(<<"signal", 0>>, p)
      BY <2>1, <2>3, PidNoNulo, PunteroGana DEF Punteros, Apunta
    <2>7. UNCHANGED <<cola, espera_archivo, admision, salida, sleepers, pf, fs>>
      BY <1>1 DEF KsignalPop, archivoVars, hilosVars
    <2>8. FueraDe({<<"recurso", r>>, <<"signal", 0>>})
      BY <2>2, <2>4, <2>7 DEF FueraDe
    <2> QED BY <2>1, <2>5, <2>6, <2>8, Muda, LugaresSon DEF Punteros
  <1>2. CASE KsignalPop /\ colabloqueado[exec.rec] = <<>>
    <2>1. UNCHANGED <<cola, colabloqueado, espera_archivo, pcb, exec, admision, salida, sleepers, pf, fs>>
      BY <1>2 DEF KsignalPop, archivoVars, hilosVars
    <2>2. \A q \in Pid : EnCpu(q)' <=> EnCpu(q)
      BY <1>0, <2>1, CpuSigue
    <2>3. FueraDe({})
      BY <2>1, <2>2 DEF FueraDe
    <2> QED BY <2>3, NadieMuda
  <1>3. CASE KsignalListo
    <2> DEFINE p == exec.hijo
    <2>1. /\ p \in Pid /\ exec' = Esperando /\ pcb' = Listo(pcb, p) /\ cola' = Agregar(cola, "ready", p)
          /\ UNCHANGED <<colabloqueado, espera_archivo, admision, salida, sleepers, pf, fs>>
      BY <1>3, PunterosPid DEF KsignalListo, recursoVars, archivoVars, hilosVars
    <2>2. exec'.paso = "sem" /\ exec'.hijo = Nada
      BY <2>1 DEF Esperando
    <2>3. pcb'[pcbelegido].motivo = "SYSCALL"
      BY <1>0, <2>1, ListoMotivo DEF TypeOK, TipoProcesos
    <2>4. \A q \in Pid : EnCpu(q)' <=> EnCpu(q)
      BY <1>0, <2>2, <2>3, CpuSigue
    <2> HIDE DEF p
    <2>5. Sale(<<"signal", 0>>, p)
      BY <2>1, <2>2, PidNoNulo, PunteroPierde DEF Punteros, Apunta, p
    <2>6. Entra(<<"ready", 0>>, p) /\ \A m \in Cuatro : m # "ready" => cola'[m] = cola[m]
      BY <2>1, ListaGana DEF Cuatro
    <2>7. FueraDe({<<"signal", 0>>, <<"ready", 0>>})
      BY <2>1, <2>4, <2>6 DEF FueraDe
    <2> QED BY <2>5, <2>6, <2>7, Muda, LugaresSon DEF Punteros, Cuatro
  <1> QED BY <1>1, <1>2, <1>3

\* kf_close makes READY whoever it lets in.
LEMMA DuenosAbre ==
  ASSUME TypeOK, PunterosValidos, SinCompartir, Huecos, Turno, KfCloseAbre
  PROVE  Pasa
  <1>1. PICK p \in espera_archivo :
          /\ espera_archivo' = espera_archivo \ {p}
          /\ pcb' = Listo(pcb, p) /\ cola' = Agregar(cola, "ready", p)
    BY DEF KfCloseAbre
  <1>2. p \in Pid
    BY DEF TypeOK, TipoListas
  <1>3. Sale(<<"archivo", 0>>, p)
    BY <1>1, <1>2, ConjuntoPierde DEF Punteros, Apunta
  <1>4. Entra(<<"ready", 0>>, p) /\ \A m \in Cuatro : m # "ready" => cola'[m] = cola[m]
    BY <1>1, <1>2, ListaGana DEF Cuatro
  <1>5. /\ exec.paso \in {"F_CLOSE", "cerrar"} /\ exec'.paso = "cerrar" /\ exec'.hijo = exec.hijo
        /\ pcbelegido' = pcbelegido
    BY DEF KfCloseAbre, cpuVars, TypeOK, TipoExec
  <1>6. \A q \in Pid : EnCpu(q)' <=> EnCpu(q)
    BY <1>5, CpuSigue DEF PasosConPcb
  <1>7. UNCHANGED <<colabloqueado, admision, salida, sleepers, pf, fs>>
    BY DEF KfCloseAbre, hilosVars
  <1>8. FueraDe({<<"archivo", 0>>, <<"ready", 0>>})
    BY <1>4, <1>5, <1>6, <1>7 DEF FueraDe
  <1> QED BY <1>3, <1>4, <1>8, Muda, LugaresSon DEF Punteros, Cuatro

\* It loses whoever waits in the entry it replaces.
LEMMA DuenosCierra ==
  ASSUME TypeOK, PunterosValidos, SinCompartir, Huecos, Turno, KfCloseDeVarios,
         NEW S \in SUBSET espera_archivo, Pierde(S)
  PROVE  SinCompartir' /\ ConDueno' = ConDueno \ S
  <1>1. /\ exec.paso = "F_CLOSE" /\ exec' = Esperando
        /\ UNCHANGED <<pcb, cola, colabloqueado, cpuVars, admision, salida, hilosVars>>
    BY DEF KfCloseDeVarios, SigueEnCpu
  <1>2. exec.paso \in PasosConPcb \ {"cpu"} /\ pcbelegido \in Pid /\ exec.hijo = Nada
    BY <1>1, PunterosPid DEF PasosConPcb, Huecos
  <1>3. proceso_en_ejecucion = pcbelegido /\ pcb[pcbelegido].motivo = "SYSCALL"
    BY <1>2 DEF Turno
  <1>4. exec'.hijo = Nada /\ exec'.paso = "sem"
    BY <1>1 DEF Esperando
  <1>5. \A q \in Pid : EnCpu(q)' <=> EnCpu(q)
    BY <1>1, <1>2, <1>3, <1>4, CpuSigue DEF cpuVars
  <1>6. FueraDe({<<"archivo", 0>>})
    BY <1>1, <1>2, <1>4, <1>5 DEF FueraDe, hilosVars
  <1>7. S \subseteq Hay(<<"archivo", 0>>) /\ Hay(<<"archivo", 0>>)' = Hay(<<"archivo", 0>>) \ S
    BY SitiosEspera DEF Pierde, TypeOK, TipoListas
  <1>8. ASSUME NEW c \in Lugares
        PROVE  Quedan(c, S)
    <2>1. CASE c = <<"archivo", 0>>
      BY <1>7, <2>1, SitiosPuntero DEF Punteros, Quedan
    <2>2. CASE c # <<"archivo", 0>>
      <3>1. Igual(c)
        BY <1>6, <2>2, Fuera
      <3>2. Hay(c) \cap S = {}
        BY <1>7, <2>2, LugaresSon DEF SinCompartir, Punteros
      <3> QED BY <3>1, <3>2 DEF Igual, SinCompartir, Quedan
    <2> QED BY <2>1, <2>2
  <1> QED BY <1>8, SeVan

\* Every system call but for that one.
LEMMA DuenosLlamadas ==
  ASSUME TypeOK, PunterosValidos, SinCompartir, Huecos, Turno, Llamadas, ~KfCloseDeVarios
  PROVE  Pasa
  BY DuenosSiguen, DuenosTerminan, DuenosFin, DuenosBloquean, DuenosSignal, DuenosAbre DEF Llamadas

\* exit_pcb leaves the CPU alone: it writes no PCB's reason.
LEMMA SalidaCpu ==
  ASSUME TypeOK, PunterosValidos, Salida
  PROVE  /\ \A q \in Pid : EnCpu(q)' <=> EnCpu(q)
         /\ UNCHANGED <<exec, proceso_en_ejecucion, pcbelegido>>
         /\ UNCHANGED <<admision, sleepers, pf, fs>>
         /\ \A q \in Pid : pcb'[q].motivo = pcb[q].motivo
  <1>1. UNCHANGED <<exec, proceso_en_ejecucion, pcbelegido, admision, sleepers, pf, fs>>
    <2>1. CASE SalidaToma \/ SalidaDestruye \/ SalidaAvisa
      BY <2>1 DEF SalidaToma, SalidaDestruye, SalidaAvisa, cpuVars, hilosVars
    <2>2. CASE LiberarLee \/ LiberarSuma \/ LiberarMira \/ LiberarVacia \/ LiberarRellena
      BY <2>2 DEF LiberarLee, LiberarSuma, LiberarMira, LiberarVacia, LiberarRellena, cpuVars, hilosVars
    <2>3. CASE LiberarDesbloquea \/ LiberarResta \/ LiberarDespierta \/ LiberarAvisa
      BY <2>3 DEF LiberarDesbloquea, LiberarResta, LiberarDespierta, LiberarAvisa, cpuVars, hilosVars
    <2> QED BY <2>1, <2>2, <2>3 DEF Salida, Liberacion
  <1>2. \A q \in Pid : pcb'[q].motivo = pcb[q].motivo
    <2>0. pcb \in [Pid -> Pcb]
      BY DEF TypeOK, TipoProcesos
    <2>1. CASE LiberarSuma
      <3>1. salida.pcb \in Pid /\ \E n : pcb' = [pcb EXCEPT ![salida.pcb].asignados[Rec] = n]
        BY <2>1, PunterosPid DEF LiberarSuma
      <3> QED BY <2>0, <3>1, InstanciasMotivo
    <2>2. CASE LiberarDesbloquea
      <3>1. CASE colabloqueado[Rec] # <<>>
        <4> DEFINE p == Head(colabloqueado[Rec])
        <4>1. p \in Pid
          BY <2>2, <3>1, PunterosPid, CabezaTipo, ListasTipo DEF LiberarDesbloquea, PasosConRec, TypeOK, Rec
        <4>2. \E n : pcb' = [pcb EXCEPT ![p].asignados[Rec] = n]
          BY <2>2, <3>1 DEF LiberarDesbloquea
        <4> HIDE DEF p
        <4> QED BY <2>0, <4>1, <4>2, InstanciasMotivo
      <3>2. CASE colabloqueado[Rec] = <<>>
        BY <2>2, <3>2 DEF LiberarDesbloquea
      <3> QED BY <3>1, <3>2
    <2>3. CASE LiberarDespierta
      <3>1. salida.hijo \in Pid /\ (pcb' = pcb \/ pcb' = Listo(pcb, salida.hijo))
        BY <2>3, PunterosPid DEF LiberarDespierta, PasosConRec
      <3> QED BY <2>0, <3>1, ListoMotivo
    <2>4. CASE SalidaDestruye
      <3> DEFINE ps == [pcb EXCEPT ![salida.pcb].estado = "DESTRUIDO"]
                 p  == Head(cola["detenidos"])
      <3>1. salida.pcb \in Pid
        BY <2>4, PunterosPid DEF SalidaDestruye
      <3>2. ps \in [Pid -> Pcb] /\ \A q \in Pid : ps[q].motivo = pcb[q].motivo
        <4>1. ps \in [Pid -> Pcb]
          BY <2>0, <3>1, ProcesosTipo DEF Estados
        <4>2. \A q \in Pid : ps[q].motivo = pcb[q].motivo
          BY <2>0, <3>1, MotivoIgual
        <4> QED BY <4>1, <4>2
      <3>3. cola["detenidos"] # <<>> => p \in Pid
        BY CabezaTipo, ListasTipo DEF TypeOK, Listas
      <3>4. pcb' = ps \/ (cola["detenidos"] # <<>> /\ pcb' = Listo(ps, p))
        BY <2>4 DEF SalidaDestruye
      <3> HIDE DEF ps, p
      <3> QED BY <3>2, <3>3, <3>4, ListoMotivo
    <2>5. CASE ~(LiberarSuma \/ LiberarDesbloquea \/ LiberarDespierta \/ SalidaDestruye)
      <3>1. pcb' = pcb
        BY <2>5 DEF Salida, Liberacion, SalidaToma, SalidaAvisa, LiberarLee, LiberarMira, LiberarVacia,
                    LiberarRellena, LiberarResta, LiberarAvisa
      <3> QED BY <3>1
    <2> QED BY <2>1, <2>2, <2>3, <2>4, <2>5
  <1> QED BY <1>1, <1>2, CpuIgual

\* liberar_recursos.
LEMMA DuenosLiberacion ==
  ASSUME TypeOK, PunterosValidos, SinCompartir, Huecos, Liberacion
  PROVE  Pasa
  <1>0. /\ \A q \in Pid : EnCpu(q)' <=> EnCpu(q)
        /\ UNCHANGED <<exec, admision, sleepers, pf, fs>>
    BY SalidaCpu DEF Salida
  <1>1. CASE LiberarLee \/ LiberarSuma \/ LiberarMira \/ LiberarResta \/ LiberarAvisa
    <2>1. salida'.pcb = salida.pcb /\ salida'.hijo = salida.hijo /\ salida'.aux = salida.aux
      BY <1>1 DEF LiberarLee, LiberarSuma, LiberarMira, LiberarResta, LiberarAvisa, SalidaEn, TypeOK,
                  TipoSalida
    <2>2. UNCHANGED <<cola, colabloqueado, espera_archivo>>
      BY <1>1 DEF LiberarLee, LiberarSuma, LiberarMira, LiberarResta, LiberarAvisa, recursoVars, archivoVars
    <2>3. FueraDe({})
      BY <1>0, <2>1, <2>2 DEF FueraDe
    <2> QED BY <2>3, NadieMuda
  <1>2. CASE (LiberarVacia \/ LiberarDesbloquea) /\ colabloqueado[Rec] = <<>>
    <2>1. UNCHANGED <<cola, colabloqueado, espera_archivo, salida>>
      BY <1>2 DEF LiberarVacia, LiberarDesbloquea, archivoVars
    <2>2. FueraDe({})
      BY <1>0, <2>1 DEF FueraDe
    <2> QED BY <2>2, NadieMuda
  <1>3. CASE (LiberarVacia \/ LiberarDesbloquea) /\ colabloqueado[Rec] # <<>>
    <2>0. PICK r \in Recursos : r = Rec
      BY <1>3, PunterosPid DEF LiberarVacia, LiberarDesbloquea, PasosConRec, Rec
    <2> DEFINE p == Head(colabloqueado[r])
    <2>1. p \in Pid /\ colabloqueado[r] # <<>>
      BY <1>3, <2>0, CabezaTipo, ListasTipo DEF TypeOK
    <2>2. /\ colabloqueado'[r] = Tail(colabloqueado[r])
          /\ \A s \in Recursos : s # r => colabloqueado'[s] = colabloqueado[s]
      <3>1. colabloqueado' = [colabloqueado EXCEPT ![r] = Tail(@)]
        BY <1>3, <2>0 DEF LiberarVacia, LiberarDesbloquea
      <3> QED BY <3>1 DEF TypeOK, TipoListas
    <2>3. Sale(<<"recurso", r>>, p)
      BY <2>0, <2>1, <2>2, SitiosCola DEF Sale
    <2>4. UNCHANGED <<cola, espera_archivo>>
      BY <1>3 DEF LiberarVacia, LiberarDesbloquea, archivoVars
    <2>5. CASE LiberarVacia
      <3>1. p # salida.pcb
        <4>1. p \in Hay(<<"recurso", r>>)
          BY <2>3, SaleEs, LugaresSon
        <4>2. p \notin Hay(<<"salida", 0>>)
          BY <4>1, LugaresSon DEF SinCompartir, Punteros
        <4> QED BY <2>1, <4>2, SitiosHilos
      <3>2. salida' = [salida EXCEPT !.paso = "vaciar", !.aux = Append(@, p)]
        BY <1>3, <2>0, <2>5, <3>1 DEF LiberarVacia
      <3>3. salida'.aux = Append(salida.aux, p) /\ salida'.pcb = salida.pcb /\ salida'.hijo = salida.hijo
        BY <3>2 DEF TypeOK, TipoSalida
      <3> HIDE DEF p
      <3>4. Entra(<<"aux", 0>>, p)
        BY <3>3, SitiosCola DEF Entra
      <3>5. FueraDe({<<"recurso", r>>, <<"aux", 0>>})
        BY <1>0, <2>2, <2>4, <3>3 DEF FueraDe
      <3> QED BY <2>3, <3>4, <3>5, Muda, LugaresSon
    <2>6. CASE LiberarDesbloquea
      <3>1. salida.hijo = Nada
        BY <2>6 DEF LiberarDesbloquea, Huecos
      <3>2. salida'.aux = salida.aux /\ salida'.pcb = salida.pcb /\ salida'.hijo = p
        BY <1>3, <2>0, <2>6 DEF LiberarDesbloquea, TypeOK, TipoSalida
      <3> HIDE DEF p
      <3>3. Entra(<<"desbloqueado", 0>>, p)
        BY <2>1, <3>1, <3>2, PidNoNulo, PunteroGana DEF Punteros, Apunta
      <3>4. FueraDe({<<"recurso", r>>, <<"desbloqueado", 0>>})
        BY <1>0, <2>2, <2>4, <3>2 DEF FueraDe
      <3> QED BY <2>0, <2>3, <3>3, <3>4, Muda, LugaresSon DEF Punteros
    <2> QED BY <1>3, <2>5, <2>6
  <1>4. CASE LiberarRellena
    <2>1. CASE salida.aux = <<>>
      <3>1. salida'.pcb = salida.pcb /\ salida'.hijo = salida.hijo /\ salida'.aux = salida.aux
        BY <1>4, <2>1 DEF LiberarRellena, TypeOK, TipoSalida
      <3>2. UNCHANGED <<cola, colabloqueado, espera_archivo>>
        BY <1>4, <2>1 DEF LiberarRellena, archivoVars
      <3>3. FueraDe({})
        BY <1>0, <3>1, <3>2 DEF FueraDe
      <3> QED BY <3>3, NadieMuda
    <2>2. CASE salida.aux # <<>>
      <3>0. PICK r \in Recursos : r = Rec
        BY <1>4, PunterosPid DEF LiberarRellena, PasosConRec, Rec
      <3> DEFINE p == Head(salida.aux)
      <3>1. p \in Pid
        BY <2>2, CabezaTipo DEF TypeOK, TipoSalida
      <3>2. salida'.aux = Tail(salida.aux) /\ salida'.pcb = salida.pcb /\ salida'.hijo = salida.hijo
        BY <1>4, <2>2 DEF LiberarRellena, TypeOK, TipoSalida
      <3>3. /\ colabloqueado'[r] = Append(colabloqueado[r], p)
            /\ \A s \in Recursos : s # r => colabloqueado'[s] = colabloqueado[s]
        BY <1>4, <2>2, <3>0 DEF LiberarRellena, TypeOK, TipoListas
      <3>4. UNCHANGED <<cola, espera_archivo>>
        BY <1>4 DEF LiberarRellena, archivoVars
      <3>5. Sale(<<"aux", 0>>, p)
        BY <2>2, <3>2, SitiosCola DEF Sale
      <3> HIDE DEF p
      <3>6. Entra(<<"recurso", r>>, p)
        BY <3>0, <3>3, SitiosCola DEF Entra
      <3>7. FueraDe({<<"aux", 0>>, <<"recurso", r>>})
        BY <1>0, <3>2, <3>3, <3>4 DEF FueraDe
      <3> QED BY <3>0, <3>5, <3>6, <3>7, Muda, LugaresSon
    <2> QED BY <2>1, <2>2
  <1>5. CASE LiberarDespierta
    <2> DEFINE p == salida.hijo
    <2>1. p \in Pid
      BY <1>5, PunterosPid DEF LiberarDespierta
    <2>2. PICK l \in {"ready", "detenidos"} : cola' = Agregar(cola, l, p)
      BY <1>5 DEF LiberarDespierta
    <2>3. salida'.hijo = Nada /\ salida'.pcb = salida.pcb /\ salida'.aux = salida.aux
      BY <1>5 DEF LiberarDespierta, TypeOK, TipoSalida
    <2>4. UNCHANGED <<colabloqueado, espera_archivo>>
      BY <1>5 DEF LiberarDespierta, recursoVars, archivoVars
    <2> HIDE DEF p
    <2>5. Sale(<<"desbloqueado", 0>>, p)
      BY <2>1, <2>3, PidNoNulo, PunteroPierde DEF Punteros, Apunta, p
    <2>6. Entra(<<l, 0>>, p) /\ \A m \in Cuatro : m # l => cola'[m] = cola[m]
      BY <2>1, <2>2, ListaGana DEF Cuatro
    <2>7. FueraDe({<<"desbloqueado", 0>>, <<l, 0>>})
      BY <1>0, <2>3, <2>4, <2>6 DEF FueraDe
    <2> QED BY <2>2, <2>5, <2>6, <2>7, Muda, LugaresSon DEF Punteros, Cuatro
  <1> QED BY <1>1, <1>2, <1>3, <1>4, <1>5 DEF Liberacion

\* exit_pcb takes a finished PCB, or posts.
LEMMA DuenosSalida ==
  ASSUME TypeOK, PunterosValidos, SinCompartir, Huecos, SalidaToma \/ SalidaAvisa
  PROVE  Pasa
  <1>0. /\ \A q \in Pid : EnCpu(q)' <=> EnCpu(q)
        /\ UNCHANGED <<exec, admision, sleepers, pf, fs>>
    BY SalidaCpu DEF Salida
  <1>1. UNCHANGED <<colabloqueado, espera_archivo>>
    BY DEF SalidaToma, SalidaAvisa, recursoVars, archivoVars
  <1>2. salida.pcb = Nada /\ salida.hijo = Nada /\ salida.aux = <<>>
    BY DEF SalidaToma, SalidaAvisa, Huecos
  <1>3. CASE SalidaToma /\ cola["exit"] # <<>>
    <2> DEFINE p == Head(cola["exit"])
    <2>1. Sale(<<"exit", 0>>, p) /\ p \in Pid /\ \A m \in Cuatro : m # "exit" => cola'[m] = cola[m]
      BY <1>3, ListaPierde DEF SalidaToma, Cuatro
    <2>2. salida'.pcb = p /\ salida'.hijo = Nada /\ salida'.aux = <<>>
      BY <1>3 DEF SalidaToma, SinSalida
    <2> HIDE DEF p
    <2>3. Entra(<<"salida", 0>>, p)
      BY <1>2, <2>1, <2>2, PidNoNulo, PunteroGana DEF Punteros, Apunta
    <2>4. FueraDe({<<"exit", 0>>, <<"salida", 0>>})
      BY <1>0, <1>1, <1>2, <2>1, <2>2 DEF FueraDe
    <2> QED BY <2>1, <2>3, <2>4, Muda, LugaresSon DEF Punteros, Cuatro
  <1>4. CASE SalidaAvisa \/ (SalidaToma /\ cola["exit"] = <<>>)
    <2>1. salida'.pcb = Nada /\ salida'.hijo = Nada /\ salida'.aux = <<>>
      <3>1. salida' = SinSalida \/ salida' = salida
        BY <1>4 DEF SalidaToma, SalidaAvisa
      <3> QED BY <1>2, <3>1 DEF SinSalida
    <2>2. UNCHANGED cola
      BY <1>4 DEF SalidaToma, SalidaAvisa
    <2>3. FueraDe({})
      BY <1>0, <1>1, <1>2, <2>1, <2>2 DEF FueraDe
    <2> QED BY <2>3, NadieMuda
  <1> QED BY <1>3, <1>4

\* The console, but for the creation of a process; the clock, and an interrupt that is lost.
LEMMA DuenosConsola ==
  ASSUME TypeOK, SinCompartir,
         \/ IniciarPlanificacion \/ DetenerPlanificacion \/ ReanudarPost \/ ReanudarFlag
         \/ ModificarGrado \/ PasaSegundo \/ InterrupcionPerdida
  PROVE  Pasa
  <1>1. UNCHANGED <<exec, pcb, proceso_en_ejecucion, pcbelegido>>
    <2>1. CASE IniciarPlanificacion \/ DetenerPlanificacion \/ ReanudarPost \/ ReanudarFlag
      BY <2>1 DEF IniciarPlanificacion, DetenerPlanificacion, ReanudarPost, ReanudarFlag, cpuVars
    <2>2. CASE ModificarGrado \/ PasaSegundo \/ InterrupcionPerdida
      BY <2>2 DEF ModificarGrado, PasaSegundo, InterrupcionPerdida, cpuVars
    <2> QED BY <2>1, <2>2
  <1>2. UNCHANGED <<cola, colabloqueado, espera_archivo, admision, salida, sleepers, pf, fs>>
    <2>1. CASE IniciarPlanificacion \/ DetenerPlanificacion \/ ReanudarPost \/ ReanudarFlag
      BY <2>1 DEF IniciarPlanificacion, DetenerPlanificacion, ReanudarPost, ReanudarFlag, recursoVars,
          archivoVars, hilosVars
    <2>2. CASE ModificarGrado \/ PasaSegundo \/ InterrupcionPerdida
      BY <2>2 DEF ModificarGrado, PasaSegundo, InterrupcionPerdida, recursoVars, archivoVars, hilosVars
    <2> QED BY <2>1, <2>2
  <1>3. \A q \in Pid : EnCpu(q)' <=> EnCpu(q)
    BY <1>1, CpuIgual
  <1>4. FueraDe({})
    BY <1>1, <1>2, <1>3 DEF FueraDe
  <1> QED BY <1>4, NadieMuda

\* iniciar_proceso: the new PCB is in cola_listos_para_ready.
LEMMA DuenosNuevo ==
  ASSUME TypeOK, SinCompartir, Vivos, IniciarProceso
  PROVE  SinCompartir' /\ ConDueno' = ConDueno \cup {generador_de_id}
  <1> DEFINE p == generador_de_id
  <1>1. p \in Pid
    BY DEF IniciarProceso
  <1>2. p \notin ConDueno
    <2>1. ~(p < p)
      BY <1>1, PlanificadorSupuestos DEF Pid
    <2> QED BY <2>1 DEF Vivos
  <1>3. Entra(<<"listos", 0>>, p) /\ \A m \in Cuatro : m # "listos" => cola'[m] = cola[m]
    BY <1>1, ListaGana DEF IniciarProceso, Cuatro
  <1>4. \A q \in Pid : pcb'[q].motivo = pcb[q].motivo
    BY <1>1, NuevoTipo DEF IniciarProceso, TypeOK, TipoProcesos
  <1>5. \A q \in Pid : EnCpu(q)' <=> EnCpu(q)
    BY <1>4, CpuIgual DEF IniciarProceso, cpuVars
  <1>6. UNCHANGED <<exec, colabloqueado, espera_archivo, admision, salida, sleepers, pf, fs>>
    BY DEF IniciarProceso, recursoVars, archivoVars, hilosVars
  <1> HIDE DEF p
  <1>7. FueraDe({<<"listos", 0>>})
    BY <1>3, <1>5, <1>6 DEF FueraDe
  <1> QED BY <1>1, <1>2, <1>3, <1>7, Aparece, LugaresSon DEF Cuatro, p

\* What follows in a concatenation, and what an append leaves where it was.
LEMMA Sigue ==
  ASSUME NEW u \in Seq(Pid), NEW v \in Seq(Pid), NEW k \in 1 .. Len(u) + Len(v), k > Len(u)
  PROVE  (u \o v)[k] = v[k - Len(u)]
  BY ConcatProperties

LEMMA AgregarDeja ==
  ASSUME NEW s \in Seq(Pid), NEW p \in Pid
  PROVE  /\ \A i \in DOMAIN s : i \in DOMAIN Append(s, p) /\ Append(s, p)[i] = s[i]
         /\ Append(s, p) # <<>>
  <1>1. /\ Append(s, p) \in Seq(Pid) /\ Len(Append(s, p)) = Len(s) + 1 /\ Len(s) \in Nat
        /\ \A i \in 1 .. Len(s) : Append(s, p)[i] = s[i]
    BY AppendProperties
  <1> DEFINE t == Append(s, p)
  <1>2. DOMAIN s = 1 .. Len(s) /\ DOMAIN t = 1 .. Len(t)
    BY <1>1, LenProperties
  <1>3. t # <<>>
    BY <1>1, EmptySeq
  <1> HIDE DEF t
  <1>4. \A i \in DOMAIN s : i \in DOMAIN t /\ t[i] = s[i]
    <2>1. Len(t) = Len(s) + 1 /\ Len(s) \in Nat /\ \A i \in 1 .. Len(s) : t[i] = s[i]
      BY <1>1 DEF t
    <2> QED BY <1>2, <2>1
  <1> QED BY <1>3, <1>4 DEF t

\* list_remove of any position of a list that has nobody twice.
LEMMA SacarDe ==
  ASSUME NEW s \in Seq(Pid), IsInjective(s), NEW i \in DOMAIN s
  PROVE  /\ s[i] \in Pid /\ s[i] \in Contenido(s)
         /\ Contenido(RemoveAt(s, i)) = Contenido(s) \ {s[i]} /\ IsInjective(RemoveAt(s, i))
  <1> DEFINE t == RemoveAt(s, i)
  <1>1. i \in 1 .. Len(s) /\ Len(s) \in Nat /\ DOMAIN s = 1 .. Len(s)
    OBVIOUS
  <1>2. /\ Len(t) = Len(s) - 1 /\ DOMAIN t = 1 .. Len(s) - 1
        /\ \A j \in 1 .. Len(s) - 1 : t[j] = IF j < i THEN s[j] ELSE s[j + 1]
    <2>1. /\ SubSeq(s, 1, i - 1) \in Seq(Pid) /\ Len(SubSeq(s, 1, i - 1)) = i - 1
          /\ \A j \in 1 .. i - 1 : SubSeq(s, 1, i - 1)[j] = s[j]
      BY <1>1, SubSeqProperties
    <2>2. /\ SubSeq(s, i + 1, Len(s)) \in Seq(Pid) /\ Len(SubSeq(s, i + 1, Len(s))) = Len(s) - i
          /\ \A j \in 1 .. Len(s) - i : SubSeq(s, i + 1, Len(s))[j] = s[i + j]
      BY <1>1, SubSeqProperties
    <2>3. t = SubSeq(s, 1, i - 1) \o SubSeq(s, i + 1, Len(s))
      BY DEF RemoveAt
    <2> DEFINE u == SubSeq(s, 1, i - 1)
               v == SubSeq(s, i + 1, Len(s))
    <2>4. u \in Seq(Pid) /\ v \in Seq(Pid) /\ Len(u) = i - 1 /\ Len(v) = Len(s) - i /\ t = u \o v
      BY <2>1, <2>2, <2>3
    <2>5. /\ \A j \in 1 .. i - 1 : u[j] = s[j]
          /\ \A j \in 1 .. Len(s) - i : v[j] = s[i + j]
      BY <2>1, <2>2
    <2> HIDE DEF u, v
    <2>6. Len(t) = Len(s) - 1 /\ DOMAIN t = 1 .. Len(s) - 1
      <3>1. t \in Seq(Pid) /\ Len(t) = Len(u) + Len(v)
        BY <2>4, ConcatProperties
      <3>2. Len(t) = Len(s) - 1
        BY <1>1, <2>4, <3>1
      <3>3. DOMAIN t = 1 .. Len(t)
        BY <3>1
      <3> QED BY <3>2, <3>3
    <2>7. ASSUME NEW j \in 1 .. Len(s) - 1, j < i PROVE t[j] = s[j]
      <3>1. j \in 1 .. i - 1 /\ j \in 1 .. Len(u) /\ t[j] = u[j]
        BY <1>1, <2>4, <2>7
      <3> QED BY <2>5, <3>1
    <2>8. ASSUME NEW j \in 1 .. Len(s) - 1, ~(j < i) PROVE t[j] = s[j + 1]
      <3>1. j - Len(u) \in 1 .. Len(s) - i /\ t[j] = v[j - Len(u)] /\ i + (j - Len(u)) = j + 1
        <4>1. j - Len(u) \in 1 .. Len(s) - i /\ i + (j - Len(u)) = j + 1
          BY <1>1, <2>4, <2>8
        <4>2. j \in 1 .. Len(u) + Len(v) /\ j > Len(u)
          BY <1>1, <2>4, <2>8
        <4>3. t[j] = v[j - Len(u)]
          BY <2>4, <4>2, Sigue
        <4> QED BY <4>1, <4>3
      <3> QED BY <2>5, <3>1
    <2> QED BY <2>6, <2>7, <2>8
  <1> HIDE DEF t
  <1>3. \A j, k \in 1 .. Len(s) : s[j] = s[k] => j = k
    BY <1>1 DEF IsInjective
  <1>4. ASSUME NEW p \in Contenido(t) PROVE p \in Contenido(s) \ {s[i]}
    <2>1. PICK j \in 1 .. Len(s) - 1 : p = t[j]
      BY <1>2 DEF Contenido
    <2>2. PICK k \in 1 .. Len(s) : p = s[k] /\ k # i
      <3>1. CASE j < i
        BY <1>1, <1>2, <2>1, <3>1
      <3>2. CASE ~(j < i)
        <4>1. j + 1 \in 1 .. Len(s) /\ p = s[j + 1] /\ j + 1 # i
          BY <1>1, <1>2, <2>1, <3>2
        <4> QED BY <4>1
      <3> QED BY <3>1, <3>2
    <2> QED BY <1>1, <1>3, <2>2 DEF Contenido
  <1>5. ASSUME NEW p \in Contenido(s), p # s[i] PROVE p \in Contenido(t)
    <2>1. PICK j \in 1 .. Len(s) : p = s[j]
      BY <1>1 DEF Contenido
    <2>2. PICK k \in 1 .. Len(s) - 1 : t[k] = p
      <3>1. CASE j < i
        <4>1. j \in 1 .. Len(s) - 1 /\ t[j] = s[j]
          BY <1>1, <1>2, <3>1
        <4> QED BY <2>1, <4>1
      <3>2. CASE ~(j < i)
        <4>1. j # i
          BY <1>5, <2>1
        <4>2. j - 1 \in 1 .. Len(s) - 1 /\ ~(j - 1 < i) /\ j - 1 + 1 = j
          BY <1>1, <3>2, <4>1
        <4>3. t[j - 1] = s[j - 1 + 1]
          BY <1>2, <4>2
        <4> QED BY <2>1, <4>2, <4>3
      <3> QED BY <3>1, <3>2
    <2> QED BY <1>2, <2>2 DEF Contenido
  <1>6. ASSUME NEW j \in 1 .. Len(s) - 1, NEW k \in 1 .. Len(s) - 1, t[j] = t[k] PROVE j = k
    <2>1. /\ t[j] = IF j < i THEN s[j] ELSE s[j + 1]
          /\ t[k] = IF k < i THEN s[k] ELSE s[k + 1]
          /\ j \in 1 .. Len(s) /\ j + 1 \in 1 .. Len(s) /\ k \in 1 .. Len(s) /\ k + 1 \in 1 .. Len(s)
      BY <1>1, <1>2
    <2>2. CASE j < i /\ k < i
      BY <1>3, <1>6, <2>1, <2>2
    <2>3. CASE j < i /\ ~(k < i)
      <3>1. j = k + 1
        BY <1>3, <1>6, <2>1, <2>3
      <3> QED BY <1>1, <2>3, <3>1
    <2>4. CASE ~(j < i) /\ k < i
      <3>1. j + 1 = k
        BY <1>3, <1>6, <2>1, <2>4
      <3> QED BY <1>1, <2>4, <3>1
    <2>5. CASE ~(j < i) /\ ~(k < i)
      <3>1. j + 1 = k + 1
        BY <1>3, <1>6, <2>1, <2>5
      <3> QED BY <3>1
    <2> QED BY <2>2, <2>3, <2>4, <2>5
  <1>7. IsInjective(t)
    BY <1>2, <1>6 DEF IsInjective
  <1>8. s[i] \in Pid /\ s[i] \in Contenido(s)
    BY <1>1 DEF Contenido
  <1>9. Contenido(t) = Contenido(s) \ {s[i]}
    BY <1>4, <1>5
  <1> QED BY <1>7, <1>8, <1>9 DEF t

\* elegir_pcb_segun_algoritmo: the chosen PCB leaves lista_ready; a pid of 100 or more is
\* lost.
LEMMA DuenosElige ==
  ASSUME TypeOK, PunterosValidos, SinCompartir, Turno, ExecElige, HayReady
  PROVE  /\ SinCompartir' /\ pcbelegido' \in ConDueno /\ pcbelegido' \in Pid
         /\ ConDueno' = IF EsBasura(pcbelegido') THEN ConDueno \ {pcbelegido'} ELSE ConDueno
         /\ pcbelegido' \in Contenido(cola["ready"])
         /\ Contenido(cola'["ready"]) = Contenido(cola["ready"]) \ {pcbelegido'}
  <1>0. PICK i \in DOMAIN cola["ready"] :
          /\ pcbelegido' = cola["ready"][i]
          /\ pcb' = [pcb EXCEPT ![cola["ready"][i]].estado = "EXEC"]
          /\ cola' = [cola EXCEPT !["ready"] = RemoveAt(@, i), !["exec"] = Append(@, cola["ready"][i])]
          /\ exec' = [exec EXCEPT !.paso = IF EsBasura(cola["ready"][i]) THEN "basura" ELSE "cpu"]
    BY DEF ExecElige
  <1>1. PICK p : p = cola["ready"][i]
    OBVIOUS
  <1>2. cola["ready"] \in Seq(Pid) /\ IsInjective(cola["ready"])
    BY ListasTipo, SitiosCola DEF TypeOK, Listas, SinCompartir, Cuatro
  <1>3. /\ p \in Pid /\ p \in Contenido(cola["ready"])
        /\ Contenido(RemoveAt(cola["ready"], i)) = Contenido(cola["ready"]) \ {p}
        /\ IsInjective(RemoveAt(cola["ready"], i))
    BY <1>1, <1>2, SacarDe
  <1>4. cola'["ready"] = RemoveAt(cola["ready"], i) /\ \A m \in Cuatro : m # "ready" => cola'[m] = cola[m]
    BY <1>0 DEF TypeOK, TipoListas, Cuatro, Listas
  <1>5. Deja(<<"ready", 0>>, p)
    BY <1>3, <1>4, SitiosCola DEF Deja, Cuatro
  <1>6. \A q \in Pid : ~EnCpu(q)
    BY PidNoNulo DEF ExecElige, Continua, EnCpu, PasosConPcb
  <1>7. exec'.hijo = exec.hijo /\ exec'.paso = IF EsBasura(p) THEN "basura" ELSE "cpu"
    BY <1>0, <1>1 DEF TypeOK, TipoExec
  <1>8. UNCHANGED <<colabloqueado, espera_archivo, admision, salida, sleepers, pf, fs, proceso_en_ejecucion>>
    BY DEF ExecElige, recursoVars, archivoVars, hilosVars
  <1>9. pcbelegido' = p
    BY <1>0, <1>1
  <1>10. p \in ConDueno
    BY <1>3, SitiosCola, LugaresSon DEF ConDueno, Cuatro
  <1>11. CASE EsBasura(p)
    <2>1. \A q \in Pid : EnCpu(q)' <=> EnCpu(q)
      BY <1>6, <1>7, <1>11 DEF EnCpu, PasosConPcb
    <2>2. FueraDe({<<"ready", 0>>})
      BY <1>4, <1>7, <1>8, <2>1 DEF FueraDe
    <2>3. SinCompartir' /\ ConDueno' = ConDueno \ {p}
      BY <1>5, <2>2, Desaparece, LugaresSon DEF Cuatro
    <2> QED BY <1>3, <1>4, <1>9, <1>10, <1>11, <2>3
  <1>12. CASE ~EsBasura(p)
    <2>1. \A q \in Pid : Apunta("cpu", q)' <=> q = p
      BY <1>7, <1>9, <1>12 DEF Apunta, EnCpu, PasosConPcb
    <2>2. \A q \in Pid : ~Apunta("cpu", q)
      BY <1>6 DEF Apunta
    <2>3. Entra(<<"cpu", 0>>, p)
      BY <1>3, <2>1, <2>2, PunteroGana DEF Punteros
    <2>4. FueraDe({<<"ready", 0>>, <<"cpu", 0>>})
      BY <1>4, <1>7, <1>8 DEF FueraDe
    <2>5. Pasa
      BY <1>5, <2>3, <2>4, MudaDe, LugaresSon DEF Cuatro, Punteros
    <2> QED BY <1>3, <1>4, <1>9, <1>10, <1>12, <2>5 DEF Pasa
  <1> QED BY <1>11, <1>12

\* pcb_destroy, with those who wait in the entries it frees, and the process that becomes
\* READY in its place.
LEMMA DuenosDestruye ==
  ASSUME TypeOK, PunterosValidos, SinCompartir, Huecos, SalidaDestruye,
         NEW S \in SUBSET espera_archivo, Pierde(S)
  PROVE  /\ SinCompartir' /\ ConDueno' = ConDueno \ ({salida.pcb} \cup S) /\ salida.pcb \in Pid
         /\ cola["detenidos"] # <<>> =>
              /\ Head(cola["detenidos"]) \in ConDueno \ ({salida.pcb} \cup S)
              /\ Head(cola["detenidos"]) \in Pid
  <1>0. /\ \A q \in Pid : EnCpu(q)' <=> EnCpu(q)
        /\ UNCHANGED <<exec, admision, sleepers, pf, fs>>
    BY SalidaCpu DEF Salida
  <1>1. PICK p \in Pid : p = salida.pcb
    BY PunterosPid DEF SalidaDestruye
  <1>2. salida.hijo = Nada /\ salida.aux = <<>>
    BY DEF SalidaDestruye, Huecos
  <1>3. salida'.pcb = Nada /\ salida'.hijo = Nada /\ salida'.aux = <<>>
    BY DEF SalidaDestruye, SinSalida
  <1>4. Hay(<<"salida", 0>>) = {p} /\ Hay(<<"salida", 0>>)' = {}
    BY <1>1, <1>3, PidNoNulo, SitiosHilos
  <1>5. UNCHANGED colabloqueado
    BY DEF SalidaDestruye
  <1>6. S \subseteq Hay(<<"archivo", 0>>) /\ Hay(<<"archivo", 0>>)' = Hay(<<"archivo", 0>>) \ S
    BY SitiosEspera DEF Pierde, TypeOK, TipoListas
  <1>7. /\ <<"salida", 0>> \in Lugares \ Colas /\ <<"archivo", 0>> \in Lugares \ Colas
        /\ <<"detenidos", 0>> \in Lugares /\ <<"ready", 0>> \in Lugares
    BY SitiosPuntero, LugaresSon DEF Punteros, Cuatro
  <1>t. PICK T : T = {p} \cup S
    OBVIOUS
  <1>8. \A c \in Lugares : c # <<"salida", 0>> /\ c # <<"archivo", 0>> => Hay(c) \cap T = {}
    BY <1>t, <1>4, <1>6, <1>7 DEF SinCompartir
  <1>9. ASSUME NEW c \in Lugares, c = <<"salida", 0>> \/ c = <<"archivo", 0>> \/ Igual(c)
        PROVE  Quedan(c, T)
    <2>1. Hay(<<"salida", 0>>) \cap Hay(<<"archivo", 0>>) = {}
      BY <1>7 DEF SinCompartir
    <2>2. CASE c = <<"salida", 0>>
      BY <1>t, <1>4, <1>6, <1>7, <2>1, <2>2 DEF Quedan
    <2>3. CASE c = <<"archivo", 0>>
      BY <1>t, <1>4, <1>6, <1>7, <2>1, <2>3 DEF Quedan
    <2>4. CASE c # <<"salida", 0>> /\ c # <<"archivo", 0>>
      BY <1>8, <1>9, <2>4 DEF Igual, SinCompartir, Quedan
    <2> QED BY <2>2, <2>3, <2>4
  <1>10. CASE cola["detenidos"] = <<>>
    <2>1. UNCHANGED cola
      BY <1>10 DEF SalidaDestruye
    <2>2. FueraDe({<<"salida", 0>>, <<"archivo", 0>>})
      BY <1>0, <1>2, <1>3, <1>5, <2>1 DEF FueraDe
    <2>3. \A c \in Lugares : c = <<"salida", 0>> \/ c = <<"archivo", 0>> \/ Igual(c)
      BY <2>2, Fuera
    <2>4. SinCompartir' /\ ConDueno' = ConDueno \ T
      BY <1>9, <2>3, SeVan
    <2> QED BY <1>1, <1>10, <1>t, <2>4
  <1>11. CASE cola["detenidos"] # <<>>
    <2>1. PICK q : q = Head(cola["detenidos"])
      OBVIOUS
    <2>2. q \in Pid /\ cola["detenidos"] \in Seq(Pid)
      BY <1>11, <2>1, CabezaTipo, ListasTipo DEF TypeOK, Listas
    <2>3. cola' = Agregar(SinPrimero(cola, "detenidos"), "ready", q)
      BY <1>11, <2>1 DEF SalidaDestruye
    <2>4. /\ cola'["detenidos"] = Tail(cola["detenidos"]) /\ cola'["ready"] = Append(cola["ready"], q)
          /\ \A m \in Cuatro : m # "ready" /\ m # "detenidos" => cola'[m] = cola[m]
      BY <2>3 DEF Agregar, SinPrimero, Cuatro, Listas, TypeOK, TipoListas
    <2>5. Sale(<<"detenidos", 0>>, q)
      BY <1>11, <2>1, <2>4, SitiosCola DEF Sale, Cuatro
    <2>6. Deja(<<"detenidos", 0>>, q)
      BY <1>7, <2>5, SaleEs DEF Deja
    <2>7. Entra(<<"ready", 0>>, q)
      BY <2>4, SitiosCola DEF Entra, Cuatro
    <2>8. FueraDe({<<"detenidos", 0>>, <<"ready", 0>>, <<"salida", 0>>, <<"archivo", 0>>})
      BY <1>0, <1>2, <1>3, <1>5, <2>4 DEF FueraDe
    <2>9. \A c \in Lugares : \/ c = <<"detenidos", 0>> \/ c = <<"ready", 0>>
                             \/ c = <<"salida", 0>> \/ c = <<"archivo", 0>> \/ Igual(c)
      BY <2>8, Fuera
    <2>10. T \cap (Hay(<<"detenidos", 0>>) \cup Hay(<<"ready", 0>>)) = {}
      BY <1>7, <1>8
    <2>11. \A c \in Lugares : c # <<"detenidos", 0>> /\ c # <<"ready", 0>> => Quedan(c, T)
      BY <1>9, <2>9
    <2>12. SinCompartir' /\ ConDueno' = ConDueno \ T /\ q \in ConDueno \ T
      <3>1. PICK a, b : a = <<"detenidos", 0>> /\ b = <<"ready", 0>>
        OBVIOUS
      <3>2. /\ a \in Lugares /\ b \in Lugares /\ a # b /\ Deja(a, q) /\ Entra(b, q)
            /\ QuedanSalvo(a, b, T)
        BY <1>7, <2>6, <2>7, <2>10, <2>11, <3>1 DEF QuedanSalvo
      <3> QED BY ONLY TypeOK, SinCompartir, <3>2, MudaYSeVan
    <2> QED BY <1>1, <2>1, <2>2, <1>t, <2>12
  <1> QED BY <1>10, <1>11

-----------------------------------------------------------------------------
(* The pointers, the turn of exec_pcb and the processes that are alive *)

\* A step of a thread other than exec_pcb and its handlers: lista_ready can only grow, the
\* reason of the process in the CPU stays, and a request to the filesystem stays on its way.
LEMMA TurnoOtros ==
  ASSUME TypeOK, PunterosValidos, Turno,
         UNCHANGED <<exec, proceso_en_ejecucion, pcbelegido>>, caido' # "lista_vacia",
         \A q \in Pid : pcb'[q].motivo = pcb[q].motivo \/ (~EnCpu(q) /\ pcb'[q].motivo # "SYSCALL"),
         UNCHANGED cola["ready"] \/ \E p \in Pid : cola'["ready"] = Append(cola["ready"], p),
         UNCHANGED fs \/ \A q \in Pid :
           q \in Hay(<<"fs_pedido", 0>>) \cup Hay(<<"fs_respuestas", 0>>) \cup Hay(<<"fs", 0>>)
             => \E l \in {"ready", "fs_pedido", "fs_respuestas", "fs"} : q \in Hay(<<l, 0>>)'
  PROVE  Turno'
  <1>1. Contenido(cola["ready"]) \subseteq Contenido(cola'["ready"]) /\ (HayReady => HayReady')
    <2>1. CASE UNCHANGED cola["ready"]
      BY <2>1 DEF HayReady
    <2>2. ASSUME NEW p \in Pid, cola'["ready"] = Append(cola["ready"], p)
          PROVE  Contenido(cola["ready"]) \subseteq Contenido(cola'["ready"]) /\ HayReady'
      <3>1. cola["ready"] \in Seq(Pid)
        BY ListasTipo DEF TypeOK, Listas
      <3>2. \A i \in DOMAIN cola["ready"] :
              i \in DOMAIN Append(cola["ready"], p) /\ Append(cola["ready"], p)[i] = cola["ready"][i]
        BY <2>2, <3>1, AgregarDeja
      <3>3. Append(cola["ready"], p) # <<>>
        BY <2>2, <3>1, AgregarDeja
      <3> QED BY <2>2, <3>2, <3>3 DEF Contenido, HayReady
    <2> QED BY <2>1, <2>2
  <1>2. \A q \in Pid : EnCpu(q)' => EnCpu(q)
    BY DEF EnCpu
  <1>3. (exec.paso \in PasosConPcb \ {"cpu"} =>
           proceso_en_ejecucion = pcbelegido /\ pcb[pcbelegido].motivo = "SYSCALL")'
    <2>1. exec.paso \in PasosConPcb => pcbelegido \in Pid /\ EnCpu(pcbelegido)
      BY PunterosPid DEF PasosConPcb, EnCpu
    <2> QED BY <2>1 DEF Turno
  <1>4. (exec.paso \in {"sem", "elegir", "basura"} /\ proceso_en_ejecucion # Nada
           /\ pcb[proceso_en_ejecucion].motivo # "SYSCALL"
         => proceso_en_ejecucion \in Contenido(cola["ready"]))'
    <2> SUFFICES ASSUME exec.paso \in {"sem", "elegir", "basura"}, proceso_en_ejecucion # Nada,
                        pcb'[proceso_en_ejecucion].motivo # "SYSCALL"
                 PROVE  proceso_en_ejecucion \in Contenido(cola'["ready"])
      OBVIOUS
    <2>1. proceso_en_ejecucion \in Pid
      BY PunterosPid
    <2>2. pcb[proceso_en_ejecucion].motivo # "SYSCALL"
      <3>1. CASE pcb'[proceso_en_ejecucion].motivo = pcb[proceso_en_ejecucion].motivo
        BY <3>1
      <3>2. CASE ~EnCpu(proceso_en_ejecucion)
        BY <2>1, <3>2 DEF EnCpu, Turno
      <3> QED BY <2>1, <3>1, <3>2
    <2> QED BY <1>1, <2>2 DEF Turno
  <1>5. (exec.paso = "basura" /\ proceso_en_ejecucion # Nada =>
           pcb[proceso_en_ejecucion].motivo # "SYSCALL")'
    BY PunterosPid DEF Turno
  <1>6. (exec.paso = "fs_bloquear" =>
           \E l \in {"ready", "fs_pedido", "fs_respuestas", "fs"} : pcbelegido \in Hay(<<l, 0>>))'
    <2> SUFFICES ASSUME exec.paso = "fs_bloquear"
                 PROVE  \E l \in {"ready", "fs_pedido", "fs_respuestas", "fs"} : 
                     pcbelegido \in Hay(<<l, 0>>)'
      OBVIOUS
    <2>1. PICK q \in Pid : q = pcbelegido
      BY PunterosPid
    <2>2. PICK l \in {"ready", "fs_pedido", "fs_respuestas", "fs"} : q \in Hay(<<l, 0>>)
      BY <2>1 DEF Turno
    <2>3. CASE l = "ready"
      <3>1. q \in Hay(<<"ready", 0>>)'
        BY <1>1, <2>2, <2>3, SitiosCola DEF Cuatro
      <3> QED BY <2>1, <3>1
    <2>4. CASE l # "ready" /\ UNCHANGED fs
      <3>1. q \in Hay(<<l, 0>>)'
        BY <2>2, <2>4, SitiosPf, SitiosHilos, SitiosEspera
      <3> QED BY <2>1, <3>1
    <2>5. CASE l # "ready" /\ ~UNCHANGED fs
      <3>1. \E m \in {"ready", "fs_pedido", "fs_respuestas", "fs"} : q \in Hay(<<m, 0>>)'
        BY <2>2, <2>5
      <3> QED BY <2>1, <3>1
    <2> QED BY <2>3, <2>4, <2>5
  <1> QED BY <1>1, <1>2, <1>3, <1>4, <1>5, <1>6 DEF Turno

\* Whoever has an owner keeps one, and only the state of somebody who has one leaves
\* DESTRUIDO.
LEMMA VivosPasa ==
  ASSUME Vivos, Pasa, perdidos \subseteq perdidos', UNCHANGED generador_de_id,
         \A q \in Pid : pcb[q].estado = "DESTRUIDO" /\ q \notin ConDueno => pcb'[q].estado = "DESTRUIDO"
  PROVE  Vivos'
  BY DEF Vivos, Pasa, EsBasura

\* A PCB somebody has, through a pointer or in a list, has an owner.
LEMMA TieneDueno ==
  ASSUME TypeOK
  PROVE  /\ \A q \in Pid : EnCpu(q) \/ exec.hijo = q \/ admision.pcb = q \/ salida.hijo = q \/ salida.pcb = q
                             \/ fs.pcb = q \/ q \in pf.resueltos \/ q \in espera_archivo => q \in ConDueno
         /\ \A l \in {"ready", "fs_pedido", "fs_respuestas", "fs"} : Hay(<<l, 0>>) \subseteq ConDueno
  <1>1. \A c \in Lugares : Hay(c) \subseteq ConDueno
    BY HayPid DEF ConDueno
  <1>2. \A l \in {"ready", "fs_pedido", "fs_respuestas", "fs"} : <<l, 0>> \in Lugares
    BY LugaresSon DEF Cuatro, Punteros
  <1>3. \A q \in Pid : EnCpu(q) \/ exec.hijo = q \/ admision.pcb = q \/ salida.hijo = q \/ salida.pcb = q
                         \/ fs.pcb = q \/ q \in pf.resueltos \/ q \in espera_archivo => q \in ConDueno
    <2> SUFFICES ASSUME NEW q \in Pid,
                        EnCpu(q) \/ exec.hijo = q \/ admision.pcb = q \/ salida.hijo = q \/ salida.pcb = q
                          \/ fs.pcb = q \/ q \in pf.resueltos \/ q \in espera_archivo
                 PROVE  q \in ConDueno
      OBVIOUS
    <2>1. \/ q \in Hay(<<"cpu", 0>>) \/ q \in Hay(<<"signal", 0>>) \/ q \in Hay(<<"admision", 0>>)
          \/ q \in Hay(<<"desbloqueado", 0>>) \/ q \in Hay(<<"salida", 0>>) \/ q \in Hay(<<"fs", 0>>)
          \/ q \in Hay(<<"pf_resuelto", 0>>) \/ q \in Hay(<<"archivo", 0>>)
      BY SitiosHilos, SitiosEspera
    <2> QED BY <1>1, <2>1, LugaresSon DEF Punteros
  <1> QED BY <1>1, <1>2, <1>3

\* The states of the PCBs that a step writes some other field of.
LEMMA EstadoIgual ==
  ASSUME NEW f \in [Pid -> Pcb], NEW p \in Pid
  PROVE  /\ \A q \in Pid : q # p => Listo(f, p)[q].estado = f[q].estado
         /\ \A m : \A q \in Pid : [f EXCEPT ![p].motivo = m][q].estado = f[q].estado
         /\ \A r, n : \A q \in Pid : [f EXCEPT ![p].asignados[r] = n][q].estado = f[q].estado
         /\ \A q \in Pid : [f EXCEPT ![p].pc = @ + 1][q].estado = f[q].estado
  BY DEF Listo, Pcb

\* ready_pcb.
LEMMA RestoAdmision ==
  ASSUME TypeOK, PunterosValidos, Duenez, Pasa, perdidos \subseteq perdidos', Admision
  PROVE  Huecos' /\ Turno' /\ Vivos'
  <1>0. TypeOK /\ Huecos /\ Turno /\ Vivos /\ pcb \in [Pid -> Pcb]
    BY DEF Duenez, TypeOK, TipoProcesos
  <1>1. UNCHANGED <<exec, proceso_en_ejecucion, pcbelegido, salida, fs, generador_de_id, caido>>
    BY DEF Admision, AdmisionToma, AdmisionAcepta, AdmisionDetiene, AdmisionAvisa, cpuVars, consolaVars,
           hilosVars
  <1>2. admision'.paso # "contar" => admision'.pcb = Nada
    <2>1. CASE AdmisionToma
      BY <2>1 DEF AdmisionToma
    <2>2. CASE AdmisionAcepta \/ AdmisionDetiene
      BY <2>2 DEF AdmisionAcepta, AdmisionDetiene, TypeOK, TipoAdmision
    <2>3. CASE AdmisionAvisa
      BY <1>0, <2>3 DEF AdmisionAvisa, TypeOK, TipoAdmision, Huecos
    <2> QED BY <2>1, <2>2, <2>3 DEF Admision
  <1>3. Huecos'
    BY <1>0, <1>1, <1>2 DEF Huecos
  <1>4. CASE AdmisionAcepta
    <2>1. /\ admision.pcb \in Pid /\ pcb' = Listo(pcb, admision.pcb)
          /\ cola' = Agregar(cola, "ready", admision.pcb)
      BY <1>4, PunterosPid DEF AdmisionAcepta
    <2>2. cola'["ready"] = Append(cola["ready"], admision.pcb)
      BY <2>1 DEF Agregar, TypeOK, TipoListas, Listas
    <2>3. \A q \in Pid : pcb'[q].motivo = pcb[q].motivo
      BY <1>0, <2>1, ListoMotivo
    <2>4. Turno'
      BY <1>0, <1>1, <2>1, <2>2, <2>3, TurnoOtros DEF Turno
    <2>5. \A q \in Pid : pcb[q].estado = "DESTRUIDO" /\ q \notin ConDueno => pcb'[q].estado = "DESTRUIDO"
      BY <1>0, <2>1, EstadoIgual, TieneDueno
    <2> QED BY <1>0, <1>1, <1>3, <2>4, <2>5, VivosPasa
  <1>5. CASE AdmisionToma \/ AdmisionDetiene \/ AdmisionAvisa
    <2>1. UNCHANGED pcb
      BY <1>5 DEF AdmisionToma, AdmisionDetiene, AdmisionAvisa
    <2>2. cola'["ready"] = cola["ready"]
      BY <1>5 DEF AdmisionToma, AdmisionDetiene, AdmisionAvisa, Agregar, SinPrimero,
           TypeOK, TipoListas, Listas
    <2>3. Turno'
      BY <1>0, <1>1, <2>1, <2>2, TurnoOtros DEF Turno
    <2> QED BY <1>0, <1>1, <1>3, <2>1, <2>3, VivosPasa
  <1> QED BY <1>4, <1>5 DEF Admision

\* The sleepers.
LEMMA RestoSleepers ==
  ASSUME TypeOK, PunterosValidos, Duenez, Pasa, perdidos \subseteq perdidos', Sleepers
  PROVE  Huecos' /\ Turno' /\ Vivos'
  <1>0. TypeOK /\ Huecos /\ Turno /\ Vivos
    BY DEF Duenez
  <1>1. /\ UNCHANGED <<exec, proceso_en_ejecucion, pcbelegido, admision, salida, fs,
                        generador_de_id, caido>>
        /\ UNCHANGED pcb
    BY DEF Sleepers, SleeperDespierta, SleeperSigue, SleeperAvisa, cpuVars, consolaVars
  <1>2. UNCHANGED cola["ready"] \/ \E p \in Pid : cola'["ready"] = Append(cola["ready"], p)
    <2>1. UNCHANGED cola \/ \E p \in Pid : cola' = Agregar(cola, "ready", p)
      BY DEF Sleepers, SleeperDespierta, SleeperSigue, SleeperAvisa, TypeOK, TipoSleepers
    <2> QED BY <2>1 DEF Agregar, TypeOK, TipoListas, Listas
  <1>3. Turno'
    BY <1>0, <1>1, <1>2, TurnoOtros DEF Turno
  <1> QED BY <1>0, <1>1, <1>3, VivosPasa DEF Huecos

\* The manejar_pf threads.
LEMMA RestoPf ==
  ASSUME TypeOK, PunterosValidos, Duenez, Pasa, perdidos \subseteq perdidos', PageFaults
  PROVE  Huecos' /\ Turno' /\ Vivos'
  <1>0. TypeOK /\ SinCompartir /\ Huecos /\ Turno /\ Vivos /\ pcb \in [Pid -> Pcb]
    BY DEF Duenez, TypeOK, TipoProcesos
  <1>1. UNCHANGED <<exec, proceso_en_ejecucion, pcbelegido, admision, salida, fs, generador_de_id, caido>>
    <2>1. CASE PfArranca \/ PfPide \/ MemoriaCarga
      BY <2>1 DEF PfArranca, PfPide, MemoriaCarga, cpuVars, consolaVars
    <2>2. CASE PfRecibe \/ PfListo \/ PfAvisa
      BY <2>2 DEF PfRecibe, PfListo, PfAvisa, cpuVars, consolaVars
    <2> QED BY <2>1, <2>2 DEF PageFaults
  <1>2. Huecos'
    BY <1>0, <1>1 DEF Huecos
  <1>3. CASE PfArranca \/ PfPide \/ MemoriaCarga \/ PfAvisa
    <2>1. UNCHANGED <<pcb, cola>>
      BY <1>3 DEF PfArranca, PfPide, MemoriaCarga, PfAvisa
    <2>2. Turno'
      BY <1>0, <1>1, <2>1, TurnoOtros DEF Turno
    <2> QED BY <1>0, <1>1, <1>2, <2>1, <2>2, VivosPasa
  <1>4. CASE PfRecibe
    <2> DEFINE p == Head(pf.respuestas)
    <2>1. /\ p \in Pid /\ pf.respuestas # <<>> /\ pcb' = [pcb EXCEPT ![p].motivo = "PAGE_FAULT_RESUELTO"]
          /\ UNCHANGED cola
      BY <1>4, CabezaTipo DEF PfRecibe, TypeOK, TipoPf
    <2>2. ~EnCpu(p)
      <3>1. <<"pf_respuestas", 0>> \in Lugares /\ <<"pf_respuestas", 0>> \in Colas
        BY LugaresSon, SitiosPf
      <3>2. pf.respuestas \in Seq(Pid) /\ IsInjective(pf.respuestas)
        BY <1>0, <3>1, SitiosPf DEF SinCompartir, TypeOK, TipoPf
      <3>3. p \in Hay(<<"pf_respuestas", 0>>)
        BY <2>1, <3>2, Contenidos, SitiosPf
      <3>4. p \notin Hay(<<"cpu", 0>>)
        BY <1>0, <3>1, <3>3, LugaresSon DEF SinCompartir, Punteros
      <3> QED BY <2>1, <3>4, SitiosHilos
    <2> HIDE DEF p
    <2>3. \A q \in Pid : pcb'[q].motivo = pcb[q].motivo \/ (~EnCpu(q) /\ pcb'[q].motivo # "SYSCALL")
      <3>1. pcb'[p].motivo = "PAGE_FAULT_RESUELTO" /\ \A q \in Pid : q # p => pcb'[q] = pcb[q]
        BY <1>0, <2>1 DEF Pcb
      <3> QED BY <2>2, <3>1
    <2>4. Turno'
      BY <1>0, <1>1, <2>1, <2>3, TurnoOtros DEF Turno
    <2>5. \A q \in Pid : pcb'[q].estado = pcb[q].estado
      BY <1>0, <2>1, EstadoIgual
    <2> QED BY <1>0, <1>1, <1>2, <2>4, <2>5, VivosPasa
  <1>5. CASE PfListo
    <2>1. PICK p \in pf.resueltos : pcb' = Listo(pcb, p) /\ cola' = Agregar(cola, "ready", p)
      BY <1>5 DEF PfListo
    <2>2. p \in Pid
      BY DEF TypeOK, TipoPf
    <2>3. cola'["ready"] = Append(cola["ready"], p)
      BY <2>1 DEF Agregar, TypeOK, TipoListas, Listas
    <2>4. \A q \in Pid : pcb'[q].motivo = pcb[q].motivo
      BY <1>0, <2>1, <2>2, ListoMotivo
    <2>5. Turno'
      BY <1>0, <1>1, <2>2, <2>3, <2>4, TurnoOtros DEF Turno
    <2>6. \A q \in Pid : pcb[q].estado = "DESTRUIDO" /\ q \notin ConDueno => pcb'[q].estado = "DESTRUIDO"
      BY <1>0, <2>1, <2>2, EstadoIgual, TieneDueno
    <2> QED BY <1>0, <1>1, <1>2, <2>5, <2>6, VivosPasa
  <1> QED BY <1>3, <1>4, <1>5 DEF PageFaults

\* recibir_op_FS.
LEMMA RestoFs ==
  ASSUME TypeOK, PunterosValidos, Duenez, Pasa, perdidos \subseteq perdidos', OpFS
  PROVE  Huecos' /\ Turno' /\ Vivos'
  <1>0. TypeOK /\ SinCompartir /\ Huecos /\ Turno /\ Vivos /\ pcb \in [Pid -> Pcb]
    BY DEF Duenez, TypeOK, TipoProcesos
  <1>1. UNCHANGED <<exec, proceso_en_ejecucion, pcbelegido, admision, salida, generador_de_id, caido>>
    BY DEF OpFS, FilesystemAtiende, FsAbre, FsRecibe, FsListo, FsAvisa, cpuVars, consolaVars
  <1> DEFINE EnCamino == \A q \in Pid :
               q \in Hay(<<"fs_pedido", 0>>) \cup Hay(<<"fs_respuestas", 0>>) \cup Hay(<<"fs", 0>>)
                 => \E l \in {"ready", "fs_pedido", "fs_respuestas", "fs"} : q \in Hay(<<l, 0>>)'
             HuecoFs == fs'.paso # "listo" => fs'.pcb = Nada
  <1>2. ASSUME EnCamino, HuecoFs, UNCHANGED pcb, UNCHANGED cola["ready"]
        PROVE  Huecos' /\ Turno' /\ Vivos'
    <2>1. Huecos'
      BY <1>0, <1>1, <1>2 DEF Huecos
    <2>2. Turno'
      BY <1>0, <1>1, <1>2, TurnoOtros DEF Turno
    <2> QED BY <1>0, <1>1, <1>2, <2>1, <2>2, VivosPasa
  <1>3. CASE FilesystemAtiende
    <2>1. PICK p \in fs.pedidos : fs' = [fs EXCEPT !.pedidos = @ \ {p}, !.respuestas = Append(@, p)]
      BY <1>3 DEF FilesystemAtiende
    <2>2. /\ p \in Pid /\ fs'.pedidos = fs.pedidos \ {p} /\ fs'.respuestas = Append(fs.respuestas, p)
          /\ fs'.pcb = fs.pcb /\ fs'.paso = fs.paso
      BY <2>1 DEF TypeOK, TipoFs
    <2>3. HuecoFs
      BY <1>0, <2>2 DEF Huecos
    <2>4. fs.respuestas \in Seq(Pid) /\ IsInjective(fs.respuestas)
      BY <1>0, SitiosPf DEF SinCompartir, TypeOK, TipoFs
    <2>5. Contenido(fs'.respuestas) = Contenido(fs.respuestas) \cup {p}
      BY <2>2, <2>4, Contenidos
    <2>6. /\ Hay(<<"fs_pedido", 0>>)' = Hay(<<"fs_pedido", 0>>) \ {p}
          /\ Hay(<<"fs_respuestas", 0>>)' = Hay(<<"fs_respuestas", 0>>) \cup {p}
          /\ Hay(<<"fs", 0>>)' = Hay(<<"fs", 0>>)
      <3>1. Hay(<<"fs_pedido", 0>>)' = Hay(<<"fs_pedido", 0>>) \ {p}
        BY <2>2, SitiosEspera
      <3>2. Hay(<<"fs_respuestas", 0>>)' = Hay(<<"fs_respuestas", 0>>) \cup {p}
        BY <2>5, SitiosPf
      <3>3. Hay(<<"fs", 0>>)' = Hay(<<"fs", 0>>)
        BY <2>2, SitiosHilos
      <3> QED BY <3>1, <3>2, <3>3
    <2>7. EnCamino
      BY <2>6
    <2> HIDE DEF EnCamino, HuecoFs
    <2> QED BY <1>2, <1>3, <2>3, <2>7 DEF FilesystemAtiende
  <1>4. CASE FsRecibe
    <2>1. PICK p : p = Head(fs.respuestas)
      OBVIOUS
    <2>2. /\ p \in Pid /\ fs.respuestas # <<>> /\ fs'.respuestas = Tail(fs.respuestas) /\ fs'.pcb = p
          /\ fs'.pedidos = fs.pedidos /\ fs.pcb = Nada /\ fs'.paso = "listo"
      BY <1>0, <1>4, <2>1, CabezaTipo DEF FsRecibe, TypeOK, TipoFs, Huecos
    <2>3. fs.respuestas \in Seq(Pid) /\ IsInjective(fs.respuestas)
      BY <1>0, SitiosPf DEF SinCompartir, TypeOK, TipoFs
    <2>4. Contenido(fs'.respuestas) = Contenido(fs.respuestas) \ {p}
      BY <2>1, <2>2, <2>3, Contenidos
    <2>5. /\ Hay(<<"fs_pedido", 0>>)' = Hay(<<"fs_pedido", 0>>)
          /\ Hay(<<"fs_respuestas", 0>>)' = Hay(<<"fs_respuestas", 0>>) \ {p}
          /\ Hay(<<"fs", 0>>) = {} /\ Hay(<<"fs", 0>>)' = {p}
      <3>1. Hay(<<"fs_pedido", 0>>)' = Hay(<<"fs_pedido", 0>>)
        BY <2>2, SitiosEspera
      <3>2. Hay(<<"fs_respuestas", 0>>)' = Hay(<<"fs_respuestas", 0>>) \ {p}
        BY <2>4, SitiosPf
      <3>3. Hay(<<"fs", 0>>) = {} /\ Hay(<<"fs", 0>>)' = {p}
        BY <2>2, SitiosHilos, PidNoNulo
      <3> QED BY <3>1, <3>2, <3>3
    <2>6. EnCamino
      BY <2>5
    <2>7. HuecoFs
      BY <2>2
    <2> HIDE DEF EnCamino, HuecoFs
    <2> QED BY <1>2, <1>4, <2>6, <2>7 DEF FsRecibe
  <1>5. CASE FsAvisa
    <2>1. /\ fs'.respuestas = fs.respuestas /\ fs'.pcb = fs.pcb /\ fs'.pedidos = fs.pedidos
          /\ fs.paso = "avisar"
      BY <1>5 DEF FsAvisa, TypeOK, TipoFs
    <2>2. HuecoFs
      BY <1>0, <2>1 DEF Huecos
    <2>3. /\ Hay(<<"fs_pedido", 0>>)' = Hay(<<"fs_pedido", 0>>)
          /\ Hay(<<"fs_respuestas", 0>>)' = Hay(<<"fs_respuestas", 0>>) /\ Hay(<<"fs", 0>>)' = Hay(<<"fs", 0>>)
      <3>1. Hay(<<"fs_pedido", 0>>)' = Hay(<<"fs_pedido", 0>>)
        BY <2>1, SitiosEspera
      <3>2. Hay(<<"fs_respuestas", 0>>)' = Hay(<<"fs_respuestas", 0>>)
        BY <2>1, SitiosPf
      <3>3. Hay(<<"fs", 0>>)' = Hay(<<"fs", 0>>)
        BY <2>1, SitiosHilos
      <3> QED BY <3>1, <3>2, <3>3
    <2>4. EnCamino
      BY <2>3
    <2> HIDE DEF EnCamino, HuecoFs
    <2> QED BY <1>2, <1>5, <2>2, <2>4 DEF FsAvisa
  <1>6. CASE FsListo
    <2>1. PICK p : p = fs.pcb
      OBVIOUS
    <2>2. /\ p \in Pid /\ fs'.respuestas = fs.respuestas /\ fs'.pcb = Nada /\ fs'.pedidos = fs.pedidos
          /\ pcb' = Listo(pcb, p) /\ cola' = Agregar(cola, "ready", p)
      BY <1>6, <2>1, PunterosPid DEF FsListo, TypeOK, TipoFs
    <2>3. cola'["ready"] = Append(cola["ready"], p)
      BY <2>2 DEF Agregar, TypeOK, TipoListas, Listas
    <2>4. cola["ready"] \in Seq(Pid) /\ IsInjective(cola["ready"])
      BY <1>0, ListasTipo, SitiosCola DEF SinCompartir, TypeOK, Listas, Cuatro
    <2>5. Contenido(cola'["ready"]) = Contenido(cola["ready"]) \cup {p}
      BY <2>2, <2>3, <2>4, Contenidos
    <2>6. /\ Hay(<<"fs_pedido", 0>>)' = Hay(<<"fs_pedido", 0>>)
          /\ Hay(<<"fs_respuestas", 0>>)' = Hay(<<"fs_respuestas", 0>>)
          /\ Hay(<<"fs", 0>>) = {p} /\ p \in Hay(<<"ready", 0>>)'
      <3>1. Hay(<<"fs", 0>>) = {p}
        BY <2>1, <2>2, SitiosHilos
      <3>2. p \in Hay(<<"ready", 0>>)'
        BY <2>5, SitiosCola DEF Cuatro
      <3> QED BY <2>2, <3>1, <3>2, SitiosPf, SitiosEspera
    <2>7. EnCamino
      BY <2>6
    <2> HIDE DEF EnCamino
    <2>8. \A q \in Pid : pcb'[q].motivo = pcb[q].motivo
      BY <1>0, <2>2, ListoMotivo
    <2>9. Turno'
      BY <1>0, <1>1, <2>2, <2>3, <2>7, <2>8, TurnoOtros DEF Turno, EnCamino
    <2>10. \A q \in Pid : pcb[q].estado = "DESTRUIDO" /\ q \notin ConDueno => pcb'[q].estado = "DESTRUIDO"
      BY <1>0, <2>1, <2>2, EstadoIgual, TieneDueno
    <2>11. Vivos'
      BY <1>0, <1>1, <2>10, VivosPasa
    <2>12. Huecos'
      BY <1>0, <1>1, <2>2 DEF Huecos
    <2> QED BY <2>9, <2>11, <2>12
  <1>7. CASE FsAbre
    <2>1. UNCHANGED <<pcb, cola, fs>>
      BY <1>7 DEF FsAbre, hilosVars
    <2>2. Turno'
      BY <1>0, <1>1, <2>1, TurnoOtros DEF Turno
    <2>3. Vivos'
      BY <1>0, <1>1, <2>1, VivosPasa
    <2> QED BY <1>0, <1>1, <2>1, <2>2, <2>3 DEF Huecos
  <1> QED BY <1>3, <1>4, <1>5, <1>6, <1>7 DEF OpFS

\* The console, the clock and an interrupt that is lost.
LEMMA RestoConsola ==
  ASSUME TypeOK, PunterosValidos, Duenez, Pasa, perdidos \subseteq perdidos',
         \/ IniciarPlanificacion \/ DetenerPlanificacion \/ ReanudarPost \/ ReanudarFlag
         \/ ModificarGrado \/ PasaSegundo \/ InterrupcionPerdida
  PROVE  Huecos' /\ Turno' /\ Vivos'
  <1>0. Huecos /\ Turno /\ Vivos
    BY DEF Duenez
  <1>1. /\ UNCHANGED <<exec, proceso_en_ejecucion, pcbelegido, admision, salida, fs, caido>>
        /\ UNCHANGED <<pcb, cola, generador_de_id>>
    <2>1. CASE IniciarPlanificacion \/ DetenerPlanificacion \/ ReanudarPost \/ ReanudarFlag
      BY <2>1 DEF IniciarPlanificacion, DetenerPlanificacion, ReanudarPost, ReanudarFlag, cpuVars, hilosVars
    <2>2. CASE ModificarGrado \/ PasaSegundo \/ InterrupcionPerdida
      BY <2>2 DEF ModificarGrado, PasaSegundo, InterrupcionPerdida, cpuVars, hilosVars, consolaVars
    <2> QED BY <2>1, <2>2
  <1>2. Turno'
    BY <1>0, <1>1, TurnoOtros DEF Turno
  <1> QED BY <1>0, <1>1, <1>2, VivosPasa DEF Huecos

\* What pcb_create leaves as it was.
LEMMA NuevoEstado ==
  ASSUME NEW f \in [Pid -> Pcb], NEW p \in Pid, NEW programa, NEW prioridad
  PROVE  \A q \in Pid : q # p => Nuevo(f, p, programa, prioridad)[q] = f[q]
  BY DEF Nuevo

\* The birth of a process.
LEMMA RestoNuevo ==
  ASSUME TypeOK, PunterosValidos, Duenez, ConDueno' = ConDueno \cup {generador_de_id},
         perdidos \subseteq perdidos', IniciarProceso
  PROVE  Huecos' /\ Turno' /\ Vivos'
  <1>0. Huecos /\ Turno /\ Vivos /\ pcb \in [Pid -> Pcb]
    BY DEF Duenez, TypeOK, TipoProcesos
  <1>1. /\ UNCHANGED <<exec, proceso_en_ejecucion, pcbelegido, admision, salida, fs, caido>>
        /\ generador_de_id' = generador_de_id + 1 /\ generador_de_id \in Pid
    BY DEF IniciarProceso, cpuVars, hilosVars
  <1>2. cola'["ready"] = cola["ready"]
    BY DEF IniciarProceso, Agregar, TypeOK, TipoListas, Listas
  <1>3. /\ \A q \in Pid : pcb'[q].motivo = pcb[q].motivo
        /\ \A q \in Pid : q # generador_de_id => pcb'[q] = pcb[q]
    BY <1>0, <1>1, NuevoTipo, NuevoEstado DEF IniciarProceso
  <1>4. Turno'
    BY <1>0, <1>1, <1>2, <1>3, TurnoOtros DEF Turno
  <1>5. \A q \in Pid : q \in Int /\ (q < generador_de_id + 1 <=> q < generador_de_id \/ q = generador_de_id)
    BY <1>1, PlanificadorSupuestos DEF Pid
  <1>6. Vivos'
    <2>1. \A p \in ConDueno' : p < generador_de_id'
      BY <1>0, <1>1, <1>5 DEF Vivos, ConDueno
    <2>2. ASSUME NEW p \in Pid, p < generador_de_id', pcb'[p].estado # "DESTRUIDO", ~EsBasura(p),
                 p \notin perdidos'
          PROVE  p \in ConDueno'
      BY <1>0, <1>1, <1>3, <1>5, <2>2 DEF Vivos
    <2> QED BY <2>1, <2>2 DEF Vivos, EsBasura
  <1> QED BY <1>0, <1>1, <1>4, <1>6 DEF Huecos

\* Only a resource ksignal hands over fills the pointer exec_pcb has for it.
LEMMA HuecosExec ==
  ASSUME TypeOK, PunterosValidos, Huecos, Despacho \/ Cpu \/ Llamadas
  PROVE  Huecos'
  <1>1. CASE KsignalPop
    <2>1. exec'.paso # "signal_listo" => exec'.hijo = Nada
      BY <1>1 DEF KsignalPop, Huecos, TypeOK, TipoExec
    <2>2. UNCHANGED <<admision, salida, fs>>
      BY <1>1 DEF KsignalPop, hilosVars
    <2> QED BY <2>1, <2>2 DEF Huecos
  <1>2. CASE ~KsignalPop
    <2>1. UNCHANGED <<admision, salida>> /\ fs'.pcb = fs.pcb /\ fs'.paso = fs.paso
      <3>1. CASE Despacho
        BY <3>1 DEF Despacho, ExecDespierta, ExecContinua, ExecElige, ExecDescarta, hilosVars
      <3>2. CASE Cpu
        BY <3>2 DEF Cpu, CpuEjecuta, ExecDesalojo, ExecPageFault, ExecSyscall, hilosVars
      <3>3. CASE Kexit \/ Ksleep \/ KsleepSigue \/ KsleepAvisa \/ KfBloquea
        BY <3>3 DEF Kexit, Ksleep, KsleepSigue, KsleepAvisa, KfBloquea, hilosVars
      <3>4. CASE KfPide
        BY <3>4 DEF KfPide, TypeOK, TipoFs
      <3>5. CASE \/ KwaitInexistente \/ KwaitMira \/ KwaitSigue \/ KwaitEncola \/ KwaitBloquea
                 \/ KwaitLee \/ KwaitToma
        BY <3>5 DEF KwaitInexistente, KwaitMira, KwaitSigue, KwaitEncola, KwaitBloquea, KwaitLee, KwaitToma,
                    hilosVars
      <3>6. CASE KsignalInexistente \/ KsignalAjeno \/ KsignalLee \/ KsignalDevuelve \/ KsignalMira \/
                        KsignalListo
        BY <3>6 DEF KsignalInexistente, KsignalAjeno, KsignalLee, KsignalDevuelve, KsignalMira, KsignalListo,
                    hilosVars
      <3>7. CASE KfSeek \/ KfOpenPide \/ KfOpenCrea \/ KfOpenComparte \/ KfOpenEspera
        BY <3>7 DEF KfSeek, KfOpenPide, KfOpenCrea, KfOpenComparte, KfOpenEspera, SigueEnCpu, hilosVars
      <3>8. CASE KfCloseAbre \/ KfCloseFin \/ KfCloseDeVarios \/ KfWriteLector
        BY <3>8 DEF KfCloseAbre, KfCloseFin, KfCloseDeVarios, KfWriteLector, SigueEnCpu, hilosVars
      <3> QED BY <1>2, <3>1, <3>2, <3>3, <3>4, <3>5, <3>6, <3>7, <3>8 DEF Llamadas
    <2>2. exec' = Esperando \/ (exec.paso # "signal_listo" /\ exec'.hijo = exec.hijo)
      <3>1. CASE Despacho
        BY <3>1 DEF Despacho, ExecDespierta, ExecContinua, ExecElige, ExecDescarta, TypeOK, TipoExec
      <3>2. CASE Cpu
        BY <3>2 DEF Cpu, CpuEjecuta, ExecDesalojo, ExecPageFault, ExecSyscall, TypeOK, TipoExec
      <3>3. CASE Kexit \/ Ksleep \/ KsleepSigue \/ KsleepAvisa \/ KfBloquea \/ KfPide
        BY <3>3 DEF Kexit, AlExit, Ksleep, KsleepSigue, KsleepAvisa, KfBloquea, KfPide,
            TypeOK, TipoExec
      <3>4. CASE \/ KwaitInexistente \/ KwaitMira \/ KwaitSigue \/ KwaitEncola \/ KwaitBloquea
                 \/ KwaitLee \/ KwaitToma
        BY <3>4 DEF KwaitInexistente, KwaitMira, KwaitSigue, KwaitEncola, KwaitBloquea, KwaitLee, KwaitToma,
                    TypeOK, TipoExec
      <3>5. CASE KsignalInexistente \/ KsignalAjeno \/ KsignalLee \/ KsignalDevuelve \/ KsignalMira \/
                        KsignalListo
        BY <3>5 DEF KsignalInexistente, KsignalAjeno, AlExit, KsignalLee, KsignalDevuelve, KsignalMira,
                    KsignalListo, TypeOK, TipoExec
      <3>6. CASE KfSeek \/ KfOpenCrea \/ KfOpenComparte \/ KfOpenEspera \/ KfCloseFin \/ KfCloseDeVarios
                 \/ KfWriteLector
        BY <3>6 DEF KfSeek, KfOpenCrea, KfOpenComparte, KfOpenEspera, KfCloseFin, KfCloseDeVarios,
                    KfWriteLector, SigueEnCpu, AlExit
      <3>7. CASE KfOpenPide \/ KfCloseAbre
        BY <3>7 DEF KfOpenPide, KfCloseAbre, TypeOK, TipoExec
      <3> QED BY <1>2, <3>1, <3>2, <3>3, <3>4, <3>5, <3>6, <3>7 DEF Llamadas
    <2>3. exec'.hijo = Nada
      BY <2>2 DEF Esperando, Huecos
    <2> QED BY <2>1, <2>3 DEF Huecos
  <1> QED BY <1>1, <1>2

\* exec_pcb has given its PCB away and remembers none.
LEMMA TurnoSuelta ==
  ASSUME proceso_en_ejecucion' = Nada, exec'.paso \in {"sem", "sleep_detenido", "sleep_avisar"},
         caido' # "lista_vacia"
  PROVE  Turno'
  <1>1. \A q \in Pid : ~EnCpu(q)'
    BY PidNoNulo DEF EnCpu, PasosConPcb
  <1> QED BY <1>1 DEF Turno, PasosConPcb

\* The process goes on, or is still in its system call.
LEMMA TurnoSigue ==
  ASSUME TypeOK, PunterosValidos, Turno, exec.paso \in PasosConPcb, pcbelegido' = pcbelegido,
         exec'.paso \in (PasosConPcb \ {"cpu"}) \cup {"sem"},
         proceso_en_ejecucion' = pcbelegido, pcb'[pcbelegido].motivo = "SYSCALL", caido' # "lista_vacia"
  PROVE  Turno'
  <1>1. pcbelegido \in Pid /\ EnCpu(pcbelegido)
    BY PunterosPid DEF PasosConPcb, EnCpu
  <1>2. ~EsBasura(pcbelegido)
    BY <1>1 DEF Turno
  <1>3. \A q \in Pid : EnCpu(q)' => q = pcbelegido
    BY DEF EnCpu, PasosConPcb
  <1> QED BY <1>1, <1>2, <1>3 DEF Turno, PasosConPcb, EsBasura

\* exec_pcb's loop, but for the choice of a process.
LEMMA RestoDespacho ==
  ASSUME TypeOK, PunterosValidos, Duenez, Pasa, perdidos \subseteq perdidos',
         ExecDespierta \/ ExecContinua \/ ExecDescarta
  PROVE  Turno' /\ Vivos'
  <1>0. Turno /\ Vivos
    BY DEF Duenez
  <1>1. UNCHANGED <<pcb, cola, generador_de_id, caido, proceso_en_ejecucion>>
    BY DEF ExecDespierta, ExecContinua, ExecDescarta, cpuVars, consolaVars
  <1>2. Vivos'
    BY <1>0, <1>1, VivosPasa
  <1>3. CASE ExecDespierta
    <2>1. /\ exec.paso = "sem" /\ pcbelegido' = pcbelegido
          /\ \/ exec'.paso = "sem"
             \/ exec'.paso = "elegir" /\ (HayReady \/ proceso_en_ejecucion # Nada)
      BY <1>3 DEF ExecDespierta, TypeOK, TipoExec, cpuVars
    <2>2. \A q \in Pid : EnCpu(q)' => EnCpu(q)
      BY <1>1, <2>1 DEF EnCpu, PasosConPcb
    <2> QED BY <1>0, <1>1, <1>2, <2>1, <2>2 DEF Turno, HayReady, PasosConPcb
  <1>4. CASE ExecContinua
    <2>1. /\ exec.paso = "elegir" /\ proceso_en_ejecucion \in Pid
          /\ pcbelegido' = proceso_en_ejecucion
      BY <1>4, PunterosPid DEF ExecContinua, Continua
    <2>2. ~EsBasura(proceso_en_ejecucion)
      BY <1>0, <2>1, PidNoNulo DEF Turno
    <2>3. exec'.paso = "cpu"
      BY <1>4, <2>1, <2>2 DEF ExecContinua, TypeOK, TipoExec
    <2>4. \A q \in Pid : EnCpu(q)' => q = proceso_en_ejecucion
      BY <2>1, <2>3 DEF EnCpu
    <2> QED BY <1>0, <1>1, <1>2, <2>2, <2>3, <2>4 DEF Turno, PasosConPcb
  <1>5. CASE ExecDescarta
    <2>1. exec.paso = "basura" /\ exec'.paso = "sem"
      BY <1>5 DEF ExecDescarta, Esperando
    <2>2. \A q \in Pid : EnCpu(q)' => FALSE
      BY <1>0, <1>1, <2>1, PidNoNulo DEF EnCpu, Turno, PasosConPcb
    <2> QED BY <1>0, <1>1, <1>2, <2>1, <2>2 DEF Turno, PasosConPcb
  <1> QED BY <1>3, <1>4, <1>5

\* elegir_pcb_segun_algoritmo always finds somebody.
LEMMA EligeAlguien ==
  ASSUME TypeOK, PunterosValidos, Turno, ExecElige
  PROVE  HayReady
  <1>1. CASE proceso_en_ejecucion = Nada
    BY <1>1 DEF ExecElige, Turno
  <1>2. CASE proceso_en_ejecucion # Nada
    <2>1. exec.paso = "elegir" /\ pcb[proceso_en_ejecucion].motivo # "SYSCALL"
      BY <1>2 DEF ExecElige, Continua
    <2>2. proceso_en_ejecucion \in Contenido(cola["ready"])
      BY <1>2, <2>1 DEF Turno
    <2> QED BY <2>2 DEF Contenido, HayReady
  <1> QED BY <1>1, <1>2

\* The choice of a process.
LEMMA RestoElige ==
  ASSUME TypeOK, PunterosValidos, Duenez, perdidos \subseteq perdidos', ExecElige
  PROVE  SinCompartir' /\ Turno' /\ Vivos'
  <1>0. TypeOK /\ SinCompartir /\ Turno /\ Vivos /\ HayReady
    BY EligeAlguien DEF Duenez
  <1>1. PICK p : p = pcbelegido'
    OBVIOUS
  <1>2. /\ SinCompartir' /\ p \in ConDueno /\ p \in Pid
        /\ ConDueno' = IF EsBasura(p) THEN ConDueno \ {p} ELSE ConDueno
        /\ p \in Contenido(cola["ready"])
        /\ Contenido(cola'["ready"]) = Contenido(cola["ready"]) \ {p}
    <2>1. EsBasura(pcbelegido') <=> EsBasura(p)
      BY <1>1 DEF EsBasura
    <2> QED BY <1>0, <1>1, <2>1, DuenosElige
  <1>3. /\ exec.paso = "elegir" /\ exec'.paso = IF EsBasura(p) THEN "basura" ELSE "cpu"
        /\ pcb' = [pcb EXCEPT ![p].estado = "EXEC"]
        /\ UNCHANGED <<proceso_en_ejecucion, generador_de_id, caido>>
    <2>1. PICK i \in DOMAIN cola["ready"] :
            /\ pcbelegido' = cola["ready"][i]
            /\ pcb' = [pcb EXCEPT ![cola["ready"][i]].estado = "EXEC"]
            /\ exec' = [exec EXCEPT !.paso = IF EsBasura(cola["ready"][i]) THEN "basura" ELSE "cpu"]
            /\ UNCHANGED caido
      BY <1>0 DEF ExecElige
    <2>2. p = cola["ready"][i]
      BY <1>1, <2>1
    <2>3. UNCHANGED <<proceso_en_ejecucion, generador_de_id>> /\ exec.paso = "elegir"
      BY DEF ExecElige, consolaVars
    <2> QED BY <2>1, <2>2, <2>3 DEF TypeOK, TipoExec
  <1>4. /\ \A q \in Pid : pcb'[q].motivo = pcb[q].motivo
        /\ \A q \in Pid : q # p => pcb'[q] = pcb[q]
    BY <1>2, <1>3, MotivoIgual DEF TypeOK, TipoProcesos
  <1>5. \A q \in Pid : EnCpu(q)' => q = p /\ ~EsBasura(p)
    BY <1>1, <1>3 DEF EnCpu, PasosConPcb
  <1>6. exec'.paso = "basura" /\ proceso_en_ejecucion # Nada =>
          /\ pcb'[proceso_en_ejecucion].motivo # "SYSCALL"
          /\ proceso_en_ejecucion \in Contenido(cola'["ready"])
    <2> SUFFICES ASSUME exec'.paso = "basura", proceso_en_ejecucion # Nada
                 PROVE  /\ pcb'[proceso_en_ejecucion].motivo # "SYSCALL"
                        /\ proceso_en_ejecucion \in Contenido(cola'["ready"])
      OBVIOUS
    <2>1. pcb[proceso_en_ejecucion].motivo # "SYSCALL" /\ proceso_en_ejecucion \in Pid
      BY PunterosPid DEF ExecElige, Continua
    <2>2. proceso_en_ejecucion \in Contenido(cola["ready"])
      BY <1>0, <1>3, <2>1 DEF Turno
    <2>3. EsBasura(p) /\ ~EsBasura(proceso_en_ejecucion)
      BY <1>0, <1>3 DEF Turno
    <2> QED BY <1>2, <1>4, <2>1, <2>2, <2>3
  <1>7. Turno'
    BY <1>0, <1>3, <1>5, <1>6 DEF Turno, PasosConPcb, EsBasura
  <1>8. Vivos'
    <2>1. \A q \in ConDueno' : q < generador_de_id'
      BY <1>0, <1>2, <1>3 DEF Vivos
    <2>2. ASSUME NEW q \in Pid, q < generador_de_id', pcb'[q].estado # "DESTRUIDO", ~EsBasura(q),
                 q \notin perdidos'
          PROVE  q \in ConDueno'
      <3>1. CASE q = p
        BY <1>2, <2>2, <3>1
      <3>2. CASE q # p
        BY <1>0, <1>2, <1>3, <1>4, <2>2, <3>2 DEF Vivos
      <3> QED BY <3>1, <3>2
    <2> QED BY <2>1, <2>2 DEF Vivos, EsBasura
  <1> QED BY <1>2, <1>7, <1>8

\* What the CPU returns.
LEMMA RestoCpu ==
  ASSUME TypeOK, PunterosValidos, Duenez, Pasa, perdidos \subseteq perdidos', Cpu
  PROVE  Turno' /\ Vivos'
  <1>0. /\ TypeOK /\ Turno /\ Vivos /\ pcb \in [Pid -> Pcb] /\ exec.paso = "cpu" /\ pcbelegido \in Pid
        /\ EnCpu(pcbelegido) /\ ~EsBasura(pcbelegido)
    <2>1. exec.paso = "cpu"
      BY DEF Cpu, CpuEjecuta, ExecDesalojo, ExecPageFault, ExecSyscall
    <2>2. pcbelegido \in Pid /\ EnCpu(pcbelegido)
      BY <2>1, PunterosPid DEF EnCpu, PasosConPcb
    <2> QED BY <2>1, <2>2 DEF Duenez, Turno, TypeOK, TipoProcesos
  <1>1. UNCHANGED <<generador_de_id, caido, pcbelegido>>
    BY DEF Cpu, CpuEjecuta, ExecDesalojo, ExecPageFault, ExecSyscall, consolaVars, cpuVars
  <1>2. \A q \in Pid : q # pcbelegido => pcb'[q] = pcb[q]
    BY DEF Cpu, CpuEjecuta, ExecDesalojo, ExecPageFault, ExecSyscall, TypeOK, TipoProcesos
  <1>3. Vivos'
    <2>1. pcbelegido \in ConDueno
      BY <1>0, TieneDueno
    <2> QED BY <1>0, <1>1, <1>2, <2>1, VivosPasa
  <1>4. CASE CpuEjecuta
    <2>1. UNCHANGED <<exec, proceso_en_ejecucion>>
      BY <1>4 DEF CpuEjecuta, cpuVars
    <2>2. \A q \in Pid : EnCpu(q)' => EnCpu(q)
      BY <1>0, <1>1, <2>1 DEF EnCpu
    <2> QED BY <1>0, <1>1, <1>3, <2>1, <2>2 DEF Turno, PasosConPcb
  <1>5. CASE ExecSyscall
    <2>1. /\ proceso_en_ejecucion' = pcbelegido
          /\ exec'.paso \in PasosConPcb \ {"cpu"}
      BY <1>5 DEF ExecSyscall, Syscalls, Operaciones, PasosConPcb, TypeOK, TipoExec
    <2>2. pcb'[pcbelegido].motivo = "SYSCALL"
      BY <1>0, <1>5 DEF ExecSyscall, Pcb
    <2>3. caido' # "lista_vacia" /\ exec.paso \in PasosConPcb
      BY <1>0, <1>1 DEF Turno, PasosConPcb
    <2> QED BY <1>0, <1>1, <1>3, <2>1, <2>2, <2>3, TurnoSigue
  <1>6. CASE ExecPageFault
    <2>1. proceso_en_ejecucion' = Nada /\ exec'.paso = "sem"
      BY <1>6 DEF ExecPageFault, Esperando
    <2> QED BY <1>0, <1>1, <1>3, <2>1, TurnoSuelta DEF Turno
  <1>7. CASE ExecDesalojo
    <2>1. /\ proceso_en_ejecucion' = pcbelegido /\ exec'.paso = "sem"
          /\ cola' = Agregar(SinPrimero(cola, "exec"), "ready", pcbelegido)
      BY <1>7 DEF ExecDesalojo, Esperando
    <2>2. pcb'[pcbelegido].motivo = "INTERRUPT"
      BY <1>0, <1>7 DEF ExecDesalojo, Pcb
    <2>3. cola'["ready"] = Append(cola["ready"], pcbelegido) /\ cola["ready"] \in Seq(Pid)
      BY <2>1 DEF Agregar, SinPrimero, TypeOK, TipoListas, Listas
    <2>4. pcbelegido \in Contenido(cola'["ready"])
      <3>1. /\ Append(cola["ready"], pcbelegido)[Len(cola["ready"]) + 1] = pcbelegido
            /\ Len(cola["ready"]) + 1 \in DOMAIN Append(cola["ready"], pcbelegido)
        BY <1>0, <2>3
      <3> QED BY <2>3, <3>1 DEF Contenido
    <2>5. \A q \in Pid : ~EnCpu(q)'
      BY <2>1, <2>2 DEF EnCpu, PasosConPcb
    <2> QED BY <1>0, <1>1, <1>3, <2>1, <2>4, <2>5 DEF Turno, PasosConPcb, EsBasura
  <1> QED BY <1>4, <1>5, <1>6, <1>7 DEF Cpu

\* The system calls after which the process goes on, and their steps before the last.
LEMMA RestoSiguen ==
  ASSUME TypeOK, PunterosValidos, Duenez, Pasa, perdidos \subseteq perdidos',
         \/ KfSeek \/ KfOpenPide \/ KfOpenCrea \/ KfOpenComparte \/ KfCloseAbre \/ KfCloseFin
         \/ KwaitSigue \/ KwaitMira \/ KwaitLee \/ KwaitToma
         \/ KsignalLee \/ KsignalDevuelve \/ KsignalMira \/ KsignalPop \/ KsignalListo
  PROVE  Turno' /\ Vivos'
  <1>0. Turno /\ Vivos /\ pcb \in [Pid -> Pcb]
    BY DEF Duenez, TypeOK, TipoProcesos
  <1>1. /\ exec.paso \in PasosConPcb \ {"cpu"} /\ exec.paso \in PasosConPcb
        /\ UNCHANGED <<pcbelegido, proceso_en_ejecucion, generador_de_id>>
    <2>1. CASE KwaitSigue \/ KwaitMira \/ KwaitLee \/ KwaitToma
      BY <2>1 DEF KwaitSigue, KwaitMira, KwaitLee, KwaitToma, PasosConPcb, cpuVars, consolaVars
    <2>2. CASE KsignalLee \/ KsignalDevuelve \/ KsignalMira \/ KsignalPop \/ KsignalListo
      BY <2>2 DEF KsignalLee, KsignalDevuelve, KsignalMira, KsignalPop, KsignalListo, PasosConPcb, cpuVars,
                  consolaVars
    <2>3. CASE KfSeek \/ KfOpenPide \/ KfOpenCrea \/ KfOpenComparte \/ KfCloseAbre \/ KfCloseFin
      BY <2>3 DEF KfSeek, KfOpenPide, KfOpenCrea, KfOpenComparte, KfCloseAbre, KfCloseFin, SigueEnCpu,
                  PasosConPcb, cpuVars, consolaVars
    <2> QED BY <2>1, <2>2, <2>3
  <1>2. /\ proceso_en_ejecucion' = pcbelegido /\ pcb[pcbelegido].motivo = "SYSCALL" /\ pcbelegido \in Pid
        /\ caido # "lista_vacia"
    <2>1. proceso_en_ejecucion = pcbelegido /\ pcb[pcbelegido].motivo = "SYSCALL"
      BY <1>0, <1>1 DEF Turno
    <2>2. pcbelegido \in Pid
      BY <1>1, PunterosPid DEF PasosConPcb
    <2> QED BY <1>0, <1>1, <2>1, <2>2 DEF Turno
  <1>3. exec'.paso \in (PasosConPcb \ {"cpu"}) \cup {"sem"}
    <2>1. CASE KwaitToma \/ KsignalListo \/ exec' = Esperando
      BY <2>1 DEF KwaitToma, KsignalListo, Esperando
    <2>2. CASE KwaitSigue \/ KwaitLee \/ KsignalLee \/ KsignalDevuelve
      BY <2>2 DEF KwaitSigue, KwaitLee, KsignalLee, KsignalDevuelve, PasosConPcb, TypeOK, TipoExec
    <2>3. CASE KwaitMira
      BY <2>3 DEF KwaitMira, PasosConPcb, TypeOK, TipoExec
    <2>4. CASE KsignalMira /\ exec' # Esperando
      BY <2>4 DEF KsignalMira, PasosConPcb, TypeOK, TipoExec
    <2>5. CASE KsignalPop
      BY <1>1, <2>5 DEF KsignalPop, PasosConPcb, TypeOK, TipoExec
    <2>6. CASE KfOpenPide \/ KfCloseAbre
      BY <2>6 DEF KfOpenPide, KfCloseAbre, PasosConPcb, TypeOK, TipoExec
    <2>7. CASE KfSeek \/ KfOpenCrea \/ KfOpenComparte \/ KfCloseFin
      BY <2>7 DEF KfSeek, KfOpenCrea, KfOpenComparte, KfCloseFin, SigueEnCpu, Esperando
    <2> QED BY <2>1, <2>2, <2>3, <2>4, <2>5, <2>6, <2>7
  <1>4. caido' # "lista_vacia"
    <2>1. UNCHANGED caido \/ caido' = "pcb_nulo"
      BY DEF KfSeek, KfOpenPide, KfOpenCrea, KfOpenComparte, KfCloseAbre, KfCloseFin, SigueEnCpu, KwaitSigue,
             KwaitMira, KwaitLee, KwaitToma, KsignalLee, KsignalDevuelve, KsignalMira, KsignalPop,
             KsignalListo
    <2> QED BY <1>2, <2>1
  <1>5. /\ \A q \in Pid : pcb'[q].motivo = pcb[q].motivo
        /\ \A q \in Pid : pcb[q].estado = "DESTRUIDO" /\ q \notin ConDueno => pcb'[q].estado = "DESTRUIDO"
    <2>1. CASE KwaitToma \/ KsignalDevuelve \/ (KsignalPop /\ UNCHANGED caido)
      <3>1. \E p \in Pid : \E n : pcb' = [pcb EXCEPT ![p].asignados[exec.rec] = n]
        <4>1. CASE KwaitToma \/ KsignalDevuelve
          BY <1>2, <4>1 DEF KwaitToma, KsignalDevuelve
        <4>2. CASE KsignalPop /\ colabloqueado[exec.rec] # <<>>
          <5>1. exec.rec \in Recursos
            BY <4>2, PunterosPid DEF KsignalPop, PasosConRecurso
          <5>2. Head(colabloqueado[exec.rec]) \in Pid
            BY <4>2, <5>1, CabezaTipo, ListasTipo DEF TypeOK
          <5> QED BY <4>2, <5>2 DEF KsignalPop
        <4>3. CASE KsignalPop /\ colabloqueado[exec.rec] = <<>>
          <5>1. pcb' = pcb
            BY <4>3 DEF KsignalPop
          <5>2. PICK n : n = pcb[pcbelegido].asignados[exec.rec]
            OBVIOUS
          <5>3. pcb' = [pcb EXCEPT ![pcbelegido].asignados[exec.rec] = n]
            BY <1>0, <1>2, <5>1, <5>2 DEF Pcb
          <5> QED BY <1>2, <5>3
        <4> QED BY <2>1, <4>1, <4>2, <4>3
      <3> QED BY <1>0, <3>1, InstanciasMotivo, EstadoIgual
    <2>2. CASE KsignalListo
      <3>1. pcb' = Listo(pcb, exec.hijo) /\ exec.hijo \in Pid
        BY <2>2, PunterosPid DEF KsignalListo
      <3>2. exec.hijo \in ConDueno
        BY <3>1, TieneDueno
      <3>3. \A q \in Pid : q # exec.hijo => pcb'[q].estado = pcb[q].estado
        BY <1>0, <3>1, EstadoIgual
      <3>4. \A q \in Pid : pcb'[q].motivo = pcb[q].motivo
        BY <1>0, <3>1, ListoMotivo
      <3> QED BY <3>2, <3>3, <3>4
    <2>3. CASE \/ KfSeek \/ KfOpenPide \/ KfOpenCrea \/ KfOpenComparte \/ KfCloseFin
               \/ KwaitSigue \/ KwaitMira \/ KwaitLee \/ KsignalLee \/ KsignalMira
               \/ (KsignalPop /\ ~UNCHANGED caido)
      <3>1. pcb' = pcb
        BY <2>3 DEF KfSeek, KfOpenPide, KfOpenCrea, KfOpenComparte, KfCloseFin, SigueEnCpu,
                    KwaitSigue, KwaitMira, KwaitLee, KsignalLee, KsignalMira, KsignalPop
      <3> QED BY <3>1
    <2>4. CASE KfCloseAbre
      <3>1. PICK p \in espera_archivo : pcb' = Listo(pcb, p)
        BY <2>4 DEF KfCloseAbre
      <3>2. p \in Pid
        BY DEF TypeOK, TipoListas
      <3>3. p \in ConDueno
        BY <3>2, TieneDueno
      <3>4. \A q \in Pid : q # p => pcb'[q].estado = pcb[q].estado
        BY <1>0, <3>1, <3>2, EstadoIgual
      <3>5. \A q \in Pid : pcb'[q].motivo = pcb[q].motivo
        BY <1>0, <3>1, <3>2, ListoMotivo
      <3> QED BY <3>3, <3>4, <3>5
    <2> QED BY <2>1, <2>2, <2>3, <2>4
  <1>6. pcb'[pcbelegido].motivo = "SYSCALL"
    BY <1>2, <1>5
  <1>7. Turno'
    BY <1>0, <1>1, <1>2, <1>3, <1>4, <1>6, TurnoSigue
  <1>8. Vivos'
    BY <1>0, <1>1, <1>5, VivosPasa
  <1> QED BY <1>7, <1>8

\* The steps after the process was given away, and the ones that finish it.
LEMMA RestoTerminan ==
  ASSUME TypeOK, PunterosValidos, Duenez, Pasa, perdidos \subseteq perdidos',
         \/ KsleepSigue \/ KsleepAvisa \/ KfBloquea \/ KwaitBloquea
         \/ Kexit \/ KwaitInexistente \/ KsignalInexistente \/ KsignalAjeno \/ KfWriteLector
  PROVE  Turno' /\ Vivos'
  <1>0. Turno /\ Vivos /\ pcb \in [Pid -> Pcb]
    BY DEF Duenez, TypeOK, TipoProcesos
  <1>1. /\ exec'.paso \in {"sem", "sleep_avisar"}
        /\ UNCHANGED <<generador_de_id, caido>>
    <2>1. CASE KsleepSigue \/ KsleepAvisa \/ KfBloquea \/ KwaitBloquea
      BY <2>1 DEF KsleepSigue, KsleepAvisa, KfBloquea, KwaitBloquea, Esperando, consolaVars,
           TypeOK, TipoExec
    <2>2. CASE Kexit \/ KwaitInexistente \/ KsignalInexistente \/ KsignalAjeno \/ KfWriteLector
      BY <2>2 DEF Kexit, KwaitInexistente, KsignalInexistente, KsignalAjeno, KfWriteLector, AlExit, Esperando,
          consolaVars
    <2> QED BY <2>1, <2>2
  <1>2. proceso_en_ejecucion' = Nada
    <2>1. CASE KsleepSigue \/ KsleepAvisa
      BY <1>0, <2>1 DEF KsleepSigue, KsleepAvisa, Turno, cpuVars
    <2>2. CASE ~(KsleepSigue \/ KsleepAvisa)
      BY <2>2 DEF KfBloquea, KwaitBloquea, Kexit, KwaitInexistente, KsignalInexistente, KsignalAjeno,
                  KfWriteLector, AlExit
    <2> QED BY <2>1, <2>2
  <1>3. Turno'
    BY <1>0, <1>1, <1>2, TurnoSuelta DEF Turno
  <1>4. \A q \in Pid : pcb[q].estado = "DESTRUIDO" /\ q \notin ConDueno => pcb'[q].estado = "DESTRUIDO"
    <2>1. CASE KsleepSigue \/ KsleepAvisa \/ KwaitBloquea
      BY <2>1 DEF KsleepSigue, KsleepAvisa, KwaitBloquea
    <2>2. CASE KfBloquea
      <3>1. pcbelegido \in Pid /\ exec.paso = "fs_bloquear"
        BY <2>2, PunterosPid DEF KfBloquea
      <3>2. pcbelegido \in ConDueno
        BY <1>0, <3>1, TieneDueno DEF Turno
      <3>3. \A q \in Pid : q # pcbelegido => pcb'[q] = pcb[q]
        BY <1>0, <2>2 DEF KfBloquea
      <3> QED BY <3>2, <3>3
    <2>3. CASE Kexit \/ KsignalInexistente \/ KsignalAjeno \/ KfWriteLector
      <3>1. pcbelegido \in Pid /\ exec.paso \in {"EXIT", "SIGNAL", "F_IO"}
        BY <2>3, PunterosPid DEF Kexit, KsignalInexistente, KsignalAjeno, KfWriteLector
      <3>2. pcbelegido \in ConDueno
        BY <3>1, TieneDueno DEF EnCpu, PasosConPcb
      <3>3. \A q \in Pid : q # pcbelegido => pcb'[q] = pcb[q]
        BY <1>0, <2>3 DEF Kexit, KsignalInexistente, KsignalAjeno, KfWriteLector, AlExit
      <3> QED BY <3>2, <3>3
    <2>4. CASE KwaitInexistente
      BY <1>0, <2>4 DEF KwaitInexistente, Pcb
    <2> QED BY <2>1, <2>2, <2>3, <2>4
  <1> QED BY <1>0, <1>1, <1>3, <1>4, VivosPasa

\* The ones that block it.
LEMMA RestoBloquean ==
  ASSUME TypeOK, PunterosValidos, Duenez, Pasa, perdidos \subseteq perdidos',
         Ksleep \/ KfPide \/ KwaitEncola \/ KfOpenEspera
  PROVE  Turno' /\ Vivos'
  <1>0. TypeOK /\ Turno /\ Vivos /\ pcb \in [Pid -> Pcb]
    BY DEF Duenez, TypeOK, TipoProcesos
  <1>1. /\ exec.paso \in {"SLEEP", "F_IO", "wait_encolar", "F_OPEN"} /\ pcbelegido \in Pid
        /\ UNCHANGED <<generador_de_id, caido, pcbelegido>>
    <2>1. /\ exec.paso \in {"SLEEP", "F_IO", "wait_encolar", "F_OPEN"}
          /\ UNCHANGED <<generador_de_id, caido, pcbelegido>>
      BY DEF Ksleep, KfPide, KwaitEncola, KfOpenEspera, cpuVars, consolaVars
    <2> QED BY <2>1, PunterosPid
  <1>2. Vivos'
    <2>1. pcbelegido \in ConDueno
      BY <1>1, TieneDueno DEF EnCpu, PasosConPcb
    <2>2. \A q \in Pid : q # pcbelegido => pcb'[q] = pcb[q]
      BY <1>0 DEF Ksleep, KfPide, KwaitEncola, KfOpenEspera
    <2> QED BY <1>0, <1>1, <2>1, <2>2, VivosPasa
  <1>3. CASE Ksleep
    <2>1. proceso_en_ejecucion' = Nada /\ exec'.paso \in {"sleep_detenido", "sleep_avisar"}
      BY <1>3 DEF Ksleep, TypeOK, TipoExec
    <2> QED BY <1>0, <1>1, <1>2, <2>1, TurnoSuelta DEF Turno
  <1>4. CASE KfPide \/ KwaitEncola
    <2>1. proceso_en_ejecucion' = proceso_en_ejecucion /\ exec'.paso \in {"fs_bloquear", "wait_bloquear"}
      BY <1>4 DEF KfPide, KwaitEncola, TypeOK, TipoExec, cpuVars
    <2>2. exec'.paso = "fs_bloquear" =>
            \E l \in {"ready", "fs_pedido", "fs_respuestas", "fs"} : (pcbelegido \in Hay(<<l, 0>>))'
      <3>1. CASE KfPide
        <4>1. fs'.pedidos = fs.pedidos \cup {pcbelegido}
          BY <3>1 DEF KfPide, TypeOK, TipoFs
        <4>2. pcbelegido \in Hay(<<"fs_pedido", 0>>)'
          BY <1>1, <4>1, SitiosEspera
        <4> QED BY <1>1, <4>2
      <3>2. CASE KwaitEncola
        BY <3>2 DEF KwaitEncola, TypeOK, TipoExec
      <3> QED BY <1>4, <3>1, <3>2
    <2>3. \A q \in Pid : ~EnCpu(q)'
      BY <2>1 DEF EnCpu, PasosConPcb
    <2> QED BY <1>0, <1>1, <1>2, <2>1, <2>2, <2>3 DEF Turno, PasosConPcb, EsBasura
  <1>5. CASE KfOpenEspera
    <2>1. proceso_en_ejecucion' = Nada /\ exec'.paso = "sem"
      BY <1>5 DEF KfOpenEspera, Esperando
    <2> QED BY <1>0, <1>1, <1>2, <2>1, TurnoSuelta DEF Turno
  <1> QED BY <1>3, <1>4, <1>5

\* A pid that is lost was the one of a PCB somebody had.
LEMMA VivosSeVan ==
  ASSUME Vivos, NEW T, NEW S, ConDueno' = ConDueno \ T, perdidos' = perdidos \cup S,
         UNCHANGED generador_de_id,
         \A q \in T : q \in S \/ pcb'[q].estado = "DESTRUIDO",
         \A q \in Pid : pcb[q].estado = "DESTRUIDO" /\ q \notin ConDueno \ T => pcb'[q].estado = "DESTRUIDO"
  PROVE  Vivos'
  BY DEF Vivos, EsBasura

\* kf_close of one of several readers.
LEMMA RestoCierra ==
  ASSUME TypeOK, PunterosValidos, Duenez, KfCloseDeVarios
  PROVE  SinCompartir' /\ Turno' /\ Vivos'
  <1>0. SinCompartir /\ Huecos /\ Turno /\ Vivos
    BY DEF Duenez
  <1>1. PICK S \in SUBSET espera_archivo : Pierde(S)
    BY DEF KfCloseDeVarios
  <1>2. SinCompartir' /\ ConDueno' = ConDueno \ S
    BY <1>0, <1>1, DuenosCierra
  <1>3. /\ exec.paso = "F_CLOSE" /\ exec'.paso = "sem"
        /\ UNCHANGED <<pcb, pcbelegido, proceso_en_ejecucion, generador_de_id, caido>>
    BY DEF KfCloseDeVarios, SigueEnCpu, Esperando, cpuVars, consolaVars
  <1>4. proceso_en_ejecucion = pcbelegido /\ pcb[pcbelegido].motivo = "SYSCALL" /\ caido # "lista_vacia"
    BY <1>0, <1>3 DEF Turno, PasosConPcb
  <1>5. Turno'
    BY <1>0, <1>3, <1>4, TurnoSigue DEF PasosConPcb
  <1>6. perdidos' = perdidos \cup S
    BY <1>1 DEF Pierde
  <1>7. Vivos'
    BY <1>0, <1>2, <1>3, <1>6, VivosSeVan
  <1> QED BY <1>2, <1>5, <1>7

\* exit_pcb and liberar_recursos.
LEMMA RestoSalida ==
  ASSUME TypeOK, PunterosValidos, Duenez, perdidos \subseteq perdidos', Salida
  PROVE  /\ Huecos' /\ Turno'
         /\ Pasa /\ ~SalidaDestruye => Vivos'
  <1>0. TypeOK /\ Huecos /\ Turno /\ Vivos /\ pcb \in [Pid -> Pcb]
    BY DEF Duenez, TypeOK, TipoProcesos
  <1>1. /\ UNCHANGED <<exec, proceso_en_ejecucion, pcbelegido, admision, fs>>
        /\ \A q \in Pid : pcb'[q].motivo = pcb[q].motivo
    BY SalidaCpu
  <1>2. UNCHANGED generador_de_id /\ caido' # "lista_vacia"
    <2>1. caido # "lista_vacia"
      BY <1>0 DEF Turno
    <2>2. CASE SalidaToma \/ SalidaDestruye \/ SalidaAvisa
      BY <2>1, <2>2 DEF SalidaToma, SalidaDestruye, SalidaAvisa, consolaVars
    <2>3. CASE LiberarLee \/ LiberarSuma \/ LiberarMira \/ LiberarVacia \/ LiberarRellena
      BY <2>1, <2>3 DEF LiberarLee, LiberarSuma, LiberarMira, LiberarVacia, LiberarRellena, consolaVars
    <2>4. CASE LiberarDesbloquea \/ LiberarResta \/ LiberarDespierta \/ LiberarAvisa
      BY <2>1, <2>4 DEF LiberarDesbloquea, LiberarResta, LiberarDespierta, LiberarAvisa, consolaVars
    <2> QED BY <2>2, <2>3, <2>4 DEF Salida, Liberacion
  <1>3. UNCHANGED cola["ready"] \/ \E p \in Pid : cola'["ready"] = Append(cola["ready"], p)
    <2>1. CASE SalidaToma
      BY <2>1 DEF SalidaToma, SinPrimero, TypeOK, TipoListas, Listas
    <2>2. CASE LiberarDespierta
      <3>1. salida.hijo \in Pid
        BY <2>2, PunterosPid DEF LiberarDespierta
      <3> QED BY <2>2, <3>1 DEF LiberarDespierta, Agregar, TypeOK, TipoListas, Listas
    <2>3. CASE SalidaDestruye
      <3>1. CASE cola["detenidos"] = <<>>
        BY <2>3, <3>1 DEF SalidaDestruye
      <3>2. CASE cola["detenidos"] # <<>>
        <4>1. Head(cola["detenidos"]) \in Pid
          BY <3>2, CabezaTipo, ListasTipo DEF TypeOK, Listas
        <4> QED BY <2>3, <3>2, <4>1 DEF SalidaDestruye, Agregar, SinPrimero, TypeOK, TipoListas, Listas
      <3> QED BY <3>1, <3>2
    <2>4. CASE ~(SalidaToma \/ LiberarDespierta \/ SalidaDestruye)
      BY <2>4 DEF Salida, Liberacion, SalidaAvisa, LiberarLee, LiberarSuma, LiberarMira, LiberarVacia,
                  LiberarRellena, LiberarDesbloquea, LiberarResta, LiberarAvisa
    <2> QED BY <2>1, <2>2, <2>3, <2>4
  <1>4. Turno'
    BY <1>0, <1>1, <1>2, <1>3, TurnoOtros
  <1>5. /\ salida'.paso \in {"sem", "avisar"} => salida'.pcb = Nada
        /\ salida'.paso \notin {"restar", "despertar"} => salida'.hijo = Nada
        /\ salida'.paso \notin {"vaciar", "vaciar_pop", "rellenar"} => salida'.aux = <<>>
    <2>1. CASE UNCHANGED salida
      BY <1>0, <2>1 DEF Huecos
    <2>2. CASE SalidaToma \/ SalidaDestruye \/ SalidaAvisa
      <3>1. CASE SalidaToma /\ cola["exit"] # <<>>
        BY <3>1 DEF SalidaToma, SinSalida
      <3>2. CASE SalidaToma /\ cola["exit"] = <<>>
        BY <1>0, <3>2 DEF SalidaToma, Huecos
      <3>3. CASE SalidaDestruye
        BY <3>3 DEF SalidaDestruye, SinSalida
      <3>4. CASE SalidaAvisa
        BY <3>4 DEF SalidaAvisa, SinSalida
      <3> QED BY <2>2, <3>1, <3>2, <3>3, <3>4
    <2>3. CASE LiberarLee \/ LiberarSuma \/ LiberarMira
      BY <1>0, <2>3 DEF LiberarLee, LiberarSuma, LiberarMira, SalidaEn, Huecos, TypeOK, TipoSalida
    <2>4. CASE LiberarVacia /\ ~UNCHANGED salida
      BY <1>0, <2>4 DEF LiberarVacia, Huecos, TypeOK, TipoSalida
    <2>5. CASE LiberarRellena
      BY <1>0, <2>5 DEF LiberarRellena, Huecos, TypeOK, TipoSalida
    <2>6. CASE LiberarDesbloquea /\ ~UNCHANGED salida
      BY <1>0, <2>6 DEF LiberarDesbloquea, Huecos, TypeOK, TipoSalida
    <2>7. CASE LiberarResta \/ LiberarAvisa
      BY <1>0, <2>7 DEF LiberarResta, LiberarAvisa, SalidaEn, Huecos, TypeOK, TipoSalida
    <2>8. CASE LiberarDespierta
      BY <1>0, <2>8 DEF LiberarDespierta, Huecos, TypeOK, TipoSalida
    <2> QED BY <2>1, <2>2, <2>3, <2>4, <2>5, <2>6, <2>7, <2>8 DEF Salida, Liberacion
  <1>6. Huecos'
    BY <1>0, <1>1, <1>5 DEF Huecos
  <1>7. ~SalidaDestruye =>
          \A q \in Pid : pcb[q].estado = "DESTRUIDO" /\ q \notin ConDueno => pcb'[q].estado = "DESTRUIDO"
    <2>1. CASE LiberarSuma
      <3>1. salida.pcb \in Pid /\ \E n : pcb' = [pcb EXCEPT ![salida.pcb].asignados[Rec] = n]
        BY <2>1, PunterosPid DEF LiberarSuma
      <3> QED BY <1>0, <3>1, EstadoIgual
    <2>2. CASE LiberarDesbloquea
      <3>1. CASE colabloqueado[Rec] # <<>>
        <4> DEFINE p == Head(colabloqueado[Rec])
        <4>1. p \in Pid
          BY <2>2, <3>1, PunterosPid, CabezaTipo, ListasTipo DEF LiberarDesbloquea, PasosConRec, TypeOK, Rec
        <4>2. \E n : pcb' = [pcb EXCEPT ![p].asignados[Rec] = n]
          BY <2>2, <3>1 DEF LiberarDesbloquea
        <4> HIDE DEF p
        <4> QED BY <1>0, <4>1, <4>2, EstadoIgual
      <3>2. CASE colabloqueado[Rec] = <<>>
        BY <2>2, <3>2 DEF LiberarDesbloquea
      <3> QED BY <3>1, <3>2
    <2>3. CASE LiberarDespierta
      <3>1. salida.hijo \in Pid /\ (pcb' = pcb \/ pcb' = Listo(pcb, salida.hijo))
        BY <2>3, PunterosPid DEF LiberarDespierta
      <3>2. salida.hijo \in ConDueno
        BY <3>1, TieneDueno
      <3> QED BY <1>0, <3>1, <3>2, EstadoIgual
    <2>4. CASE ~(LiberarSuma \/ LiberarDesbloquea \/ LiberarDespierta \/ SalidaDestruye)
      <3>1. pcb' = pcb
        BY <2>4 DEF Salida, Liberacion, SalidaToma, SalidaAvisa, LiberarLee, LiberarMira, LiberarVacia,
                    LiberarRellena, LiberarResta, LiberarAvisa
      <3> QED BY <3>1
    <2> QED BY <2>1, <2>2, <2>3, <2>4
  <1> QED BY <1>0, <1>2, <1>4, <1>6, <1>7, VivosPasa

\* The destruction of a process.
LEMMA RestoDestruye ==
  ASSUME TypeOK, PunterosValidos, Duenez, SalidaDestruye
  PROVE  SinCompartir' /\ Vivos'
  <1>0. TypeOK /\ SinCompartir /\ Huecos /\ Vivos /\ pcb \in [Pid -> Pcb]
    BY DEF Duenez, TypeOK, TipoProcesos
  <1>1. PICK p \in Pid : p = salida.pcb
    BY PunterosPid DEF SalidaDestruye
  <1>2. PICK h : h = Head(cola["detenidos"])
    OBVIOUS
  <1>s. PICK S \in SUBSET espera_archivo : Pierde(S)
    BY DEF SalidaDestruye
  <1>t. PICK T : T = {p} \cup S
    OBVIOUS
  <1>3. /\ SinCompartir' /\ ConDueno' = ConDueno \ T
        /\ cola["detenidos"] # <<>> => h \in ConDueno \ T /\ h \in Pid
    BY <1>0, <1>1, <1>2, <1>s, <1>t, DuenosDestruye
  <1> DEFINE ps == [pcb EXCEPT ![p].estado = "DESTRUIDO"]
  <1>4. /\ pcb' = IF cola["detenidos"] # <<>> THEN Listo(ps, h) ELSE ps
        /\ UNCHANGED generador_de_id
    BY <1>1, <1>2 DEF SalidaDestruye, consolaVars
  <1>5. ps \in [Pid -> Pcb] /\ ps[p].estado = "DESTRUIDO" /\ \A q \in Pid : q # p => ps[q] = pcb[q]
    <2>1. ps \in [Pid -> Pcb]
      BY <1>0, ProcesosTipo DEF Estados
    <2> QED BY <1>0, <2>1 DEF Pcb
  <1> HIDE DEF ps
  <1>6. /\ \A q \in T : q \in S \/ pcb'[q].estado = "DESTRUIDO"
        /\ \A q \in Pid : pcb[q].estado = "DESTRUIDO" /\ q \notin ConDueno \ T => pcb'[q].estado = "DESTRUIDO"
    <2>1. CASE cola["detenidos"] = <<>>
      BY <1>t, <1>4, <1>5, <2>1
    <2>2. CASE cola["detenidos"] # <<>>
      <3>1. \A q \in Pid : q # h => pcb'[q].estado = ps[q].estado
        BY <1>3, <1>4, <1>5, <2>2, EstadoIgual
      <3> QED BY <1>t, <1>3, <1>5, <2>2, <3>1
    <2> QED BY <2>1, <2>2
  <1>7. Vivos'
    <2>1. perdidos' = perdidos \cup S
      BY <1>s DEF Pierde
    <2> QED BY <1>0, <1>3, <1>4, <1>6, <2>1, VivosSeVan
  <1> QED BY <1>3, <1>7

-----------------------------------------------------------------------------
(* The theorems *)

\* When main starts nobody has a PCB.
LEMMA InicioDuenos ==
  ASSUME Init
  PROVE  Duenez
  <1>1. \A l \in Cuatro : Hay(<<l, 0>>) = {} /\ Cola(<<l, 0>>) = <<>>
    BY SitiosCola DEF Init, Cuatro, Listas, Contenido
  <1>2. \A r \in Recursos : Hay(<<"recurso", r>>) = {} /\ Cola(<<"recurso", r>>) = <<>>
    <2>1. \A r \in Recursos : colabloqueado[r] = <<>>
      BY DEF Init
    <2>2. Contenido(<<>>) = {}
      BY DEF Contenido
    <2>3. ASSUME NEW r \in Recursos PROVE Hay(<<"recurso", r>>) = {} /\ Cola(<<"recurso", r>>) = <<>>
      <3>1. Cola(<<"recurso", r>>) = colabloqueado[r] /\ Hay(<<"recurso", r>>) = Contenido(colabloqueado[r])
        BY SitiosCola
      <3> QED BY <2>1, <2>2, <3>1
    <2> QED BY <2>3
  <1>3. /\ Hay(<<"aux", 0>>) = {} /\ Cola(<<"aux", 0>>) = <<>>
        /\ Hay(<<"pf_pedidos", 0>>) = {} /\ Cola(<<"pf_pedidos", 0>>) = <<>>
        /\ Hay(<<"pf_respuestas", 0>>) = {} /\ Cola(<<"pf_respuestas", 0>>) = <<>>
        /\ Hay(<<"fs_respuestas", 0>>) = {} /\ Cola(<<"fs_respuestas", 0>>) = <<>>
    BY SitiosCola, SitiosPf DEF Init, SinSalida, Contenido
  <1>4. \A p \in Pid : ~EnCpu(p)
    BY PidNoNulo DEF Init, Esperando, EnCpu, PasosConPcb
  <1>5. /\ Hay(<<"cpu", 0>>) = {} /\ Hay(<<"signal", 0>>) = {} /\ Hay(<<"admision", 0>>) = {}
        /\ Hay(<<"salida", 0>>) = {} /\ Hay(<<"desbloqueado", 0>>) = {} /\ Hay(<<"fs", 0>>) = {}
    BY <1>4, PidNoNulo, SitiosHilos DEF Init, Esperando, SinSalida
  <1>6. /\ Hay(<<"durmiendo", 0>>) = {} /\ Hay(<<"sueno_detenido", 0>>) = {} /\ Hay(<<"pf_nuevo", 0>>) = {}
        /\ Hay(<<"pf_pedir", 0>>) = {} /\ Hay(<<"pf_resuelto", 0>>) = {} /\ Hay(<<"fs_pedido", 0>>) = {}
        /\ Hay(<<"archivo", 0>>) = {}
    BY SitiosEspera DEF Init
  <1>7. ASSUME NEW c \in Lugares PROVE Hay(c) = {}
    BY <1>1, <1>2, <1>3, <1>5, <1>6, SitiosTodos
  <1>8. ASSUME NEW c \in Colas PROVE Cola(c) = <<>>
    <2>1. c \in Lugares
      BY DEF Lugares
    <2>2. ASSUME NEW l \in Punteros PROVE c # <<l, 0>>
      BY SitiosPuntero
    <2> QED BY <1>1, <1>2, <1>3, <2>1, <2>2, SitiosTodos DEF Punteros
  <1>9. SinCompartir
    <2>1. \A c \in Colas : IsInjective(Cola(c))
      BY <1>8 DEF IsInjective
    <2> QED BY <1>7, <2>1 DEF SinCompartir
  <1>10. Huecos
    BY DEF Init, Huecos, Esperando, SinSalida
  <1>11. Turno
    BY <1>4 DEF Init, Turno, Esperando, PasosConPcb
  <1>12. Vivos
    <2>1. ConDueno = {}
      BY <1>7 DEF ConDueno
    <2>2. \A p \in Pid : ~(p < generador_de_id)
      BY PlanificadorSupuestos DEF Init, Pid
    <2> QED BY <2>1, <2>2 DEF Vivos
  <1> QED BY <1>9, <1>10, <1>11, <1>12 DEF Duenez

\* Who is lost stays lost.
LEMMA PerdidosCrece ==
  ASSUME [Next]_vars
  PROVE  perdidos \subseteq perdidos'
  <1>1. CASE UNCHANGED archivoVars
    BY <1>1 DEF archivoVars
  <1>2. CASE KfCloseDeVarios \/ SalidaDestruye
    BY <1>2 DEF KfCloseDeVarios, SalidaDestruye, Pierde
  <1>3. CASE KfOpenEspera \/ KfCloseAbre
    BY <1>3 DEF KfOpenEspera, KfCloseAbre
  <1>4. CASE Admision \/ Sleepers \/ UNCHANGED vars
    <2>1. UNCHANGED archivoVars
      BY <1>4 DEF Admision, AdmisionToma, AdmisionAcepta, AdmisionDetiene, AdmisionAvisa, Sleepers,
                  SleeperDespierta, SleeperSigue, SleeperAvisa, recursoVars, vars, archivoVars
    <2> QED BY <1>1, <2>1
  <1>5. CASE PageFaults \/ OpFS
    <2>1. UNCHANGED archivoVars
      BY <1>5 DEF PageFaults, PfArranca, PfPide, MemoriaCarga, PfRecibe, PfListo, PfAvisa, OpFS,
                  FilesystemAtiende, FsAbre, FsRecibe, FsListo, FsAvisa, recursoVars
    <2> QED BY <1>1, <2>1
  <1>6. CASE Consola \/ PasaSegundo \/ InterrupcionPerdida
    <2>1. UNCHANGED archivoVars
      BY <1>6 DEF Consola, IniciarProceso, IniciarPlanificacion, DetenerPlanificacion, ReanudarPost,
                  ReanudarFlag, ModificarGrado, PasaSegundo, InterrupcionPerdida, recursoVars
    <2> QED BY <1>1, <2>1
  <1>7. CASE Despacho \/ Cpu
    <2>1. UNCHANGED archivoVars
      BY <1>7 DEF Despacho, ExecDespierta, ExecContinua, ExecElige, ExecDescarta, Cpu, CpuEjecuta,
                  ExecDesalojo, ExecPageFault, ExecSyscall, recursoVars
    <2> QED BY <1>1, <2>1
  <1>8. CASE \/ Kexit \/ Ksleep \/ KsleepSigue \/ KsleepAvisa \/ KfSeek \/ KfPide \/ KfBloquea
             \/ KfWriteLector \/ KfOpenPide \/ KfOpenCrea \/ KfOpenComparte \/ KfCloseFin
    <2>1. UNCHANGED archivoVars
      BY <1>8 DEF Kexit, Ksleep, KsleepSigue, KsleepAvisa, KfSeek, KfPide, KfBloquea, KfWriteLector,
                  KfOpenPide, KfOpenCrea, KfOpenComparte, KfCloseFin, recursoVars
    <2> QED BY <1>1, <2>1
  <1>9. CASE \/ KwaitInexistente \/ KwaitMira \/ KwaitSigue \/ KwaitEncola \/ KwaitBloquea \/ KwaitLee
             \/ KwaitToma
    <2>1. UNCHANGED archivoVars
      BY <1>9 DEF KwaitInexistente, KwaitMira, KwaitSigue, KwaitEncola, KwaitBloquea, KwaitLee, KwaitToma,
                  recursoVars
    <2> QED BY <1>1, <2>1
  <1>10. CASE \/ KsignalInexistente \/ KsignalAjeno \/ KsignalLee \/ KsignalDevuelve \/ KsignalMira
              \/ KsignalPop \/ KsignalListo
    <2>1. UNCHANGED archivoVars
      BY <1>10 DEF KsignalInexistente, KsignalAjeno, KsignalLee, KsignalDevuelve, KsignalMira, KsignalPop,
                   KsignalListo, recursoVars
    <2> QED BY <1>1, <2>1
  <1>11. CASE SalidaToma \/ SalidaAvisa \/ Liberacion
    <2>1. UNCHANGED archivoVars
      BY <1>11 DEF SalidaToma, SalidaAvisa, Liberacion, LiberarLee, LiberarSuma, LiberarMira, LiberarVacia,
                   LiberarRellena, LiberarDesbloquea, LiberarResta, LiberarDespierta, LiberarAvisa,
                   recursoVars
    <2> QED BY <1>1, <2>1
  <1> QED BY <1>2, <1>3, <1>4, <1>5, <1>6, <1>7, <1>8, <1>9, <1>10, <1>11 DEF Next, Llamadas, Salida

\* Every step of the kernel keeps the owners as they are, but for the birth of a process,
\* its destruction, a pid of 100 or more, and the entries of open files that go with their
\* waiters.
LEMMA PasoDuenos ==
  ASSUME TypeOK, PunterosValidos, Duenez, [Next]_vars
  PROVE  Duenez'
  <1>0. SinCompartir /\ Huecos /\ Turno /\ Vivos
    BY DEF Duenez
  <1>p. perdidos \subseteq perdidos'
    BY PerdidosCrece
  <1>1. CASE Admision
    <2>1. Pasa
      BY <1>0, <1>1, DuenosAdmision
    <2> QED BY <1>p, <1>1, <2>1, RestoAdmision DEF Duenez, Pasa
  <1>2. CASE Sleepers
    <2>1. Pasa
      BY <1>0, <1>2, DuenosSleepers
    <2> QED BY <1>p, <1>2, <2>1, RestoSleepers DEF Duenez, Pasa
  <1>3. CASE PageFaults
    <2>1. Pasa
      BY <1>0, <1>3, DuenosPf
    <2> QED BY <1>p, <1>3, <2>1, RestoPf DEF Duenez, Pasa
  <1>4. CASE OpFS
    <2>1. Pasa
      BY <1>0, <1>4, DuenosFs
    <2> QED BY <1>p, <1>4, <2>1, RestoFs DEF Duenez, Pasa
  <1>5. CASE \/ IniciarPlanificacion \/ DetenerPlanificacion \/ ReanudarPost \/ ReanudarFlag
             \/ ModificarGrado \/ PasaSegundo \/ InterrupcionPerdida
    <2>1. Pasa
      BY <1>0, <1>5, DuenosConsola
    <2> QED BY <1>p, <1>5, <2>1, RestoConsola DEF Duenez, Pasa
  <1>6. CASE IniciarProceso
    <2>1. SinCompartir' /\ ConDueno' = ConDueno \cup {generador_de_id}
      BY <1>0, <1>6, DuenosNuevo
    <2> QED BY <1>p, <1>6, <2>1, RestoNuevo DEF Duenez
  <1>7. CASE Despacho
    <2>1. Huecos'
      BY <1>0, <1>7, HuecosExec
    <2>2. CASE ExecElige
      BY <1>p, <2>1, <2>2, RestoElige DEF Duenez
    <2>3. CASE ExecDespierta \/ ExecContinua \/ ExecDescarta
      <3>1. Pasa
        BY <1>0, <2>3, DuenosDespacho
      <3> QED BY <1>p, <2>1, <2>3, <3>1, RestoDespacho DEF Duenez, Pasa
    <2> QED BY <1>7, <2>2, <2>3 DEF Despacho
  <1>8. CASE Cpu
    <2>1. Huecos' /\ Pasa
      BY <1>0, <1>8, HuecosExec, DuenosCpu
    <2> QED BY <1>p, <1>8, <2>1, RestoCpu DEF Duenez, Pasa
  <1>9. CASE Llamadas
    <2>1. Huecos'
      BY <1>0, <1>9, HuecosExec
    <2>2. CASE KfCloseDeVarios
      BY <2>1, <2>2, RestoCierra DEF Duenez
    <2>3. CASE ~KfCloseDeVarios
      <3>1. Pasa
        BY <1>0, <1>9, <2>3, DuenosLlamadas
      <3>2. Turno' /\ Vivos'
        BY <1>9, <1>p, <2>3, <3>1, RestoSiguen, RestoTerminan, RestoBloquean DEF Llamadas
      <3> QED BY <2>1, <3>1, <3>2 DEF Duenez, Pasa
    <2> QED BY <2>2, <2>3
  <1>10. CASE Salida
    <2>1. Huecos' /\ Turno'
      BY <1>10, <1>p, RestoSalida
    <2>2. CASE SalidaDestruye
      BY <2>1, <2>2, RestoDestruye DEF Duenez
    <2>3. CASE ~SalidaDestruye
      <3>1. Pasa
        BY <1>0, <1>10, <2>3, DuenosLiberacion, DuenosSalida DEF Salida
      <3> QED BY <1>10, <1>p, <2>1, <2>3, <3>1, RestoSalida DEF Duenez, Pasa
    <2> QED BY <2>2, <2>3
  <1>11. CASE UNCHANGED vars
    <2>1. UNCHANGED <<pcb, cola, colabloqueado, espera_archivo, exec, proceso_en_ejecucion, pcbelegido,
                      admision, salida, sleepers, pf, fs, generador_de_id, caido>>
      BY <1>11 DEF vars
    <2>2. \A q \in Pid : EnCpu(q)' <=> EnCpu(q)
      BY <2>1, CpuIgual
    <2>3. FueraDe({})
      BY <2>1, <2>2 DEF FueraDe
    <2>4. Pasa
      BY <1>0, <2>3, NadieMuda
    <2>5. Turno'
      BY <1>0, <2>1, TurnoOtros DEF Turno
    <2>6. Vivos'
      BY <1>0, <1>p, <2>1, <2>4, VivosPasa
    <2> QED BY <1>0, <2>1, <2>4, <2>5, <2>6 DEF Duenez, Pasa, Huecos
  <1> QED BY <1>1, <1>2, <1>3, <1>4, <1>5, <1>6, <1>7, <1>8, <1>9, <1>10, <1>11 DEF Next, Consola

\* What the places say of the owners of a PCB.
LEMMA DuenosSon ==
  ASSUME NEW p \in Pid
  PROVE  Duenos(p) = {c \in Lugares : p \in Hay(c)}
  <1>1. ASSUME NEW c \in Colas
        PROVE  p \in Hay(c) <=> \E i \in DOMAIN Cola(c) : Cola(c)[i] = p
    BY DEF Hay, Contenido
  <1>2. ASSUME NEW c \in Punteros \X {0}
        PROVE  c \notin Colas /\ (p \in Hay(c) <=> Apunta(c[1], p))
    <2>1. PICK l \in Punteros : c = <<l, 0>>
      OBVIOUS
    <2>2. c \notin Colas
      BY <2>1, SitiosPuntero
    <2> QED BY <2>2 DEF Hay
  <1> QED BY <1>1, <1>2 DEF Duenos, Lugares

\* The inductive invariant says what the three properties say.
LEMMA DuenezBasta ==
  ASSUME Duenez
  PROVE  UnSoloDueno /\ NadieSePierde /\ ElegirConAlguien
  <1>1. UnSoloDueno
    <2>1. ASSUME NEW p \in Pid, NEW c \in Duenos(p), NEW d \in Duenos(p) PROVE c = d
      BY DuenosSon DEF Duenez, SinCompartir
    <2> QED BY <2>1 DEF UnSoloDueno, Duenez, SinCompartir
  <1>2. NadieSePierde
    <2> SUFFICES ASSUME NEW p \in Pid, p < generador_de_id, pcb[p].estado # "DESTRUIDO", ~EsBasura(p),
                        p \notin perdidos
                 PROVE  Duenos(p) # {}
      BY DEF NadieSePierde
    <2>1. p \in ConDueno
      BY DEF Duenez, Vivos
    <2> QED BY <2>1, DuenosSon DEF ConDueno
  <1>3. ElegirConAlguien
    BY DEF Duenez, Turno, ElegirConAlguien
  <1> QED BY <1>1, <1>2, <1>3

\* The inductive invariant: the owners, the pointers and the turn of exec_pcb.
THEOREM DuenosSiempre == Spec => []Duenez
  <1>1. Init => Duenez
    BY InicioDuenos
  <1>2. TypeOK /\ PunterosValidos /\ Duenez /\ [Next]_vars => Duenez'
    BY PasoDuenos
  <1> QED BY <1>1, <1>2, TipoYPunteros, PTL DEF Spec

\* No two threads, lists or requests ever have the same PCB, and no list has it twice.
THEOREM UnDuenoSiempre == Spec => []UnSoloDueno
  BY DuenosSiempre, DuenezBasta, PTL

\* Until pcb_destroy somebody has each process, whatever they run and however many there
\* are, but for a pid that looks freed to exec_pcb and whoever waits for a file in an entry
\* that kf_close replaces or pcb_destroy frees.
THEOREM NadiePerdido == Spec => []NadieSePierde
  BY DuenosSiempre, DuenezBasta, PTL

\* exit(1) in elegir_pcb_segun_algoritmo is never reached.
THEOREM ElegirSiempre == Spec => []ElegirConAlguien
  BY DuenosSiempre, DuenezBasta, PTL

-----------------------------------------------------------------------------
(* Who wakes exec_pcb: VaradosSonNuevos *)

\* recibir_op_FS has a request under way.
PideFs == fs.pedidos # {} \/ fs.respuestas # <<>> \/ fs.paso # "sem"

\* Some thread will still post sem_ready and, if somebody waits in lista_ready, sem_exec.
\* The posts of sem_exit and of sem_hilo_FS do not count: they may be for nobody.
Pendiente ==
  \/ cola["exit"] # <<>> \/ salida.paso # "sem"
  \/ sleepers.durmiendo # {} \/ sleepers.detenidos # {} \/ sleepers.avisos > 0
  \/ pf.nuevos # {} \/ pf.pedir # {} \/ pf.resueltos # {} \/ pf.avisos > 0
  \/ pf.pedidos # <<>> \/ pf.respuestas # <<>>
  \/ PideFs

\* What exec_pcb waits for.
Fichas == sem["ready"] > 0 /\ sem["exec"] > 0

\* Whoever waits in lista_ready and executed once.
Veteranos == {p \in Contenido(cola["ready"]) : pcb[p].pc > 0}

\* ready_pcb has not let it into lista_ready yet.
SinAdmitir(p) == p >= generador_de_id \/ p \in Contenido(cola["listos"]) \/ admision.pcb = p

Estreno == \A p \in Pid : SinAdmitir(p) => pcb[p].pc = 0

SinPausa == ~frenado /\ consola.paso = "libre"

Despierta == exec.paso # "sem" \/ Fichas \/ Pendiente

\* While nobody paused the kernel, a veteran in lista_ready finds exec_pcb awake, about to
\* wake, or owed both posts.  The second part is for fs_interaction, which may block its
\* process after recibir_op_FS answered for it: the posts are there by then.
Avisada ==
  /\ consola.pausas = 0 => SinPausa
  /\ exec.paso = "fs_bloquear" => PideFs \/ Fichas
  /\ consola.pausas = 0 /\ Veteranos # {} => Despierta

\* What a step that leaves the program counter alone writes.
LEMMA PcIgual ==
  ASSUME NEW f \in [Pid -> Pcb], NEW p
  PROVE  /\ \A q \in Pid : Listo(f, p)[q].pc = f[q].pc
         /\ \A e : \A q \in Pid : [f EXCEPT ![p].estado = e][q].pc = f[q].pc
         /\ \A e, s : \A q \in Pid : Listo([f EXCEPT ![p].estado = e], s)[q].pc = f[q].pc
         /\ \A m : \A q \in Pid : [f EXCEPT ![p].motivo = m][q].pc = f[q].pc
         /\ \A r, n : \A q \in Pid : [f EXCEPT ![p].asignados[r] = n][q].pc = f[q].pc
         /\ \A a, b : \A q \in Pid : Nuevo(f, p, a, b)[q].pc = f[q].pc
  <1>1. /\ \A q \in Pid : Listo(f, p)[q].pc = f[q].pc
        /\ \A a, b : \A q \in Pid : Nuevo(f, p, a, b)[q].pc = f[q].pc
    BY DEF Listo, Nuevo, Pcb
  <1>2. \A e, s : \A q \in Pid : Listo([f EXCEPT ![p].estado = e], s)[q].pc = f[q].pc
    BY DEF Listo, Pcb
  <1>3. /\ \A e : \A q \in Pid : [f EXCEPT ![p].estado = e][q].pc = f[q].pc
        /\ \A m : \A q \in Pid : [f EXCEPT ![p].motivo = m][q].pc = f[q].pc
    BY DEF Pcb
  <1>4. \A r, n : \A q \in Pid : [f EXCEPT ![p].asignados[r] = n][q].pc = f[q].pc
    BY DEF Pcb
  <1> QED BY <1>1, <1>2, <1>3, <1>4

\* kf_open, kf_close and the end of kf_write in a reader.
LlamadasArchivo ==
  \/ KfOpenPide \/ KfOpenCrea \/ KfOpenComparte \/ KfOpenEspera
  \/ KfCloseAbre \/ KfCloseFin \/ KfCloseDeVarios \/ KfWriteLector

\* What they leave alone.
LEMMA MarcoArchivo ==
  ASSUME LlamadasArchivo
  PROVE  UNCHANGED <<admision, generador_de_id, frenado, consola, fs>>
  BY DEF LlamadasArchivo, KfOpenPide, KfOpenCrea, KfOpenComparte, KfOpenEspera, KfCloseAbre, KfCloseFin,
         KfCloseDeVarios, KfWriteLector, SigueEnCpu, consolaVars, hilosVars

LEMMA ListosArchivo ==
  ASSUME TypeOK, LlamadasArchivo
  PROVE  cola'["listos"] = cola["listos"]
  <1>0. cola \in [Listas -> Seq(Pid)]
    BY DEF TypeOK, TipoListas
  <1>1. CASE KfOpenPide \/ KfOpenCrea \/ KfOpenComparte \/ KfCloseFin \/ KfCloseDeVarios
    BY <1>1 DEF KfOpenPide, KfOpenCrea, KfOpenComparte, KfCloseFin, KfCloseDeVarios, SigueEnCpu
  <1>2. CASE KfOpenEspera \/ KfCloseAbre \/ KfWriteLector
    BY <1>0, <1>2 DEF KfOpenEspera, KfCloseAbre, KfWriteLector, AlExit, Agregar, SinPrimero, Listas
  <1> QED BY <1>1, <1>2 DEF LlamadasArchivo

\* Only ready_pcb writes what it holds.
LEMMA AdmisionIgual ==
  ASSUME [Next]_vars, ~Admision
  PROVE  UNCHANGED admision
  <1>1. CASE Consola \/ PasaSegundo \/ InterrupcionPerdida \/ Despacho \/ Cpu \/ UNCHANGED vars
    BY <1>1 DEF Consola, IniciarProceso, IniciarPlanificacion, DetenerPlanificacion, ReanudarPost,
      ReanudarFlag, ModificarGrado, PasaSegundo, InterrupcionPerdida, Despacho, ExecDespierta, ExecContinua,
      ExecElige, ExecDescarta, Cpu, CpuEjecuta, ExecDesalojo, ExecPageFault, ExecSyscall, vars
  <1>2. CASE LlamadasArchivo
    BY <1>2, MarcoArchivo
  <1>5. CASE Llamadas /\ ~LlamadasArchivo
    BY <1>5 DEF Llamadas, LlamadasArchivo, Kexit, KfSeek, SigueEnCpu, Ksleep, KsleepSigue, KsleepAvisa,
        KfPide, KfBloquea, KwaitInexistente, KwaitMira, KwaitSigue, KwaitEncola, KwaitBloquea, KwaitLee,
        KwaitToma, KsignalInexistente, KsignalAjeno, KsignalLee, KsignalDevuelve, KsignalMira, KsignalPop,
        KsignalListo
  <1>3. CASE Salida
    BY <1>3 DEF Salida, Liberacion, SalidaToma, LiberarLee, LiberarSuma, LiberarMira, LiberarVacia,
      LiberarRellena, LiberarDesbloquea, LiberarResta, LiberarDespierta, LiberarAvisa, SalidaDestruye,
      SalidaAvisa
  <1>4. CASE Sleepers \/ PageFaults \/ OpFS
    BY <1>4 DEF Sleepers, SleeperDespierta, SleeperSigue, SleeperAvisa, PageFaults, PfArranca, PfPide,
      MemoriaCarga, PfRecibe, PfListo, PfAvisa, OpFS, FilesystemAtiende, FsAbre, FsRecibe, FsListo, FsAvisa
  <1> QED BY <1>1, <1>2, <1>3, <1>4, <1>5 DEF Next

\* Only the CPU moves a program counter.
LEMMA PcSigue ==
  ASSUME TypeOK, [Next]_vars, ~CpuEjecuta, ~ExecSyscall
  PROVE  \A q \in Pid : pcb'[q].pc = pcb[q].pc
  <1>0. pcb \in [Pid -> Pcb]
    BY DEF TypeOK, TipoProcesos
  <1>1. CASE UNCHANGED pcb
    BY <1>1
  <1>2. CASE IniciarProceso
    BY <1>0, <1>2, PcIgual DEF IniciarProceso
  <1>3. CASE AdmisionAcepta \/ LiberarDespierta \/ PfListo \/ FsListo \/ KsignalListo \/ KfCloseAbre
    <2>1. UNCHANGED pcb \/ \E p : pcb' = Listo(pcb, p)
      BY <1>3 DEF AdmisionAcepta, LiberarDespierta, PfListo, FsListo, KsignalListo, KfCloseAbre
    <2> QED BY <1>0, <2>1, PcIgual
  <1>4. CASE \/ ExecElige \/ Kexit \/ Ksleep \/ KfBloquea \/ KfOpenEspera \/ KfWriteLector
             \/ KsignalInexistente \/ KsignalAjeno \/ KwaitEncola
    <2>1. UNCHANGED pcb \/ \E p, e : pcb' = [pcb EXCEPT ![p].estado = e]
      BY <1>4 DEF ExecElige, Kexit, Ksleep, KfBloquea, KfOpenEspera, KfWriteLector, KsignalInexistente,
                  KsignalAjeno, KwaitEncola, AlExit
    <2>2. ASSUME NEW p, NEW e, pcb' = [pcb EXCEPT ![p].estado = e]
          PROVE  \A q \in Pid : pcb'[q].pc = pcb[q].pc
      BY <1>0, <2>2, PcIgual
    <2> QED BY <2>1, <2>2
  <1>5. CASE ExecDesalojo \/ PfRecibe
    <2>1. \E p, m : pcb' = [pcb EXCEPT ![p].motivo = m]
      BY <1>5 DEF ExecDesalojo, PfRecibe
    <2> QED BY <1>0, <2>1, PcIgual
  <1>6. CASE ExecPageFault
    BY <1>0, <1>6 DEF ExecPageFault, Pcb
  <1>7. CASE KwaitInexistente
    BY <1>0, <1>7 DEF KwaitInexistente, Pcb
  <1>8. CASE KwaitToma \/ KsignalDevuelve \/ KsignalPop \/ LiberarSuma \/ LiberarDesbloquea
    <2>1. \/ UNCHANGED pcb
          \/ \E p, n : pcb' = [pcb EXCEPT ![p].asignados[exec.rec] = n]
          \/ \E p, n : pcb' = [pcb EXCEPT ![p].asignados[Rec] = n]
      <3>1. CASE KwaitToma
        BY <3>1 DEF KwaitToma
      <3>2. CASE KsignalDevuelve
        BY <3>2 DEF KsignalDevuelve
      <3>3. CASE KsignalPop
        BY <3>3 DEF KsignalPop
      <3>4. CASE LiberarSuma
        BY <3>4 DEF LiberarSuma
      <3>5. CASE LiberarDesbloquea
        BY <3>5 DEF LiberarDesbloquea
      <3> QED BY <1>8, <3>1, <3>2, <3>3, <3>4, <3>5
    <2>2. ASSUME NEW p, NEW r, NEW n, pcb' = [pcb EXCEPT ![p].asignados[r] = n]
          PROVE  \A q \in Pid : pcb'[q].pc = pcb[q].pc
      BY <1>0, <2>2, PcIgual
    <2> QED BY <2>1, <2>2
  <1>9. CASE SalidaDestruye
    <2>1. CASE cola["detenidos"] # <<>>
      <3>1. pcb' = Listo([pcb EXCEPT ![salida.pcb].estado = "DESTRUIDO"], Head(cola["detenidos"]))
        BY <1>9, <2>1 DEF SalidaDestruye
      <3> QED BY <1>0, <3>1 DEF Listo, Pcb
    <2>2. CASE cola["detenidos"] = <<>>
      <3>1. pcb' = [pcb EXCEPT ![salida.pcb].estado = "DESTRUIDO"]
        BY <1>9, <2>2 DEF SalidaDestruye
      <3> QED BY <1>0, <3>1, PcIgual
    <2> QED BY <2>1, <2>2
  <1>10. \/ UNCHANGED pcb \/ IniciarProceso \/ AdmisionAcepta \/ LiberarDespierta \/ PfListo \/ FsListo
         \/ KsignalListo \/ ExecElige \/ Kexit \/ Ksleep \/ KfBloquea \/ KsignalInexistente \/ KsignalAjeno
         \/ KwaitEncola \/ ExecDesalojo \/ PfRecibe \/ ExecPageFault \/ KwaitInexistente \/ KwaitToma
         \/ KsignalDevuelve \/ KsignalPop \/ LiberarSuma \/ LiberarDesbloquea \/ SalidaDestruye
         \/ KfCloseAbre \/ KfOpenEspera \/ KfWriteLector
    <2>1. CASE UNCHANGED vars
      BY <2>1 DEF vars
    <2>2. CASE Consola \/ PasaSegundo \/ InterrupcionPerdida
      BY <2>2 DEF Consola, IniciarPlanificacion, DetenerPlanificacion, ReanudarPost, ReanudarFlag,
                  ModificarGrado, PasaSegundo, InterrupcionPerdida
    <2>3. CASE Admision
      BY <2>3 DEF Admision, AdmisionToma, AdmisionDetiene, AdmisionAvisa
    <2>4. CASE Despacho \/ Cpu
      BY <2>4 DEF Despacho, ExecDespierta, ExecContinua, ExecDescarta, Cpu
    <2>5. CASE Llamadas
      BY <2>5 DEF Llamadas, SigueEnCpu, KfOpenPide, KfOpenCrea, KfOpenComparte, KfCloseFin,
                  KfCloseDeVarios, KfSeek, KsleepSigue, KsleepAvisa, KfPide, KwaitMira, KwaitSigue,
                  KwaitBloquea, KwaitLee, KsignalLee, KsignalMira
    <2>6. CASE Salida
      BY <2>6 DEF Salida, Liberacion, SalidaToma, LiberarLee, LiberarMira, LiberarVacia, LiberarRellena,
                  LiberarResta, LiberarAvisa, SalidaAvisa
    <2>7. CASE Sleepers \/ PageFaults \/ OpFS
      BY <2>7 DEF Sleepers, SleeperDespierta, SleeperSigue, SleeperAvisa, PageFaults, PfArranca, PfPide,
                  MemoriaCarga, PfAvisa, OpFS, FilesystemAtiende, FsAbre, FsRecibe, FsAvisa
    <2> QED BY <2>1, <2>2, <2>3, <2>4, <2>5, <2>6, <2>7 DEF Next
  <1> QED BY <1>1, <1>2, <1>3, <1>4, <1>5, <1>6, <1>7, <1>8, <1>9, <1>10

\* A process no step admits keeps its program counter: the one in the CPU was admitted.
LEMMA PasoEstreno ==
  ASSUME TypeOK, PunterosValidos, Duenez, Estreno, [Next]_vars
  PROVE  Estreno'
  <1>0. /\ cola \in [Listas -> Seq(Pid)] /\ "listos" \in Listas /\ cola["listos"] \in Seq(Pid)
        /\ pcb \in [Pid -> Pcb] /\ generador_de_id \in Nat
    BY DEF TypeOK, TipoListas, TipoProcesos, Listas
  <1>1. ASSUME NEW q \in Pid, SinAdmitir(q)' PROVE SinAdmitir(q)
    <2>1. CASE IniciarProceso
      <3>1. /\ generador_de_id' = generador_de_id + 1 /\ admision' = admision /\ generador_de_id \in Pid
            /\ cola'["listos"] = Append(cola["listos"], generador_de_id)
        BY <1>0, <2>1 DEF IniciarProceso, Agregar
      <3>2. \A p \in Contenido(cola'["listos"]) : p \in Contenido(cola["listos"]) \/ p = generador_de_id
        BY <1>0, <3>1 DEF Contenido
      <3> QED BY <1>0, <1>1, <3>1, <3>2, PlanificadorSupuestos DEF SinAdmitir, Pid
    <2>2. CASE AdmisionToma
      <3>1. /\ generador_de_id' = generador_de_id /\ cola["listos"] # <<>>
            /\ cola'["listos"] = Tail(cola["listos"]) /\ admision'.pcb = Head(cola["listos"])
        BY <1>0, <2>2 DEF AdmisionToma, SinPrimero, consolaVars
      <3>2. Contenido(cola'["listos"]) \subseteq Contenido(cola["listos"])
        BY <1>0, <3>1 DEF Contenido
      <3>3. admision'.pcb \in Contenido(cola["listos"])
        BY <1>0, <3>1 DEF Contenido
      <3> QED BY <1>1, <3>1, <3>2, <3>3 DEF SinAdmitir
    <2>3. CASE ~IniciarProceso /\ ~AdmisionToma
      <3>1. UNCHANGED generador_de_id
        <4>1. CASE Consola \/ PasaSegundo \/ InterrupcionPerdida \/ Admision \/ Despacho \/ Cpu \/ UNCHANGED vars
          BY <2>3, <4>1 DEF Consola, IniciarPlanificacion, DetenerPlanificacion, ReanudarPost, ReanudarFlag,
            ModificarGrado, PasaSegundo, InterrupcionPerdida, Admision, AdmisionAcepta, AdmisionDetiene,
            AdmisionAvisa, Despacho, ExecDespierta, ExecContinua, ExecElige, ExecDescarta, Cpu, CpuEjecuta,
            ExecDesalojo, ExecPageFault, ExecSyscall, consolaVars, vars
        <4>2. CASE LlamadasArchivo
          BY <4>2, MarcoArchivo
        <4>5. CASE Llamadas /\ ~LlamadasArchivo
          BY <4>5 DEF Llamadas, LlamadasArchivo, Kexit, KfSeek, SigueEnCpu, Ksleep, KsleepSigue, KsleepAvisa,
              KfPide, KfBloquea, KwaitInexistente, KwaitMira, KwaitSigue, KwaitEncola, KwaitBloquea, KwaitLee,
              KwaitToma, KsignalInexistente, KsignalAjeno, KsignalLee, KsignalDevuelve, KsignalMira,
              KsignalPop, KsignalListo, consolaVars
        <4>3. CASE Salida
          BY <4>3 DEF Salida, Liberacion, SalidaToma, LiberarLee, LiberarSuma, LiberarMira, LiberarVacia,
            LiberarRellena, LiberarDesbloquea, LiberarResta, LiberarDespierta, LiberarAvisa, SalidaDestruye,
            SalidaAvisa, consolaVars
        <4>4. CASE Sleepers \/ PageFaults \/ OpFS
          BY <4>4 DEF Sleepers, SleeperDespierta, SleeperSigue, SleeperAvisa, PageFaults, PfArranca, PfPide,
            MemoriaCarga, PfRecibe, PfListo, PfAvisa, OpFS, FilesystemAtiende, FsAbre, FsRecibe, FsListo,
            FsAvisa, consolaVars
        <4> QED BY <4>1, <4>2, <4>3, <4>4, <4>5 DEF Next
      <3>2. cola'["listos"] = cola["listos"]
        <4>1. CASE Consola \/ PasaSegundo \/ InterrupcionPerdida \/ UNCHANGED vars
          BY <2>3, <4>1 DEF Consola, IniciarPlanificacion, DetenerPlanificacion, ReanudarPost, ReanudarFlag,
            ModificarGrado, PasaSegundo, InterrupcionPerdida, vars
        <4>2. CASE Admision \/ Despacho \/ Cpu
          BY <1>0, <2>3, <4>2 DEF Admision, AdmisionAcepta, AdmisionDetiene, AdmisionAvisa, Despacho,
            ExecDespierta, ExecContinua, ExecElige, ExecDescarta, Cpu, CpuEjecuta, ExecDesalojo,
            ExecPageFault, ExecSyscall, Agregar, SinPrimero, Listas
        <4>3. CASE LlamadasArchivo
          BY <4>3, ListosArchivo
        <4>6. CASE Llamadas /\ ~LlamadasArchivo
          BY <1>0, <4>6 DEF Llamadas, LlamadasArchivo, Kexit, KfSeek, SigueEnCpu, Ksleep, KsleepSigue,
              KsleepAvisa, KfPide, KfBloquea, KwaitInexistente, KwaitMira, KwaitSigue, KwaitEncola,
              KwaitBloquea, KwaitLee, KwaitToma, KsignalInexistente, KsignalAjeno, KsignalLee,
              KsignalDevuelve, KsignalMira, KsignalPop, KsignalListo, AlExit, Agregar, SinPrimero, Listas
        <4>4. CASE Salida
          BY <1>0, <4>4 DEF Salida, Liberacion, SalidaToma, LiberarLee, LiberarSuma, LiberarMira,
            LiberarVacia, LiberarRellena, LiberarDesbloquea, LiberarResta, LiberarDespierta, LiberarAvisa,
            SalidaDestruye, SalidaAvisa, Agregar, SinPrimero, Listas
        <4>5. CASE Sleepers \/ PageFaults \/ OpFS
          BY <1>0, <4>5 DEF Sleepers, SleeperDespierta, SleeperSigue, SleeperAvisa, PageFaults, PfArranca,
            PfPide, MemoriaCarga, PfRecibe, PfListo, PfAvisa, OpFS, FilesystemAtiende, FsAbre, FsRecibe,
            FsListo, FsAvisa, Agregar, Listas
        <4> QED BY <4>1, <4>2, <4>3, <4>4, <4>5, <4>6 DEF Next
      <3>3. admision'.pcb = admision.pcb \/ admision'.pcb = Nada
        <4>1. CASE Admision
          BY <2>3, <4>1 DEF Admision, AdmisionAcepta, AdmisionDetiene, AdmisionAvisa, TypeOK, TipoAdmision
        <4>2. CASE ~Admision
          <5>1. UNCHANGED admision
            BY <4>2, AdmisionIgual
          <5> QED BY <5>1
        <4> QED BY <4>1, <4>2
      <3> QED BY <1>1, <3>1, <3>2, <3>3, PidNoNulo DEF SinAdmitir
    <2> QED BY <2>1, <2>2, <2>3
  <1>2. ASSUME NEW q \in Pid, SinAdmitir(q), pcb'[q].pc # pcb[q].pc PROVE FALSE
    <2>1. CpuEjecuta \/ ExecSyscall
      BY <1>2, PcSigue
    <2>2. q = pcbelegido /\ exec.paso = "cpu"
      BY <1>0, <1>2, <2>1 DEF CpuEjecuta, ExecSyscall, Pcb
    <2>3. q \in Hay(<<"cpu", 0>>)
      BY <2>2, SitiosHilos, CpuEs DEF PasosConPcb
    <2>4. <<"cpu", 0>> \in Lugares /\ <<"listos", 0>> \in Lugares /\ <<"admision", 0>> \in Lugares
      BY LugaresSon DEF Cuatro, Punteros
    <2>5. q < generador_de_id
      BY <2>3, <2>4 DEF Duenez, Vivos, ConDueno
    <2>6. q \notin Hay(<<"listos", 0>>) /\ q \notin Hay(<<"admision", 0>>)
      BY <2>3, <2>4 DEF Duenez, SinCompartir
    <2>7. q \notin Contenido(cola["listos"]) /\ admision.pcb # q
      BY <2>6, SitiosCola, SitiosHilos DEF Cuatro
    <2> QED BY <1>0, <1>2, <2>5, <2>7, PlanificadorSupuestos DEF SinAdmitir, Pid
  <1> QED BY <1>1, <1>2 DEF Estreno

\* What a post leaves in the two semaphores.
LEMMA PostFichas ==
  ASSUME TypeOK
  PROVE  /\ sem["ready"] \in Nat /\ sem["exec"] \in Nat
         /\ Post({"ready", "exec"})["ready"] > 0 /\ Post({"ready", "exec"})["exec"] > 0
         /\ HayReady => PostSiHayReady["ready"] > 0 /\ PostSiHayReady["exec"] > 0
         /\ \A S : Fichas => Post(S)["ready"] > 0 /\ Post(S)["exec"] > 0
  BY DEF TypeOK, Semaforos, Post, PostSiHayReady, Fichas

\* The steps of exec_pcb: it goes on, it hands its process to a thread that owes both
\* posts, it posts both, or nobody waits.
LEMMA DespiertaExec ==
  ASSUME TypeOK, Avisada, SinPausa, Despacho \/ Cpu \/ Llamadas
  PROVE  Despierta' \/ cola'["ready"] = <<>>
  <1>0. /\ exec \in [paso : PasosExec, rec : 0 .. NRecursos, reg : Nat, hijo : PidNulo]
        /\ cola \in [Listas -> Seq(Pid)] /\ {"ready", "exit", "exec"} \subseteq Listas
        /\ cola["exit"] \in Seq(Pid)
    BY DEF TypeOK, TipoExec, TipoListas, Listas
  <1>1. CASE ExecDespierta
    <2>1. CASE HayReady
      <3>1. exec'.paso = "elegir"
        BY <1>0, <1>1, <2>1 DEF ExecDespierta
      <3> QED BY <3>1 DEF Despierta
    <2>2. CASE ~HayReady
      BY <1>1, <2>2 DEF ExecDespierta, HayReady
    <2> QED BY <2>1, <2>2
  <1>2. CASE ExecContinua \/ CpuEjecuta
    <2>1. exec'.paso # "sem"
      BY <1>0, <1>2 DEF ExecContinua, CpuEjecuta
    <2> QED BY <2>1 DEF Despierta
  <1>3. CASE ExecElige
    <2>1. exec'.paso # "sem"
      BY <1>0, <1>3 DEF ExecElige
    <2> QED BY <2>1 DEF Despierta
  <1>4. CASE ExecSyscall
    <2>1. exec'.paso # "sem"
      BY <1>0, <1>4 DEF ExecSyscall, Syscalls, Operaciones
    <2> QED BY <2>1 DEF Despierta
  <1>5. CASE ExecDescarta \/ KsleepAvisa \/ KwaitBloquea
    <2>1. sem' = PostSiHayReady /\ cola' = cola
      BY <1>5 DEF ExecDescarta, KsleepAvisa, KwaitBloquea
    <2>2. CASE HayReady
      <3>1. Fichas'
        BY <2>1, <2>2, PostFichas DEF Fichas
      <3> QED BY <3>1 DEF Despierta
    <2> QED BY <2>1, <2>2 DEF HayReady
  <1>6. CASE \/ ExecDesalojo \/ KfSeek \/ KfOpenComparte \/ KfCloseFin \/ KfCloseDeVarios
             \/ KwaitToma \/ KsignalListo
    <2>1. sem' = Post({"ready", "exec"})
      BY <1>6 DEF ExecDesalojo, KfSeek, KfOpenComparte, KfCloseFin, KfCloseDeVarios, SigueEnCpu, KwaitToma,
          KsignalListo, SinPausa
    <2>2. Fichas'
      BY <2>1, PostFichas DEF Fichas
    <2> QED BY <2>2 DEF Despierta
  <1>7. CASE KsignalMira
    <2>1. exec'.paso = "signal_pop" \/ sem' = Post({"ready", "exec"})
      BY <1>0, <1>7 DEF KsignalMira
    <2>2. exec'.paso # "sem" \/ Fichas'
      BY <2>1, PostFichas DEF Fichas
    <2> QED BY <2>2 DEF Despierta
  <1>8. CASE ExecPageFault
    <2>1. pf'.nuevos # {}
      BY <1>8 DEF ExecPageFault, TypeOK, TipoPf
    <2> QED BY <2>1 DEF Despierta, Pendiente
  <1>9. CASE Kexit \/ KfWriteLector \/ KwaitInexistente \/ KsignalInexistente \/ KsignalAjeno
    <2>1. cola'["exit"] = Append(cola["exit"], pcbelegido)
      BY <1>0, <1>9 DEF Kexit, KfWriteLector, KwaitInexistente, KsignalInexistente, KsignalAjeno, AlExit,
                        Agregar, SinPrimero
    <2>2. cola'["exit"] # <<>>
      BY <1>0, <2>1
    <2> QED BY <2>2 DEF Despierta, Pendiente
  <1>10. CASE Ksleep \/ KsleepSigue \/ KfOpenPide \/ KfCloseAbre \/ KfPide \/ KwaitMira
    <2>1. exec'.paso # "sem"
      BY <1>0, <1>10 DEF Ksleep, KsleepSigue, KfOpenPide, KfCloseAbre, KfPide, KwaitMira
    <2> QED BY <2>1 DEF Despierta
  <1>11. CASE KwaitSigue \/ KwaitEncola \/ KwaitLee \/ KsignalLee \/ KsignalDevuelve \/ KsignalPop
    <2>1. exec'.paso # "sem"
      BY <1>0, <1>11 DEF KwaitSigue, KwaitEncola, KwaitLee, KsignalLee, KsignalDevuelve, KsignalPop
    <2> QED BY <2>1 DEF Despierta
  <1>12. CASE KfBloquea
    <2>1. (PideFs \/ Fichas) /\ fs' = fs /\ sem' = Post({"FS"})
      BY <1>12 DEF KfBloquea, Avisada, hilosVars
    <2>2. PideFs' \/ Fichas'
      BY <2>1, PostFichas DEF PideFs, Fichas
    <2> QED BY <2>2 DEF Despierta, Pendiente
  <1>13. CASE KfOpenEspera
    <2>1. sem' = PostSiHayReady /\ cola'["ready"] = cola["ready"]
      BY <1>0, <1>13 DEF KfOpenEspera, SinPrimero
    <2>2. CASE HayReady
      <3>1. Fichas'
        BY <2>1, <2>2, PostFichas DEF Fichas
      <3> QED BY <3>1 DEF Despierta
    <2> QED BY <2>1, <2>2 DEF HayReady
  <1>14. CASE KfOpenCrea
    <2>1. /\ sem'["ready"] = Post({"ready", "exec"})["ready"]
          /\ sem'["exec"] = Post({"ready", "exec"})["exec"]
      BY <1>14 DEF KfOpenCrea, Post, Semaforos
    <2>2. Fichas'
      BY <2>1, PostFichas DEF Fichas
    <2> QED BY <2>2 DEF Despierta
  <1> QED BY <1>1, <1>2, <1>3, <1>4, <1>5, <1>6, <1>7, <1>8, <1>9, <1>10, <1>11, <1>12, <1>13, <1>14
          DEF Despacho, Cpu, Llamadas

\* The steps of exit_pcb but for its sem_wait.
LEMMA DespiertaSalida ==
  ASSUME TypeOK, SinPausa, Liberacion \/ SalidaDestruye \/ SalidaAvisa
  PROVE  Despierta' \/ cola'["ready"] = <<>>
  <1>0. salida \in [paso : PasosSalida, pcb : PidNulo, rec : Nat, reg : Nat, aux : Seq(Pid), hijo : PidNulo]
    BY DEF TypeOK, TipoSalida
  <1>1. CASE SalidaAvisa
    <2>1. sem' = PostSiHayReady /\ cola' = cola
      BY <1>1 DEF SalidaAvisa, SinPausa
    <2>2. CASE HayReady
      <3>1. Fichas'
        BY <2>1, <2>2, PostFichas DEF Fichas
      <3> QED BY <3>1 DEF Despierta
    <2> QED BY <2>1, <2>2 DEF HayReady
  <1>2. CASE SalidaDestruye
    <2>1. salida'.paso = "avisar"
      BY <1>2 DEF SalidaDestruye, SinSalida
    <2> QED BY <2>1 DEF Despierta, Pendiente
  <1>3. CASE LiberarLee \/ LiberarSuma \/ LiberarMira \/ LiberarVacia \/ LiberarRellena
    <2>1. salida'.paso # "sem"
      <3>1. CASE LiberarLee
        BY <1>0, <3>1 DEF LiberarLee, SalidaEn
      <3>2. CASE LiberarSuma \/ LiberarMira
        BY <1>0, <3>2 DEF LiberarSuma, LiberarMira, SalidaEn
      <3>3. CASE LiberarVacia
        BY <1>0, <3>3 DEF LiberarVacia
      <3>4. CASE LiberarRellena
        BY <1>0, <3>4 DEF LiberarRellena
      <3> QED BY <1>3, <3>1, <3>2, <3>3, <3>4
    <2> QED BY <2>1 DEF Despierta, Pendiente
  <1>4. CASE LiberarDesbloquea \/ LiberarResta \/ LiberarDespierta \/ LiberarAvisa
    <2>1. salida'.paso # "sem"
      BY <1>0, <1>4 DEF LiberarDesbloquea, LiberarResta, LiberarDespierta, LiberarAvisa, SalidaEn
    <2> QED BY <2>1 DEF Despierta, Pendiente
  <1> QED BY <1>1, <1>2, <1>3, <1>4 DEF Liberacion

\* The steps of the sleepers and of manejar_pf.
LEMMA DespiertaEspera ==
  ASSUME TypeOK, SinPausa, Sleepers \/ PageFaults
  PROVE  Despierta'
  <1>0. /\ sleepers \in [durmiendo : SUBSET Pid, detenidos : SUBSET Pid, avisos : Nat]
        /\ pf \in [nuevos : SUBSET Pid, pedir : SUBSET Pid, pedidos : Seq(Pid),
                   respuestas : Seq(Pid), resueltos : SUBSET Pid, avisos : Nat]
    BY DEF TypeOK, TipoSleepers, TipoPf
  <1>1. CASE SleeperDespierta \/ SleeperSigue
    <2>1. sleepers'.avisos > 0
      <3>1. CASE SleeperDespierta
        <4>1. PICK p \in sleepers.durmiendo :
                sleepers' = [sleepers EXCEPT !.durmiendo = @ \ {p}, !.avisos = @ + 1]
          BY <3>1 DEF SleeperDespierta, SinPausa
        <4>2. sleepers'.avisos = sleepers.avisos + 1
          BY <1>0, <4>1
        <4> QED BY <1>0, <4>2
      <3>2. CASE SleeperSigue
        BY <1>0, <3>2 DEF SleeperSigue
      <3> QED BY <1>1, <3>1, <3>2
    <2> QED BY <2>1 DEF Despierta, Pendiente
  <1>2. CASE SleeperAvisa \/ PfAvisa
    <2>1. sem' = Post({"ready", "exec"})
      BY <1>2 DEF SleeperAvisa, PfAvisa, SinPausa
    <2>2. Fichas'
      BY <2>1, PostFichas DEF Fichas
    <2> QED BY <2>2 DEF Despierta
  <1>3. CASE PfArranca
    <2>1. pf'.pedir # {}
      BY <1>0, <1>3 DEF PfArranca
    <2> QED BY <2>1 DEF Despierta, Pendiente
  <1>4. CASE PfPide
    <2>1. PICK p \in pf.pedir : pf'.pedidos = Append(pf.pedidos, p)
      BY <1>0, <1>4 DEF PfPide
    <2>2. pf'.pedidos # <<>>
      BY <1>0, <2>1
    <2> QED BY <2>2 DEF Despierta, Pendiente
  <1>5. CASE MemoriaCarga
    <2>1. pf'.respuestas = Append(pf.respuestas, Head(pf.pedidos)) /\ Head(pf.pedidos) \in Pid
      BY <1>0, <1>5, CabezaTipo DEF MemoriaCarga
    <2>2. pf'.respuestas # <<>>
      BY <1>0, <2>1
    <2> QED BY <2>2 DEF Despierta, Pendiente
  <1>6. CASE PfRecibe
    <2>1. pf'.resueltos # {}
      BY <1>0, <1>6 DEF PfRecibe
    <2> QED BY <2>1 DEF Despierta, Pendiente
  <1>7. CASE PfListo
    <2>1. pf'.avisos > 0
      BY <1>0, <1>7 DEF PfListo
    <2> QED BY <2>1 DEF Despierta, Pendiente
  <1> QED BY <1>1, <1>2, <1>3, <1>4, <1>5, <1>6, <1>7 DEF Sleepers, PageFaults

\* The steps of the filesystem and of recibir_op_FS: the request is under way until both
\* semaphores are posted, paused or not.  The answer that kf_open waits for is apart.
LEMMA DespiertaFs ==
  ASSUME TypeOK, OpFS, ~FsAbre
  PROVE  PideFs' \/ Fichas'
  <1>0. fs \in [pedidos : SUBSET Pid, respuestas : Seq(Pid), paso : {"sem", "listo", "avisar"}, pcb : PidNulo]
    BY DEF TypeOK, TipoFs
  <1>1. CASE FilesystemAtiende
    <2>1. PICK p \in fs.pedidos : fs'.respuestas = Append(fs.respuestas, p)
      BY <1>0, <1>1 DEF FilesystemAtiende
    <2>2. fs'.respuestas # <<>>
      BY <1>0, <2>1
    <2> QED BY <2>2 DEF PideFs
  <1>2. CASE FsRecibe \/ FsListo
    <2>1. fs'.paso # "sem"
      BY <1>0, <1>2 DEF FsRecibe, FsListo
    <2> QED BY <2>1 DEF PideFs
  <1>3. CASE FsAvisa
    <2>1. sem' = Post({"ready", "exec"})
      BY <1>3 DEF FsAvisa
    <2> QED BY <2>1, PostFichas DEF Fichas
  <1> QED BY <1>1, <1>2, <1>3 DEF OpFS

\* What the console, ready_pcb and the first step of exit_pcb leave of the debt.
LEMMA DeudaIgual ==
  ASSUME TypeOK,
         Consola \/ PasaSegundo \/ InterrupcionPerdida \/ Admision \/ SalidaToma \/ UNCHANGED vars
  PROVE  /\ UNCHANGED <<exec, fs>>
         /\ Fichas => Fichas'
         /\ Despierta => Despierta'
  <1>0. /\ cola \in [Listas -> Seq(Pid)] /\ {"listos", "ready", "detenidos", "exit"} \subseteq Listas
        /\ sem \in [Semaforos -> Nat] /\ {"listos", "ready", "exec", "exit"} \subseteq Semaforos
    BY DEF TypeOK, TipoListas, Listas, Semaforos
  <1>1. UNCHANGED <<exec, fs, sleepers, pf>>
    <2>1. CASE Consola \/ UNCHANGED vars
      BY <2>1 DEF Consola, IniciarProceso, IniciarPlanificacion, DetenerPlanificacion, ReanudarPost,
                  ReanudarFlag, ModificarGrado, hilosVars, vars
    <2>2. CASE PasaSegundo \/ InterrupcionPerdida \/ Admision \/ SalidaToma
      BY <2>2 DEF PasaSegundo, InterrupcionPerdida, Admision, AdmisionToma, AdmisionAcepta, AdmisionDetiene,
                  AdmisionAvisa, SalidaToma, hilosVars
    <2> QED BY <2>1, <2>2
  <1>2. Fichas => Fichas'
    <2>1. CASE \/ IniciarPlanificacion \/ DetenerPlanificacion \/ ReanudarFlag \/ ModificarGrado \/ PasaSegundo
               \/ InterrupcionPerdida \/ AdmisionAcepta \/ AdmisionDetiene \/ UNCHANGED vars
      <3>1. sem' = sem
        BY <2>1 DEF IniciarPlanificacion, DetenerPlanificacion, ReanudarFlag, ModificarGrado, PasaSegundo,
                    InterrupcionPerdida, AdmisionAcepta, AdmisionDetiene, vars
      <3> QED BY <3>1 DEF Fichas
    <2>2. CASE AdmisionToma \/ SalidaToma
      <3>1. sem'["ready"] = sem["ready"] /\ sem'["exec"] = sem["exec"]
        BY <1>0, <2>2 DEF AdmisionToma, SalidaToma
      <3> QED BY <3>1 DEF Fichas
    <2>3. CASE IniciarProceso \/ ReanudarPost \/ AdmisionAvisa
      <3>1. sem' = sem \/ \E S : sem' = Post(S)
        BY <2>3 DEF IniciarProceso, ReanudarPost, AdmisionAvisa
      <3> QED BY <3>1, PostFichas DEF Fichas
    <2> QED BY <2>1, <2>2, <2>3 DEF Consola, Admision
  <1>3. (cola["exit"] # <<>> \/ salida.paso # "sem") => (cola'["exit"] # <<>> \/ salida'.paso # "sem")
    <2>1. CASE SalidaToma
      BY <2>1 DEF SalidaToma, SinSalida
    <2>2. CASE Consola \/ PasaSegundo \/ InterrupcionPerdida \/ UNCHANGED vars
      <3>1. salida' = salida /\ cola'["exit"] = cola["exit"]
        BY <1>0, <2>2 DEF Consola, IniciarProceso, IniciarPlanificacion, DetenerPlanificacion, ReanudarPost,
           ReanudarFlag, ModificarGrado, PasaSegundo, InterrupcionPerdida, Agregar, vars
      <3> QED BY <3>1
    <2>3. CASE Admision
      <3>1. salida' = salida /\ cola'["exit"] = cola["exit"]
        BY <1>0, <2>3 DEF Admision, AdmisionToma, AdmisionAcepta, AdmisionDetiene, AdmisionAvisa, Agregar,
                          SinPrimero
      <3> QED BY <3>1
    <2> QED BY <2>1, <2>2, <2>3
  <1> QED BY <1>1, <1>2, <1>3 DEF Despierta, Pendiente, PideFs

\* They add no veteran to lista_ready: ready_pcb only has who never executed.
LEMMA VeteranosIgual ==
  ASSUME TypeOK, PunterosValidos, Estreno,
         Consola \/ PasaSegundo \/ InterrupcionPerdida \/ Admision \/ SalidaToma \/ UNCHANGED vars,
         \A q \in Pid : pcb'[q].pc = pcb[q].pc
  PROVE  Veteranos' \subseteq Veteranos
  <1>0. /\ cola \in [Listas -> Seq(Pid)] /\ {"listos", "ready", "detenidos", "exit"} \subseteq Listas
        /\ cola["ready"] \in Seq(Pid)
    BY DEF TypeOK, TipoListas, Listas
  <1>1. Contenido(cola["ready"]) \subseteq Pid
    BY <1>0 DEF Contenido
  <1>2. CASE AdmisionAcepta
    <2>1. cola'["ready"] = Append(cola["ready"], admision.pcb) /\ admision.pcb \in Pid
      BY <1>0, <1>2, PunterosPid DEF AdmisionAcepta, Agregar
    <2>2. pcb[admision.pcb].pc = 0
      BY <2>1 DEF Estreno, SinAdmitir
    <2>3. \A q \in Contenido(cola'["ready"]) : q \in Contenido(cola["ready"]) \/ q = admision.pcb
      BY <1>0, <2>1 DEF Contenido
    <2>4. pcb'[admision.pcb].pc = 0
      BY <2>1, <2>2
    <2> QED BY <1>1, <2>3, <2>4 DEF Veteranos
  <1>3. CASE ~AdmisionAcepta
    <2>1. cola'["ready"] = cola["ready"]
      <3>1. CASE Consola \/ PasaSegundo \/ InterrupcionPerdida \/ UNCHANGED vars
        BY <1>0, <3>1 DEF Consola, IniciarProceso, IniciarPlanificacion, DetenerPlanificacion, ReanudarPost,
           ReanudarFlag, ModificarGrado, PasaSegundo, InterrupcionPerdida, Agregar, vars
      <3>2. CASE Admision \/ SalidaToma
        BY <1>0, <1>3, <3>2 DEF Admision, AdmisionToma, AdmisionDetiene, AdmisionAvisa, SalidaToma, Agregar,
                                SinPrimero
      <3> QED BY <3>1, <3>2
    <2> QED BY <1>1, <2>1 DEF Veteranos
  <1> QED BY <1>2, <1>3

\* Nobody pauses the kernel without being counted.
LEMMA PausaIgual ==
  ASSUME TypeOK, consola.pausas = 0 => SinPausa, [Next]_vars, consola'.pausas = 0
  PROVE  SinPausa /\ SinPausa' /\ consola.pausas = 0
  <1>0. consola \in [paso : {"libre", "reanudando"}, pausas : Nat] /\ frenado \in BOOLEAN
    BY DEF TypeOK, TipoConsola
  <1>1. CASE DetenerPlanificacion
    BY <1>0, <1>1 DEF DetenerPlanificacion
  <1>2. CASE ReanudarPost \/ ReanudarFlag
    <2>1. consola.pausas = 0
      BY <1>0, <1>2 DEF ReanudarPost, ReanudarFlag
    <2> QED BY <1>2, <2>1 DEF ReanudarPost, ReanudarFlag, SinPausa
  <1>3. CASE ~(DetenerPlanificacion \/ ReanudarPost \/ ReanudarFlag)
    <2>1. consola' = consola /\ frenado' = frenado
      <3>1. CASE Consola \/ PasaSegundo \/ InterrupcionPerdida \/ Admision \/ Despacho \/ Cpu \/ UNCHANGED vars
        BY <1>3, <3>1 DEF Consola, IniciarProceso, IniciarPlanificacion, ModificarGrado, PasaSegundo,
          InterrupcionPerdida, Admision, AdmisionToma, AdmisionAcepta, AdmisionDetiene, AdmisionAvisa,
          Despacho, ExecDespierta, ExecContinua, ExecElige, ExecDescarta, Cpu, CpuEjecuta, ExecDesalojo,
          ExecPageFault, ExecSyscall, consolaVars, vars
      <3>2. CASE LlamadasArchivo
        BY <3>2, MarcoArchivo
      <3>5. CASE Llamadas /\ ~LlamadasArchivo
        BY <3>5 DEF Llamadas, LlamadasArchivo, Kexit, KfSeek, SigueEnCpu, Ksleep, KsleepSigue, KsleepAvisa,
            KfPide, KfBloquea, KwaitInexistente, KwaitMira, KwaitSigue, KwaitEncola, KwaitBloquea, KwaitLee,
            KwaitToma, KsignalInexistente, KsignalAjeno, KsignalLee, KsignalDevuelve, KsignalMira, KsignalPop,
            KsignalListo, consolaVars
      <3>3. CASE Salida
        BY <3>3 DEF Salida, Liberacion, SalidaToma, LiberarLee, LiberarSuma, LiberarMira, LiberarVacia,
          LiberarRellena, LiberarDesbloquea, LiberarResta, LiberarDespierta, LiberarAvisa, SalidaDestruye,
          SalidaAvisa, consolaVars
      <3>4. CASE Sleepers \/ PageFaults \/ OpFS
        BY <3>4 DEF Sleepers, SleeperDespierta, SleeperSigue, SleeperAvisa, PageFaults, PfArranca, PfPide,
          MemoriaCarga, PfRecibe, PfListo, PfAvisa, OpFS, FilesystemAtiende, FsAbre, FsRecibe, FsListo,
          FsAvisa, consolaVars
      <3> QED BY <3>1, <3>2, <3>3, <3>4, <3>5 DEF Next
    <2> QED BY <2>1 DEF SinPausa
  <1> QED BY <1>1, <1>2, <1>3

\* fs_interaction always finds its request under way or its posts made.
LEMMA PasoFsBloquea ==
  ASSUME TypeOK, Avisada, [Next]_vars
  PROVE  exec'.paso = "fs_bloquear" => PideFs' \/ Fichas'
  <1>0. /\ exec \in [paso : PasosExec, rec : 0 .. NRecursos, reg : Nat, hijo : PidNulo]
        /\ fs \in [pedidos : SUBSET Pid, respuestas : Seq(Pid), paso : {"sem", "listo", "avisar"},
                   pcb : PidNulo]
        /\ sem \in [Semaforos -> Nat]
    BY DEF TypeOK, TipoExec, TipoFs
  <1> SUFFICES ASSUME exec'.paso = "fs_bloquear" PROVE PideFs' \/ Fichas'
    OBVIOUS
  <1>1. CASE OpFS
    <2>1. CASE FsAbre
      <3>1. exec.paso = "abrir_fs" /\ exec' = exec
        BY <2>1 DEF FsAbre
      <3> QED BY <3>1
    <2>2. CASE ~FsAbre
      BY <1>1, <2>2, DespiertaFs
    <2> QED BY <2>1, <2>2
  <1>2. CASE KfPide
    <2>1. fs'.pedidos # {}
      BY <1>0, <1>2 DEF KfPide
    <2> QED BY <2>1 DEF PideFs
  <1>3. CASE (Despacho \/ Cpu \/ Llamadas) /\ ~KfPide
    <2>1. exec'.paso # "fs_bloquear"
      <3>1. CASE Despacho
        <4>1. CASE ExecDespierta
          BY <1>0, <4>1 DEF ExecDespierta, Esperando
        <4>2. CASE ExecContinua
          BY <1>0, <4>2 DEF ExecContinua, Esperando
        <4>3. CASE ExecElige
          BY <1>0, <4>3 DEF ExecElige, Esperando
        <4>4. CASE ExecDescarta
          BY <1>0, <4>4 DEF ExecDescarta, Esperando
        <4> QED BY <1>3, <3>1, <4>1, <4>2, <4>3, <4>4 DEF Despacho
      <3>2. CASE Cpu
        BY <1>0, <3>2 DEF Cpu, CpuEjecuta, ExecDesalojo, ExecPageFault, ExecSyscall, Esperando, Syscalls,
                          Operaciones
      <3>3. CASE Kexit \/ KfSeek \/ Ksleep \/ KsleepSigue \/ KsleepAvisa \/ KfBloquea \/ KwaitInexistente
        BY <1>0, <3>3 DEF Kexit, KfSeek, SigueEnCpu, Ksleep, KsleepSigue, KsleepAvisa, KfBloquea,
            KwaitInexistente, AlExit, Esperando
      <3>4. CASE KwaitMira \/ KwaitSigue \/ KwaitEncola \/ KwaitBloquea \/ KwaitLee \/ KwaitToma
        <4>1. CASE KwaitMira
          BY <1>0, <4>1 DEF KwaitMira
        <4>2. CASE KwaitSigue \/ KwaitEncola \/ KwaitLee
          BY <1>0, <4>2 DEF KwaitSigue, KwaitEncola, KwaitLee
        <4>3. CASE KwaitBloquea \/ KwaitToma
          BY <1>0, <4>3 DEF KwaitBloquea, KwaitToma, Esperando
        <4> QED BY <3>4, <4>1, <4>2, <4>3
      <3>5. CASE KsignalInexistente \/ KsignalAjeno \/ KsignalLee \/ KsignalDevuelve \/ KsignalMira
        <4>1. CASE KsignalInexistente \/ KsignalAjeno
          BY <1>0, <4>1 DEF KsignalInexistente, KsignalAjeno, AlExit, Esperando
        <4>2. CASE KsignalLee \/ KsignalDevuelve
          BY <1>0, <4>2 DEF KsignalLee, KsignalDevuelve
        <4>3. CASE KsignalMira
          BY <1>0, <4>3 DEF KsignalMira, Esperando
        <4> QED BY <3>5, <4>1, <4>2, <4>3
      <3>6. CASE KsignalPop \/ KsignalListo
        <4>1. CASE KsignalPop
          BY <1>0, <4>1 DEF KsignalPop
        <4>2. CASE KsignalListo
          BY <1>0, <4>2 DEF KsignalListo, Esperando
        <4> QED BY <3>6, <4>1, <4>2
      <3>7. CASE LlamadasArchivo
        <4>1. CASE KfOpenPide \/ KfCloseAbre
          BY <1>0, <4>1 DEF KfOpenPide, KfCloseAbre
        <4>2. CASE \/ KfOpenCrea \/ KfOpenComparte \/ KfOpenEspera \/ KfCloseFin
                   \/ KfCloseDeVarios \/ KfWriteLector
          BY <4>2 DEF KfOpenCrea, KfOpenComparte, KfOpenEspera, KfCloseFin, KfCloseDeVarios, KfWriteLector,
                      SigueEnCpu, AlExit, Esperando
        <4> QED BY <3>7, <4>1, <4>2 DEF LlamadasArchivo
      <3> QED BY <1>3, <3>1, <3>2, <3>3, <3>4, <3>5, <3>6, <3>7 DEF Llamadas, LlamadasArchivo
    <2> QED BY <2>1
  <1>4. CASE Consola \/ PasaSegundo \/ InterrupcionPerdida \/ Admision \/ SalidaToma \/ UNCHANGED vars
    <2>1. UNCHANGED <<exec, fs>> /\ (Fichas => Fichas')
      BY <1>4, DeudaIgual
    <2>2. PideFs \/ Fichas
      BY <2>1 DEF Avisada
    <2> QED BY <2>1, <2>2 DEF PideFs
  <1>5. CASE Liberacion \/ SalidaDestruye \/ SalidaAvisa \/ Sleepers \/ PageFaults
    <2>1. UNCHANGED <<exec, fs>>
      <3>1. CASE Liberacion \/ SalidaDestruye \/ SalidaAvisa
        BY <3>1 DEF Liberacion, LiberarLee, LiberarSuma, LiberarMira, LiberarVacia, LiberarRellena,
          LiberarDesbloquea, LiberarResta, LiberarDespierta, LiberarAvisa, SalidaDestruye, SalidaAvisa,
          hilosVars
      <3>2. CASE Sleepers \/ PageFaults
        BY <3>2 DEF Sleepers, SleeperDespierta, SleeperSigue, SleeperAvisa, PageFaults, PfArranca, PfPide,
          MemoriaCarga, PfRecibe, PfListo, PfAvisa
      <3> QED BY <1>5, <3>1, <3>2
    <2>2. Fichas => Fichas'
      <3>1. CASE SleeperSigue
        BY <1>0, <3>1 DEF SleeperSigue, Fichas, Semaforos
      <3>2. CASE Liberacion \/ SalidaDestruye \/ SalidaAvisa
        <4>1. UNCHANGED sem \/ \E S : sem' = Post(S)
          BY <3>2 DEF Liberacion, LiberarLee, LiberarSuma, LiberarMira, LiberarVacia, LiberarRellena,
            LiberarDesbloquea, LiberarResta, LiberarDespierta, LiberarAvisa, SalidaDestruye, SalidaAvisa,
            PostSiHayReady
        <4> QED BY <4>1, PostFichas DEF Fichas
      <3>3. CASE (Sleepers \/ PageFaults) /\ ~SleeperSigue
        <4>1. UNCHANGED sem \/ \E S : sem' = Post(S)
          BY <3>3 DEF Sleepers, SleeperDespierta, SleeperAvisa, PageFaults, PfArranca, PfPide, MemoriaCarga,
            PfRecibe, PfListo, PfAvisa
        <4> QED BY <4>1, PostFichas DEF Fichas
      <3> QED BY <1>5, <3>1, <3>2, <3>3
    <2>3. PideFs \/ Fichas
      BY <2>1 DEF Avisada
    <2> QED BY <2>1, <2>2, <2>3 DEF PideFs
  <1> QED BY <1>1, <1>2, <1>3, <1>4, <1>5 DEF Next, Salida

\* Every step keeps the debt.
LEMMA PasoAvisada ==
  ASSUME TypeOK, PunterosValidos, Estreno, Avisada, [Next]_vars
  PROVE  Avisada'
  <1>1. ASSUME consola'.pausas = 0 PROVE SinPausa /\ SinPausa' /\ consola.pausas = 0
    BY <1>1, PausaIgual DEF Avisada
  <1>2. exec'.paso = "fs_bloquear" => PideFs' \/ Fichas'
    BY PasoFsBloquea
  <1>3. ASSUME consola'.pausas = 0, Veteranos' # {} PROVE Despierta'
    <2>0. cola'["ready"] # <<>>
      BY <1>3 DEF Veteranos, Contenido
    <2>1. CASE Despacho \/ Cpu \/ Llamadas
      BY <1>1, <1>3, <2>0, <2>1, DespiertaExec
    <2>2. CASE Liberacion \/ SalidaDestruye \/ SalidaAvisa
      BY <1>1, <1>3, <2>0, <2>2, DespiertaSalida
    <2>3. CASE Sleepers \/ PageFaults
      BY <1>1, <1>3, <2>3, DespiertaEspera
    <2>4. CASE OpFS
      <3>1. CASE FsAbre
        BY <3>1 DEF FsAbre, Despierta
      <3>2. CASE ~FsAbre
        BY <2>4, <3>2, DespiertaFs DEF Despierta, Pendiente
      <3> QED BY <3>1, <3>2
    <2>5. CASE /\ Consola \/ PasaSegundo \/ InterrupcionPerdida \/ Admision \/ SalidaToma \/ UNCHANGED vars
               /\ ~CpuEjecuta /\ ~ExecSyscall
      <3>1. \A q \in Pid : pcb'[q].pc = pcb[q].pc
        BY <2>5, PcSigue
      <3>2. Veteranos # {}
        BY <1>3, <2>5, <3>1, VeteranosIgual
      <3>3. Despierta
        BY <1>1, <1>3, <3>2 DEF Avisada
      <3> QED BY <2>5, <3>3, DeudaIgual
    <2> QED BY <2>1, <2>2, <2>3, <2>4, <2>5 DEF Next, Salida, Cpu
  <1> QED BY <1>1, <1>2, <1>3 DEF Avisada

LEMMA InicioAvisada ==
  ASSUME Init
  PROVE  Estreno /\ Avisada
  <1>1. Estreno
    BY DEF Init, Estreno, SinCrear
  <1>2. cola["ready"] = <<>>
    BY DEF Init, Listas
  <1>3. Veteranos = {}
    BY <1>2 DEF Veteranos, Contenido
  <1> QED BY <1>1, <1>3 DEF Init, Avisada, SinPausa, Esperando

\* When nothing moves, nobody owes a post, so no veteran waits.
LEMMA AvisadaBasta ==
  ASSUME TypeOK, ColasConFicha, Avisada
  PROVE  VaradosSonNuevos
  <1> SUFFICES ASSUME consola.pausas = 0, Quieto, NEW i \in DOMAIN cola["ready"]
               PROVE  pcb[cola["ready"][i]].pc = 0
    BY DEF VaradosSonNuevos
  <1>1. /\ cola["ready"] \in Seq(Pid) /\ cola["exit"] \in Seq(Pid)
        /\ pcb \in [Pid -> Pcb] /\ sem \in [Semaforos -> Nat]
    BY DEF TypeOK, TipoListas, TipoProcesos, Listas
  <1>2. cola["exit"] = <<>>
    <2>1. sem["exit"] = 0
      BY DEF Quieto
    <2>2. Len(cola["exit"]) = 0
      BY <1>1, <2>1, LenProperties DEF ColasConFicha
    <2> QED BY <1>1, <2>2, EmptySeq
  <1>3. ~Pendiente
    BY <1>2 DEF Quieto, Pendiente, PideFs
  <1>4. ~Fichas /\ exec.paso = "sem"
    BY DEF Quieto, Fichas
  <1>5. Veteranos = {}
    BY <1>3, <1>4 DEF Avisada, Despierta
  <1>6. cola["ready"][i] \in Contenido(cola["ready"])
    BY DEF Contenido
  <1>7. cola["ready"][i] \in Pid
    BY <1>1
  <1>8. pcb[cola["ready"][i]].pc \in Nat
    BY <1>1, <1>7 DEF Pcb
  <1> QED BY <1>5, <1>6, <1>8 DEF Veteranos

\* While nobody pauses the kernel, who waits in lista_ready after its turn finds exec_pcb
\* awake, both its semaphores up, or a thread that still has to post them.
THEOREM AvisadaSiempre == Spec => [](Estreno /\ Avisada)
  <1>1. Init => Estreno /\ Avisada
    BY InicioAvisada
  <1>2. TypeOK /\ PunterosValidos /\ Duenez /\ Estreno /\ Avisada /\ [Next]_vars => (Estreno /\ Avisada)'
    BY PasoEstreno, PasoAvisada
  <1> QED BY <1>1, <1>2, TipoYPunteros, DuenosSiempre, PTL DEF Spec

\* Whoever executed once is never stranded in lista_ready with exec_pcb asleep.
THEOREM NadieVarado == Spec => []VaradosSonNuevos
  <1>1. TypeOK /\ ColasConFicha /\ Estreno /\ Avisada => VaradosSonNuevos
    BY AvisadaBasta
  <1> QED BY <1>1, TipoCorrecto, FichasCorrectas, AvisadaSiempre, PTL
=============================================================================

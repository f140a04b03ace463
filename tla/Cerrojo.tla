------------------------------- MODULE Cerrojo -------------------------------
(***************************************************************************)
(* What the table of open files is for: a lock of one writer or many       *)
(* readers over a file, with a queue of those who wait.  The promise holds *)
(* while `vale' is TRUE.                                                   *)
(***************************************************************************)
EXTENDS SequencesExt, Cola

CONSTANT Procesos

VARIABLES
  tiene,   \* what each process holds the file for: "no", "R" or "W"
  cola,    \* who waits, each with what it asked for
  vale     \* whether the use has kept to the contract

cerrojoVars == <<tiene, cola, vale>>

Duenos == {p \in Procesos : tiene[p] # "no"}
Esperan == {c.proceso : c \in ToSet(cola)}

Init == tiene = [p \in Procesos |-> "no"] /\ cola = <<>> /\ vale = TRUE

\* Nobody has it: whoever asks gets it.
Tomar(p, modo) ==
  /\ Duenos = {}
  /\ tiene' = [tiene EXCEPT ![p] = modo]
  /\ UNCHANGED cola

\* Only readers have it: another reader joins them.
Compartir(p) ==
  /\ p \notin Duenos /\ Duenos # {} /\ \A q \in Duenos : tiene[q] = "R"
  /\ tiene' = [tiene EXCEPT ![p] = "R"]
  /\ UNCHANGED cola

\* Somebody has it, and one of the two wants to write.
Esperar(p, modo) ==
  /\ p \notin Duenos \cup Esperan
  /\ modo = "W" \/ \E q \in Duenos : tiene[q] = "W"
  /\ cola' = Append(cola, [proceso |-> p, modo |-> modo])
  /\ UNCHANGED tiene

\* One of several readers leaves.
Salir(p) ==
  /\ p \in Duenos /\ Duenos # {p}
  /\ tiene' = [tiene EXCEPT ![p] = "no"]
  /\ UNCHANGED cola

\* The last one leaves: the first who waits gets it, a reader together with the
\* readers behind it.
Entregar(p) ==
  /\ Duenos = {p}
  /\ IF cola = <<>> THEN tiene' = [tiene EXCEPT ![p] = "no"] /\ UNCHANGED cola
     ELSE LET entran(c) == c = Head(cola) \/ (Head(cola).modo = "R" /\ c.modo = "R")
              nuevos    == {c \in ToSet(cola) : entran(c)}
          IN /\ tiene' = [q \in Procesos |->
                  IF q = p THEN "no"
                  ELSE IF \E c \in nuevos : c.proceso = q THEN Head(cola).modo ELSE tiene[q]]
             /\ cola' = IF Head(cola).modo = "R" THEN Los(cola, "W") ELSE Tail(cola)

Cumplir ==
  \E p \in Procesos :
    \/ \E modo \in {"R", "W"} : Tomar(p, modo) \/ Esperar(p, modo)
    \/ Compartir(p) \/ Salir(p) \/ Entregar(p)

Next == (vale /\ vale' /\ Cumplir) \/ ~vale'

Spec == Init /\ [][Next]_cerrojoVars
=============================================================================

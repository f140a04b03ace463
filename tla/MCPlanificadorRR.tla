-------------------------- MODULE MCPlanificadorRR --------------------------
(* Three processes under RR: the quantum may end between any two             *)
(* instructions; the last process has a pid of three digits.                 *)
EXTENDS Planificador

I(op, rec) == [op |-> op, rec |-> rec]
Exit == I("EXIT", 0)

\* The shapes of memoria/cfg/PLANI_*.
MCProgramas == { <<I("SET", 0), Exit>>, <<I("WAIT", 1), I("F_SEEK", 0), Exit>> }
MCInstancias == [r \in Recursos |-> 1]
=============================================================================

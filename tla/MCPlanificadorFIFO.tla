------------------------- MODULE MCPlanificadorFIFO -------------------------
(* Three processes, one resource of one instance, FIFO, a degree of two. *)
EXTENDS Planificador

I(op, rec) == [op |-> op, rec |-> rec]
Exit == I("EXIT", 0)

\* The shapes of memoria/cfg/DEADLOCK_*, ERROR_1, ERROR_2 and PLANI_*.
MCProgramas ==
  { <<I("WAIT", 1), I("SLEEP", 0), I("SIGNAL", 1), Exit>>,
    <<I("WAIT", 1), Exit>>,
    <<I("WAIT", 0), Exit>>,
    <<I("SIGNAL", 1), Exit>>,
    <<I("SIGNAL", 0), Exit>>,
    <<I("F_OPEN", 0), I("F_CLOSE", 0), Exit>> }
MCInstancias == [r \in Recursos |-> 1]
=============================================================================

------------------------ MODULE MCPlanificadorPausa ------------------------
(* Two processes under FIFO and a console that pauses and resumes twice.     *)
EXTENDS Planificador

I(op, rec) == [op |-> op, rec |-> rec]
Exit == I("EXIT", 0)

\* The shapes of memoria/cfg/DEADLOCK_*.
MCProgramas ==
  { <<I("WAIT", 1), I("SLEEP", 0), I("SIGNAL", 1), Exit>>,
    <<I("WAIT", 1), Exit>>,
    <<I("F_OPEN", 0), I("F_CLOSE", 0), Exit>> }
MCInstancias == [r \in Recursos |-> 1]
=============================================================================

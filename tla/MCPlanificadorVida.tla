------------------------- MODULE MCPlanificadorVida -------------------------
(* Liveness under FIFO: sleep, page faults, the filesystem and a resource.   *)
EXTENDS Planificador

I(op, rec) == [op |-> op, rec |-> rec]
Exit == I("EXIT", 0)

MCProgramas ==
  { <<I("WAIT", 1), I("MOV", 0), I("SLEEP", 0), I("F_IO", 0), Exit>> }
MCInstancias == [r \in Recursos |-> 1]
=============================================================================

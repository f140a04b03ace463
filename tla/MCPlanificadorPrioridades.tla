---------------------- MODULE MCPlanificadorPrioridades ----------------------
(* Two processes under PRIORIDADES: interrupts, page faults, the filesystem, *)
(* and a degree of one that the console raises to two.                      *)
EXTENDS Planificador

I(op, rec) == [op |-> op, rec |-> rec]
Exit == I("EXIT", 0)

\* The shapes of memoria/cfg/MEMORIA_*, FS_* and INTEGRAL_*.
MCProgramas ==
  { <<I("F_OPEN", 0), I("MOV", 0), I("F_IO", 0), I("F_CLOSE", 0), Exit>>,
    <<I("WAIT", 1), I("F_SEEK", 0), Exit>> }
MCInstancias == [r \in Recursos |-> 1]
=============================================================================

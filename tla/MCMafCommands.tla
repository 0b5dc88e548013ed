-------------------------- MODULE MCMafCommands --------------------------
(* MafCommands for TLC, with the executions counted: a create, and the same *)
(* key for another operation with another body.                             *)
EXTENDS MafExecutions

CONSTANTS k1, c1

MCRequests == {[key |-> k1, op |-> "create", call |-> c1, body |-> 0],
               [key |-> k1, op |-> "hangup", call |-> c1, body |-> 1]}

=============================================================================

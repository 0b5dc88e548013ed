---------------------------- MODULE MafExecutions ----------------------------
(***************************************************************************)
(* How often the workers of the command queue (MafCommands) execute a      *)
(* command: at least once for every claim, since a claim that timed out is *)
(* queued again and a worker that lost the claim executes the command too. *)
(***************************************************************************)
EXTENDS MafCommands

VARIABLE execs   \* how often each worker went on to execute each command

execVars == <<vars, execs>>

ExecInit == Init /\ execs = [w \in Workers |-> [k \in Keys |-> 0]]

\* in this step, w goes on from the claim of k to maf_worker_execute
Begins(w, k) == wk[w].pc = "loop" /\ wk'[w].pc = "exec" /\ wk'[w].key = k

Counted ==
    execs' = [w \in Workers |-> [k \in Keys |->
                 IF Begins(w, k) THEN execs[w][k] + 1 ELSE execs[w][k]]]

ExecNext == Next /\ Counted

ExecSpec == ExecInit /\ [][ExecNext]_execVars

ExecFairSpec == ExecSpec /\ Fairness

---------------------------------------------------------------------------
(* Properties *)

\* A worker executes a command at most once for every claim of it, whoever's
\* the claim is, and there are at most MaxAttempts of these: the workers that
\* lost the claim but go on, late polls, restarts and repeated recoveries never
\* make one worker originate or tear down the call of a command more often than
\* SIP_MAF_COMMAND_MAX_ATTEMPTS (maf_worker_claim, maf_worker_poll,
\* maf_worker_recover_stale_commands).
ExecutionsBounded ==
    \A w \in Workers, k \in Keys :
        /\ execs[w][k] <= cmd[k].attempts
        /\ cmd[k].attempts <= MaxAttempts
=============================================================================

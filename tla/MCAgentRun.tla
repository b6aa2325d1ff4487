---------------------------- MODULE MCAgentRun ----------------------------
(* Small instances of AgentRun: a playbook with a tool that needs          *)
(* confirmation and completes the required step, a forbidden tool and a    *)
(* plain one, in batches whose first call is harmless.                     *)
EXTENDS AgentRun, TLC

CONSTANTS look, pay, wipe, step

MCStepTools == step :> {pay}
MCBatches == {<<pay>>, <<look, wipe>>, <<look, pay>>}
OneBatch == {<<look, pay>>}
Quiet == [k \in Kinds |-> 0]
OneOfEach == [k \in Kinds |-> 1]
Symmetric == Permutations(Reqs)
=============================================================================

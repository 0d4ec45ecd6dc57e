-------------------------------- MODULE MCRuns --------------------------------
(***************************************************************************)
(* The two ways in which NetStacks works on devices unattended, side by    *)
(* side: an AI task and the execution of a method of procedure.  They      *)
(* share no state, so that a behaviour of this module is one of a single   *)
(* component; the other keeps its initial state.                           *)
(***************************************************************************)
EXTENDS AgentTasks, MopRun

VARIABLE part     \* whose behaviour this is

partVars == <<part, vars, runVars>>

PartsInit == part \in {"task", "mop"} /\ Init /\ RunInit

\* To keep the instance small: while a second execution exists no step or phase
\* has been run, and the tab has not been reopened on an execution.
SecondOnlyStarts == runExecs'[2] = "none" \/ (runOps' = 0 /\ runLoad'.exec = 0)

PartsNext ==
  \/ part = "task" /\ Next /\ UNCHANGED <<part, runVars>>
  \/ part = "mop" /\ RunNext /\ SecondOnlyStarts /\ UNCHANGED <<part, vars>>

\* A component that takes no step has no fair step enabled in its initial state.
PartsSpec == PartsInit /\ [][PartsNext]_partVars /\ Fairness /\ RunFairness

\* Type invariant: that of both components.
TypesOK == TypeOK /\ RunTypeOK
===============================================================================

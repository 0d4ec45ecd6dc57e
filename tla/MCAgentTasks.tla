---------------------------- MODULE MCAgentTasks ----------------------------
(* Model-checking instances of AgentTasks. *)
EXTENDS AgentTasks

\* Task ids are interchangeable: the tasks are created one after the other, the
\* one that CHOOSE names first.
CreatedInOrder ==
  LET first == CHOOSE t \in Tasks : TRUE IN
  row'[first] = "none" => \A t \in Tasks : row'[t] = "none"

QueueNext == Next /\ CreatedInOrder
QueueSpec == Init /\ [][QueueNext]_vars /\ Fairness
=============================================================================

------------------------------ MODULE TaskGate ------------------------------
(***************************************************************************)
(* What the agent task executor promises about admission, without its      *)
(* database, its registry or its ReAct loop: tasks wait in one line, enter *)
(* in the order in which they joined it, and never more than Capacity of   *)
(* them are inside.  A task that entered never enters again.  A restart of *)
(* the agent forgets the line and everybody inside.                        *)
(***************************************************************************)
EXTENDS Naturals, Sequences, FiniteSets, SequencesExt

CONSTANTS
  Tasks,      \* task ids
  Capacity    \* how many tasks may be inside at a time

VARIABLES
  line,       \* the tasks waiting, first come first
  inside,     \* the tasks being executed
  past        \* every task that ever entered

gateVars == <<line, inside, past>>

GateInit ==
  /\ line = <<>>
  /\ inside = {}
  /\ past = {}

\* A new task joins the end of the line.
Join(t) ==
  /\ t \notin past
  /\ line' = Append(line, t)
  /\ UNCHANGED <<inside, past>>

\* The first in line enters when there is room.
Enter(t) ==
  /\ line # <<>>
  /\ t = Head(line)
  /\ t \notin past
  /\ Cardinality(inside) < Capacity
  /\ line' = Tail(line)
  /\ inside' = inside \cup {t}
  /\ past' = past \cup {t}

\* A waiting task gives up its place.
Abandon(t) ==
  /\ \E i \in 1..Len(line) : line[i] = t /\ line' = RemoveAt(line, i)
  /\ UNCHANGED <<inside, past>>

Leave(t) ==
  /\ t \in inside
  /\ inside' = inside \ {t}
  /\ UNCHANGED <<line, past>>

Restart ==
  /\ line' = <<>>
  /\ inside' = {}
  /\ UNCHANGED past

GateNext ==
  \/ \E t \in Tasks : Join(t) \/ Enter(t) \/ Abandon(t) \/ Leave(t)
  \/ Restart

GateSpec == GateInit /\ [][GateNext]_gateVars
=============================================================================

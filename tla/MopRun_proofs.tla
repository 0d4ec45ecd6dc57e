------------------------------ MODULE MopRun_proofs ------------------------------
(***************************************************************************)
(* The execution of a procedure for any number of devices, phases,         *)
(* executions and calls in flight.                                         *)
(***************************************************************************)
EXTENDS MCRuns, AgentTasks_proofs, SequenceTheorems, TLAPS

USE DEF runVars

(***************************************************************************)
(* Types.                                                                  *)
(***************************************************************************)
RowRec == [exec : 1..MaxExecs, dev : Devices, steps : Steps]
RowMaps == UNION {[S -> Steps] : S \in SUBSET Nat}
FlowPlaces == {"idle", "create", "device", "shown", "steps", "start", "starting"}
CallRec == [op : Ops, exec : 1..MaxExecs, row : Nat, phase : Phases \cup {"none"},
            pc : {"sent", "replied", "busy"} \cup StepStatus]

TabOK ==
  /\ runMode \in Modes /\ runRef \in 0..MaxExecs
  /\ runLoad \in [pc : {"idle", "execution", "rows"}, exec : 0..MaxExecs, status : ExecStatus]
  /\ runLoad.pc # "idle" => runLoad.exec # 0
  /\ runOps \in 0..MaxStepOps /\ runMixed \in BOOLEAN
ExecsOK == runExecs \in [1..MaxExecs -> ExecStatus]
TableOK == runRows \in Seq(RowRec) /\ Len(runRows) <= MaxRows
ShownOK ==
  /\ runShown \in [exec : 0..MaxExecs, status : ExecStatus, rows : RowMaps]
  /\ DOMAIN runShown.rows \subseteq RowIds
FlowOK ==
  /\ runFlow \in [pc : FlowPlaces, left : SUBSET Devices, row : Nat]
  /\ runFlow.row \in {0} \cup RowIds
  /\ runFlow.pc \in {"shown", "steps"} => runFlow.row \in RowIds
PhaseOK ==
  /\ runPhase \in [pc : {"idle", "run", "show"}, exec : 0..MaxExecs,
                   phase : Phases \cup {"none"}, left : SUBSET Nat, got : RowMaps]
  /\ runPhase.left \subseteq RowIds /\ DOMAIN runPhase.got \subseteq RowIds
  /\ runPhase.pc # "idle" => runPhase.exec # 0
CallOK(c) ==
  /\ c \in CallRec /\ c.row \in {0} \cup RowIds
  /\ c.row = 0 => c.op \notin StepOps /\ c.pc \in {"sent", "replied"}
  /\ c.row # 0 => c.op \in StepOps /\ c.pc # "replied" /\ c.phase \in Phases
MopCallsOK == \A c \in runCalls : CallOK(c)

MopTypes == TabOK /\ ExecsOK /\ TableOK /\ ShownOK /\ FlowOK /\ PhaseOK /\ MopCallsOK

LEMMA TypesSuffice == MopTypes => RunTypeOK
<1> SUFFICES ASSUME MopTypes PROVE RunTypeOK
  OBVIOUS
<1>1. \A r \in DOMAIN runShown.rows : runShown.rows[r] \in Steps
  <2>1. PICK S \in SUBSET Nat : runShown.rows \in [S -> Steps]
    BY DEF MopTypes, ShownOK, RowMaps
  <2> QED
    BY <2>1
<1>2. \A c \in runCalls : c.exec \in 1..MaxExecs /\ c.row \in {0} \cup RowIds
  BY DEF MopTypes, MopCallsOK, CallOK, CallRec
<1> QED
  BY <1>1, <1>2
     DEF MopTypes, RunTypeOK, TabOK, ExecsOK, TableOK, ShownOK, FlowOK, PhaseOK, RowRec

LEMMA EmptySteps ==
  /\ NoSteps \in Steps /\ Fresh \in Steps /\ DOMAIN Fresh = Phases
  /\ Blank.rows \in RowMaps /\ DOMAIN Blank.rows = {}
<1>1. Blank.rows \in [{} -> Steps]
  BY DEF Blank
<1>2. Blank.rows \in RowMaps
  BY <1>1 DEF RowMaps
<1> QED
  BY <1>1, <1>2 DEF NoSteps, Fresh, Steps, StepStatus

\* Writing the steps of a row.
LEMMA StepsWritten ==
  ASSUME TableOK, NEW r \in RowIds, NEW steps \in Steps,
         runRows' = [runRows EXCEPT ![r].steps = steps]
  PROVE  /\ TableOK' /\ RowIds' = RowIds
         /\ \A q \in RowIds \ {r} : runRows'[q] = runRows[q]
         /\ runRows'[r].steps = steps /\ runRows'[r].exec = runRows[r].exec
         /\ runRows'[r].dev = runRows[r].dev
<1> DEFINE new == [runRows[r] EXCEPT !.steps = steps]
<1>1. runRows[r] \in RowRec
  BY DEF TableOK, RowIds
<1>2. /\ new \in RowRec /\ new.steps = steps /\ new.exec = runRows[r].exec
      /\ new.dev = runRows[r].dev
  BY <1>1 DEF RowRec
<1>3. runRows' = [runRows EXCEPT ![r] = new]
  OBVIOUS
<1> HIDE DEF new
<1>4. runRows' \in Seq(RowRec) /\ Len(runRows') = Len(runRows)
  BY <1>2, <1>3 DEF TableOK, RowIds
<1>5. RowIds' = RowIds /\ runRows'[r] = new /\ \A q \in RowIds \ {r} : runRows'[q] = runRows[q]
  BY <1>3 DEF RowIds, TableOK
<1> QED
  BY <1>2, <1>4, <1>5 DEF TableOK

\* Writing the status of one step of a row.
LEMMA StepWritten ==
  ASSUME TableOK, NEW r \in RowIds, NEW p, NEW s \in StepStatus,
         runRows' = [runRows EXCEPT ![r].steps[p] = s]
  PROVE  /\ TableOK' /\ RowIds' = RowIds
         /\ \A q \in RowIds \ {r} : runRows'[q] = runRows[q]
         /\ DOMAIN runRows'[r].steps = DOMAIN runRows[r].steps
         /\ runRows'[r].exec = runRows[r].exec /\ runRows'[r].dev = runRows[r].dev
<1> DEFINE steps == [runRows[r].steps EXCEPT ![p] = s]
<1>0. runRows[r] \in RowRec
  BY DEF TableOK, RowIds
<1>1. runRows[r].steps \in Steps
  BY <1>0 DEF RowRec
<1>2. steps \in Steps /\ DOMAIN steps = DOMAIN runRows[r].steps
  BY <1>1 DEF Steps
<1>3. runRows' = [runRows EXCEPT ![r].steps = steps]
  OBVIOUS
<1> HIDE DEF steps
<1> QED
  BY <1>2, <1>3, StepsWritten

LEMMA SnapshotType ==
  ASSUME TableOK, NEW e
  PROVE  /\ Snapshot(e) \in RowMaps /\ DOMAIN Snapshot(e) = RowsOf(e) /\ RowsOf(e) \subseteq RowIds
<1>1. RowsOf(e) \subseteq RowIds /\ RowIds \subseteq Nat
  BY DEF RowsOf, RowIds, TableOK
<1>2. \A r \in RowsOf(e) : runRows[r] \in RowRec
  BY <1>1 DEF TableOK, RowIds
<1>20. \A r \in RowsOf(e) : runRows[r].steps \in Steps
  BY <1>2 DEF RowRec
<1>3. Snapshot(e) \in [RowsOf(e) -> Steps]
  BY <1>20 DEF Snapshot
<1> QED
  BY <1>1, <1>3 DEF RowMaps

\* The calls as they are made.
LEMMA ControlCallOK ==
  ASSUME NEW op \in Ops \ StepOps, NEW e \in 1..MaxExecs, NEW c,
         c = RunCall(op, e, 0, "none")
  PROVE  CallOK(c) /\ CallOK(c)'
<1>1. 0 \in Nat /\ "none" \in Phases \cup {"none"}
  OBVIOUS
<1> QED
  BY <1>1 DEF RunCall, CallOK, CallRec

LEMMA StepCallOK ==
  ASSUME NEW op \in StepOps, NEW e \in 1..MaxExecs, NEW p \in Phases, NEW c,
         NEW r \in Nat \ {0}, r \in RowIds, r \in RowIds', c = RunCall(op, e, r, p)
  PROVE  CallOK(c) /\ CallOK(c)'
BY DEF RunCall, CallOK, CallRec, Ops

\* With a row shown, or a step of one.
LEMMA RowsShown ==
  ASSUME ShownOK, NEW rows, NEW r \in Nat, NEW steps \in Steps,
         rows = [q \in DOMAIN runShown.rows \cup {r} |-> IF q = r THEN steps ELSE runShown.rows[q]]
  PROVE  rows \in RowMaps /\ DOMAIN rows = DOMAIN runShown.rows \cup {r}
<1>1. PICK S \in SUBSET Nat : runShown.rows \in [S -> Steps]
  BY DEF ShownOK, RowMaps
<1>2. rows \in [S \cup {r} -> Steps]
  BY <1>1
<1> QED
  BY <1>1, <1>2 DEF RowMaps

ShownWith(r, p, s) ==
  [q \in DOMAIN runShown.rows |->
     IF q = r /\ p \in DOMAIN runShown.rows[q]
     THEN [runShown.rows[q] EXCEPT ![p] = s] ELSE runShown.rows[q]]

LEMMA StepShown ==
  ASSUME ShownOK, NEW r, NEW p, NEW s \in StepStatus
  PROVE  ShownWith(r, p, s) \in RowMaps /\ DOMAIN ShownWith(r, p, s) = DOMAIN runShown.rows
<1>1. PICK S \in SUBSET Nat : runShown.rows \in [S -> Steps]
  BY DEF ShownOK, RowMaps
<1>2. \A q \in S : runShown.rows[q] \in Steps /\ [runShown.rows[q] EXCEPT ![p] = s] \in Steps
  BY <1>1 DEF Steps
<1>3. ShownWith(r, p, s) \in [S -> Steps]
  BY <1>1, <1>2 DEF ShownWith
<1> QED
  BY <1>1, <1>3 DEF RowMaps, ShownWith

LEMMA MopInitType == RunInit => MopTypes
<1> SUFFICES ASSUME RunInit PROVE MopTypes
  OBVIOUS
<1>1. 0 \in 0..MaxExecs /\ 0 \in 0..MaxStepOps /\ MaxRows \in Nat
  BY RunAssumption
<1>2. TabOK /\ ExecsOK
  BY <1>1 DEF RunInit, TabOK, ExecsOK, Modes, NoLoad, ExecStatus
<1>3. TableOK
  BY <1>1 DEF RunInit, TableOK
<1>4. ShownOK
  BY <1>1, EmptySteps DEF RunInit, ShownOK, Blank, ExecStatus
<1>5. FlowOK
  BY DEF RunInit, FlowOK, NoFlow, FlowPlaces
<1>6. PhaseOK
  BY <1>1, EmptySteps DEF RunInit, PhaseOK, NoPhase
<1>7. MopCallsOK
  BY DEF RunInit, MopCallsOK
<1> QED
  BY <1>2, <1>3, <1>4, <1>5, <1>6, <1>7 DEF MopTypes

(***************************************************************************)
(* Types are kept, and so are the rows: one that is there stays there, of   *)
(* its execution and device, with the steps it has; the same of executions. *)
(* Only closing the tab on another plan ends them all.                      *)
(***************************************************************************)
RowsKept ==
  /\ RowIds \subseteq RowIds'
  /\ \A r \in RowIds : /\ runRows'[r].exec = runRows[r].exec /\ runRows'[r].dev = runRows[r].dev
                       /\ DOMAIN runRows[r].steps = Phases => DOMAIN runRows'[r].steps = Phases

\* The table and what points into it, when no row goes.
LEMMA PointersStay ==
  ASSUME MopTypes, RowIds \subseteq RowIds'
  PROVE  /\ UNCHANGED runShown => ShownOK'
         /\ UNCHANGED runFlow => FlowOK'
         /\ UNCHANGED runPhase => PhaseOK'
         /\ runCalls' \subseteq runCalls => MopCallsOK'
         /\ \A c \in runCalls : CallOK(c)'
<1>1. UNCHANGED runShown => ShownOK'
  BY DEF MopTypes, ShownOK
<1>2. UNCHANGED runFlow => FlowOK'
  BY DEF MopTypes, FlowOK
<1>3. UNCHANGED runPhase => PhaseOK'
  BY DEF MopTypes, PhaseOK
<1>4. \A c \in runCalls : CallOK(c)'
  BY DEF MopTypes, MopCallsOK, CallOK
<1>5. runCalls' \subseteq runCalls => MopCallsOK'
  BY <1>4 DEF MopCallsOK
<1> QED
  BY <1>1, <1>2, <1>3, <1>4, <1>5

LEMMA NoRowChanges ==
  ASSUME TableOK, UNCHANGED runRows
  PROVE  TableOK' /\ RowIds' = RowIds /\ RowsKept
BY DEF TableOK, RowIds, RowsKept

\* A row for a device.
LEMMA RowAdded ==
  ASSUME TableOK, Len(runRows) < MaxRows, NEW new \in RowRec, runRows' = Append(runRows, new)
  PROVE  /\ TableOK' /\ RowsKept /\ Len(runRows') = Len(runRows) + 1
         /\ Len(runRows') \in RowIds' /\ Len(runRows') \notin RowIds
         /\ runRows'[Len(runRows')] = new /\ RowIds' = RowIds \cup {Len(runRows')}
         /\ \A r \in RowIds : runRows'[r] = runRows[r]
<1>1. MaxRows \in Nat /\ Len(runRows) \in Nat
  BY RunAssumption DEF TableOK
<1>2. runRows' \in Seq(RowRec) /\ Len(runRows') = Len(runRows) + 1
  BY DEF TableOK
<1>3. runRows'[Len(runRows) + 1] = new /\ \A r \in 1..Len(runRows) : runRows'[r] = runRows[r]
  BY DEF TableOK
<1>4. RowIds = 1..Len(runRows) /\ RowIds' = 1..(Len(runRows) + 1)
  BY <1>2 DEF RowIds, TableOK
<1> QED
  BY <1>1, <1>2, <1>3, <1>4 DEF TableOK, RowsKept

LEMMA StepsRecorded ==
  ASSUME TableOK, NEW r \in RowIds, runRows' = [runRows EXCEPT ![r].steps = Fresh]
  PROVE  /\ TableOK' /\ RowIds' = RowIds /\ RowsKept
         /\ DOMAIN runRows'[r].steps = Phases
<1>1. /\ TableOK' /\ RowIds' = RowIds
      /\ \A q \in RowIds \ {r} : runRows'[q] = runRows[q]
      /\ runRows'[r].steps = Fresh /\ runRows'[r].exec = runRows[r].exec
      /\ runRows'[r].dev = runRows[r].dev
  BY EmptySteps, StepsWritten
<1> QED
  BY <1>1, EmptySteps DEF RowsKept

LEMMA StatusRecorded ==
  ASSUME TableOK, NEW r \in RowIds, NEW p, NEW s \in StepStatus,
         runRows' = [runRows EXCEPT ![r].steps[p] = s]
  PROVE  TableOK' /\ RowIds' = RowIds /\ RowsKept
BY StepWritten DEF RowsKept

\* What the steps but closing the tab keep.
Kept == MopTypes' /\ RowsKept

\* The flow: its calls and their replies.
LEMMA FlowKeeps == MopTypes /\ (StartFlow \/ FlowStep) => Kept
<1> SUFFICES ASSUME MopTypes, StartFlow \/ FlowStep PROVE Kept
  OBVIOUS
<1>0. TabOK /\ ExecsOK /\ TableOK /\ ShownOK /\ FlowOK /\ PhaseOK /\ MopCallsOK
  BY DEF MopTypes
<1>1. CASE StartFlow
  <2>1. TabOK' /\ ExecsOK' /\ FlowOK'
    BY <1>0, <1>1 DEF StartFlow, TabOK, ExecsOK, FlowOK, NoFlow, FlowPlaces, RowIds
  <2>2. TableOK' /\ RowsKept /\ ShownOK' /\ PhaseOK' /\ MopCallsOK'
    BY <1>0, <1>1, NoRowChanges, PointersStay DEF StartFlow
  <2> QED
    BY <2>1, <2>2 DEF Kept, MopTypes
<1>2. CASE Created
  <2>1. PICK e \in 1..MaxExecs :
          /\ runExecs' = [runExecs EXCEPT ![e] = "pending"] /\ runRef' = e
          /\ runShown' = [Blank EXCEPT !.exec = e, !.status = "pending"]
    BY <1>2 DEF Created
  <2>2. e \in 0..MaxExecs
    BY RunAssumption
  <2>3. TabOK' /\ ExecsOK'
    BY <1>0, <1>2, <2>1, <2>2 DEF Created, TabOK, ExecsOK, ExecStatus
  <2>4. RowIds' = RowIds
    BY <1>2 DEF Created, RowIds
  <2>5. ShownOK'
    BY <2>1, <2>2, <2>4, EmptySteps DEF ShownOK, Blank, ExecStatus
  <2>6. FlowOK'
    BY <1>0, <1>2, <2>4 DEF Created, FlowOK, FlowPlaces
  <2>7. TableOK' /\ RowsKept /\ PhaseOK' /\ MopCallsOK'
    BY <1>0, <1>2, NoRowChanges, PointersStay DEF Created
  <2> QED
    BY <2>3, <2>5, <2>6, <2>7 DEF Kept, MopTypes
<1>3. CASE DeviceAdded
  <2>1. PICK d \in runFlow.left :
          /\ runRows' = Append(runRows, [exec |-> runRef, dev |-> d, steps |-> NoSteps])
          /\ runFlow' = [pc |-> "shown", left |-> runFlow.left \ {d}, row |-> Len(runRows')]
    BY <1>3 DEF DeviceAdded
  <2>2. runRef \in 1..MaxExecs /\ Len(runRows) < MaxRows /\ d \in Devices
    BY <1>0, <1>3, <2>1, RunAssumption DEF DeviceAdded, TabOK, FlowOK
  <2>3. [exec |-> runRef, dev |-> d, steps |-> NoSteps] \in RowRec
    BY <2>2, EmptySteps DEF RowRec
  <2>4. TableOK' /\ RowsKept /\ Len(runRows') \in RowIds'
    BY <1>0, <2>1, <2>2, <2>3, RowAdded
  <2>5. Len(runRows') \in Nat /\ RowIds \subseteq RowIds'
    BY <2>4 DEF TableOK, RowsKept
  <2>6. FlowOK'
    BY <1>0, <2>1, <2>4, <2>5 DEF FlowOK, FlowPlaces
  <2>7. TabOK' /\ ExecsOK'
    BY <1>0, <1>3 DEF DeviceAdded, TabOK, ExecsOK
  <2>8. ShownOK' /\ PhaseOK' /\ MopCallsOK'
    BY <1>3, <2>5, PointersStay DEF DeviceAdded
  <2> QED
    BY <2>4, <2>6, <2>7, <2>8 DEF Kept, MopTypes
\* A row of the table is shown.
<1>4. ASSUME NEW steps \in Steps, ShowRow(runFlow.row, steps), runFlow.row \in RowIds,
             RowIds' = RowIds
      PROVE  ShownOK'
  <2> DEFINE r == runFlow.row
             rows == [q \in DOMAIN runShown.rows \cup {r} |->
                        IF q = r THEN steps ELSE runShown.rows[q]]
  <2>1. r \in Nat /\ r \in RowIds
    BY <1>0, <1>4 DEF FlowOK
  <2>2. rows \in RowMaps /\ DOMAIN rows = DOMAIN runShown.rows \cup {r}
    BY <1>0, <2>1, RowsShown
  <2>3. runShown' = [runShown EXCEPT !.rows = rows]
    BY <1>4 DEF ShowRow
  <2> HIDE DEF r, rows
  <2> QED
    BY <1>0, <1>4, <2>1, <2>2, <2>3 DEF ShownOK
<1>5. CASE DeviceShown
  <2>1. runFlow.row \in RowIds /\ RowIds' = RowIds
    BY <1>0, <1>5 DEF DeviceShown, FlowOK, RowIds
  <2>2. ShownOK'
    BY <1>4, <1>5, <2>1, EmptySteps DEF DeviceShown
  <2>3. FlowOK'
    BY <1>0, <1>5, <2>1 DEF DeviceShown, FlowOK, FlowPlaces
  <2>4. TabOK' /\ ExecsOK'
    BY <1>0, <1>5 DEF DeviceShown, TabOK, ExecsOK
  <2>5. TableOK' /\ RowsKept /\ PhaseOK' /\ MopCallsOK'
    BY <1>0, <1>5, NoRowChanges, PointersStay DEF DeviceShown
  <2> QED
    BY <2>2, <2>3, <2>4, <2>5 DEF Kept, MopTypes
<1>6. CASE StepsAdded
  <2>1. runFlow.row \in RowIds /\ runRows' = [runRows EXCEPT ![runFlow.row].steps = Fresh]
    BY <1>0, <1>6 DEF StepsAdded, FlowOK
  <2>2. TableOK' /\ RowIds' = RowIds /\ RowsKept
    BY <1>0, <2>1, StepsRecorded
  <2>3. ShownOK'
    BY <1>4, <1>6, <2>1, <2>2, EmptySteps DEF StepsAdded
  <2>4. FlowOK'
    BY <1>0, <1>6, <2>2 DEF StepsAdded, FlowOK, FlowPlaces
  <2>5. TabOK' /\ ExecsOK'
    BY <1>0, <1>6 DEF StepsAdded, TabOK, ExecsOK
  <2>6. PhaseOK' /\ MopCallsOK'
    BY <1>6, <2>2, PointersStay DEF StepsAdded
  <2> QED
    BY <2>2, <2>3, <2>4, <2>5, <2>6 DEF Kept, MopTypes
<1>7. CASE StartCalled
  <2>1. UNCHANGED <<runMode, runExecs, runRows, runRef, runShown, runPhase, runLoad, runOps, runMixed>>
    BY <1>7 DEF StartCalled
  <2>2. RowIds' = RowIds
    BY <2>1 DEF RowIds
  <2>3. FlowOK'
    BY <1>0, <1>7, <2>2 DEF StartCalled, FlowOK, FlowPlaces, NoFlow
  <2>4. runRef # 0 => runRef \in 1..MaxExecs /\ "start" \in Ops \ StepOps
    BY <1>0, RunAssumption DEF TabOK, Ops, StepOps
  <2>5. \A c \in runCalls : CallOK(c)'
    BY <2>2, PointersStay
  <2>6. MopCallsOK'
    <3>1. \/ runCalls' = runCalls
          \/ runRef # 0 /\ runCalls' = runCalls \cup {RunCall("start", runRef, 0, "none")}
      BY <1>7 DEF StartCalled
    <3>2. \A c \in runCalls' : CallOK(c)'
      BY <2>4, <2>5, <3>1, ControlCallOK
    <3> QED
      BY <3>2 DEF MopCallsOK
  <2>7. TabOK' /\ ExecsOK' /\ TableOK' /\ RowsKept /\ ShownOK' /\ PhaseOK'
    BY <1>0, <2>1, NoRowChanges, PointersStay DEF TabOK, ExecsOK
  <2> QED
    BY <2>3, <2>6, <2>7 DEF Kept, MopTypes
<1>8. CASE FlowFails
  <2>1. TabOK' /\ ExecsOK' /\ FlowOK'
    BY <1>0, <1>8 DEF FlowFails, TabOK, ExecsOK, FlowOK, NoFlow, FlowPlaces, RowIds
  <2>2. TableOK' /\ RowsKept /\ ShownOK' /\ PhaseOK' /\ MopCallsOK'
    BY <1>0, <1>8, NoRowChanges, PointersStay DEF FlowFails
  <2> QED
    BY <2>1, <2>2 DEF Kept, MopTypes
<1> QED
  BY <1>1, <1>2, <1>3, <1>5, <1>6, <1>7, <1>8 DEF FlowStep

\* The controls and what the agent answers them.
LEMMA ControlKeeps == MopTypes /\ (Control \/ StepCalled) => Kept
<1> SUFFICES ASSUME MopTypes, Control \/ StepCalled PROVE Kept
  OBVIOUS
<1>0. TabOK /\ ExecsOK /\ TableOK /\ ShownOK /\ FlowOK /\ PhaseOK /\ MopCallsOK
  BY DEF MopTypes
<1>1. UNCHANGED <<runExecs, runRows, runShown, runFlow, runPhase>> /\ RowIds' = RowIds
  BY DEF Control, StepCalled, RowIds
<1>2. ExecsOK' /\ TableOK' /\ RowsKept /\ ShownOK' /\ FlowOK' /\ PhaseOK'
  BY <1>0, <1>1, NoRowChanges, PointersStay DEF ExecsOK
<1>3. \A c \in runCalls : CallOK(c)'
  BY <1>1, PointersStay
<1>4. runRef # 0 => runRef \in 1..MaxExecs
  BY <1>0, RunAssumption DEF TabOK
<1>5. CASE Control
  <2>1. PICK op \in Offered : runRef # 0 /\ runCalls' = runCalls \cup {RunCall(op, runRef, 0, "none")}
    BY <1>5 DEF Control
  <2>2. op \in Ops \ StepOps
    BY DEF Offered, Ops, StepOps
  <2>3. \A c : c = RunCall(op, runRef, 0, "none") => CallOK(c)'
    BY <1>4, <2>1, <2>2, ControlCallOK
  <2>4. \A c \in runCalls' : CallOK(c)'
    BY <1>3, <2>1, <2>3
  <2>5. MopCallsOK' /\ TabOK'
    BY <1>0, <1>5, <2>4 DEF Control, MopCallsOK, TabOK
  <2> QED
    BY <1>2, <2>5 DEF Kept, MopTypes
<1>6. CASE StepCalled
  <2>0. PICK r \in DOMAIN runShown.rows : \E p \in DOMAIN runShown.rows[r], op \in StepOps :
          runRef # 0 /\ runCalls' = runCalls \cup {RunCall(op, runRef, r, p)}
    BY <1>6 DEF StepCalled
  <2>1. PICK p \in DOMAIN runShown.rows[r], op \in StepOps :
          runRef # 0 /\ runCalls' = runCalls \cup {RunCall(op, runRef, r, p)}
    BY <2>0
  <2>2. r \in RowIds /\ RowIds \subseteq Nat \ {0}
    BY <1>0 DEF ShownOK, RowIds, TableOK
  <2>3. runShown.rows[r] \in Steps
    <3>1. PICK S \in SUBSET Nat : runShown.rows \in [S -> Steps]
      BY <1>0 DEF ShownOK, RowMaps
    <3> QED
      BY <3>1
  <2>4. p \in Phases
    BY <2>3 DEF Steps
  <2>5. \A c : c = RunCall(op, runRef, r, p) => CallOK(c)'
    BY <1>1, <1>4, <2>1, <2>2, <2>4, StepCallOK
  <2>6. \A c \in runCalls' : CallOK(c)'
    BY <1>3, <2>1, <2>5
  <2>7. runOps + 1 \in 0..MaxStepOps
    BY <1>0, <1>6, RunAssumption DEF TabOK, StepCalled
  <2>8. MopCallsOK' /\ TabOK'
    BY <1>0, <1>6, <2>6, <2>7 DEF StepCalled, MopCallsOK, TabOK
  <2> QED
    BY <1>2, <2>8 DEF Kept, MopTypes
<1> QED
  BY <1>5, <1>6

LEMMA OutcomeIsStatus == \A op : Outcome(op) \in ExecStatus \ {"none", "pending"}
BY DEF Outcome, ExecStatus, RunTerminal

LEMMA CallMoves ==
  ASSUME NEW c \in CallRec, NEW pc \in {"sent", "replied", "busy"} \cup StepStatus, NEW d,
         d = [c EXCEPT !.pc = pc]
  PROVE  /\ d \in CallRec /\ d.pc = pc /\ d.op = c.op /\ d.exec = c.exec
         /\ d.row = c.row /\ d.phase = c.phase
BY DEF CallRec

LEMMA HandledKeeps == ASSUME MopTypes, NEW c \in runCalls, Handled(c) PROVE Kept
<1>0. TabOK /\ ExecsOK /\ TableOK /\ ShownOK /\ FlowOK /\ PhaseOK /\ MopCallsOK /\ CallOK(c)
  BY DEF MopTypes, MopCallsOK
<1>1. c \in CallRec
  BY <1>0 DEF CallOK
<1>2. UNCHANGED <<runMode, runRef, runShown, runFlow, runPhase, runLoad, runOps, runMixed>>
  BY DEF Handled
<1>3. TabOK'
  BY <1>0, <1>2 DEF TabOK
<1>4. ASSUME RowIds \subseteq RowIds', ExecsOK', TableOK', RowsKept,
             NEW pc \in {"sent", "replied", "busy"} \cup StepStatus,
             runCalls' = (runCalls \ {c}) \cup {[c EXCEPT !.pc = pc]},
             c.row = 0 => pc = "replied", c.row # 0 => pc # "replied"
      PROVE  Kept
  <2> DEFINE d == [c EXCEPT !.pc = pc]
  <2>1. /\ d \in CallRec /\ d.pc = pc /\ d.op = c.op /\ d.exec = c.exec
        /\ d.row = c.row /\ d.phase = c.phase
    BY <1>1, CallMoves
  <2>2. runCalls' = (runCalls \ {c}) \cup {d}
    BY <1>4
  <2> HIDE DEF d
  <2>3. CallOK(d)'
    BY <1>0, <1>4, <2>1 DEF CallOK
  <2>4. ShownOK' /\ FlowOK' /\ PhaseOK' /\ \A b \in runCalls : CallOK(b)'
    BY <1>2, <1>4, PointersStay
  <2>5. \A b \in runCalls' : CallOK(b)'
    BY <2>2, <2>3, <2>4
  <2>6. MopCallsOK'
    BY <2>5 DEF MopCallsOK
  <2> QED
    BY <1>3, <1>4, <2>4, <2>6 DEF Kept, MopTypes
<1>5. CASE /\ c.row = 0 /\ c.pc = "sent"
           /\ runExecs' = [runExecs EXCEPT ![c.exec] = Outcome(c.op)]
           /\ runCalls' = (runCalls \ {c}) \cup {[c EXCEPT !.pc = "replied"]}
           /\ UNCHANGED runRows
  <2>1. ExecsOK'
    BY <1>0, <1>5, OutcomeIsStatus DEF ExecsOK
  <2>2. TableOK' /\ RowIds' = RowIds /\ RowsKept
    BY <1>0, <1>5, NoRowChanges
  <2> QED
    BY <1>4, <1>5, <2>1, <2>2
<1>6. ASSUME NEW s \in StepStatus, NEW pc \in {"busy"} \cup StepStatus, c.op \in StepOps,
             UNCHANGED runExecs,
             runRows' = [runRows EXCEPT ![c.row].steps[c.phase] = s],
             runCalls' = (runCalls \ {c}) \cup {[c EXCEPT !.pc = pc]}
      PROVE  Kept
  <2>1. c.row # 0 /\ c.row \in RowIds
    BY <1>0, <1>6 DEF CallOK
  <2>2. TableOK' /\ RowIds' = RowIds /\ RowsKept
    BY <1>0, <1>6, <2>1, StatusRecorded
  <2>3. ExecsOK' /\ pc # "replied" /\ pc \in {"sent", "replied", "busy"} \cup StepStatus
    BY <1>0, <1>6 DEF ExecsOK, StepStatus
  <2> QED
    BY <1>4, <1>6, <2>1, <2>2, <2>3
<1>7. {"running", "passed", "failed", "skipped", "pending"} \subseteq StepStatus
      /\ {"run", "skip", "reset"} \subseteq StepOps
  BY DEF StepStatus, StepOps
<1> QED
  BY <1>5, <1>6, <1>7 DEF Handled

\* The call that saves an edited command is one more call for its step.
LEMMA EditKeeps == ASSUME MopTypes, NEW c \in runCalls, EditSaved(c) PROVE Kept
<1>0. TabOK /\ ExecsOK /\ TableOK /\ ShownOK /\ FlowOK /\ PhaseOK /\ MopCallsOK /\ CallOK(c)
  BY DEF MopTypes, MopCallsOK
<1>1. /\ UNCHANGED <<runMode, runExecs, runRows, runRef, runShown, runFlow, runPhase,
                     runLoad, runOps, runMixed>>
      /\ RowIds' = RowIds
  BY DEF EditSaved, RowIds
<1>2. TabOK' /\ ExecsOK' /\ TableOK' /\ RowsKept /\ ShownOK' /\ FlowOK' /\ PhaseOK'
  BY <1>0, <1>1, NoRowChanges, PointersStay DEF TabOK, ExecsOK
<1>3. \A b \in runCalls : CallOK(b)'
  BY <1>1, PointersStay
<1>4. /\ "reset" \in StepOps /\ runRef \in 1..MaxExecs
      /\ c.row \in RowIds /\ c.row \in Nat \ {0} /\ c.phase \in Phases
  <2>1. c.op \in StepOps /\ runRef # 0
    BY DEF EditSaved, StepOps
  <2>2. c.row \in RowIds /\ RowIds = 1..Len(runRows)
    BY <1>0 DEF EditSaved, ShownOK, RowIds, TableOK
  <2> QED
    BY <1>0, <2>1, <2>2, RunAssumption DEF TabOK, CallOK, StepOps
<1>5. \A d : d = RunCall("reset", runRef, c.row, c.phase) => CallOK(d)'
  BY <1>1, <1>4, StepCallOK
<1>6. MopCallsOK'
  BY <1>3, <1>5 DEF EditSaved, MopCallsOK
<1> QED
  BY <1>2, <1>6 DEF Kept, MopTypes

LEMMA AnswerKeeps ==
  ASSUME MopTypes, NEW c \in runCalls, Replied(c) \/ Cancelled(c) \/ CallFails(c)
  PROVE  Kept
<1>0. TabOK /\ ExecsOK /\ TableOK /\ ShownOK /\ FlowOK /\ PhaseOK /\ MopCallsOK /\ CallOK(c)
  BY DEF MopTypes, MopCallsOK
<1>1. UNCHANGED <<runMode, runExecs, runRows, runPhase, runLoad, runOps>>
      /\ runCalls' \subseteq runCalls /\ RowIds' = RowIds
  BY DEF Replied, Cancelled, CallFails, RowIds
<1>2. ExecsOK' /\ TableOK' /\ RowsKept /\ PhaseOK' /\ MopCallsOK'
  BY <1>0, <1>1, NoRowChanges, PointersStay DEF ExecsOK
<1>3. c.exec \in 0..MaxExecs /\ 0 \in 0..MaxExecs
  BY <1>0, RunAssumption DEF CallOK, CallRec
<1>4. FlowOK'
  BY <1>0, <1>1 DEF Replied, Cancelled, CallFails, FlowAfter, FlowOK, NoFlow, FlowPlaces
<1>5. TabOK'
  <2>1. runMixed' \in BOOLEAN
    BY <1>0 DEF Replied, Cancelled, CallFails, TabOK
  <2>2. runRef' \in {runRef, c.exec, 0}
    BY DEF Replied, Cancelled, CallFails
  <2> QED
    BY <1>0, <1>1, <1>3, <2>1, <2>2 DEF TabOK
<1>6. ShownOK'
  <2>1. CASE UNCHANGED runShown
    BY <1>1, <2>1, PointersStay
  <2>2. CASE runShown' = Blank
    <3>1. runShown'.rows = Blank.rows /\ runShown'.exec = 0 /\ runShown'.status = "none"
      BY <2>2 DEF Blank
    <3> QED
      BY <1>3, <2>2, <3>1, EmptySteps DEF ShownOK, Blank, ExecStatus
  <2>3. CASE runShown' = [runShown EXCEPT !.exec = c.exec, !.status = Outcome(c.op)]
    BY <1>0, <1>1, <1>3, <2>3, OutcomeIsStatus DEF ShownOK
  <2>4. CASE /\ c.op \in StepOps /\ c.pc \notin {"sent", "busy"}
             /\ runShown' = [runShown EXCEPT !.rows =
                  [r \in DOMAIN @ |-> IF r = c.row /\ c.phase \in DOMAIN @[r]
                                      THEN [@[r] EXCEPT ![c.phase] = c.pc] ELSE @[r]]]
    <3>0. c.pc \in {"sent", "replied", "busy"} \cup StepStatus /\ c.pc # "replied"
      BY <1>0, <2>4 DEF CallOK, CallRec
    <3>1. c.pc \in StepStatus
      BY <2>4, <3>0
    <3>2. /\ ShownWith(c.row, c.phase, c.pc) \in RowMaps
          /\ DOMAIN ShownWith(c.row, c.phase, c.pc) = DOMAIN runShown.rows
      BY <1>0, <3>1, StepShown
    <3>3. runShown' = [runShown EXCEPT !.rows = ShownWith(c.row, c.phase, c.pc)]
      BY <2>4 DEF ShownWith
    <3> QED
      BY <1>0, <1>1, <3>2, <3>3 DEF ShownOK
  <2> QED
    BY <2>1, <2>2, <2>3, <2>4 DEF Replied, Cancelled, CallFails
<1> QED
  BY <1>2, <1>4, <1>5, <1>6 DEF Kept, MopTypes

\* A phase over the devices; the tab; its loads.
LEMMA PhaseKeeps == MopTypes /\ (PhaseClicked \/ PhaseStep) => Kept
<1> SUFFICES ASSUME MopTypes, PhaseClicked \/ PhaseStep PROVE Kept
  OBVIOUS
<1>0. TabOK /\ ExecsOK /\ TableOK /\ ShownOK /\ FlowOK /\ PhaseOK /\ MopCallsOK
  BY DEF MopTypes
<1>1. CASE PhaseClicked
  <2>1. PICK p \in Phases :
          runPhase' = [NoPhase EXCEPT !.pc = "run", !.exec = runRef, !.phase = p,
                                      !.left = DOMAIN runShown.rows]
    BY <1>1 DEF PhaseClicked
  <2>2. RowIds' = RowIds /\ RowIds \subseteq Nat /\ DOMAIN runShown.rows \subseteq RowIds
    <3>1. RowIds' = RowIds
      BY <1>1 DEF PhaseClicked, RowIds
    <3>2. RowIds = 1..Len(runRows) /\ DOMAIN runShown.rows \subseteq RowIds
      BY <1>0 DEF RowIds, TableOK, ShownOK
    <3> QED
      BY <3>1, <3>2
  <2>3. PhaseOK'
    <3>1. /\ runPhase' = [pc |-> "run", exec |-> runRef, phase |-> p,
                          left |-> DOMAIN runShown.rows, got |-> Blank.rows]
          /\ runRef # 0 /\ runRef \in 0..MaxExecs
      <4>1. NoPhase = [pc |-> "idle", exec |-> 0, phase |-> "none", left |-> {}, got |-> Blank.rows]
        BY DEF NoPhase
      <4>2. runRef # 0 /\ runRef \in 0..MaxExecs
        BY <1>0, <1>1 DEF PhaseClicked, TabOK
      <4> QED
        BY <2>1, <4>1, <4>2
    <3>2. DOMAIN runShown.rows \in SUBSET Nat
      BY <2>2
    <3>3. runPhase' \in [pc : {"idle", "run", "show"}, exec : 0..MaxExecs,
                         phase : Phases \cup {"none"}, left : SUBSET Nat, got : RowMaps]
      BY <3>1, <3>2, EmptySteps
    <3> QED
      BY <2>2, <3>1, <3>3, EmptySteps DEF PhaseOK
  <2>4. runOps + 1 \in 0..MaxStepOps
    <3>1. runOps \in 0..MaxStepOps /\ runOps < MaxStepOps /\ MaxStepOps \in Nat
      BY <1>0, <1>1, RunAssumption DEF TabOK, PhaseClicked
    <3> QED
      BY <3>1
  <2>5. TabOK' /\ ExecsOK'
    BY <1>0, <1>1, <2>4 DEF PhaseClicked, TabOK, ExecsOK
  <2>6. TableOK' /\ RowsKept /\ ShownOK' /\ FlowOK' /\ MopCallsOK'
    BY <1>0, <1>1, NoRowChanges, PointersStay DEF PhaseClicked
  <2> QED
    BY <2>3, <2>5, <2>6 DEF Kept, MopTypes
<1>2. CASE PhaseOnDevice
  <2>1. PICK r \in runPhase.left :
          /\ \/ UNCHANGED runRows
             \/ \E s \in {"passed", "failed"} :
                  runRows' = [runRows EXCEPT ![r].steps[runPhase.phase] = s]
          /\ runPhase' = [runPhase EXCEPT !.left = @ \ {r}]
    BY <1>2 DEF PhaseOnDevice
  <2>2. r \in RowIds
    BY <1>0 DEF PhaseOK
  <2>3. TableOK' /\ RowIds' = RowIds /\ RowsKept
    <3>1. CASE UNCHANGED runRows
      BY <1>0, <3>1, NoRowChanges
    <3>2. CASE \E s \in {"passed", "failed"} :
                 runRows' = [runRows EXCEPT ![r].steps[runPhase.phase] = s]
      <4>1. PICK s \in {"passed", "failed"} :
              runRows' = [runRows EXCEPT ![r].steps[runPhase.phase] = s]
        BY <3>2
      <4>2. s \in StepStatus
        BY DEF StepStatus
      <4> QED
        BY <1>0, <2>2, <4>1, <4>2, StatusRecorded
    <3> QED
      BY <2>1, <3>1, <3>2
  <2>4. PhaseOK'
    BY <1>0, <2>1, <2>3 DEF PhaseOK
  <2>5. TabOK' /\ ExecsOK'
    BY <1>0, <1>2 DEF PhaseOnDevice, TabOK, ExecsOK
  <2>6. ShownOK' /\ FlowOK' /\ MopCallsOK'
    BY <1>2, <2>3, PointersStay DEF PhaseOnDevice
  <2> QED
    BY <2>3, <2>4, <2>5, <2>6 DEF Kept, MopTypes
<1>3. 0 \in 0..MaxExecs
  BY RunAssumption
<1>4. CASE PhaseListed
  <2>1. RowIds' = RowIds
    BY <1>4 DEF PhaseListed, RowIds
  <2>2. /\ Snapshot(runPhase.exec) \in RowMaps
        /\ DOMAIN Snapshot(runPhase.exec) \subseteq RowIds
    BY <1>0, SnapshotType
  <2>3. PhaseOK'
    <3>1. CASE runPhase' = NoPhase
      BY <1>3, <3>1, EmptySteps DEF PhaseOK, NoPhase
    <3>2. CASE runPhase' = [runPhase EXCEPT !.pc = "show", !.got = Snapshot(runPhase.exec)]
      <4>1. runPhase.pc = "run" /\ runPhase.exec # 0
        BY <1>0, <1>4 DEF PhaseListed, PhaseOK
      <4> QED
        BY <1>0, <2>1, <2>2, <3>2, <4>1 DEF PhaseOK
    <3> QED
      BY <1>4, <3>1, <3>2 DEF PhaseListed
  <2>4. TabOK' /\ ExecsOK'
    BY <1>0, <1>4 DEF PhaseListed, TabOK, ExecsOK
  <2>5. TableOK' /\ RowsKept /\ ShownOK' /\ FlowOK' /\ MopCallsOK'
    BY <1>0, <1>4, NoRowChanges, PointersStay DEF PhaseListed
  <2> QED
    BY <2>3, <2>4, <2>5 DEF Kept, MopTypes
<1>5. CASE PhaseShown
  <2>1. RowIds' = RowIds
    BY <1>5 DEF PhaseShown, RowIds
  <2>2. PhaseOK'
    BY <1>3, <1>5, EmptySteps DEF PhaseShown, PhaseOK, NoPhase
  <2>3. ShownOK'
    BY <1>0, <1>5, <2>1 DEF PhaseShown, PhaseOK, ShownOK
  <2>4. runMixed' \in BOOLEAN
    BY <1>0, <1>5 DEF PhaseShown, TabOK
  <2>5. TabOK' /\ ExecsOK'
    BY <1>0, <1>5, <2>4 DEF PhaseShown, TabOK, ExecsOK
  <2>6. TableOK' /\ RowsKept /\ FlowOK' /\ MopCallsOK'
    BY <1>0, <1>5, NoRowChanges, PointersStay DEF PhaseShown
  <2> QED
    BY <2>2, <2>3, <2>5, <2>6 DEF Kept, MopTypes
<1> QED
  BY <1>1, <1>2, <1>4, <1>5 DEF PhaseStep

LEMMA TabKeeps == MopTypes /\ (RunReset \/ Reopen \/ LoadStep) => Kept
<1> SUFFICES ASSUME MopTypes, RunReset \/ Reopen \/ LoadStep PROVE Kept
  OBVIOUS
<1>0. TabOK /\ ExecsOK /\ TableOK /\ ShownOK /\ FlowOK /\ PhaseOK /\ MopCallsOK
  BY DEF MopTypes
<1>1. UNCHANGED <<runExecs, runRows, runFlow, runPhase, runCalls, runOps, runMixed>>
  BY DEF RunReset, Reopen, LoadStep, LoadedExecution, LoadedRows, LoadFails
<1>2. RowIds' = RowIds /\ 0 \in 0..MaxExecs /\ 1..MaxExecs \subseteq 0..MaxExecs \ {0}
  BY <1>1, RunAssumption DEF RowIds
<1>3. ExecsOK' /\ TableOK' /\ RowsKept /\ FlowOK' /\ PhaseOK' /\ MopCallsOK'
  BY <1>0, <1>1, <1>2, NoRowChanges, PointersStay DEF ExecsOK
<1>4. ASSUME runShown' = Blank PROVE ShownOK'
  <2>1. runShown'.rows = Blank.rows /\ runShown'.exec = 0 /\ runShown'.status = "none"
    BY <1>4 DEF Blank
  <2> QED
    BY <1>2, <1>4, <2>1, EmptySteps DEF ShownOK, Blank, ExecStatus
<1>5. CASE RunReset
  BY <1>0, <1>1, <1>2, <1>3, <1>4, <1>5 DEF RunReset, TabOK, Kept, MopTypes
<1>6. CASE Reopen
  <2>1. PICK e \in 1..MaxExecs : runLoad' = [pc |-> "execution", exec |-> e, status |-> "none"]
    BY <1>6 DEF Reopen
  <2>2. TabOK'
    <3>1. runLoad' \in [pc : {"idle", "execution", "rows"}, exec : 0..MaxExecs, status : ExecStatus]
          /\ runLoad'.exec # 0
      BY <1>2, <2>1 DEF ExecStatus
    <3>2. runMode' \in Modes /\ runRef' \in 0..MaxExecs
      BY <1>2, <1>6 DEF Reopen, Modes
    <3> QED
      BY <1>0, <1>1, <3>1, <3>2 DEF TabOK
  <2> QED
    BY <1>3, <1>4, <1>6, <2>2 DEF Reopen, Kept, MopTypes
<1>7. CASE LoadedExecution
  <2>1. runExecs[runLoad.exec] \in ExecStatus
    <3>1. runLoad.exec \in 1..MaxExecs
      BY <1>0, <1>7, RunAssumption DEF LoadedExecution, TabOK
    <3> QED
      BY <1>0, <3>1 DEF ExecsOK
  <2>2. TabOK'
    BY <1>0, <1>1, <1>7, <2>1 DEF LoadedExecution, TabOK
  <2>3. ShownOK'
    BY <1>0, <1>2, <1>7 DEF LoadedExecution, ShownOK
  <2> QED
    BY <1>3, <2>2, <2>3 DEF Kept, MopTypes
<1>8. NoLoad \in [pc : {"idle", "execution", "rows"}, exec : 0..MaxExecs, status : ExecStatus]
      /\ NoLoad.pc = "idle"
  BY <1>2 DEF NoLoad, ExecStatus
<1>9. CASE LoadedRows
  <2>1. TabOK'
    BY <1>0, <1>1, <1>8, <1>9 DEF LoadedRows, TabOK
  <2>2. /\ Snapshot(runLoad.exec) \in RowMaps
        /\ DOMAIN Snapshot(runLoad.exec) \subseteq RowIds
    BY <1>0, SnapshotType
  <2>3. /\ runShown' \in [exec : 0..MaxExecs, status : ExecStatus, rows : RowMaps]
        /\ runShown'.rows = Snapshot(runLoad.exec)
    BY <1>0, <1>9, <2>2 DEF LoadedRows, TabOK
  <2>4. ShownOK'
    BY <1>2, <2>2, <2>3 DEF ShownOK
  <2> QED
    BY <1>3, <2>1, <2>4 DEF Kept, MopTypes
<1>10. CASE LoadFails
  <2>1. TabOK'
    BY <1>0, <1>1, <1>8, <1>10 DEF LoadFails, TabOK
  <2>2. ShownOK'
    BY <1>0, <1>2, <1>10 DEF LoadFails, ShownOK
  <2> QED
    BY <1>3, <2>1, <2>2 DEF Kept, MopTypes
<1> QED
  BY <1>5, <1>6, <1>7, <1>9, <1>10 DEF LoadStep

\* The tab closed on another plan: nothing of this one is left.
LEMMA ClosedType ==
  ASSUME MopTypes, CloseTab
  PROVE  /\ MopTypes' /\ RowIds' = {} /\ runCalls' = {} /\ runFlow' = NoFlow
         /\ runPhase' = NoPhase
<1>0. TabOK /\ ExecsOK /\ TableOK /\ ShownOK /\ FlowOK /\ PhaseOK /\ MopCallsOK
  BY DEF MopTypes
<1>1. /\ runRows' = <<>> /\ runShown' = Blank /\ runCalls' = {} /\ runFlow' = NoFlow
      /\ runPhase' = NoPhase /\ RowIds' = {}
  BY DEF CloseTab, Quiet, RowIds
<1>2. 0 \in 0..MaxExecs /\ 0 \in 0..MaxStepOps /\ MaxRows \in Nat
  BY RunAssumption
<1>3. TabOK' /\ ExecsOK'
  BY <1>2 DEF CloseTab, TabOK, ExecsOK, Modes, NoLoad, ExecStatus
<1>4. TableOK'
  BY <1>1, <1>2 DEF TableOK
<1>5. ShownOK'
  <2>1. runShown'.rows = Blank.rows
    BY <1>1
  <2> QED
    BY <1>1, <1>2, <2>1, EmptySteps DEF ShownOK, Blank, ExecStatus
<1>6. FlowOK' /\ MopCallsOK'
  BY <1>1 DEF FlowOK, NoFlow, FlowPlaces, MopCallsOK
<1>7. PhaseOK'
  BY <1>1, <1>2, EmptySteps DEF PhaseOK, NoPhase
<1> QED
  BY <1>1, <1>3, <1>4, <1>5, <1>6, <1>7 DEF MopTypes

LEMMA MopStepKeeps == MopTypes /\ RunNext => Kept \/ CloseTab
BY FlowKeeps, ControlKeeps, HandledKeeps, EditKeeps, AnswerKeeps, PhaseKeeps, TabKeeps
   DEF RunNext, CallStep

LEMMA MopTypeStep == MopTypes /\ [RunNext]_runVars => MopTypes'
<1>1. MopTypes /\ RunNext => MopTypes'
  BY MopStepKeeps, ClosedType DEF Kept
<1>2. MopTypes /\ UNCHANGED runVars => MopTypes'
  BY DEF MopTypes, TabOK, ExecsOK, TableOK, ShownOK, FlowOK, PhaseOK, MopCallsOK, CallOK, RowIds
<1> QED
  BY <1>1, <1>2

\* Every row shown, listed, called or being added is a row of the agent's table,
\* for any number of executions, devices and calls in flight.
THEOREM RunTypes == RunSpec => []RunTypeOK
<1>1. RunSpec => []MopTypes
  BY MopInitType, MopTypeStep, PTL DEF RunSpec
<1> QED
  BY <1>1, TypesSuffice, PTL

(***************************************************************************)
(* A tab opened on its plan that is given no late reply: what it holds is   *)
(* of the latest execution, and whoever may start that one has waited for   *)
(* its rows.                                                                *)
(***************************************************************************)
DeviceReady(e, d) == \E r \in RowsOf(e) : runRows[r].dev = d /\ DOMAIN runRows[r].steps = Phases
PlanReady(e) == \A d \in Devices : DeviceReady(e, d)
Begun(e) == runExecs[e] \notin {"none", "pending"}

InOrder == \A e, f \in 1..MaxExecs : f < e /\ runExecs[e] # "none" => runExecs[f] # "none"
RefIsLatest ==
  /\ runShown.exec = runRef
  /\ \A e \in 1..MaxExecs : runRef = e => Latest(e)
RowsAreLatest ==
  \A e \in 1..MaxExecs : \A r \in DOMAIN runShown.rows : runRows[r].exec = e => Latest(e)
LiveIsPlanned ==
  \A e \in 1..MaxExecs : runShown.exec = e /\ RunLive => PlanReady(e) /\ Begun(e)
CallPlanned(c) ==
  /\ runExecs[c.exec] # "none"
  /\ c.op \in {"start", "resume", "pause"} => PlanReady(c.exec)
  /\ c.pc = "replied" => Begun(c.exec)
  /\ \A e \in 1..MaxExecs : c.row # 0 /\ runRows[c.row].exec = e => Begun(e)
CallsPlanned == \A c \in runCalls : CallPlanned(c)
FlowPlans ==
  \A e \in 1..MaxExecs :
    /\ runFlow.pc \in {"shown", "steps"} /\ runRows[runFlow.row].exec = e =>
         /\ Latest(e)
         /\ \A d \in Devices \ runFlow.left : d = runRows[runFlow.row].dev \/ DeviceReady(e, d)
    /\ runFlow.pc = "device" /\ Latest(e) => \A d \in Devices \ runFlow.left : DeviceReady(e, d)
    /\ runFlow.pc = "start" /\ Latest(e) => PlanReady(e)
GotOfPhase == \A r \in DOMAIN runPhase.got : runRows[r].exec = runPhase.exec
RunningPlanned == \A e \in 1..MaxExecs : runExecs[e] = "running" => PlanReady(e)

PlanParts ==
  /\ InOrder /\ RefIsLatest /\ RowsAreLatest /\ LiveIsPlanned /\ CallsPlanned
  /\ FlowPlans /\ GotOfPhase /\ RunningPlanned
PlanInv == OneExecution => PlanParts

LEMMA PlansSuffice == PlanInv => RunningHasItsPlan
BY DEF PlanInv, PlanParts, RunningPlanned, RunningHasItsPlan, PlanReady, DeviceReady

LEMMA OneLatest ==
  ASSUME NEW e \in 1..MaxExecs, NEW f \in 1..MaxExecs, Latest(e), Latest(f)
  PROVE  e = f
<1>1. MaxExecs \in Nat
  BY RunAssumption
<1>2. e < f => f \in (e + 1)..MaxExecs
  BY <1>1
<1>3. f < e => e \in (f + 1)..MaxExecs
  BY <1>1
<1> QED
  BY <1>1, <1>2, <1>3 DEF Latest

\* No execution is created and none goes back to where it was created.
Forward ==
  \A e \in 1..MaxExecs : /\ runExecs'[e] = "none" <=> runExecs[e] = "none"
                         /\ runExecs'[e] = "pending" => runExecs[e] = "pending"

LEMMA LatestStays ==
  ASSUME Forward, NEW e \in 1..MaxExecs
  PROVE  Latest(e)' <=> Latest(e)
<1>1. (e + 1)..MaxExecs \subseteq 1..MaxExecs
  BY RunAssumption
<1> QED
  BY <1>1 DEF Latest, Forward

LEMMA PlansStay ==
  ASSUME RowsKept, NEW e
  PROVE  /\ \A d : DeviceReady(e, d) => DeviceReady(e, d)'
         /\ PlanReady(e) => PlanReady(e)'
<1>1. \A d : DeviceReady(e, d) => DeviceReady(e, d)'
  BY DEF DeviceReady, RowsKept, RowsOf, RowIds
<1> QED
  BY <1>1 DEF PlanReady

\* What a step keeps that creates no execution, part by part.
LEMMA PlanFrame ==
  ASSUME MopTypes, RowsKept, Forward, PlanParts
  PROVE  /\ InOrder'
         /\ runRef' = runRef /\ runShown'.exec = runShown.exec => RefIsLatest'
         /\ DOMAIN runShown'.rows \subseteq DOMAIN runShown.rows => RowsAreLatest'
         /\ runShown'.exec = runShown.exec /\ runShown'.status = runShown.status => LiveIsPlanned'
         /\ \A c \in runCalls : CallPlanned(c)'
         /\ runCalls' \subseteq runCalls => CallsPlanned'
         /\ runFlow' = runFlow => FlowPlans'
         /\ runPhase' = runPhase => GotOfPhase'
         /\ runExecs' = runExecs => RunningPlanned'
<1>0. TabOK /\ ExecsOK /\ TableOK /\ ShownOK /\ FlowOK /\ PhaseOK /\ MopCallsOK
  BY DEF MopTypes
<1>1. \A e \in 1..MaxExecs : /\ Latest(e)' <=> Latest(e)
                             /\ PlanReady(e) => PlanReady(e)'
                             /\ Begun(e) => Begun(e)'
  BY LatestStays, PlansStay DEF Begun, Forward
<1>2. InOrder'
  BY DEF PlanParts, InOrder, Forward
<1>3. runRef' = runRef /\ runShown'.exec = runShown.exec => RefIsLatest'
  BY <1>1 DEF PlanParts, RefIsLatest
<1>4. DOMAIN runShown'.rows \subseteq DOMAIN runShown.rows => RowsAreLatest'
  BY <1>0, <1>1 DEF PlanParts, RowsAreLatest, RowsKept, ShownOK
<1>5. runShown'.exec = runShown.exec /\ runShown'.status = runShown.status => LiveIsPlanned'
  BY <1>1 DEF PlanParts, LiveIsPlanned, RunLive
<1>6. ASSUME NEW c \in runCalls PROVE CallPlanned(c)'
  <2>1. c.exec \in 1..MaxExecs /\ c.row \in {0} \cup RowIds /\ CallPlanned(c)
    BY <1>0 DEF MopCallsOK, CallOK, CallRec, PlanParts, CallsPlanned
  <2>2. c.row # 0 => runRows'[c.row].exec = runRows[c.row].exec
    BY <2>1 DEF RowsKept
  <2> QED
    BY <1>1, <2>1, <2>2 DEF CallPlanned, Forward
<1>7. runCalls' \subseteq runCalls => CallsPlanned'
  BY <1>6 DEF CallsPlanned
<1>8. runFlow' = runFlow => FlowPlans'
  <2> SUFFICES ASSUME runFlow' = runFlow, NEW e \in 1..MaxExecs
               PROVE  /\ runFlow.pc \in {"shown", "steps"} /\ runRows'[runFlow.row].exec = e =>
                           /\ Latest(e)
                           /\ \A d \in Devices \ runFlow.left :
                                d = runRows'[runFlow.row].dev \/ DeviceReady(e, d)'
                      /\ runFlow.pc = "device" /\ Latest(e) =>
                           \A d \in Devices \ runFlow.left : DeviceReady(e, d)'
                      /\ runFlow.pc = "start" /\ Latest(e) => PlanReady(e)'
    BY <1>1 DEF FlowPlans
  <2>1. /\ runFlow.pc \in {"shown", "steps"} /\ runRows[runFlow.row].exec = e =>
             /\ Latest(e)
             /\ \A d \in Devices \ runFlow.left : d = runRows[runFlow.row].dev \/ DeviceReady(e, d)
        /\ runFlow.pc = "device" /\ Latest(e) => \A d \in Devices \ runFlow.left : DeviceReady(e, d)
        /\ runFlow.pc = "start" /\ Latest(e) => PlanReady(e)
    BY DEF PlanParts, FlowPlans
  <2>2. \A d : DeviceReady(e, d) => DeviceReady(e, d)'
    BY PlansStay
  <2>3. runFlow.pc \in {"shown", "steps"} =>
          /\ runRows'[runFlow.row].exec = runRows[runFlow.row].exec
          /\ runRows'[runFlow.row].dev = runRows[runFlow.row].dev
    BY <1>0 DEF FlowOK, RowsKept
  <2> QED
    BY <1>1, <2>1, <2>2, <2>3
<1>9. runPhase' = runPhase => GotOfPhase'
  BY <1>0 DEF PlanParts, GotOfPhase, RowsKept, PhaseOK
<1>10. runExecs' = runExecs => RunningPlanned'
  BY <1>1 DEF PlanParts, RunningPlanned
<1> QED
  BY <1>2, <1>3, <1>4, <1>5, <1>6, <1>7, <1>8, <1>9, <1>10

LEMMA SameExecs == UNCHANGED runExecs => Forward
BY DEF Forward

\* The start flow.
LEMMA FlowPlan ==
  ASSUME MopTypes, PlanParts, StartFlow \/ FlowStep
  PROVE  PlanParts'
<1>0. /\ TabOK /\ ExecsOK /\ TableOK /\ ShownOK /\ FlowOK /\ MopCallsOK
      /\ MopTypes' /\ RowsKept
  BY FlowKeeps DEF MopTypes, Kept
<1>1. CASE Created
  <2>1. PICK e \in 1..MaxExecs :
          /\ runExecs[e] = "none" /\ runExecs' = [runExecs EXCEPT ![e] = "pending"] /\ runRef' = e
          /\ \A f \in 1..(e - 1) : runExecs[f] # "none"
          /\ runShown' = [Blank EXCEPT !.exec = e, !.status = "pending"]
    BY <1>1 DEF Created
  <2>2. /\ runExecs'[e] = "pending"
        /\ \A f \in 1..MaxExecs \ {e} : runExecs'[f] = runExecs[f]
    BY <1>0, <2>1 DEF ExecsOK
  <2>3. \A f \in (e + 1)..MaxExecs : f \in 1..MaxExecs /\ e < f /\ f # e
    BY RunAssumption
  <2>4. Latest(e)'
    BY <2>1, <2>2, <2>3 DEF Latest, PlanParts, InOrder
  <2>5. InOrder'
    <3>1. \A f \in 1..MaxExecs : f < e => f \in 1..(e - 1)
      BY RunAssumption
    <3> QED
      BY <2>1, <2>2, <3>1 DEF PlanParts, InOrder
  <2>6. /\ runShown'.exec = e /\ runShown'.status = "pending" /\ DOMAIN runShown'.rows = {}
        /\ runFlow' = [pc |-> "device", left |-> Devices, row |-> 0]
    BY <1>1, <2>1, EmptySteps DEF Created, Blank
  <2>7. RefIsLatest' /\ RowsAreLatest' /\ LiveIsPlanned' /\ FlowPlans'
    BY <2>1, <2>4, <2>6 DEF RefIsLatest, RowsAreLatest, LiveIsPlanned, RunLive, FlowPlans
  <2>8. UNCHANGED <<runRows, runPhase, runCalls>>
    BY <1>1 DEF Created
  <2>9. GotOfPhase'
    BY <2>8 DEF PlanParts, GotOfPhase
  <2>10. \A f : PlanReady(f) => PlanReady(f)'
    BY <1>0, PlansStay
  <2>11. RunningPlanned'
    BY <2>2, <2>10 DEF PlanParts, RunningPlanned
  <2>12. \A f \in 1..MaxExecs : (runExecs[f] # "none" => runExecs'[f] # "none") /\ (Begun(f) => Begun(f)')
    BY <2>1, <2>2 DEF Begun
  <2>13. ASSUME NEW c \in runCalls PROVE CallPlanned(c)'
    <3>1. c.exec \in 1..MaxExecs /\ CallPlanned(c)
      BY <1>0 DEF MopCallsOK, CallOK, CallRec, PlanParts, CallsPlanned
    <3> QED
      BY <2>8, <2>10, <2>12, <3>1 DEF CallPlanned
  <2>14. CallsPlanned'
    BY <2>8, <2>13 DEF CallsPlanned
  <2> QED
    BY <2>5, <2>7, <2>9, <2>11, <2>14 DEF PlanParts
<1>2. ASSUME UNCHANGED runExecs
      PROVE  /\ Forward /\ InOrder' /\ RunningPlanned'
             /\ \A e \in 1..MaxExecs : Latest(e)' <=> Latest(e)
             /\ \A e, d : DeviceReady(e, d) => DeviceReady(e, d)'
             /\ \A e : PlanReady(e) => PlanReady(e)'
  BY <1>0, <1>2, SameExecs, PlanFrame, LatestStays, PlansStay
<1>3. CASE StartFlow
  <2>1. UNCHANGED <<runExecs, runRef, runShown, runPhase, runCalls>> /\ runFlow'.pc = "create"
    BY <1>3 DEF StartFlow, NoFlow
  <2>2. FlowPlans'
    BY <2>1 DEF FlowPlans
  <2> QED
    BY <1>0, <1>2, <2>1, <2>2, PlanFrame DEF PlanParts
<1>4. CASE DeviceAdded
  <2>0. PICK d \in runFlow.left :
          /\ runRows' = Append(runRows, [exec |-> runRef, dev |-> d, steps |-> NoSteps])
          /\ runFlow' = [pc |-> "shown", left |-> runFlow.left \ {d}, row |-> Len(runRows')]
    BY <1>4 DEF DeviceAdded
  <2>1. /\ UNCHANGED <<runExecs, runRef, runShown, runPhase, runCalls>>
        /\ runFlow.pc = "device" /\ runRef \in 1..MaxExecs /\ Len(runRows) < MaxRows /\ d \in Devices
    BY <1>0, <1>4, <2>0, RunAssumption DEF DeviceAdded, TabOK, FlowOK
  <2>2. [exec |-> runRef, dev |-> d, steps |-> NoSteps] \in RowRec
    BY <2>1, EmptySteps DEF RowRec
  <2>3. runRows'[Len(runRows')].exec = runRef /\ runRows'[Len(runRows')].dev = d
    BY <1>0, <2>0, <2>1, <2>2, RowAdded
  <2>4. \A e \in 1..MaxExecs : e = runRef => Latest(e)
    BY <2>1 DEF PlanParts, RefIsLatest
  <2>5. ASSUME NEW e \in 1..MaxExecs, e = runRef
        PROVE  Latest(e)' /\ \A c \in Devices \ runFlow'.left : c = d \/ DeviceReady(e, c)'
    <3>1. Latest(e)' /\ Latest(e)
      BY <1>2, <2>1, <2>4, <2>5
    <3>2. \A c \in Devices \ runFlow.left : DeviceReady(e, c)
      BY <2>1, <3>1 DEF PlanParts, FlowPlans
    <3> QED
      BY <1>2, <2>0, <2>1, <3>1, <3>2
  <2>6. FlowPlans'
    BY <2>0, <2>1, <2>3, <2>5 DEF FlowPlans
  <2> QED
    BY <1>0, <1>2, <2>1, <2>6, PlanFrame DEF PlanParts
<1>5. CASE DeviceShown
  <2>1. /\ UNCHANGED <<runExecs, runRows, runRef, runPhase, runCalls>>
        /\ runFlow.pc = "shown" /\ runFlow' = [runFlow EXCEPT !.pc = "steps"]
        /\ runShown' = [runShown EXCEPT !.rows =
             [r \in DOMAIN @ \cup {runFlow.row} |-> IF r = runFlow.row THEN NoSteps ELSE @[r]]]
    BY <1>5 DEF DeviceShown, ShowRow
  <2>2. /\ runFlow'.pc = "steps" /\ runFlow'.left = runFlow.left /\ runFlow'.row = runFlow.row
        /\ runShown'.exec = runShown.exec /\ runShown'.status = runShown.status
        /\ DOMAIN runShown'.rows = DOMAIN runShown.rows \cup {runFlow.row}
    BY <1>0, <2>1 DEF FlowOK, ShownOK
  <2>3. FlowPlans'
    BY <1>2, <2>1, <2>2 DEF PlanParts, FlowPlans
  <2>4. RowsAreLatest'
    <3> SUFFICES ASSUME NEW e \in 1..MaxExecs, NEW r \in DOMAIN runShown'.rows, runRows[r].exec = e
                 PROVE  Latest(e)
      BY <1>2, <2>1 DEF RowsAreLatest
    <3>1. CASE r \in DOMAIN runShown.rows
      BY <3>1 DEF PlanParts, RowsAreLatest
    <3>2. CASE r = runFlow.row
      BY <2>1, <3>2 DEF PlanParts, FlowPlans
    <3> QED
      BY <2>2, <3>1, <3>2
  <2> QED
    BY <1>0, <1>2, <2>1, <2>2, <2>3, <2>4, PlanFrame DEF PlanParts
<1>6. CASE StepsAdded
  <2>1. /\ UNCHANGED <<runExecs, runRef, runPhase, runCalls>> /\ runFlow.pc = "steps"
        /\ runRows' = [runRows EXCEPT ![runFlow.row].steps = Fresh]
        /\ runFlow' = [pc |-> IF runFlow.left = {} THEN "start" ELSE "device",
                       left |-> runFlow.left, row |-> 0]
        /\ runShown' = [runShown EXCEPT !.rows =
             [r \in DOMAIN @ \cup {runFlow.row} |-> IF r = runFlow.row THEN Fresh ELSE @[r]]]
    BY <1>6 DEF StepsAdded, ShowRow
  <2>2. /\ runFlow.row \in RowIds /\ runFlow.left \subseteq Devices
        /\ runShown'.exec = runShown.exec /\ runShown'.status = runShown.status
        /\ DOMAIN runShown'.rows = DOMAIN runShown.rows \cup {runFlow.row}
    BY <1>0, <2>1 DEF FlowOK, ShownOK
  <2>3. DOMAIN runRows'[runFlow.row].steps = Phases /\ RowIds' = RowIds
    BY <1>0, <2>1, <2>2, StepsRecorded
  <2>4. \A r \in RowIds : runRows'[r].exec = runRows[r].exec /\ runRows'[r].dev = runRows[r].dev
    BY <1>0 DEF RowsKept
  <2>5. PICK e \in 1..MaxExecs : runRows[runFlow.row].exec = e
    <3>1. runRows[runFlow.row] \in RowRec
      BY <1>0, <2>2 DEF TableOK, RowIds
    <3> QED
      BY <3>1 DEF RowRec
  <2>6. /\ Latest(e)
        /\ \A d \in Devices \ runFlow.left : d = runRows[runFlow.row].dev \/ DeviceReady(e, d)
    BY <2>1, <2>5 DEF PlanParts, FlowPlans
  <2>7. \A d \in Devices \ runFlow.left : DeviceReady(e, d)'
    <3>1. \A d : d = runRows[runFlow.row].dev => DeviceReady(e, d)'
      BY <2>2, <2>3, <2>4, <2>5 DEF DeviceReady, RowsOf
    <3> QED
      BY <1>2, <2>1, <2>6, <3>1
  <2>8. runFlow.left = {} => PlanReady(e)'
    BY <2>7 DEF PlanReady
  <2>9. FlowPlans'
    <3>1. \A f \in 1..MaxExecs : Latest(f)' => f = e
      BY <1>2, <2>1, <2>6, OneLatest
    <3> QED
      BY <2>1, <2>7, <2>8, <3>1 DEF FlowPlans
  <2>10. RowsAreLatest'
    BY <1>0, <1>2, <2>1, <2>2, <2>4, <2>5, <2>6 DEF PlanParts, RowsAreLatest, ShownOK
  <2> QED
    BY <1>0, <1>2, <2>1, <2>2, <2>9, <2>10, PlanFrame DEF PlanParts
<1>7. CASE StartCalled
  <2>1. /\ UNCHANGED <<runExecs, runRows, runRef, runShown, runPhase>> /\ runFlow.pc = "start"
        /\ runFlow'.pc \in {"idle", "starting"}
        /\ \/ runCalls' = runCalls
           \/ runRef # 0 /\ runCalls' = runCalls \cup {RunCall("start", runRef, 0, "none")}
    BY <1>0, <1>7 DEF StartCalled, NoFlow, FlowOK
  <2>2. FlowPlans'
    BY <2>1 DEF FlowPlans
  <2>3. runRef # 0 => runRef \in 1..MaxExecs
    BY <1>0, RunAssumption DEF TabOK
  <2>4. runRef # 0 => runExecs[runRef] # "none" /\ PlanReady(runRef)
    BY <2>1, <2>3 DEF PlanParts, RefIsLatest, FlowPlans, Latest
  <2>5. \A c : c = RunCall("start", runRef, 0, "none") /\ runRef # 0 => CallPlanned(c)'
    BY <1>2, <2>1, <2>4 DEF CallPlanned, RunCall
  <2>6. CallsPlanned'
    BY <1>0, <1>2, <2>1, <2>5, PlanFrame DEF CallsPlanned
  <2> QED
    BY <1>0, <1>2, <2>1, <2>2, <2>6, PlanFrame DEF PlanParts
<1>8. CASE FlowFails
  <2>1. UNCHANGED <<runExecs, runRows, runRef, runShown, runPhase, runCalls>> /\ runFlow'.pc = "idle"
    BY <1>8 DEF FlowFails, NoFlow
  <2>2. FlowPlans'
    BY <2>1 DEF FlowPlans
  <2> QED
    BY <1>0, <1>2, <2>1, <2>2, PlanFrame DEF PlanParts
<1> QED
  BY <1>1, <1>3, <1>4, <1>5, <1>6, <1>7, <1>8 DEF FlowStep

\* The controls: an execution shown running or paused has been started with its plan,
\* and the rows shown are its own.
LEMMA ControlPlan ==
  ASSUME MopTypes, PlanParts, Control \/ StepCalled
  PROVE  PlanParts'
<1>0. /\ TabOK /\ ExecsOK /\ TableOK /\ ShownOK /\ MopCallsOK /\ RowsKept
      /\ UNCHANGED <<runExecs, runRows, runRef, runShown, runFlow, runPhase>>
  BY ControlKeeps DEF MopTypes, Kept, Control, StepCalled
<1>1. /\ InOrder' /\ RefIsLatest' /\ RowsAreLatest' /\ LiveIsPlanned' /\ FlowPlans' /\ GotOfPhase'
      /\ RunningPlanned' /\ \A c \in runCalls : CallPlanned(c)'
  BY <1>0, SameExecs, PlanFrame
<1>2. runRef # 0
  BY DEF Control, StepCalled
<1>3. PICK e \in 1..MaxExecs : e = runRef
  BY <1>0, <1>2, RunAssumption DEF TabOK
<1>4. Latest(e) /\ runShown.exec = e /\ runExecs[e] # "none" /\ (PlanReady(e) => PlanReady(e)')
  BY <1>0, <1>3, PlansStay DEF PlanParts, RefIsLatest, Latest
<1>5. RunLive => PlanReady(e) /\ Begun(e)
  BY <1>4 DEF PlanParts, LiveIsPlanned
<1>6. CASE Control
  <2>1. PICK op \in Offered : runCalls' = runCalls \cup {RunCall(op, e, 0, "none")}
    BY <1>3, <1>6 DEF Control
  <2>2. op \in {"start", "resume", "pause"} => RunLive
    BY DEF Offered, RunLive
  <2>3. \A c : c = RunCall(op, e, 0, "none") => CallPlanned(c)'
    BY <1>0, <1>4, <1>5, <2>2 DEF CallPlanned, RunCall
  <2>4. CallsPlanned'
    BY <1>1, <2>1, <2>3 DEF CallsPlanned
  <2> QED
    BY <1>1, <2>4 DEF PlanParts
<1>7. CASE StepCalled
  <2>0. PICK r \in DOMAIN runShown.rows : \E p \in DOMAIN runShown.rows[r], op \in StepOps :
          /\ StepOffered(op, runShown.rows[r][p])
          /\ runCalls' = runCalls \cup {RunCall(op, runRef, r, p)}
    BY <1>7 DEF StepCalled
  <2>1. PICK p \in DOMAIN runShown.rows[r], op \in StepOps :
          RunLive /\ runCalls' = runCalls \cup {RunCall(op, e, r, p)}
    BY <1>3, <2>0 DEF StepOffered
  <2>2. \A f \in 1..MaxExecs : runRows[r].exec = f => f = e
    BY <1>4, OneLatest DEF PlanParts, RowsAreLatest
  <2>3. \A f \in 1..MaxExecs : runRows[r].exec = f => Begun(f)
    BY <1>5, <2>1, <2>2
  <2>4. \A c : c = RunCall(op, e, r, p) => CallPlanned(c)'
    BY <1>0, <1>4, <2>3 DEF CallPlanned, RunCall, StepOps, Begun
  <2>5. CallsPlanned'
    BY <1>1, <2>1, <2>4 DEF CallsPlanned
  <2> QED
    BY <1>1, <2>5 DEF PlanParts
<1> QED
  BY <1>6, <1>7

\* What the agent does: an execution it sets running was called upon with its plan.
LEMMA HandledPlan ==
  ASSUME MopTypes, PlanParts, NEW c \in runCalls, Handled(c)
  PROVE  PlanParts'
<1>0. /\ TabOK /\ ExecsOK /\ TableOK /\ ShownOK /\ MopCallsOK /\ CallOK(c) /\ CallPlanned(c)
      /\ RowsKept
  BY HandledKeeps DEF MopTypes, Kept, PlanParts, CallsPlanned, MopCallsOK
<1>1. UNCHANGED <<runMode, runRef, runShown, runFlow, runPhase, runLoad, runOps, runMixed>>
  BY DEF Handled
<1>2. c \in CallRec /\ c.exec \in 1..MaxExecs
  BY <1>0 DEF CallOK, CallRec
<1>3. Forward
  <2>1. CASE UNCHANGED runExecs
    BY <2>1, SameExecs
  <2>2. CASE runExecs' = [runExecs EXCEPT ![c.exec] = Outcome(c.op)]
    BY <1>0, <1>2, <2>2, OutcomeIsStatus DEF Forward, ExecsOK, CallPlanned
  <2> QED
    BY <2>1, <2>2 DEF Handled
<1>4. /\ InOrder' /\ RefIsLatest' /\ RowsAreLatest' /\ LiveIsPlanned' /\ FlowPlans' /\ GotOfPhase'
      /\ UNCHANGED runExecs => RunningPlanned'
  BY <1>0, <1>1, <1>3, PlanFrame
<1>5. \A b \in runCalls : CallPlanned(b)'
  BY <1>0, <1>3, PlanFrame
<1>6. RunningPlanned'
  <2>1. CASE /\ c.row = 0
             /\ runExecs' = [runExecs EXCEPT ![c.exec] = Outcome(c.op)]
    <3>1. \A e \in 1..MaxExecs : PlanReady(e) => PlanReady(e)'
      BY <1>0, PlansStay
    <3>2. c.op \notin StepOps
      BY <1>0, <2>1 DEF CallOK
    <3>3. Outcome(c.op) = "running" => PlanReady(c.exec)
      BY <1>0 DEF Outcome, CallPlanned
    <3>4. \A e \in 1..MaxExecs : runExecs'[e] = "running" => PlanReady(e)
      BY <1>0, <1>2, <2>1, <3>3 DEF PlanParts, RunningPlanned, ExecsOK
    <3> QED
      BY <3>1, <3>4 DEF RunningPlanned
  <2>2. CASE UNCHANGED runExecs
    BY <1>4, <2>2
  <2> QED
    BY <2>1, <2>2 DEF Handled
<1>7. ASSUME NEW pc \in {"replied", "busy"} \cup StepStatus, NEW d, d = [c EXCEPT !.pc = pc],
             pc = "replied" => runExecs' = [runExecs EXCEPT ![c.exec] = Outcome(c.op)]
      PROVE  CallPlanned(d)'
  <2>1. d.op = c.op /\ d.exec = c.exec /\ d.row = c.row /\ d.pc = pc
    BY <1>2, <1>7, CallMoves
  <2>2. CallPlanned(c)'
    BY <1>5
  <2>3. pc = "replied" => Begun(c.exec)'
    BY <1>0, <1>2, <1>7, OutcomeIsStatus DEF Begun, ExecsOK
  <2> QED
    BY <2>1, <2>2, <2>3 DEF CallPlanned
<1>8. \E pc \in {"replied", "busy"} \cup StepStatus :
        /\ runCalls' = (runCalls \ {c}) \cup {[c EXCEPT !.pc = pc]}
        /\ pc = "replied" => runExecs' = [runExecs EXCEPT ![c.exec] = Outcome(c.op)]
  BY DEF Handled, StepStatus
<1>9. CallsPlanned'
  BY <1>5, <1>7, <1>8 DEF CallsPlanned
<1> QED
  BY <1>4, <1>6, <1>9 DEF PlanParts

\* The call that saves an edited command is for a step of a row that was shown live.
LEMMA EditPlan ==
  ASSUME MopTypes, PlanParts, NEW c \in runCalls, EditSaved(c)
  PROVE  PlanParts'
<1>0. /\ TabOK /\ ExecsOK /\ TableOK /\ ShownOK /\ MopCallsOK /\ RowsKept
      /\ UNCHANGED <<runExecs, runRows, runRef, runShown, runFlow, runPhase>>
  BY EditKeeps DEF MopTypes, Kept, EditSaved
<1>1. /\ InOrder' /\ RefIsLatest' /\ RowsAreLatest' /\ LiveIsPlanned' /\ FlowPlans' /\ GotOfPhase'
      /\ RunningPlanned' /\ \A b \in runCalls : CallPlanned(b)'
  BY <1>0, SameExecs, PlanFrame
<1>2. runRef \in 1..MaxExecs /\ runExecs[runRef] # "none"
  <2>1. runRef \in 1..MaxExecs
    BY <1>0, RunAssumption DEF EditSaved, TabOK
  <2> QED
    BY <2>1 DEF PlanParts, RefIsLatest, Latest
<1>3. \A d : d = RunCall("reset", runRef, c.row, c.phase) => CallPlanned(d)'
  BY <1>0, <1>1, <1>2 DEF CallPlanned, RunCall
<1>4. CallsPlanned'
  BY <1>1, <1>3 DEF EditSaved, CallsPlanned
<1> QED
  BY <1>1, <1>4 DEF PlanParts

\* What the tab does with a reply, unless it is one about an earlier execution.
LEMMA AnswerPlan ==
  ASSUME MopTypes, PlanParts, NEW c \in runCalls, ~runMixed',
         Replied(c) \/ Cancelled(c) \/ CallFails(c)
  PROVE  PlanParts'
<1>0. /\ TabOK /\ ExecsOK /\ TableOK /\ ShownOK /\ FlowOK /\ MopCallsOK /\ CallOK(c) /\ CallPlanned(c)
      /\ RowsKept
  BY AnswerKeeps DEF MopTypes, Kept, PlanParts, CallsPlanned, MopCallsOK
<1>1. /\ UNCHANGED <<runMode, runExecs, runRows, runPhase, runLoad, runOps>>
      /\ runCalls' \subseteq runCalls
  BY DEF Replied, Cancelled, CallFails
<1>2. /\ InOrder' /\ CallsPlanned' /\ GotOfPhase' /\ RunningPlanned'
      /\ (runFlow' = runFlow => FlowPlans')
      /\ (runRef' = runRef /\ runShown'.exec = runShown.exec => RefIsLatest')
      /\ (DOMAIN runShown'.rows \subseteq DOMAIN runShown.rows => RowsAreLatest')
      /\ (runShown'.exec = runShown.exec /\ runShown'.status = runShown.status => LiveIsPlanned')
  BY <1>0, <1>1, SameExecs, PlanFrame
<1>3. FlowPlans'
  <2>1. CASE runFlow' = NoFlow
    BY <2>1 DEF FlowPlans, NoFlow
  <2> QED
    BY <1>2, <2>1 DEF Replied, Cancelled, CallFails, FlowAfter
<1>4. RefIsLatest' /\ RowsAreLatest' /\ LiveIsPlanned'
  <2>1. CASE UNCHANGED <<runRef, runShown>>
    BY <1>2, <2>1
  <2>2. CASE runRef' = 0 /\ runShown' = Blank
    <3>1. runShown'.exec = 0 /\ runShown'.status = "none" /\ DOMAIN runShown'.rows = {}
      BY <2>2, EmptySteps DEF Blank
    <3> QED
      BY <2>2, <3>1 DEF RefIsLatest, RowsAreLatest, LiveIsPlanned, RunLive
  <2>3. CASE /\ c.op \notin StepOps \cup {"cancel"} /\ c.pc = "replied"
             /\ runRef' = c.exec
             /\ runShown' = [runShown EXCEPT !.exec = c.exec, !.status = Outcome(c.op)]
             /\ runMixed' = (runMixed \/ ~Latest(c.exec))
    <3>1. PICK e \in 1..MaxExecs : e = c.exec
      BY <1>0 DEF CallOK, CallRec
    <3>2. Latest(e) /\ Latest(e)'
      BY <1>1, <2>3, <3>1, SameExecs, LatestStays
    <3>3. runShown'.exec = e /\ runShown'.status = Outcome(c.op) /\ runShown'.rows = runShown.rows
      BY <1>0, <2>3, <3>1 DEF ShownOK
    <3>4. RefIsLatest' /\ RowsAreLatest'
      BY <1>2, <2>3, <3>1, <3>2, <3>3 DEF RefIsLatest
    <3>5. Outcome(c.op) \in {"running", "paused"} => c.op \in {"start", "resume", "pause"}
      BY DEF Outcome
    <3>6. Outcome(c.op) \in {"running", "paused"} => PlanReady(e) /\ Begun(e)
      BY <1>0, <2>3, <3>1, <3>5 DEF CallPlanned
    <3>7. Outcome(c.op) \in {"running", "paused"} => PlanReady(e)' /\ Begun(e)'
      BY <1>0, <1>1, <3>6, PlansStay DEF Begun
    <3> QED
      BY <3>3, <3>4, <3>7 DEF LiveIsPlanned, RunLive
  <2>4. CASE /\ UNCHANGED runRef
             /\ runShown' = [runShown EXCEPT !.rows = ShownWith(c.row, c.phase, c.pc)]
    <3>1. /\ runShown'.exec = runShown.exec /\ runShown'.status = runShown.status
          /\ DOMAIN runShown'.rows = DOMAIN runShown.rows
      BY <1>0, <2>4 DEF ShownOK, ShownWith
    <3> QED
      BY <1>2, <2>4, <3>1
  <2> QED
    BY <2>1, <2>2, <2>3, <2>4 DEF Replied, Cancelled, CallFails, ShownWith
<1> QED
  BY <1>2, <1>3, <1>4 DEF PlanParts

\* A phase, unless the rows it brings are those of an earlier execution; "New Execution".
LEMMA PhasePlan ==
  ASSUME MopTypes, PlanParts, ~runMixed', PhaseClicked \/ PhaseStep \/ RunReset
  PROVE  PlanParts'
<1>0. TabOK /\ ExecsOK /\ TableOK /\ ShownOK /\ PhaseOK /\ RowsKept
  BY PhaseKeeps, TabKeeps DEF MopTypes, Kept
<1>1. UNCHANGED <<runExecs, runFlow, runCalls>>
  BY DEF PhaseClicked, PhaseStep, PhaseOnDevice, PhaseListed, PhaseShown, RunReset
<1>2. /\ InOrder' /\ CallsPlanned' /\ RunningPlanned' /\ FlowPlans'
      /\ (runPhase' = runPhase => GotOfPhase')
      /\ (runRef' = runRef /\ runShown'.exec = runShown.exec => RefIsLatest')
      /\ (DOMAIN runShown'.rows \subseteq DOMAIN runShown.rows => RowsAreLatest')
      /\ (runShown'.exec = runShown.exec /\ runShown'.status = runShown.status => LiveIsPlanned')
  BY <1>0, <1>1, SameExecs, PlanFrame
<1>3. ASSUME runPhase' = NoPhase PROVE GotOfPhase'
  <2>1. DOMAIN runPhase'.got = {}
    BY <1>3, EmptySteps DEF NoPhase
  <2> QED
    BY <2>1 DEF GotOfPhase
<1>4. CASE PhaseClicked
  <2>1. UNCHANGED <<runRef, runShown>> /\ runPhase'.got = NoPhase.got
    BY <1>4 DEF PhaseClicked, NoPhase
  <2>2. DOMAIN runPhase'.got = {}
    BY <2>1, EmptySteps DEF NoPhase
  <2> QED
    BY <1>2, <2>1, <2>2 DEF PlanParts, GotOfPhase
<1>5. CASE PhaseOnDevice
  <2>1. UNCHANGED <<runRef, runShown>> /\ runPhase'.got = runPhase.got /\ runPhase'.exec = runPhase.exec
    BY <1>0, <1>5 DEF PhaseOnDevice, PhaseOK
  <2>2. GotOfPhase'
    BY <1>0, <2>1 DEF PlanParts, GotOfPhase, PhaseOK, RowsKept
  <2> QED
    BY <1>2, <2>1, <2>2 DEF PlanParts
<1>6. CASE PhaseListed
  <2>1. UNCHANGED <<runRows, runRef, runShown>>
    BY <1>6 DEF PhaseListed
  <2>2. GotOfPhase'
    <3>1. CASE runPhase' = [runPhase EXCEPT !.pc = "show", !.got = Snapshot(runPhase.exec)]
      <4>1. runPhase'.got = Snapshot(runPhase.exec) /\ runPhase'.exec = runPhase.exec
        BY <1>0, <3>1 DEF PhaseOK
      <4>2. DOMAIN runPhase'.got = RowsOf(runPhase.exec)
        BY <1>0, <4>1, SnapshotType
      <4> QED
        BY <2>1, <4>1, <4>2 DEF GotOfPhase, RowsOf
    <3> QED
      BY <1>3, <1>6, <3>1 DEF PhaseListed
  <2> QED
    BY <1>2, <2>1, <2>2 DEF PlanParts
<1>7. CASE PhaseShown
  <2>1. /\ UNCHANGED <<runRows, runRef>> /\ Latest(runPhase.exec) /\ runPhase' = NoPhase
        /\ runShown'.rows = runPhase.got /\ runShown'.exec = runShown.exec
        /\ runShown'.status = runShown.status
    BY <1>0, <1>7 DEF PhaseShown, ShownOK
  <2>2. RowsAreLatest'
    <3> SUFFICES ASSUME NEW e \in 1..MaxExecs, NEW r \in DOMAIN runPhase.got, runRows[r].exec = e
                 PROVE  Latest(e)'
      BY <2>1 DEF RowsAreLatest
    <3>1. runPhase.exec = e
      BY DEF PlanParts, GotOfPhase
    <3>2. Latest(e)
      BY <1>7, <3>1 DEF PhaseShown
    <3> QED
      BY <1>1, <3>2, SameExecs, LatestStays
  <2> QED
    BY <1>2, <1>3, <2>1, <2>2 DEF PlanParts
<1>8. CASE RunReset
  <2>1. /\ UNCHANGED runPhase /\ runRef' = 0
        /\ runShown'.exec = 0 /\ runShown'.status = "none" /\ DOMAIN runShown'.rows = {}
    BY <1>8, EmptySteps DEF RunReset, Blank
  <2>2. RefIsLatest' /\ RowsAreLatest' /\ LiveIsPlanned'
    BY <2>1 DEF RefIsLatest, RowsAreLatest, LiveIsPlanned, RunLive
  <2> QED
    BY <1>2, <2>1, <2>2 DEF PlanParts
<1> QED
  BY <1>4, <1>5, <1>6, <1>7, <1>8 DEF PhaseStep

\* The tab before anything is created: also after it was closed.
EmptyTab ==
  /\ runRows = <<>> /\ runCalls = {} /\ runRef = 0 /\ runShown = Blank /\ runFlow = NoFlow
  /\ runPhase = NoPhase /\ runExecs = [e \in 1..MaxExecs |-> "none"]

LEMMA EmptyTabPlan == EmptyTab => PlanParts
<1> SUFFICES ASSUME EmptyTab PROVE PlanParts
  OBVIOUS
<1> USE DEF EmptyTab
<1>1. /\ runShown.exec = 0 /\ runShown.status = "none" /\ DOMAIN runShown.rows = {}
      /\ DOMAIN runPhase.got = {} /\ runFlow.pc = "idle"
  BY EmptySteps DEF Blank, NoPhase, NoFlow
<1>2. \A e \in 1..MaxExecs : runExecs[e] = "none"
  OBVIOUS
<1>3. InOrder /\ RefIsLatest /\ RowsAreLatest /\ LiveIsPlanned
  BY <1>1, <1>2 DEF InOrder, RefIsLatest, RowsAreLatest, LiveIsPlanned, RunLive
<1>4. CallsPlanned /\ FlowPlans /\ GotOfPhase /\ RunningPlanned
  BY <1>1, <1>2 DEF CallsPlanned, FlowPlans, GotOfPhase, RunningPlanned
<1> QED
  BY <1>3, <1>4 DEF PlanParts

LEMMA PlanInit == RunInit => PlanInv
BY EmptyTabPlan DEF RunInit, PlanInv, EmptyTab

LEMMA PlanStep == MopTypes /\ PlanInv /\ [RunNext]_runVars => PlanInv'
<1> SUFFICES ASSUME MopTypes, PlanInv, [RunNext]_runVars, OneExecution' PROVE PlanParts'
  BY DEF PlanInv
<1>0. TabOK /\ ~runMixed' /\ runLoad'.exec = 0 /\ runMixed \in BOOLEAN
  BY DEF MopTypes, OneExecution, TabOK
<1>1. CASE CloseTab
  <2>1. EmptyTab'
    BY <1>1 DEF CloseTab, Quiet, EmptyTab
  <2> QED
    BY <2>1, EmptyTabPlan, PTL
<1>2. CASE StartFlow \/ FlowStep \/ Control \/ StepCalled
  <2>1. UNCHANGED <<runLoad, runMixed>>
    BY <1>2 DEF StartFlow, FlowStep, Created, DeviceAdded, DeviceShown, StepsAdded, StartCalled,
                FlowFails, Control, StepCalled
  <2>2. PlanParts
    BY <1>0, <2>1 DEF PlanInv, OneExecution
  <2> QED
    BY <1>2, <2>2, FlowPlan, ControlPlan
<1>3. CASE \E op \in Ops : CallStep(op)
  <2>1. PICK c \in runCalls :
          Handled(c) \/ Replied(c) \/ EditSaved(c) \/ Cancelled(c) \/ CallFails(c)
    BY <1>3 DEF CallStep
  <2>2. runLoad' = runLoad /\ (runMixed => runMixed')
    BY <1>0, <2>1 DEF Handled, Replied, EditSaved, Cancelled, CallFails
  <2>3. PlanParts
    BY <1>0, <2>2 DEF PlanInv, OneExecution
  <2> QED
    BY <1>0, <2>1, <2>3, HandledPlan, EditPlan, AnswerPlan
<1>4. CASE PhaseClicked \/ PhaseStep \/ RunReset
  <2>1. runLoad' = runLoad /\ (runMixed => runMixed')
    BY <1>0, <1>4 DEF PhaseClicked, PhaseStep, PhaseOnDevice, PhaseListed, PhaseShown, RunReset
  <2>2. PlanParts
    BY <1>0, <2>1 DEF PlanInv, OneExecution
  <2> QED
    BY <1>0, <1>4, <2>2, PhasePlan
\* A tab opened on an execution stays one.
<1>5. CASE Reopen
  <2>1. runLoad'.exec # 0
    BY <1>5, RunAssumption DEF Reopen
  <2> QED
    BY <1>0, <2>1
<1>6. CASE LoadStep
  <2>1. runLoad.exec # 0 /\ runLoad'.exec = runLoad.exec
    BY <1>0, <1>6 DEF LoadStep, LoadedExecution, LoadedRows, LoadFails, TabOK, NoLoad
  <2> QED
    BY <1>0, <2>1
<1>7. CASE UNCHANGED runVars
  <2>1. PlanParts
    BY <1>0, <1>7 DEF PlanInv, OneExecution
  <2>2. /\ InOrder' /\ RefIsLatest' /\ RowsAreLatest' /\ LiveIsPlanned' /\ CallsPlanned' /\ FlowPlans'
        /\ GotOfPhase' /\ RunningPlanned'
    <3>1. TableOK /\ UNCHANGED runExecs
      BY <1>7 DEF MopTypes
    <3>2. RowsKept
      BY <1>7, <3>1, NoRowChanges
    <3> QED
      BY <1>7, <2>1, <3>1, <3>2, SameExecs, PlanFrame
  <2> QED
    BY <2>2 DEF PlanParts
<1> QED
  BY <1>1, <1>2, <1>3, <1>4, <1>5, <1>6, <1>7 DEF RunNext

LEMMA PlanAlways == RunSpec => [](MopTypes /\ PlanInv)
<1>1. RunInit => MopTypes /\ PlanInv
  BY MopInitType, PlanInit
<1>2. MopTypes /\ PlanInv /\ [RunNext]_runVars => MopTypes' /\ PlanInv'
  BY MopTypeStep, PlanStep
<1> QED
  BY <1>1, <1>2, PTL DEF RunSpec

\* In a tab opened on its plan that is given no late reply, whatever controls come
\* between the awaits of startExecutionFlow, a running execution has every device that
\* was selected with the steps of its plan: for any number of them.
THEOREM RunningWithItsPlan == RunSpec => []RunningHasItsPlan
BY PlanAlways, PlansSuffice, PTL

\* A row of an execution that was not started has its steps as they were added, unless
\* a phase is on its way to it: whoever calls for a step of it has seen the start.
LEMMA PendingRowsStay ==
  ASSUME MopTypes, PlanInv, [RunNext]_runVars, OneExecution,
         NEW r \in RowIds, r \in RowIds', runExecs[runRows[r].exec] = "pending",
         runRows'[r].steps \notin {runRows[r].steps, Fresh}
  PROVE  r \in runPhase.left
<1>0. TableOK /\ MopCallsOK /\ PlanParts /\ r \in 1..Len(runRows)
  BY DEF MopTypes, PlanInv, TableOK, RowIds
<1>1. /\ runRows \in [1..Len(runRows) -> RowRec] /\ runRows[r] \in RowRec
      /\ runRows[r].exec \in 1..MaxExecs
  <2>1. runRows \in [1..Len(runRows) -> RowRec]
    BY <1>0 DEF TableOK
  <2>2. runRows[r] \in RowRec
    BY <1>0, <2>1
  <2> QED
    BY <2>1, <2>2 DEF RowRec
<1>2. CASE UNCHANGED runRows
  BY <1>2
<1>3. CASE DeviceAdded
  <2>1. PICK new : runRows' = Append(runRows, new)
    BY <1>3 DEF DeviceAdded
  <2>2. runRows'[r] = runRows[r]
    BY <1>0, <2>1 DEF TableOK
  <2> QED
    BY <2>2
<1>4. CASE StepsAdded
  <2>1. runRows' = [runRows EXCEPT ![runFlow.row].steps = Fresh]
    BY <1>4 DEF StepsAdded
  <2> QED
    BY <1>0, <1>1, <2>1 DEF RowRec
<1>5. ASSUME NEW q, NEW p, NEW s, runRows' = [runRows EXCEPT ![q].steps[p] = s]
      PROVE  r = q
  <2> DEFINE changed == [runRows[q] EXCEPT !.steps[p] = s]
  <2>1. runRows' = [runRows EXCEPT ![q] = changed]
    BY <1>5
  <2> HIDE DEF changed
  <2>2. r # q => runRows'[r] = runRows[r]
    BY <1>0, <1>1, <2>1
  <2> QED
    BY <2>2
<1>6. CASE \E op \in Ops : CallStep(op)
  <2>1. PICK c \in runCalls : Handled(c)
    BY <1>2, <1>6 DEF CallStep, Replied, EditSaved, Cancelled, CallFails
  <2>2. r = c.row /\ c.op \in StepOps
    <3>1. PICK s \in {"running", "passed", "failed", "skipped", "pending"} :
            /\ runRows' = [runRows EXCEPT ![c.row].steps[c.phase] = s]
            /\ c.op \in StepOps
      BY <1>2, <2>1 DEF Handled, StepOps
    <3> QED
      BY <1>5, <3>1
  <2>3. CallPlanned(c) /\ c.row # 0
    BY <1>0, <2>2 DEF MopCallsOK, CallOK, PlanParts, CallsPlanned, RowIds
  <2> QED
    BY <1>1, <2>2, <2>3 DEF CallPlanned, Begun
<1>7. CASE PhaseOnDevice
  <2>1. PICK q \in runPhase.left, s \in {"passed", "failed"} :
          runRows' = [runRows EXCEPT ![q].steps[runPhase.phase] = s]
    BY <1>2, <1>7 DEF PhaseOnDevice
  <2> QED
    BY <1>5, <2>1
<1>8. CASE CloseTab
  BY <1>8 DEF CloseTab, RowIds
<1> QED
  <2>1. CASE \/ StartFlow \/ FlowStep \/ Control \/ StepCalled \/ RunReset
             \/ PhaseClicked \/ PhaseStep \/ Reopen \/ LoadStep
    <3>1. \/ UNCHANGED runRows \/ DeviceAdded \/ StepsAdded \/ PhaseOnDevice
      BY <2>1
      DEF StartFlow, FlowStep, Created, DeviceShown, StartCalled, FlowFails, Control, StepCalled,
          RunReset, PhaseClicked, PhaseStep, PhaseListed, PhaseShown, Reopen, LoadStep,
          LoadedExecution, LoadedRows, LoadFails
    <3> QED
      BY <1>2, <1>3, <1>4, <1>7, <3>1
  <2>2. CASE UNCHANGED runVars
    BY <1>2, <2>2 DEF runVars
  <2> QED
    BY <1>6, <1>8, <2>1, <2>2 DEF RunNext

\* In such a tab nothing but a phase button has the agent run, skip or reset a step of
\* an execution that was not started, for any number of devices, calls and edits.
THEOREM OnlyPhasesRunBeforeTheStart == RunSpec => OnlyPhasesRunAhead
<1>1. MopTypes /\ PlanInv /\ [RunNext]_runVars =>
        [\A r \in RowIds \cap RowIds' :
           /\ OneExecution /\ runExecs[runRows[r].exec] = "pending"
           /\ runRows'[r].steps \notin {runRows[r].steps, Fresh}
           => r \in runPhase.left]_runVars
  BY PendingRowsStay
<1> QED
  BY <1>1, PlanAlways, PTL DEF RunSpec, OnlyPhasesRunAhead

(***************************************************************************)
(* AI tasks and executions side by side.                                   *)
(***************************************************************************)
\* A step of the whole is one of each component, or leaves it as it is.
LEMMA PartsStep == [PartsNext]_partVars => [Next]_vars /\ [RunNext]_runVars
BY DEF PartsNext, partVars

\* What runs side by side is a behaviour of each component, so that the theorems about
\* them hold of the run that checks them together.
LEMMA PartsAreBehaviours == PartsSpec => Spec /\ RunSpec
<1>1. PartsInit => Init /\ RunInit
  BY DEF PartsInit
<1> QED
  BY <1>1, PartsStep, PTL DEF PartsSpec, Spec, RunSpec

\* The states of the tasks with their runners and of an execution with its calls are of
\* their types.
THEOREM TypesAreCorrect == PartsSpec => []TypesOK
BY PartsAreBehaviours, TypeCorrect, RunTypes, PTL DEF TypesOK
=============================================================================

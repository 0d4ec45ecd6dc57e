------------------------------- MODULE MopRun -------------------------------
(***************************************************************************)
(* The execution of a method of procedure as the workspace drives it: the  *)
(* start flow (create, add devices, clone steps, start), the controls of   *)
(* an execution, the steps run one by one or a phase at a time, and the    *)
(* agent's tables, which take every write as it comes.  Nothing disables a *)
(* control while another call is in flight, and every reply is applied     *)
(* when it arrives.                                                        *)
(***************************************************************************)
EXTENDS Integers, Sequences, FiniteSets

CONSTANTS NDevices,      \* the devices selected for the run, in their order
          Phases,        \* the phases of the plan that have a step
          MaxExecs,      \* bound: executions created before the workspace is closed
          MaxRows,       \* bound: device rows in the agent's table
          MaxCalls,      \* bound: calls of the controls in flight
          MaxStepOps     \* bound: steps run, skipped or reset

ASSUME RunAssumption ==
  /\ Phases # {}
  /\ {NDevices, MaxExecs, MaxRows, MaxCalls, MaxStepOps} \subseteq Nat \ {0}

Devices == 1..NDevices

VARIABLES runMode,     \* controlMode, chosen before the start
          runExecs,    \* the agent: status of each execution
          runRows,     \* the agent: the device rows with the status of their steps
          runRef,      \* execRef.current, 0 for null
          runShown,    \* the state React shows: execution, its status, the rows
          runFlow,     \* startExecutionFlow
          runPhase,    \* handleRunPhase and runPhase
          runCalls,    \* calls of the controls in flight, and the command being edited
          runLoad,     \* the execution the tab was opened on, 0 for none, and its load
          runOps,      \* phases run, steps run, skipped or reset, for MaxStepOps
          runMixed     \* ghost: the tab was given a reply about an execution after
                       \* a later one had been created

runVars == <<runMode, runExecs, runRows, runRef, runShown, runFlow, runPhase,
             runCalls, runLoad, runOps, runMixed>>

Modes == {"manual", "auto_run"}
RunTerminal == {"complete", "aborted"}
ExecStatus == {"none", "pending", "running", "paused"} \cup RunTerminal
StepStatus == {"pending", "running", "passed", "failed", "skipped"}
NoSteps == [p \in {} |-> "pending"]
Fresh == [p \in Phases |-> "pending"]
Blank == [exec |-> 0, status |-> "none", rows |-> [r \in {} |-> NoSteps]]
NoFlow == [pc |-> "idle", left |-> {}, row |-> 0]
NoPhase == [pc |-> "idle", exec |-> 0, phase |-> "none", left |-> {}, got |-> Blank.rows]
NoLoad == [pc |-> "idle", exec |-> 0, status |-> "none"]

StepOps == {"run", "skip", "reset", "edit"}
Ops == StepOps \cup {"start", "pause", "resume", "abort", "complete", "cancel"}
Steps == [{} -> StepStatus] \cup [Phases -> StepStatus]
RunCall(op, exec, row, phase) == [op |-> op, exec |-> exec, row |-> row, phase |-> phase, pc |-> "sent"]

RowIds == DOMAIN runRows
RowsOf(e) == {r \in RowIds : runRows[r].exec = e}
Snapshot(e) == [r \in RowsOf(e) |-> runRows[r].steps]
Latest(e) == runExecs[e] # "none" /\ \A f \in (e + 1)..MaxExecs : runExecs[f] = "none"

RunInit ==
  /\ runMode = "manual"
  /\ runExecs = [e \in 1..MaxExecs |-> "none"]
  /\ runRows = <<>>
  /\ runRef = 0 /\ runShown = Blank
  /\ runFlow = NoFlow /\ runPhase = NoPhase
  /\ runCalls = {} /\ runLoad = NoLoad /\ runOps = 0
  /\ runMixed = FALSE

(***************************************************************************)
(* The start flow.  Each await reads execRef again when it resumes.        *)
(***************************************************************************)
StartFlow ==
  /\ runShown.exec = 0 /\ runFlow.pc = "idle"
  /\ runMode' \in Modes
  /\ runFlow' = [NoFlow EXCEPT !.pc = "create"]
  /\ UNCHANGED <<runExecs, runRows, runRef, runShown, runPhase, runCalls, runLoad, runOps, runMixed>>

Created ==
  /\ runFlow.pc = "create"
  /\ \E e \in 1..MaxExecs :
       /\ runExecs[e] = "none" /\ \A f \in 1..(e - 1) : runExecs[f] # "none"
       /\ runExecs' = [runExecs EXCEPT ![e] = "pending"]
       /\ runRef' = e
       /\ runShown' = [Blank EXCEPT !.exec = e, !.status = "pending"]
  /\ runFlow' = [pc |-> "device", left |-> Devices, row |-> 0]
  /\ UNCHANGED <<runMode, runRows, runPhase, runCalls, runLoad, runOps, runMixed>>

\* addExecutionDevice: the row belongs to the execution execRef holds when the
\* call is made; the reply is shown whatever is shown by then.
DeviceAdded ==
  /\ runFlow.pc = "device" /\ runRef # 0 /\ Len(runRows) < MaxRows
  /\ \E d \in runFlow.left :
       /\ \A f \in runFlow.left : d <= f
       /\ runRows' = Append(runRows, [exec |-> runRef, dev |-> d, steps |-> NoSteps])
       /\ runFlow' = [pc |-> "shown", left |-> runFlow.left \ {d}, row |-> Len(runRows')]
  /\ UNCHANGED <<runMode, runExecs, runRef, runShown, runPhase, runCalls, runLoad, runOps, runMixed>>

ShowRow(row, steps) ==
  runShown' = [runShown EXCEPT !.rows =
     [r \in DOMAIN @ \cup {row} |-> IF r = row THEN steps ELSE @[r]]]

DeviceShown ==
  /\ runFlow.pc = "shown"
  /\ ShowRow(runFlow.row, NoSteps)
  /\ runFlow' = [runFlow EXCEPT !.pc = "steps"]
  /\ UNCHANGED <<runMode, runExecs, runRows, runRef, runPhase, runCalls, runLoad, runOps, runMixed>>

\* addExecutionSteps and its reply: the steps of the plan, all pending.
StepsAdded ==
  /\ runFlow.pc = "steps" /\ runRef # 0
  /\ runRows' = [runRows EXCEPT ![runFlow.row].steps = Fresh]
  /\ ShowRow(runFlow.row, Fresh)
  /\ runFlow' = [pc |-> IF runFlow.left = {} THEN "start" ELSE "device",
                 left |-> runFlow.left, row |-> 0]
  /\ UNCHANGED <<runMode, runExecs, runRef, runPhase, runCalls, runLoad, runOps, runMixed>>

\* startExecution; without an execution it returns and the flow ends as well.
StartCalled ==
  /\ runFlow.pc = "start"
  /\ IF runRef = 0
     THEN runFlow' = NoFlow /\ UNCHANGED runCalls
     ELSE /\ runFlow' = [runFlow EXCEPT !.pc = "starting"]
          /\ runCalls' = runCalls \cup {RunCall("start", runRef, 0, "none")}
  /\ UNCHANGED <<runMode, runExecs, runRows, runRef, runShown, runPhase, runLoad, runOps, runMixed>>

\* Mutant of FlowFails: a device that fails is left out and the run started.
FlowGoesOnMutant ==
  /\ runFlow.pc \in {"device", "steps"}
  /\ runFlow' = [NoFlow EXCEPT !.pc = "start"]
  /\ UNCHANGED <<runMode, runExecs, runRows, runRef, runShown, runPhase, runCalls, runLoad, runOps, runMixed>>

\* A call of the flow fails, or throws "No execution loaded": the catch ends it.
FlowFails ==
  /\ runFlow.pc \in {"create", "device", "steps"}
  /\ runFlow' = NoFlow
  /\ UNCHANGED <<runMode, runExecs, runRows, runRef, runShown, runPhase, runCalls, runLoad, runOps, runMixed>>

(***************************************************************************)
(* The controls of an execution and of its steps.                          *)
(***************************************************************************)
RunFinished == runShown.status \in RunTerminal
AllDone ==
  /\ \E r \in DOMAIN runShown.rows : runShown.rows[r] # NoSteps
  /\ \A r \in DOMAIN runShown.rows : \A p \in DOMAIN runShown.rows[r] :
       runShown.rows[r][p] \in {"passed", "skipped"}

\* The controls the tab offers in the state it shows.
Offered ==
  IF runShown.exec = 0 \/ RunFinished THEN {}
  ELSE {"cancel", "abort"}
       \cup (IF AllDone THEN {"complete"}
             ELSE IF runShown.status = "running" THEN {"pause"}
             ELSE IF runShown.status = "paused" THEN {"resume"} ELSE {})

Outcome(op) == CASE op = "pause" -> "paused" [] op = "complete" -> "complete"
                 [] op \in {"start", "resume"} -> "running" [] OTHER -> "aborted"

Control ==
  /\ Cardinality(runCalls) < MaxCalls /\ runRef # 0
  /\ \E op \in Offered : runCalls' = runCalls \cup {RunCall(op, runRef, 0, "none")}
  /\ UNCHANGED <<runMode, runExecs, runRows, runRef, runShown, runFlow, runPhase, runLoad, runOps, runMixed>>

\* What the buttons of a step offer for the status it is shown with.
RunLive == runShown.status \in {"running", "paused"}
\* Mutant of StepOffered: the buttons go by the status of the step alone.
StepAlwaysOfferedMutant(op, status) ==
  \/ op = "run" /\ (status = "failed" \/ (status = "pending" /\ runMode = "manual"))
  \/ op = "skip" /\ status \in {"pending", "failed"}
  \/ op = "reset" /\ status = "skipped"
  \/ op = "edit" /\ status = "pending"

StepOffered(op, status) ==
  /\ RunLive
  /\ \/ op = "run" /\ (status = "failed" \/ (status = "pending" /\ runMode = "manual"))
     \/ op = "skip" /\ status \in {"pending", "failed"}
     \/ op = "reset" /\ status = "skipped"
     \/ op = "edit" /\ status = "pending"

\* execRef is only checked to be there: the agent goes by the id of the step.
StepCalled ==
  /\ runRef # 0 /\ Cardinality(runCalls) < MaxCalls /\ runOps < MaxStepOps
  /\ \E r \in DOMAIN runShown.rows : \E p \in DOMAIN runShown.rows[r], op \in StepOps :
       /\ StepOffered(op, runShown.rows[r][p])
       /\ op = "edit" => \A c \in runCalls : c.op # "edit"
       /\ runCalls' = runCalls \cup {RunCall(op, runRef, r, p)}
  /\ runOps' = runOps + 1
  /\ UNCHANGED <<runMode, runExecs, runRows, runRef, runShown, runFlow, runPhase, runLoad, runMixed>>

\* The agent writes the status of the execution or of the step, whatever it was.
Handled(c) ==
    \/ /\ c.row = 0 /\ c.pc = "sent"
       /\ runExecs' = [runExecs EXCEPT ![c.exec] = Outcome(c.op)]
       /\ runCalls' = (runCalls \ {c}) \cup {[c EXCEPT !.pc = "replied"]}
       /\ UNCHANGED <<runMode, runRows, runRef, runShown, runFlow, runPhase, runLoad, runOps, runMixed>>
    \/ /\ c.op = "run" /\ c.pc = "sent"
       /\ runRows' = [runRows EXCEPT ![c.row].steps[c.phase] = "running"]
       /\ runCalls' = (runCalls \ {c}) \cup {[c EXCEPT !.pc = "busy"]}
       /\ UNCHANGED <<runMode, runExecs, runRef, runShown, runFlow, runPhase, runLoad, runOps, runMixed>>
    \/ /\ c.op = "run" /\ c.pc = "busy"
       /\ \E s \in {"passed", "failed"} :
            /\ runRows' = [runRows EXCEPT ![c.row].steps[c.phase] = s]
            /\ runCalls' = (runCalls \ {c}) \cup {[c EXCEPT !.pc = s]}
       /\ UNCHANGED <<runMode, runExecs, runRef, runShown, runFlow, runPhase, runLoad, runOps, runMixed>>
    \/ /\ c.op \in {"skip", "reset"} /\ c.pc = "sent"
       /\ LET s == IF c.op = "skip" THEN "skipped" ELSE "pending" IN
            /\ runRows' = [runRows EXCEPT ![c.row].steps[c.phase] = s]
            /\ runCalls' = (runCalls \ {c}) \cup {[c EXCEPT !.pc = s]}
       /\ UNCHANGED <<runMode, runExecs, runRef, runShown, runFlow, runPhase, runLoad, runOps, runMixed>>

FlowAfter(c) == IF c.op = "start" THEN NoFlow ELSE runFlow

\* The reply to a control goes to execRef and to the state; the reply to a step
\* replaces that step wherever it is shown.
Replied(c) ==
    /\ \/ /\ c.op \notin StepOps \cup {"cancel"} /\ c.pc = "replied"
          /\ runRef' = c.exec
          /\ runShown' = [runShown EXCEPT !.exec = c.exec, !.status = Outcome(c.op)]
          /\ runMixed' = (runMixed \/ ~Latest(c.exec))
       \/ /\ c.op \in StepOps /\ c.pc \notin {"sent", "busy"}
          /\ runShown' = [runShown EXCEPT !.rows =
               [r \in DOMAIN @ |-> IF r = c.row /\ c.phase \in DOMAIN @[r]
                                   THEN [@[r] EXCEPT ![c.phase] = c.pc] ELSE @[r]]]
          /\ UNCHANGED <<runRef, runMixed>>
    /\ runCalls' = runCalls \ {c}
    /\ runFlow' = FlowAfter(c)
    /\ UNCHANGED <<runMode, runExecs, runRows, runPhase, runLoad, runOps>>

\* cancelExecution clears the state, also when its abort has failed.
Cancelled(c) ==
    /\ c.op = "cancel"
    /\ runRef' = 0 /\ runShown' = Blank
    /\ runCalls' = runCalls \ {c}
    /\ UNCHANGED <<runMode, runExecs, runRows, runFlow, runPhase, runLoad, runOps, runMixed>>

CallFails(c) ==
    /\ c.op # "cancel"
    /\ runCalls' = runCalls \ {c}
    /\ runFlow' = FlowAfter(c)
    /\ UNCHANGED <<runMode, runExecs, runRows, runRef, runShown, runPhase, runLoad, runOps, runMixed>>

\* "New Execution": resetExecution.
RunReset ==
  /\ runShown.exec # 0 /\ RunFinished
  /\ runRef' = 0 /\ runShown' = Blank
  /\ UNCHANGED <<runMode, runExecs, runRows, runFlow, runPhase, runCalls, runLoad, runOps, runMixed>>

\* handleSaveEditStep, when the input of a command is left, whatever became of the
\* step since: the step is made pending, as by a reset.  (Escape is CallFails.)
EditSaved(c) ==
    /\ c.op = "edit" /\ runRef # 0 /\ c.row \in DOMAIN runShown.rows
    /\ runCalls' = (runCalls \ {c}) \cup {RunCall("reset", runRef, c.row, c.phase)}
    /\ UNCHANGED <<runMode, runExecs, runRows, runRef, runShown, runFlow, runPhase, runLoad, runOps, runMixed>>

(***************************************************************************)
(* A phase on every device the click saw, one call after the other; nothing *)
(* in between looks at the execution again.                                 *)
(***************************************************************************)
PhaseClicked ==
  /\ runMode = "auto_run" /\ runPhase.pc = "idle" /\ runOps < MaxStepOps
  /\ runShown.exec # 0 /\ ~RunFinished /\ runRef # 0
  /\ \E p \in Phases :
       runPhase' = [NoPhase EXCEPT !.pc = "run", !.exec = runRef, !.phase = p,
                                   !.left = DOMAIN runShown.rows]
  /\ runOps' = runOps + 1
  /\ UNCHANGED <<runMode, runExecs, runRows, runRef, runShown, runFlow, runCalls, runLoad, runMixed>>

NextDevice(r) == r \in runPhase.left /\ \A q \in runPhase.left : r <= q

\* Mutant of PhaseOnDevice: a device that fails is tried again.
PhaseRetriesMutant ==
  /\ runPhase.pc = "run"
  /\ \E r \in runPhase.left :
       /\ NextDevice(r)
       /\ \/ UNCHANGED <<runRows, runPhase, runMixed>>
          \/ /\ runPhase.phase \in DOMAIN runRows[r].steps
             /\ runRows' = [runRows EXCEPT ![r].steps[runPhase.phase] = "passed"]
             /\ runPhase' = [runPhase EXCEPT !.left = @ \ {r}]
  /\ UNCHANGED <<runMode, runExecs, runRef, runShown, runFlow, runCalls, runLoad, runOps, runMixed>>

\* executeDevicePhase runs every step of the phase again, or fails and is logged.
PhaseOnDevice ==
  /\ runPhase.pc = "run"
  /\ \E r \in runPhase.left :
       /\ NextDevice(r)
       /\ \/ UNCHANGED runRows
          \/ /\ runPhase.phase \in DOMAIN runRows[r].steps
             /\ \E s \in {"passed", "failed"} :
                  runRows' = [runRows EXCEPT ![r].steps[runPhase.phase] = s]
       /\ runPhase' = [runPhase EXCEPT !.left = @ \ {r}]
  /\ UNCHANGED <<runMode, runExecs, runRef, runShown, runFlow, runCalls, runLoad, runOps, runMixed>>

\* The rows are listed again (a failure is logged) and then shown.
PhaseListed ==
  /\ runPhase.pc = "run" /\ runPhase.left = {}
  /\ \/ runPhase' = NoPhase
     \/ runPhase' = [runPhase EXCEPT !.pc = "show", !.got = Snapshot(runPhase.exec)]
  /\ UNCHANGED <<runMode, runExecs, runRows, runRef, runShown, runFlow, runCalls, runLoad, runOps, runMixed>>

PhaseShown ==
  /\ runPhase.pc = "show"
  /\ runShown' = [runShown EXCEPT !.rows = runPhase.got]
  /\ runPhase' = NoPhase
  /\ runMixed' = (runMixed \/ ~Latest(runPhase.exec))
  /\ UNCHANGED <<runMode, runExecs, runRows, runRef, runFlow, runCalls, runLoad, runOps>>

(***************************************************************************)
(* The tab is closed and opened again.                                     *)
(***************************************************************************)
Quiet == runFlow = NoFlow /\ runPhase = NoPhase /\ runCalls = {} /\ runLoad.pc = "idle"

\* Mutant of CloseTab: the rows shown stay.
CloseTabKeepsRowsMutant ==
  /\ Quiet /\ \E e \in 1..MaxExecs : runExecs[e] # "none"
  /\ runMode' = "manual"
  /\ runExecs' = [e \in 1..MaxExecs |-> "none"]
  /\ runRows' = <<>> /\ runRef' = 0 /\ runShown' = [Blank EXCEPT !.rows = runShown.rows]
  /\ runLoad' = NoLoad /\ runOps' = 0 /\ runMixed' = FALSE
  /\ UNCHANGED <<runFlow, runPhase, runCalls>>

\* On another plan: none of this one's executions is looked at again.
CloseTab ==
  /\ Quiet /\ \E e \in 1..MaxExecs : runExecs[e] # "none"
  /\ runMode' = "manual"
  /\ runExecs' = [e \in 1..MaxExecs |-> "none"]
  /\ runRows' = <<>> /\ runRef' = 0 /\ runShown' = Blank
  /\ runLoad' = NoLoad /\ runOps' = 0 /\ runMixed' = FALSE
  /\ UNCHANGED <<runFlow, runPhase, runCalls>>

\* On an execution of this plan.
Reopen ==
  /\ Quiet
  /\ \E e \in 1..MaxExecs :
       /\ runExecs[e] # "none"
       /\ runLoad' = [pc |-> "execution", exec |-> e, status |-> "none"]
  /\ runMode' = "manual" /\ runRef' = 0 /\ runShown' = Blank
  /\ UNCHANGED <<runExecs, runRows, runFlow, runPhase, runCalls, runOps, runMixed>>

LoadedExecution ==
  /\ runLoad.pc = "execution"
  /\ runRef' = runLoad.exec
  /\ runLoad' = [runLoad EXCEPT !.pc = "rows", !.status = runExecs[runLoad.exec]]
  /\ UNCHANGED <<runMode, runExecs, runRows, runShown, runFlow, runPhase, runCalls, runOps, runMixed>>

LoadedRows ==
  /\ runLoad.pc = "rows"
  /\ runShown' = [exec |-> runLoad.exec, status |-> runLoad.status, rows |-> Snapshot(runLoad.exec)]
  /\ runLoad' = [NoLoad EXCEPT !.exec = runLoad.exec]
  /\ UNCHANGED <<runMode, runExecs, runRows, runRef, runFlow, runPhase, runCalls, runOps, runMixed>>

LoadFails ==
  /\ runLoad.pc # "idle"
  /\ runLoad' = [NoLoad EXCEPT !.exec = runLoad.exec]
  /\ UNCHANGED <<runMode, runExecs, runRows, runRef, runShown, runFlow, runPhase, runCalls, runOps, runMixed>>

FlowStep == Created \/ DeviceAdded \/ DeviceShown \/ StepsAdded \/ StartCalled \/ FlowFails
CallStep(op) ==
  \E c \in runCalls : c.op = op /\ (Handled(c) \/ Replied(c) \/ EditSaved(c) \/ Cancelled(c) \/ CallFails(c))
PhaseStep == PhaseOnDevice \/ PhaseListed \/ PhaseShown
LoadStep == LoadedExecution \/ LoadedRows \/ LoadFails
RunNext ==
  \/ StartFlow \/ FlowStep \/ Control \/ StepCalled \/ (\E op \in Ops : CallStep(op)) \/ RunReset
  \/ PhaseClicked \/ PhaseStep \/ CloseTab \/ Reopen \/ LoadStep

RunSpec == RunInit /\ [][RunNext]_runVars

\* Every request is answered or times out: the awaits of the flow, its call of
\* start among them, and of a phase resume.
RunFairness == WF_runVars(FlowStep) /\ WF_runVars(CallStep("start")) /\ WF_runVars(PhaseStep)

----------------------------------------------------------------------------
\* Type invariant.
RunTypeOK ==
  /\ runMode \in Modes
  /\ runExecs \in [1..MaxExecs -> ExecStatus]
  /\ runRows \in Seq([exec : 1..MaxExecs, dev : Devices, steps : Steps]) /\ Len(runRows) <= MaxRows
  /\ runRef \in 0..MaxExecs
  /\ runShown.exec \in 0..MaxExecs /\ runShown.status \in ExecStatus
  /\ DOMAIN runShown.rows \subseteq RowIds /\ \A r \in DOMAIN runShown.rows : runShown.rows[r] \in Steps
  /\ runFlow.left \subseteq Devices /\ runFlow.row \in {0} \cup RowIds
  /\ runPhase.exec \in 0..MaxExecs /\ runPhase.left \subseteq RowIds
  /\ DOMAIN runPhase.got \subseteq RowIds
  /\ \A c \in runCalls : c.exec \in 1..MaxExecs /\ c.row \in {0} \cup RowIds
  /\ runLoad.exec \in 0..MaxExecs /\ runOps \in 0..MaxStepOps /\ runMixed \in BOOLEAN

\* In a tab opened on its plan that is given no late reply about an earlier
\* execution: whatever controls come between the awaits of the start flow, the
\* agent never has an execution running that lacks a device the user selected or
\* the steps of its plan.  (A load, or such a reply, may redirect the flow to
\* another execution half-way.)
OneExecution == runLoad.exec = 0 /\ ~runMixed
RunningHasItsPlan ==
  OneExecution => \A e \in 1..MaxExecs : runExecs[e] = "running" =>
    \A d \in Devices : \E r \in RowsOf(e) :
      runRows[r].dev = d /\ DOMAIN runRows[r].steps = Phases

\* In such a tab the agent does nothing to a step of an execution that was not started
\* but add it, except for a phase button, which is offered before the start and works
\* on the rows the click saw.  The buttons of a step go by the status shown, the rows
\* shown may be older than it, and the agent goes by the id of the step alone.
OnlyPhasesRunAhead ==
  [][\A r \in RowIds \cap RowIds' :
       /\ OneExecution /\ runExecs[runRows[r].exec] = "pending"
       /\ runRows'[r].steps \notin {runRows[r].steps, Fresh}
       => r \in runPhase.left]_runVars

\* "Starting..." and "Running..." do not stay for ever, whatever fails: the start flow
\* and a phase on its devices come to their ends.
RunsEnd ==
  /\ (runFlow.pc # "idle") ~> (runFlow.pc = "idle")
  /\ (runPhase.pc # "idle") ~> (runPhase.pc = "idle")
=============================================================================

----------------------------- MODULE AgentTasks -----------------------------
(***************************************************************************)
(* The agent's background AI tasks: the task table (store.rs), the         *)
(* admission semaphore and the handle registry (registry.rs), the spawned  *)
(* runner with its ReAct loop (executor.rs, react.rs), the tool-approval   *)
(* service (approvals.rs) and the REST / WebSocket requests that create,   *)
(* cancel, delete and approve (api.rs, ws.rs).                             *)
(*                                                                         *)
(* One action is one stretch of code between two suspension points: every  *)
(* .await on the database, the AI provider, a tool, a lock or a channel    *)
(* lets other tokio tasks run.  Store.update_task is three statements      *)
(* (SELECT, UPDATE, SELECT) and is modelled as three steps.                *)
(***************************************************************************)
EXTENDS Naturals, Sequences, FiniteSets, SequencesExt

CONSTANTS
  Tasks,            \* task ids (UUIDs: one is never reused)
  Clients,          \* concurrent cancel / delete requests
  MaxConcurrent,    \* permits of the semaphore (main.rs: 3)
  MaxIterations,    \* ReAct iterations per task (react.rs: 15)
  MaxBlocks,        \* tool_use blocks in one AI response (bound)
  MaxRestarts,      \* restarts of the agent (bound)
  MaxStoreErrors    \* database errors met by runners (bound)

ASSUME MaxConcurrentAssumption == MaxConcurrent \in Nat \ {0}
ASSUME BoundsAssumption ==
  /\ MaxIterations \in Nat
  /\ MaxBlocks \in Nat
  /\ MaxRestarts \in Nat
  /\ MaxStoreErrors \in Nat

VARIABLES
  row,         \* agent_tasks.status per id; "none": not inserted yet
  launch,      \* where the HTTP handler stands inside spawn_task
  queue,       \* handlers waiting for a permit: tokio's semaphore is FIFO
  permits,     \* free permits
  run,         \* program counter of the spawned runner
  seen,        \* status the runner's update_task read
  goal,        \* status the runner means to write last
  iter,        \* ReAct iterations started
  blocks,      \* tool_use blocks of the current response already handled
  prompts,     \* approval prompts the runner ever raised
  handles,     \* TaskRegistry.handles: ids that can be signalled
  token,       \* CancellationToken.is_cancelled
  pending,     \* TaskApprovalService.pending: the prompts a user can see
  sending,     \* answers taken off pending, not yet sent to the runner
  answer,      \* what arrived in the oneshot of the runner's prompt
  req,         \* the cancel / delete requests
  lastEvent,   \* status in the last progress event broadcast for a task
  executed,    \* ghost: prompts whose mutating tool was executed
  granted,     \* ghost: prompts a user approved
  restarts,    \* restarts so far
  storeErrors  \* database errors so far

launchVars == <<launch, queue, permits>>
loopVars == <<iter, blocks, prompts>>
promptVars == <<pending, sending, answer>>
ghostVars == <<executed, granted>>
boundVars == <<restarts, storeErrors>>
runnerVars == <<run, seen, goal, loopVars>>
vars == <<row, launchVars, runnerVars, handles, token, promptVars, req,
          lastEvent, ghostVars, boundVars>>

-----------------------------------------------------------------------------
Terminal == {"completed", "failed", "cancelled"}
Status == {"pending", "running"} \cup Terminal
RowState == Status \cup {"none", "deleted"}

\* models.rs: the transitions update_task accepts.  A missing row accepts none.
CanTransition(from, to) ==
  \/ from = "pending" /\ to \in {"running", "cancelled"}
  \/ from = "running" /\ to \in Terminal

\* The row after UPDATE ... WHERE id = ?: nothing to update if it was deleted.
Updated(t, status) ==
  IF row[t] \in Status THEN [row EXCEPT ![t] = status] ELSE row

LaunchState == {"idle", "check", "queued", "spawned", "done", "dropped"}
Active == {"readStart", "writeStart", "confirmStart", "loop", "chat", "blocks",
           "request", "await", "settle", "exec", "execMutating",
           "readEnd", "writeEnd", "confirmEnd", "unregister", "release"}
RunState == Active \cup {"off", "ended"}
StoreStep == {"readStart", "writeStart", "confirmStart",
              "readEnd", "writeEnd", "confirmEnd"}

PromptId == Tasks \X Nat
Prompt(t) == <<t, prompts[t]>>

\* Runners alive: each holds the permit it was spawned with.
Inside == {t \in Tasks : run[t] \in Active}

IdleReq == [pc |-> "idle", kind |-> "none", task |-> "none"]
ReqState == {"idle", "signal", "check", "read", "write", "delete"}

Init ==
  /\ row = [t \in Tasks |-> "none"]
  /\ launch = [t \in Tasks |-> "idle"]
  /\ queue = <<>>
  /\ permits = MaxConcurrent
  /\ run = [t \in Tasks |-> "off"]
  /\ seen = [t \in Tasks |-> "none"]
  /\ goal = [t \in Tasks |-> "running"]
  /\ iter = [t \in Tasks |-> 0]
  /\ blocks = [t \in Tasks |-> 0]
  /\ prompts = [t \in Tasks |-> 0]
  /\ handles = {}
  /\ token = [t \in Tasks |-> FALSE]
  /\ pending = {}
  /\ sending = {}
  /\ answer = [t \in Tasks |-> "none"]
  /\ req = [c \in Clients |-> IdleReq]
  /\ lastEvent = [t \in Tasks |-> "none"]
  /\ executed = {}
  /\ granted = {}
  /\ restarts = 0
  /\ storeErrors = 0

-----------------------------------------------------------------------------
(* The request that creates a task: INSERT, then spawn_task in the handler. *)

\* POST /tasks and POST /agent-definitions/:id/run insert a pending row.
CreateTask(t) ==
  /\ row[t] = "none"
  /\ row' = [row EXCEPT ![t] = "pending"]
  /\ launch' = [launch EXCEPT ![t] = "check"]
  /\ UNCHANGED <<queue, permits, runnerVars, handles, token, promptVars, req,
                 lastEvent, ghostVars, boundVars>>

\* spawn_task reads the row; a task that is no longer pending is not launched.
CheckPending(t) ==
  /\ launch[t] = "check"
  /\ \/ /\ row[t] = "pending"
        /\ launch' = [launch EXCEPT ![t] = "queued"]
        /\ queue' = Append(queue, t)
     \/ /\ row[t] # "pending"
        /\ launch' = [launch EXCEPT ![t] = "done"]
        /\ UNCHANGED queue
  /\ UNCHANGED <<row, permits, runnerVars, handles, token, promptVars, req,
                 lastEvent, ghostVars, boundVars>>

\* Mutant of AcquireAndSpawn: whoever is polled first takes the permit.
UnfairAcquireMutant(t) ==
  /\ launch[t] = "queued"
  /\ permits > 0
  /\ permits' = permits - 1
  /\ queue' = Remove(queue, t)
  /\ launch' = [launch EXCEPT ![t] = "spawned"]
  /\ run' = [run EXCEPT ![t] = "readStart"]
  /\ UNCHANGED <<row, seen, goal, loopVars, handles, token, promptVars, req,
                 lastEvent, ghostVars, boundVars>>

\* The head of the line takes a permit and spawns the runner in the same poll.
AcquireAndSpawn(t) ==
  /\ launch[t] = "queued"
  /\ queue # <<>> /\ Head(queue) = t
  /\ permits > 0
  /\ permits' = permits - 1
  /\ queue' = Tail(queue)
  /\ launch' = [launch EXCEPT ![t] = "spawned"]
  /\ run' = [run EXCEPT ![t] = "readStart"]
  /\ UNCHANGED <<row, seen, goal, loopVars, handles, token, promptVars, req,
                 lastEvent, ghostVars, boundVars>>

\* Only after tokio::spawn does the handler register the handle; by then the
\* runner may be anywhere, even past its own unregister.
Register(t) ==
  /\ launch[t] = "spawned"
  /\ handles' = handles \cup {t}
  /\ launch' = [launch EXCEPT ![t] = "done"]
  /\ UNCHANGED <<row, queue, permits, runnerVars, token, promptVars, req,
                 lastEvent, ghostVars, boundVars>>

\* The client hangs up while its handler is suspended: the future is dropped,
\* its place in the line with it.  The row stays as it is, and a runner already
\* spawned goes on without a handle.
DropHandler(t) ==
  /\ \/ /\ launch[t] = "queued"
        /\ \E i \in 1..Len(queue) : queue[i] = t /\ queue' = RemoveAt(queue, i)
     \/ /\ launch[t] \in {"check", "spawned"}
        /\ UNCHANGED queue
  /\ launch' = [launch EXCEPT ![t] = "dropped"]
  /\ UNCHANGED <<row, permits, runnerVars, handles, token, promptVars, req,
                 lastEvent, ghostVars, boundVars>>

-----------------------------------------------------------------------------
(* The runner's two calls of update_task: "running" first, the result last. *)

\* SELECT, then can_transition_to on what was read; an error ends the runner.
ReadRow(t, at, next) ==
  /\ run[t] = at
  /\ seen' = [seen EXCEPT ![t] = row[t]]
  /\ run' = [run EXCEPT ![t] =
               IF CanTransition(row[t], goal[t]) THEN next ELSE "unregister"]
  /\ UNCHANGED <<row, launchVars, goal, loopVars, handles, token, promptVars,
                 req, lastEvent, ghostVars, boundVars>>

\* UPDATE, decided by the earlier SELECT and not by the row of this moment.
WriteRow(t, at, next) ==
  /\ run[t] = at
  /\ row' = Updated(t, goal[t])
  /\ run' = [run EXCEPT ![t] = next]
  /\ UNCHANGED <<launchVars, seen, goal, loopVars, handles, token, promptVars,
                 req, lastEvent, ghostVars, boundVars>>

\* The closing SELECT fails when the row is gone; otherwise the event goes out.
ConfirmRow(t, at, next) ==
  /\ run[t] = at
  /\ \/ /\ row[t] \in Status
        /\ run' = [run EXCEPT ![t] = next]
        /\ lastEvent' = [lastEvent EXCEPT ![t] = goal[t]]
     \/ /\ row[t] \notin Status
        /\ run' = [run EXCEPT ![t] = "unregister"]
        /\ UNCHANGED lastEvent
  /\ UNCHANGED <<row, launchVars, seen, goal, loopVars, handles, token,
                 promptVars, req, ghostVars, boundVars>>

StartTask(t) ==
  \/ ReadRow(t, "readStart", "writeStart")
  \/ WriteRow(t, "writeStart", "confirmStart")
  \/ ConfirmRow(t, "confirmStart", "loop")

FinishTask(t) ==
  \/ ReadRow(t, "readEnd", "writeEnd")
  \/ WriteRow(t, "writeEnd", "confirmEnd")
  \/ ConfirmRow(t, "confirmEnd", "unregister")

\* Mutant of StoreError: the error leaves the closure with the permit forgotten.
StoreErrorLeaksMutant(t) ==
  /\ storeErrors < MaxStoreErrors
  /\ run[t] \in StoreStep
  /\ storeErrors' = storeErrors + 1
  /\ run' = [run EXCEPT ![t] = "ended"]
  /\ UNCHANGED <<row, launchVars, seen, goal, loopVars, handles, token,
                 promptVars, req, lastEvent, ghostVars, restarts>>

\* Any of those statements may fail; the error skips everything up to unregister.
StoreError(t) ==
  /\ storeErrors < MaxStoreErrors
  /\ run[t] \in StoreStep
  /\ storeErrors' = storeErrors + 1
  /\ run' = [run EXCEPT ![t] = "unregister"]
  /\ UNCHANGED <<row, launchVars, seen, goal, loopVars, handles, token,
                 promptVars, req, lastEvent, ghostVars, restarts>>

\* The closure's last act on the registry ...
Unregister(t) ==
  /\ run[t] = "unregister"
  /\ handles' = handles \ {t}
  /\ run' = [run EXCEPT ![t] = "release"]
  /\ UNCHANGED <<row, launchVars, seen, goal, loopVars, token, promptVars, req,
                 lastEvent, ghostVars, boundVars>>

\* Mutant of ReleasePermit: the permit is forgotten.
ForgetPermitMutant(t) ==
  /\ run[t] = "release"
  /\ run' = [run EXCEPT ![t] = "ended"]
  /\ UNCHANGED <<row, launchVars, seen, goal, loopVars, handles, token,
                 promptVars, req, lastEvent, ghostVars, boundVars>>

\* ... and the permit, dropped with the closure.
ReleasePermit(t) ==
  /\ run[t] = "release"
  /\ permits' = permits + 1
  /\ run' = [run EXCEPT ![t] = "ended"]
  /\ UNCHANGED <<row, launch, queue, seen, goal, loopVars, handles, token,
                 promptVars, req, lastEvent, ghostVars, boundVars>>

-----------------------------------------------------------------------------
(* The ReAct loop.                                                          *)

\* Mutant of LeaveLoop: a cancelled loop returns without recording its result.
LeaveLoopSilentlyMutant(t, outcome) ==
  /\ goal' = [goal EXCEPT ![t] = outcome]
  /\ run' = [run EXCEPT ![t] = IF outcome = "cancelled" THEN "unregister" ELSE "readEnd"]

\* Leaving the loop with a result for the row.
LeaveLoop(t, outcome) ==
  /\ goal' = [goal EXCEPT ![t] = outcome]
  /\ run' = [run EXCEPT ![t] = "readEnd"]

\* The loop head: bound, cancellation, and only then the next iteration.
LoopHead(t) ==
  /\ run[t] = "loop"
  /\ \/ /\ iter[t] >= MaxIterations
        /\ LeaveLoop(t, "failed")
        /\ UNCHANGED <<iter, lastEvent>>
     \/ /\ iter[t] < MaxIterations
        /\ token[t]
        /\ LeaveLoop(t, "cancelled")
        /\ UNCHANGED <<iter, lastEvent>>
     \/ /\ iter[t] < MaxIterations
        /\ ~token[t]
        /\ iter' = [iter EXCEPT ![t] = @ + 1]
        /\ lastEvent' = [lastEvent EXCEPT ![t] = "running"]
        /\ run' = [run EXCEPT ![t] = "chat"]
        /\ UNCHANGED goal
  /\ UNCHANGED <<row, launchVars, seen, blocks, prompts, handles, token,
                 promptVars, req, ghostVars, boundVars>>

\* agent_chat answers or fails.
ChatReturns(t) ==
  /\ run[t] = "chat"
  /\ \/ /\ run' = [run EXCEPT ![t] = "blocks"]
        /\ blocks' = [blocks EXCEPT ![t] = 0]
        /\ UNCHANGED goal
     \/ /\ LeaveLoop(t, "failed")
        /\ UNCHANGED blocks
  /\ UNCHANGED <<row, launchVars, seen, iter, prompts, handles, token,
                 promptVars, req, lastEvent, ghostVars, boundVars>>

\* The next tool_use block of the response: refused by the validator or
\* unknown (a message for the model), read-only (dispatched at once), or
\* mutating (a prompt first).
ToolUse(t) ==
  /\ run[t] = "blocks"
  /\ blocks[t] < MaxBlocks
  /\ blocks' = [blocks EXCEPT ![t] = @ + 1]
  /\ \E next \in {"blocks", "exec", "request"} : run' = [run EXCEPT ![t] = next]
  /\ lastEvent' = IF run'[t] = "blocks" THEN lastEvent
                  ELSE [lastEvent EXCEPT ![t] = "running"]
  /\ UNCHANGED <<row, launchVars, seen, goal, iter, prompts, handles, token,
                 promptVars, req, ghostVars, boundVars>>

\* End of the response.  end_turn without a tool call leaves the loop, and the
\* bound is tested once more after it; anything else goes round again.
ResponseEnds(t) ==
  /\ run[t] = "blocks"
  /\ \/ /\ blocks[t] = 0
        /\ LeaveLoop(t, IF iter[t] >= MaxIterations THEN "failed" ELSE "completed")
     \/ /\ run' = [run EXCEPT ![t] = "loop"]
        /\ UNCHANGED goal
  /\ UNCHANGED <<row, launchVars, seen, loopVars, handles, token, promptVars,
                 req, lastEvent, ghostVars, boundVars>>

\* TaskApprovalService.request: a fresh id and an empty oneshot.
RequestApproval(t) ==
  /\ run[t] = "request"
  /\ prompts' = [prompts EXCEPT ![t] = @ + 1]
  /\ pending' = pending \cup {<<t, prompts[t] + 1>>}
  /\ answer' = [answer EXCEPT ![t] = "none"]
  /\ run' = [run EXCEPT ![t] = "await"]
  /\ UNCHANGED <<row, launchVars, seen, goal, iter, blocks, handles, token,
                 sending, req, lastEvent, ghostVars, boundVars>>

\* Mutant of AwaitEnds: an unanswered prompt counts as approved.
AwaitDefaultsToYesMutant(t) ==
  /\ run[t] = "await"
  /\ answer' = [answer EXCEPT ![t] = IF @ = "none" THEN "approve" ELSE @]
  /\ run' = [run EXCEPT ![t] = "settle"]
  /\ UNCHANGED <<row, launchVars, seen, goal, loopVars, handles, token, pending,
                 sending, req, lastEvent, ghostVars, boundVars>>

\* Mutant of AwaitEnds: the prompt has no timeout.
AwaitForeverMutant(t) ==
  /\ run[t] = "await"
  /\ answer[t] # "none"
  /\ run' = [run EXCEPT ![t] = "settle"]
  /\ UNCHANGED <<row, launchVars, seen, goal, loopVars, handles, token, promptVars,
                 req, lastEvent, ghostVars, boundVars>>

\* The timeout future resolves: by the answer, or after 600 s as a rejection.
AwaitEnds(t) ==
  /\ run[t] = "await"
  /\ answer' = [answer EXCEPT ![t] = IF @ = "none" THEN "reject" ELSE @]
  /\ run' = [run EXCEPT ![t] = "settle"]
  /\ UNCHANGED <<row, launchVars, seen, goal, loopVars, handles, token, pending,
                 sending, req, lastEvent, ghostVars, boundVars>>

\* The entry is removed under the lock, and the loop acts on the outcome: an
\* approved call is dispatched, unless the registry has no tool of that name.
SettleApproval(t) ==
  /\ run[t] = "settle"
  /\ pending' = pending \ {Prompt(t)}
  /\ \/ /\ answer[t] = "approve"
        /\ run' = [run EXCEPT ![t] = "execMutating"]
        /\ lastEvent' = [lastEvent EXCEPT ![t] = "running"]
     \/ /\ run' = [run EXCEPT ![t] = "blocks"]
        /\ UNCHANGED lastEvent
  /\ UNCHANGED <<row, launchVars, seen, goal, loopVars, handles, token, sending,
                 answer, req, ghostVars, boundVars>>

\* tool.execute: its side effects, then the next block.  Cancellation is not
\* looked at here.
ExecuteTool(t) ==
  /\ \/ /\ run[t] = "exec"
        /\ UNCHANGED executed
     \/ /\ run[t] = "execMutating"
        /\ executed' = executed \cup {Prompt(t)}
  /\ run' = [run EXCEPT ![t] = "blocks"]
  /\ UNCHANGED <<row, launchVars, seen, goal, loopVars, handles, token,
                 promptVars, req, lastEvent, granted, boundVars>>

-----------------------------------------------------------------------------
(* Users: approvals, cancellation, deletion; and the agent's own restarts.  *)

\* approve / reject: the entry leaves the map (the caller is told "done") ...
TakePrompt(p, ans) ==
  /\ p \in pending
  /\ pending' = pending \ {p}
  /\ sending' = sending \cup {<<p, ans>>}
  /\ granted' = IF ans = "approve" THEN granted \cup {p} ELSE granted
  /\ UNCHANGED <<row, launchVars, runnerVars, handles, token, answer, req,
                 lastEvent, executed, boundVars>>

\* ... and then the answer is sent; nobody reads it once the await has ended.
SendAnswer(p, ans) ==
  /\ <<p, ans>> \in sending
  /\ sending' = sending \ {<<p, ans>>}
  /\ answer' = IF run[p[1]] = "await" /\ p = Prompt(p[1])
               THEN [answer EXCEPT ![p[1]] = ans]
               ELSE answer
  /\ UNCHANGED <<row, launchVars, runnerVars, handles, token, pending, req,
                 lastEvent, ghostVars, boundVars>>

\* WebSocket Cancel, or DELETE /tasks/:id, which cancels first.
BeginRequest(c, t, kind) ==
  /\ req[c].pc = "idle"
  /\ row[t] # "none"
  /\ req' = [req EXCEPT ![c] = [pc |-> "signal", kind |-> kind, task |-> t]]
  /\ UNCHANGED <<row, launchVars, runnerVars, handles, token, promptVars,
                 lastEvent, ghostVars, boundVars>>

\* Where cancel_task returns: a DELETE goes on whatever the result was.
Returned(c) ==
  IF req[c].kind = "delete" THEN [req[c] EXCEPT !.pc = "delete"] ELSE IdleReq

\* registry.cancel: signal the handle if there is one.
SignalHandle(c) ==
  LET t == req[c].task IN
  /\ req[c].pc = "signal"
  /\ \/ /\ t \in handles
        /\ token' = [token EXCEPT ![t] = TRUE]
        /\ req' = [req EXCEPT ![c] = Returned(c)]
     \/ /\ t \notin handles
        /\ req' = [req EXCEPT ![c].pc = "check"]
        /\ UNCHANGED token
  /\ UNCHANGED <<row, launchVars, runnerVars, handles, promptVars, lastEvent,
                 ghostVars, boundVars>>

\* No handle: only a task that still reads pending is cancelled in the table.
CheckUnregistered(c) ==
  /\ req[c].pc = "check"
  /\ req' = [req EXCEPT ![c] = IF row[req[c].task] = "pending"
                               THEN [req[c] EXCEPT !.pc = "read"]
                               ELSE Returned(c)]
  /\ UNCHANGED <<row, launchVars, runnerVars, handles, token, promptVars,
                 lastEvent, ghostVars, boundVars>>

\* update_task(Cancelled) reads the row again ...
CancelRead(c) ==
  /\ req[c].pc = "read"
  /\ req' = [req EXCEPT ![c] = IF CanTransition(row[req[c].task], "cancelled")
                               THEN [req[c] EXCEPT !.pc = "write"]
                               ELSE Returned(c)]
  /\ UNCHANGED <<row, launchVars, runnerVars, handles, token, promptVars,
                 lastEvent, ghostVars, boundVars>>

\* Mutant of CancelWrite: the cancellation is announced from here as well.
CancelWriteAnnouncesMutant(c) ==
  /\ req[c].pc = "write"
  /\ row' = Updated(req[c].task, "cancelled")
  /\ lastEvent' = [lastEvent EXCEPT ![req[c].task] = "cancelled"]
  /\ req' = [req EXCEPT ![c] = Returned(c)]
  /\ UNCHANGED <<launchVars, runnerVars, handles, token, promptVars, ghostVars,
                 boundVars>>

\* Mutant of CancelWrite: the cancellation is recorded as a failure.
CancelWriteFailsMutant(c) ==
  /\ req[c].pc = "write"
  /\ row' = Updated(req[c].task, "failed")
  /\ req' = [req EXCEPT ![c] = Returned(c)]
  /\ UNCHANGED <<launchVars, runnerVars, handles, token, promptVars, lastEvent,
                 ghostVars, boundVars>>

\* ... and overwrites whatever it has become; no progress event is sent.
CancelWrite(c) ==
  /\ req[c].pc = "write"
  /\ row' = Updated(req[c].task, "cancelled")
  /\ req' = [req EXCEPT ![c] = Returned(c)]
  /\ UNCHANGED <<launchVars, runnerVars, handles, token, promptVars, lastEvent,
                 ghostVars, boundVars>>

\* DELETE FROM agent_tasks: the runner is not waited for.
DeleteRow(c) ==
  /\ req[c].pc = "delete"
  /\ row' = [row EXCEPT ![req[c].task] = "deleted"]
  /\ req' = [req EXCEPT ![c] = IdleReq]
  /\ UNCHANGED <<launchVars, runnerVars, handles, token, promptVars, lastEvent,
                 ghostVars, boundVars>>

\* The process ends and starts again: everything but the table is lost, and
\* nothing at startup looks at pending or running rows.
Restart ==
  /\ restarts < MaxRestarts
  /\ restarts' = restarts + 1
  /\ launch' = [t \in Tasks |-> IF launch[t] = "idle" THEN "idle" ELSE "done"]
  /\ queue' = <<>>
  /\ permits' = MaxConcurrent
  /\ run' = [t \in Tasks |-> IF run[t] = "off" THEN "off" ELSE "ended"]
  /\ handles' = {}
  /\ pending' = {}
  /\ sending' = {}
  /\ req' = [c \in Clients |-> IdleReq]
  /\ UNCHANGED <<row, seen, goal, loopVars, token, answer, lastEvent, ghostVars,
                 storeErrors>>

-----------------------------------------------------------------------------
Handler(t) == CheckPending(t) \/ AcquireAndSpawn(t) \/ Register(t)

Runner(t) ==
  \/ StartTask(t) \/ FinishTask(t)
  \/ Unregister(t) \/ ReleasePermit(t)
  \/ LoopHead(t) \/ ChatReturns(t) \/ ToolUse(t) \/ ResponseEnds(t)
  \/ RequestApproval(t) \/ AwaitEnds(t) \/ SettleApproval(t) \/ ExecuteTool(t)

Request(c) ==
  \/ \E t \in Tasks, kind \in {"cancel", "delete"} : BeginRequest(c, t, kind)
  \/ SignalHandle(c) \/ CheckUnregistered(c) \/ CancelRead(c) \/ CancelWrite(c)
  \/ DeleteRow(c)

Next ==
  \/ \E t \in Tasks : CreateTask(t) \/ DropHandler(t) \/ StoreError(t)
  \/ \E t \in Tasks : Handler(t) \/ Runner(t)
  \/ \E p \in pending, ans \in {"approve", "reject"} : TakePrompt(p, ans)
  \/ \E m \in sending : SendAnswer(m[1], m[2])
  \/ \E c \in Clients : Request(c)
  \/ Restart

Spec == Init /\ [][Next]_vars

\* tokio polls every woken future; the AI provider, tools and the approval
\* timeout end.  Users and restarts are under no obligation.
Fairness == \A t \in Tasks : WF_vars(Handler(t)) /\ WF_vars(Runner(t))

FairSpec == Spec /\ Fairness

-----------------------------------------------------------------------------
(* Properties.                                                              *)

\* Every variable keeps its type (the one type invariant of the module).
LaunchTypeOK ==
  /\ row \in [Tasks -> RowState]
  /\ launch \in [Tasks -> LaunchState]
  /\ queue \in Seq(Tasks)
  /\ permits \in Nat
RunnerTypeOK ==
  /\ run \in [Tasks -> RunState]
  /\ seen \in [Tasks -> RowState]
  /\ goal \in [Tasks -> Status]
  /\ lastEvent \in [Tasks -> Status \cup {"none"}]
  /\ handles \subseteq Tasks
  /\ token \in [Tasks -> BOOLEAN]
CountersTypeOK ==
  /\ iter \in [Tasks -> Nat]
  /\ blocks \in [Tasks -> Nat]
  /\ prompts \in [Tasks -> Nat]
  /\ restarts \in Nat
  /\ storeErrors \in Nat
PromptsTypeOK ==
  /\ pending \subseteq PromptId
  /\ sending \subseteq PromptId \X {"approve", "reject"}
  /\ answer \in [Tasks -> {"none", "approve", "reject"}]
  /\ executed \subseteq PromptId
  /\ granted \subseteq PromptId
RequestsTypeOK ==
  /\ req \in [Clients -> [pc : ReqState, kind : {"none", "cancel", "delete"},
                         task : Tasks \cup {"none"}]]
  /\ \A c \in Clients : req[c].pc # "idle" => req[c].task \in Tasks
TypeOK ==
  LaunchTypeOK /\ RunnerTypeOK /\ CountersTypeOK /\ PromptsTypeOK /\ RequestsTypeOK

\* Every way out of a runner (success, failure, cancellation, a deleted row, a
\* database error, an early refusal) gives its permit back exactly once, so the
\* executor can neither exceed its limit nor slowly run out of permits.
PermitsConserved == permits + Cardinality(Inside) = MaxConcurrent

\* A mutating tool ran only for a prompt a user approved: not for one that was
\* rejected, timed out, or raised by another task or an earlier call.
MutationsWereApproved == executed \subseteq granted

\* The prompts users see are exactly questions somebody is waiting on: each
\* belongs to a live runner suspended on that very prompt, hence at most one
\* per task (approvals.rs:57 says so of the map).
PromptsHaveAWaiter ==
  \A p \in pending : p = Prompt(p[1]) /\ run[p[1]] \in {"await", "settle"}

\* Subscribers may stop listening at a terminal event: none follows for the
\* task, whatever order cancellations, deletions and errors come in.
TerminalEventIsLast ==
  [][\A t \in Tasks : lastEvent[t] \in Terminal => lastEvent'[t] = lastEvent[t]]_vars

\* What a result in the table says of the run that produced it: a task reads
\* completed or failed only if its own runner decided exactly that.
ResultsAreTheRunners ==
  \A t \in Tasks : row[t] \in {"completed", "failed"} => goal[t] = row[t]

\* Without restarts and database errors no row is left reading "running" with
\* nobody working on it, in whatever order cancels and deletes interleave.
RunningHasARunner ==
  restarts = 0 /\ storeErrors = 0 =>
    \A t \in Tasks : row[t] = "running" => run[t] \in Active

\* Every task whose handler got as far as the queue is decided in the end: the
\* semaphore is fair, the loop bounded, an unanswered prompt times out.
QueuedTasksAreDecided ==
  \A t \in Tasks :
    launch[t] = "queued" ~>
      launch[t] = "dropped" \/ row[t] \in Terminal \cup {"deleted"}

\* A signalled runner stops and gives its permit back.
CancelledRunnersEnd == \A t \in Tasks : token[t] ~> run[t] = "ended"

\* models.rs:47: "completed, failed, cancelled are terminal (no transitions out)".
TerminalRowsAreFinal ==
  [][\A t \in Tasks : row[t] \in Terminal => row'[t] \in {row[t], "deleted"}]_vars

\* executor.rs:194, where the registry has no handle for the id: "Task not
\* running".
NoHandleMeansNotRunning ==
  \A c \in Clients : req[c].pc = "check" => run[req[c].task] \notin Active

\* react.rs:3-4: the loop "iterates until completion": a conversation the model
\* ended by itself is a completed task.
FinishedConversationsComplete ==
  [][\A t \in Tasks :
       run[t] = "blocks" /\ run'[t] = "readEnd" => goal'[t] = "completed"]_vars

\* The admission gate this module implements.
Gate == INSTANCE TaskGate WITH
          Capacity <- MaxConcurrent,
          line <- queue,
          inside <- Inside,
          past <- {t \in Tasks : run[t] # "off"}

\* Tasks are admitted first come first served, at most MaxConcurrent at a time,
\* each at most once.
ImplementsGate == Gate!GateSpec
=============================================================================

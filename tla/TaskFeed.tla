------------------------------ MODULE TaskFeed ------------------------------
(***************************************************************************)
(* How the list of AI tasks in the window follows the agent                *)
(* (useAgentTasks): one WebSocket for all components that show tasks,      *)
(* counted by its subscribers, over which the agent sends the whole list   *)
(* once and then every event (handle_task_progress of ws.rs), beside the   *)
(* answers to the requests that create and delete tasks.                   *)
(*                                                                         *)
(* Standalone mode.  The counters shown beside the list and the documents  *)
(* made of results are left out, and so is a list the agent cannot read.   *)
(***************************************************************************)
EXTENDS Integers, Sequences, FiniteSets

CONSTANTS TfTasks,     \* tasks
          TfSlots,     \* bound: sockets that are not closed
          TfMaxSubs,   \* bound: components that show tasks
          TfMaxQueue   \* bound: messages on the way on a socket

ASSUME TfAssumption ==
  /\ IsFiniteSet(TfSlots) /\ "none" \notin TfSlots
  /\ TfMaxSubs \in Nat /\ TfMaxQueue \in Nat

VARIABLES tfTask,      \* the rows of the tasks in the table of the agent
          tfRunner,    \* how far the runner of each is
          tfCancel,    \* the tasks a cancel_task has read as pending
          tfCreate,    \* the request of this window that creates each
          tfRows,      \* what the rows of each in the list say; {} without a row
          tfDeleted,   \* deletedTaskIds
          tfSubs,      \* moduleSubscriberCount
          tfLeaving,   \* moduleDisconnectTimer is set
          tfComing,    \* moduleReconnectTimer is set
          tfWs,        \* moduleWs
          tfStay,      \* moduleShouldStay
          tfOpening,   \* moduleIsConnecting
          tfSocks      \* readyState, whether the list was sent, what is on the way

tfAgentVars == <<tfTask, tfRunner, tfCancel>>
tfListVars == <<tfAgentVars, tfCreate, tfRows, tfDeleted>>
tfFeedVars == <<tfSubs, tfLeaving, tfComing, tfWs, tfStay, tfOpening>>
tfVars == <<tfListVars, tfFeedVars, tfSocks>>

TfClosed == [state |-> "closed", listed |-> FALSE, queue |-> <<>>]

TfInit ==
  /\ tfTask = [t \in TfTasks |-> "none"]
  /\ tfRunner = [t \in TfTasks |-> "none"] /\ tfCancel = {}
  /\ tfCreate = [t \in TfTasks |-> "no"]
  /\ tfRows = [t \in TfTasks |-> {}]
  /\ tfDeleted = {}
  /\ tfSubs = 0 /\ tfWs = "none"
  /\ tfLeaving = FALSE /\ tfComing = FALSE /\ tfStay = FALSE /\ tfOpening = FALSE
  /\ tfSocks = [s \in TfSlots |-> TfClosed]

TfFree == {s \in TfSlots : tfSocks[s].state = "closed"}
TfOpen == {s \in TfSlots : tfSocks[s].state = "open"}

----------------------------------------------------------------------------
(* The agent.                                                               *)

\* Every socket gets every event, from its subscription on.
Broadcast(t, status) ==
  /\ \A s \in TfOpen : Len(tfSocks[s].queue) < TfMaxQueue
  /\ tfSocks' = [s \in TfSlots |->
       IF s \notin TfOpen THEN tfSocks[s]
       ELSE [tfSocks[s] EXCEPT !.queue = Append(@, [what |-> "event", of |-> t, is |-> status])]]

\* A task is created: by this window, or by another one or a re-run, whose answer
\* is not added to the list.
TaskMade(t) ==
  /\ tfTask[t] = "none"
  /\ tfTask' = [tfTask EXCEPT ![t] = "pending"]
  /\ UNCHANGED <<tfRunner, tfCancel, tfCreate, tfRows, tfDeleted, tfFeedVars, tfSocks>>

\* The runner moves to one of the places, and the row to that status.
RunnerMoves(t, status, places) ==
  /\ tfTask' = [tfTask EXCEPT ![t] = status]
  /\ \E place \in places : tfRunner' = [tfRunner EXCEPT ![t] = place]

\* execute_task_with_react marks the row as running.  The update reads the row ...
RunnerLooks(t) ==
  /\ tfRunner[t] = "none" /\ tfTask[t] = "pending"
  /\ RunnerMoves(t, "pending", {"looked"})
  /\ UNCHANGED <<tfCancel, tfCreate, tfRows, tfDeleted, tfFeedVars, tfSocks>>

\* ... and writes it, whatever it says by now.  If the row has gone or the database
\* fails, before the write or after it, the runner leaves without an event.
RunnerStarts(t) ==
  /\ tfRunner[t] = "looked"
  /\ \/ tfTask[t] # "deleted" /\ RunnerMoves(t, "running", {"starting", "gone"})
     \/ RunnerMoves(t, tfTask[t], {"gone"})
  /\ UNCHANGED <<tfCancel, tfCreate, tfRows, tfDeleted, tfFeedVars, tfSocks>>

\* Its events: the start, progress, the end.
RunnerTells(t) ==
  /\ \/ /\ tfRunner[t] \in {"starting", "working"}
        /\ RunnerMoves(t, tfTask[t], {"working"}) /\ Broadcast(t, "running")
     \/ /\ tfRunner[t] = "ending"
        /\ RunnerMoves(t, tfTask[t], {"done"}) /\ Broadcast(t, "ended")
  /\ UNCHANGED <<tfCancel, tfCreate, tfRows, tfDeleted, tfFeedVars>>

\* The row is marked as ended, and only then the event is sent: not if the row is
\* not running any more or has gone, nor if the database fails.
RunnerEnds(t) ==
  /\ tfRunner[t] = "working"
  /\ \/ tfTask[t] = "running" /\ RunnerMoves(t, "ended", {"ending", "gone"})
     \/ RunnerMoves(t, tfTask[t], {"gone"})
  /\ UNCHANGED <<tfCancel, tfCreate, tfRows, tfDeleted, tfFeedVars, tfSocks>>

\* cancel_task of a task that is not registered: a row read as pending ...
CancelSees(t) ==
  /\ tfTask[t] = "pending"
  /\ tfCancel' = tfCancel \cup {t}
  /\ UNCHANGED <<tfTask, tfRunner, tfCreate, tfRows, tfDeleted, tfFeedVars, tfSocks>>

\* ... is written as cancelled, whatever it says by now and without an event.
CancelWrites(t) ==
  /\ t \in tfCancel /\ tfCancel' = tfCancel \ {t}
  /\ tfTask' = [tfTask EXCEPT ![t] = IF @ = "deleted" THEN @ ELSE "ended"]
  /\ UNCHANGED <<tfRunner, tfCreate, tfRows, tfDeleted, tfFeedVars, tfSocks>>

\* delete_task_endpoint, asked by deleteTask, removes the row; its runner goes on
\* until it looks at its token.
TaskDropped(t) ==
  /\ t \in tfDeleted /\ tfTask[t] # "deleted"
  /\ tfTask' = [tfTask EXCEPT ![t] = "deleted"]
  /\ UNCHANGED <<tfRunner, tfCancel, tfCreate, tfRows, tfDeleted, tfFeedVars, tfSocks>>

\* handle_task_progress reads the list after it has subscribed and sends it first.
ListSent(s) ==
  /\ s \in TfOpen /\ ~tfSocks[s].listed
  /\ tfSocks' = [tfSocks EXCEPT ![s].listed = TRUE,
                                ![s].queue = <<[what |-> "init", list |-> tfTask]>> \o @]
  /\ UNCHANGED <<tfListVars, tfFeedVars>>

----------------------------------------------------------------------------
(* The connection.                                                          *)

TfLive == tfWs # "none" /\ tfSocks[tfWs].state \in {"connecting", "open"}

\* moduleConnect: nothing if there is a socket, or if one is believed to connect.
ModuleConnect ==
  \/ (TfLive \/ tfOpening) /\ UNCHANGED <<tfWs, tfStay, tfOpening, tfSocks>>
  \/ /\ ~TfLive /\ ~tfOpening /\ TfFree # {}
     /\ LET s == CHOOSE s \in TfFree : TRUE IN
        /\ tfWs' = s
        /\ tfSocks' = [tfSocks EXCEPT ![s].state = "connecting"]
     /\ tfStay' = TRUE /\ tfOpening' = TRUE

\* A component is shown.  (Two free slots: one is left for a reconnect.)
Subscribe ==
  /\ tfSubs < TfMaxSubs /\ Cardinality(TfFree) > 1
  /\ tfSubs' = tfSubs + 1
  /\ tfLeaving' = FALSE
  /\ ModuleConnect
  /\ UNCHANGED <<tfListVars, tfComing>>

\* A component goes; after the last one a timer of a second is set.
Unsubscribe ==
  /\ tfSubs > 0
  /\ tfSubs' = tfSubs - 1
  /\ tfLeaving' = (tfLeaving \/ tfSubs' = 0)
  /\ UNCHANGED <<tfListVars, tfComing, tfWs, tfStay, tfOpening, tfSocks>>

\* moduleDisconnect: moduleIsConnecting stays as it is.
Disconnects ==
  /\ tfLeaving /\ tfLeaving' = FALSE
  /\ \/ tfSubs > 0 /\ UNCHANGED <<tfComing, tfWs, tfStay, tfSocks>>
     \/ /\ tfSubs = 0
        /\ tfStay' = FALSE /\ tfComing' = FALSE /\ tfWs' = "none"
        /\ tfSocks' = IF tfWs = "none" THEN tfSocks
                      ELSE [tfSocks EXCEPT ![tfWs] = [TfClosed EXCEPT !.state = "closing"]]
  /\ UNCHANGED <<tfListVars, tfSubs, tfOpening>>

\* The timer of three seconds.
Reconnects ==
  /\ tfComing /\ tfComing' = FALSE
  /\ \/ tfStay /\ tfSubs > 0 /\ ModuleConnect
     \/ ~(tfStay /\ tfSubs > 0) /\ UNCHANGED <<tfWs, tfStay, tfOpening, tfSocks>>
  /\ UNCHANGED <<tfListVars, tfSubs, tfLeaving>>

\* onopen; the agent has subscribed the socket to its events.
FeedOpened(s) ==
  /\ tfSocks[s].state = "connecting"
  /\ tfSocks' = [tfSocks EXCEPT ![s].state = "open"]
  /\ tfOpening' = FALSE
  /\ UNCHANGED <<tfListVars, tfSubs, tfLeaving, tfComing, tfWs, tfStay>>

\* onclose, of whichever socket: moduleWs is cleared, and a reconnect is set if the
\* connection is wanted.
FeedClosed(s) ==
  /\ tfSocks[s].state # "closed"
  /\ tfSocks' = [tfSocks EXCEPT ![s] = TfClosed]
  /\ tfOpening' = FALSE
  /\ tfWs' = "none"
  /\ tfComing' = (tfComing \/ (tfStay /\ tfSubs > 0))
  /\ UNCHANGED <<tfListVars, tfSubs, tfLeaving, tfStay>>

----------------------------------------------------------------------------
(* The list.                                                                *)

\* Mutant of SetTasks: what was deleted here is not left out.
SetTasksAllMutant(list) ==
  tfRows' = [t \in TfTasks |-> IF list[t] \in {"none", "deleted"} THEN {} ELSE {list[t]}]

\* Mutant of SetTasks: a list that is there already is kept.
SetTasksOnceMutant(list) ==
  tfRows' = [t \in TfTasks |->
    IF tfRows[t] # {} THEN tfRows[t]
    ELSE IF list[t] \in {"none", "deleted"} \/ t \in tfDeleted THEN {} ELSE {list[t]}]

\* setTasks
SetTasks(list) ==
  tfRows' = [t \in TfTasks |->
    IF list[t] \in {"none", "deleted"} \/ t \in tfDeleted THEN {} ELSE {list[t]}]

\* updateTask changes every row of the task.
UpdateTask(t, status) ==
  tfRows' = [tfRows EXCEPT ![t] = IF @ = {} THEN {} ELSE {status}]

\* onmessage, of whichever socket
Received(s) ==
  LET m == Head(tfSocks[s].queue) IN
  /\ s \in TfOpen /\ tfSocks[s].listed /\ tfSocks[s].queue # <<>>
  /\ tfSocks' = [tfSocks EXCEPT ![s].queue = Tail(@)]
  /\ \/ m.what = "init" /\ SetTasks(m.list)
     \/ m.what = "event" /\ UpdateTask(m.of, m.is)
  /\ UNCHANGED <<tfAgentVars, tfCreate, tfDeleted, tfFeedVars>>

\* createTask: the request, ...
CreateAsked(t) ==
  /\ tfCreate[t] = "no" /\ tfTask[t] = "none"
  /\ tfCreate' = [tfCreate EXCEPT ![t] = "asked"]
  /\ UNCHANGED <<tfAgentVars, tfRows, tfDeleted, tfFeedVars, tfSocks>>

\* ... and its answer, the task as it was created: one more row.  It may be lost.
CreateAnswered(t) ==
  /\ tfCreate[t] = "asked" /\ tfTask[t] # "none"
  /\ tfCreate' = [tfCreate EXCEPT ![t] = "answered"]
  /\ tfRows' \in {tfRows, [tfRows EXCEPT ![t] = @ \cup {"pending"}]}
  /\ UNCHANGED <<tfAgentVars, tfDeleted, tfFeedVars, tfSocks>>

\* deleteTask: the row goes at once, whatever comes of the request.
DeleteTask(t) ==
  /\ tfRows[t] # {}
  /\ tfDeleted' = tfDeleted \cup {t}
  /\ tfRows' = [tfRows EXCEPT ![t] = {}]
  /\ UNCHANGED <<tfAgentVars, tfCreate, tfFeedVars, tfSocks>>

TfNext ==
  \/ \E t \in TfTasks :
       \/ TaskMade(t) \/ TaskDropped(t)
       \/ RunnerLooks(t) \/ RunnerStarts(t) \/ RunnerTells(t) \/ RunnerEnds(t)
       \/ CancelSees(t) \/ CancelWrites(t)
       \/ CreateAsked(t) \/ CreateAnswered(t) \/ DeleteTask(t)
  \/ Subscribe \/ Unsubscribe \/ Disconnects \/ Reconnects
  \/ \E s \in TfSlots : FeedOpened(s) \/ FeedClosed(s) \/ ListSent(s) \/ Received(s)

TfSpec == TfInit /\ [][TfNext]_tfVars

----------------------------------------------------------------------------
(* Properties.                                                              *)

TfStatuses == {"pending", "running", "ended"}
TfPlaces == {"none", "looked", "starting", "working", "ending", "done", "gone"}

\* Type invariant; moduleWs never has a socket that has closed or was told to.
TfTypeOK ==
  /\ tfTask \in [TfTasks -> TfStatuses \cup {"none", "deleted"}]
  /\ tfRunner \in [TfTasks -> TfPlaces] /\ tfCancel \subseteq TfTasks
  /\ tfCreate \in [TfTasks -> {"no", "asked", "answered"}]
  /\ tfRows \in [TfTasks -> SUBSET TfStatuses]
  /\ tfDeleted \subseteq TfTasks
  /\ tfSubs \in 0..TfMaxSubs
  /\ tfLeaving \in BOOLEAN /\ tfComing \in BOOLEAN /\ tfStay \in BOOLEAN
  /\ tfOpening \in BOOLEAN
  /\ tfWs \in TfSlots \cup {"none"}
  /\ tfWs # "none" => TfLive

\* Neither a list nor an event that was under way, on any socket, shows a task again
\* that was deleted here; only the late answer to the request that made it does.
DeletedComesBackByItsCreateOnly ==
  [][\A t \in tfDeleted :
       tfRows[t] = {} /\ tfRows'[t] # {} => tfCreate'[t] # tfCreate[t]]_tfVars

\* A message after which the task is not shown as running.
Corrects(m, t) ==
  \/ m.what = "event" /\ m.of = t /\ m.is = "ended"
  \/ m.what = "init" /\ m.list[t] # "running"

\* A task whose end was sent and that is still shown as running has the end on its
\* way, on a socket that is open, or a list to come or on its way that was read late
\* enough, as long as the feed stays: whatever events of older sockets have overtaken
\* it.  (Not so an end without an event, which shows with the next list only: that of
\* a row cancel_task has overwritten or that was deleted, or a failing database.)
EndsAreShown ==
  \A t \in TfTasks :
    tfRunner[t] = "done" /\ "running" \in tfRows[t] /\ tfWs \in TfOpen =>
      \E s \in TfOpen :
        \/ ~tfSocks[s].listed
        \/ \E i \in DOMAIN tfSocks[s].queue : Corrects(tfSocks[s].queue[i], t)
=============================================================================

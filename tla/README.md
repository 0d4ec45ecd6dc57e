# A verification project for the NetStacks terminal

NetStacks is a terminal for network engineers: a React/Tauri frontend
(`src/frontend`) and a local agent written in Rust (`src/agent/src`), a single
process on the tokio runtime that keeps the SSH sessions, the tunnels, the
credential vault, the background AI tasks and an SQLite database, and serves them
over HTTP and WebSockets. The system is hard in two places, and hard in the same
way. In the agent many tokio tasks share maps, files and connections, and almost
every step of them ends at an `.await` at which any other task may run, or at which
the task itself disappears because its HTTP client went away. In the frontend
everything runs in one thread, but the callbacks of sockets, timers, requests and
buttons share refs and come in any order, and what they were about may have been
replaced when they come.

This directory holds TLA+ models of the components in which that matters, the
TLC configurations that check them, and proofs checked by TLAPS.

Paths of Rust files are relative to `src/agent/src`, the others to
`src/frontend/src`, unless they begin with `src/`.

## 1. Inventory

### Modelled: the agent

**AI task executor** (`tasks/executor.rs`, `registry.rs`, `store.rs`, `models.rs`,
`react.rs`, `approvals.rs`, handlers in `api.rs` and `ws.rs`).
*State:* a row per task in SQLite (`pending`, `running`, `completed`, `failed`,
`cancelled`), a semaphore with three permits, a map of handles (abort token per
running task), a map of approval prompts with a oneshot each, a broadcast channel
of progress events. *Operations:* create (insert a row, spawn), cancel, delete,
approve, reject, and the runner: mark running, iterate between the AI provider and
the tools, ask before a mutating tool, write the result. *Interactions:* the REST
handlers call the executor; the runner calls the provider and the tools; users
answer prompts through the approval service. *Hard:* `update_task` is SELECT,
decide, UPDATE; the handle is registered after the spawn; cancellation is looked at
in one place of the loop only; a late answer races the timeout of a prompt; a
deleted row is still updated; handlers are dropped while they wait for a permit.
*Correct if* permits are conserved, mutating tools run only when approved,
terminal states are final, a cancel reaches the runner, every task is decided.

**SSH tunnels** (`tunnels/mod.rs`, `local_forward.rs`, `dynamic_forward.rs`; callers
in `api.rs` and `ws.rs`). *State:* a pool of SSH connections by connection key under
an RwLock, each with a mutex and the set of tunnels that use it; a map of active
tunnels under another RwLock; a listener task per tunnel, a bridge task per client.
*Operations:* start, stop, reconnect, start all, stop all, the forwards of a
terminal session. *Hard:* a start is four critical sections with awaits between
them; a stop takes the active entry first and sweeps the pool later; the pool's
write lock is kept while waiting for connection mutexes, which bridges keep while a
channel is opened. *Correct if* no connection is pooled for nothing, a stop reaches
the listener, a closed session leaves nothing behind, no lock cycle arises.

**Host-key trust** (`ssh/host_keys.rs`, `ssh/approvals.rs`, the key check in
`ssh/mod.rs`, the revocation in `api.rs`, the unprompted path in `sftp.rs`).
*State:* the `known_hosts` file, a private in-memory copy of it per connection
attempt, the map of prompts. *Operations:* load, check, prompt, trust, save, revoke.
*Hard:* the copy may be two minutes old when it is written back; saving truncates
and then writes, without a lock; the answer races the timeout. *Correct if* only
keys somebody decided to trust are stored or let through, a revoked key stays
revoked, every handshake ends.

**Exec pool** (`ssh/exec_pool.rs`, with connecting, logging in and
`exec_on_handle` of `ssh/mod.rs`). *State:* per jump host a mutex over at most one
cached connection and the time of its last use. *Operation:* run one command on
the jump. *Hard:* everything happens under the mutex, across timeouts, failures and
the disappearance of the caller. *Correct if* a jump sees one session at a time,
failed connections are not reused, and every call returns.

**Language-server plugins** (`lsp/host.rs`, `lsp/install.rs`; the editor's side is
`lsp/useLspClient.ts`). *State:* the plugins being installed, the binary, a child
process per socket; in the hook the refs of socket, attempts and shutdown, shared by
all runs of its effect. *Hard:* the effect is run again while a probe, an install or
a socket of an earlier run is under way. *Correct if* a run has one connection and
the first connection ends as connected or as failed.

### Modelled: the frontend

**Auth session** (`stores/authStore.ts`, `stores/capabilitiesStore.ts`,
`api/controllerClient.ts`, `hooks/useProactiveRefresh.ts`). *State:* the tokens and
the user, the flag and the queue of the interceptor, the refresh timer, the
permissions. *Hard:* a 401 starts one refresh and makes the other denied requests
wait for it; a timer refreshes beside it; sign-in and sign-out come in between.
*Correct if* nobody waits for a refresh that is not out, and requests settle.

**Terminal connection** (`components/Terminal.tsx`), **enterprise SSH**
(`hooks/useEnterpriseSSH.ts`) and **jumpbox terminal** (`hooks/useJumpboxTerminal.ts`).
Three hooks with one problem: *State:* a ref with the current socket, timers and flags
beside it, a status. *Hard:* a socket reports its end some time after it was
closed, when another may be current. *Correct if* the one live socket is that of the
ref, a lost session is tried again, and the status follows the socket.

**Terminal command line** (`components/Terminal.tsx`, `lib/commandSafetyEngine.ts`,
`components/CommandWarningDialog.tsx`). *State:* the line the device holds and the
terminal's own copy of it, the dialog with the command it asks about. *Hard:* the
two lines are changed apart from each other. *Correct if* a risky line that was typed does
not run unasked, and what the user confirms is what runs. (The second, and the first after
a cancelled dialog, do not hold: section 6.)

**AI agent loop** (`hooks/useAIAgent.ts`, `components/AISidePanel.tsx`). *State:* the
flag, the controller, the resolver, the pending commands and the conversation, one
of each, and any number of loops. *Hard:* stop, approve, reject and a new message
come at every await, and loops overlap. *Correct if* commands run only when shown
and approved, a stopped agent stops, a call is not parted from its results. (The first
holds of `run_command` only, the second up to what is already under way: section 6.)

**MOP execution** (`hooks/useMopExecution.ts`, `components/mop/MopExecuteTab.tsx`,
`components/mop/MopWorkspace.tsx`). *State:* executions, devices and steps in the
agent's tables, a ref and a React state about the current one. *Hard:* the start flow
reads the ref again after each await, the controls are never disabled and replies
are applied as they come. *Correct if* a running execution is the planned one, only a
phase button touches steps before the start, and every flow ends.

**Task list** (`hooks/useAgentTasks.ts`, `handle_task_progress` of `ws.rs`) and
**saved workspaces** (`components/workspace/`, the list in the settings). *State:* a
list here and a list there. *Hard:* lists read earlier arrive, or are written back,
later. *Correct if* what was deleted stays away and what ended is shown as ended.

### Touched by the models, not modelled in full

| component | source | what enters the models |
|---|---|---|
| task progress stream | `tasks/progress.rs` | the last event sent per task (`AgentTasks`), the WebSocket that forwards them (`TaskFeed`); not the bounded buffer or lagging subscribers |
| SSH client | `ssh/mod.rs`, `ssh/jump.rs` | connecting, the key check, login and execution of a command as the modules need them; not shells, jump chains and batch commands |
| SFTP | `sftp.rs` | its unprompted key check |
| terminal sessions | `ws.rs`, `terminal.rs`, `telnet.rs` | opening, announcing and closing a session, for its forwards; not the byte streams |
| HTTP API | `api.rs`, `main.rs`, `tracked_router.rs` | the handlers of the components above, and that hyper drops a handler whose client disconnects |

### Not modelled

| component | source | why |
|---|---|---|
| task tools | `tasks/tools/` | input validation and I/O; the executor tells them apart only as mutating or not, succeeding or failing |
| tunnel health monitor | `tunnels/health.rs` | dead code: `start_health_monitor` has no caller |
| vault and provider | `providers/local.rs`, `crypto.rs`, `biometric.rs` | planned (section 7): the unlock rate limit and the change of the master password; the rest is CRUD |
| AI chat and providers | `ai/` | streaming and prompt construction; the OAuth2 token cache may follow |
| MCP and SMTP | `integrations/` | small: a map of clients and reconnects |
| discovery, SNMP | `discovery/`, `snmp/` | independent probes and the parsing of their output; they share the exec pool only |
| git and scripts | `git/`, `git_api.rs`, `scripts.rs` | one external program per request |
| certificates, TLS | `cert_manager.rs`, `tls.rs` | one value, replaced |
| database | `db/` | migrations and row mapping |
| plan editor | `components/mop/MopWorkspace.tsx` | planned (section 7): saving and reviewing a plan; the pilot mode has no caller that starts it |
| tabs and panels | `App.tsx` and the components it shows | sequential state, changed by clicks |
| topology | `components/Topology*.tsx` | drawing, undo and redo, polling |
| frontend tools, parsers | `lib/`, `utils/` | pure functions on text, tested one by one |
| settings, dialogs, lists | `components/` | forms over the HTTP API |
| desktop shell | `src/frontend/src-tauri` | starts the agent and opens windows |

## 2. Modules

| module | what it is |
|---|---|
| `AgentTasks` | the task executor in full: handlers, runner, approvals, cancellation, restarts |
| `TaskGate` | abstract: one line, bounded room, first come first served, each at most once |
| `Tunnels` | pool, active tunnels, listeners, bridges, session forwards |
| `HostKeys` | `known_hosts`, handshakes, prompts, revocations, restarts |
| `ExecPool` | one slot of the exec pool |
| `LangServer` | install and uninstall of a plugin, and the editor's connection to it |
| `AuthSession` | tokens, denied requests, refreshes, sign-in and sign-out |
| `TermConn`, `EnterpriseSSH`, `JumpTerminal` | the sockets of the three kinds of terminal |
| `TermLine` | the command line and the question before a risky command |
| `AgentLoop` | the loops of the AI chat panel |
| `MopRun` | executing a method of procedure |
| `TaskFeed` | the task list and the WebSocket that feeds it |
| `WorkspaceStore` | the list of saved workspaces |
| `MCAgentTasks`, `MCTunnels`, `MCHostKeys` | instances of one module for TLC |
| `MCRuns`, `MCClients`, `MCHosts` | several components side by side, for TLC |
| `*_proofs`, `LineFacts` | the theorems; `LineFacts` has lemmas on removing an element from a sequence |

`MCRuns` puts `AgentTasks` and `MopRun` side by side, `MCClients` the exec pool and
six frontend components, `MCHosts` `HostKeys`, `LangServer`, `TaskFeed` and
`WorkspaceStore`. The components of such a module share no state. The variable
`part` picks the one whose behaviour it is, the others keep their initial state, so
that the states of the components add up instead of multiplying; one run then
checks all of them.

`TaskGate` is implemented by two components: by `AgentTasks` with capacity
`MaxConcurrent` (line = semaphore queue, inside = live runners) and by `ExecPool`
with capacity 1 (line = queue of the mutex, inside = the call that has it).

An action is one stretch of code between two suspension points. Where the code
runs on without an await (for instance the insert into a map and the send on a
channel after it), that is one action; where it awaits, another task's action may
come between. In the frontend an action is one callback, or what an async function
does between two awaits. An operator whose name ends in `Mutant` is a variation of the definition
after it with a plausible mistake; `PROJECT.json` pairs each with the property that
notices it. No specification uses them.

### AgentTasks

`row` is the table; `launch`, `queue`, `permits` describe the HTTP handler inside
`spawn_task` and tokio's FIFO semaphore; `run` is the program counter of the spawned
runner, `seen` and `goal` the row its `update_task` read and the status it means to
write; `iter`, `blocks`, `prompts` the ReAct loop; `handles` and `token` the registry;
`pending`, `sending`, `answer` the approval service (a prompt on the map; taken off
it by a request; arrived in the oneshot); `req` the cancel and delete requests;
`lastEvent` the progress stream. `executed` and `granted` are ghosts.

| actions | code |
|---|---|
| `CreateTask`, `CheckPending`, `AcquireAndSpawn`, `Register`, `DropHandler` | `create_task`, `spawn_task`; the handler may be dropped at every await of it |
| `StartTask`, `FinishTask` (`ReadRow`, `WriteRow`, `ConfirmRow`) | the two calls of `update_task` by the runner, each of three statements |
| `LoopHead`, `ChatReturns`, `ToolUse`, `ResponseEnds`, `ExecuteTool` | the ReAct loop |
| `RequestApproval`, `AwaitEnds`, `SettleApproval`, `TakePrompt`, `SendAnswer` | a prompt: raised, timed out or answered, taken off the map, answered |
| `Unregister`, `ReleasePermit`, `StoreError` | the ends of a runner |
| `BeginRequest`, `SignalHandle`, `CheckUnregistered`, `CancelRead`, `CancelWrite`, `DeleteRow` | cancel over REST or WebSocket, and DELETE |
| `Restart` | the process ends and starts: the table stays, all else is gone |

### Tunnels

Calls of `start_tunnel` are numbered; the connection, the listener and the active
entry a call creates carry its number, which is the identity the `Arc`s and join
handles have in the code. `pc`, `cur`, `num`, `starts`, `stops`, `left` describe the
callers (REST calls and the session, which start and stop several tunnels in a row);
`pool` and `users` the pool; `active` and `cancelled` the active tunnels and their
tokens; `listener`, `bridge` the tasks. Locks are not variables: who holds one can be
read off the program counters (`PoolReadable`, `PoolWritable`, `ConnFree`).

| actions | code |
|---|---|
| `Request`, `DropCall`, `Finish` | the REST handlers, and their being dropped |
| `CheckActive`, `Lookup`, `JoinConnection`, `Connected`, `StartFails`, `InsertConnection`, `Activate` | `start_tunnel` and `get_or_create_connection` |
| `RemoveActive`, `BeginSweep`, `SweepConnection`, `EndSweep` | `stop_tunnel` |
| `Connect`, `Announce`, `Disconnect` | the SSH terminal session of `ws.rs` |
| `Bind`, `Accept`, `OpenChannel`, `ChannelOpened`, `BridgeEnds`, `ListenerEnds` | the listener and its bridge |
| `Negotiate` | the SOCKS5 greeting and request of a client of a `Dynamic` forward, read with no look at the token |

### HostKeys

`file` is `known_hosts` as its last completed save left it; while somebody saves,
`OnDisk` says what a load may see: any part of the copy being written, and, once
two saves have overlapped (`mixed`), lines whose host and key come from different
entries, since two writers write their pieces at the same offsets. `known` is each
saver's copy, `target` and `presented` what a handshake is about, `pending`,
`sending`, `answer` the prompt. `vouched`, `revoked` and `mixed` are ghosts.

| actions | code |
|---|---|
| `Connect`, `ConnectFails`, `CheckServerKey` | load a copy, dial, and the check of the key presented: known, changed, first contact with and without prompts |
| `AwaitEnds`, `SettlePrompt`, `TakePrompt`, `SendAnswer` | the prompt, its 120 s timeout and its answer |
| `Truncate`, `Write`, `SaveFails` | `save_to_file` |
| `Revoke` | `remove_key`: loads, removes, saves |
| `Restart` | prompts and handshakes go, the file stays as it is, a save in progress is broken off |

### ExecPool

`line` and `holder` are the tokio mutex, `at` the calls, `entry` and `stale` the slot,
`conn` what became of the connection each call opened; `failed` is a ghost.

| actions | code |
|---|---|
| `Call`, `Acquire`, `Return`, `DropCall` | a call from `get_slot` to the end of the guard; its request may be dropped at any await |
| `Disconnected`, `Connected`, `PoolConnectFails`, `AuthEnds` | replacing an expired connection (2 s), connecting (15 s), logging in (no timeout) |
| `ChannelOpened`, `ExecReturns`, `ExecFails` | running the command |
| `Expire`, `Die` | 60 s without use; the connection is lost |

### LangServer

`lsEntry` is the `installs` map of the host, `lsInstall` where each install stands,
`lsBinary` the file; `lsEffect` numbers the runs of the hook's effect, `lsFlow` says
what is under way in each, `lsSocks` the sockets with the run that made them,
`lsAsked` the `initialize` requests by the socket whose `onopen` sent them. The editor is
one of a loose file, whose sockets have a child process each.

| actions | code |
|---|---|
| `InstallAsked`, `InstallStarts`, `InstallExtracts`, `InstallEnds`, `Uninstalled`, `LsInstallStatus` | `lsp/host.rs`, `lsp/install.rs` |
| `AgentRestarts` | the process ends and starts; the binary stays |
| `LsMount`, `LsRunAgain`, `LsCleanup`, `LsUnmount` | the effect and its cleanup |
| `LsListed`, `LsConnect`, `LsNewSocket`, `LsOpened`, `LsAnswered`, `LsUnanswered`, `LsTimedOut`, `LsClosed`, `LsRetry` | the list of plugins, the socket and its events, `initialize` and its timeout, the retry |

### AuthSession

`auStore` is the auth store, a token pair named by its number; `auReqs` the requests,
`auRefreshing` and `auQueue` the interceptor's flag and queue, `auRefreshes` the
refreshes whose answer is out, `auTimer` the proactive refresh, `auPerms` whose
permissions are shown, `auServer` the controller (external).

| actions | code |
|---|---|
| `Login`, `LoginAnswered`, `LoginFails`, `Settle` | `login`, then the user and the capabilities |
| `AuSend`, `Failed`, `Denied`, `Unauthorized`, `Rejected`, `Resent`, `RefreshAnswered` | the request and response interceptors |
| `TimerFires`, `RefreshServed`, `Refreshed` | `useProactiveRefresh`, `doRefreshToken` |
| `LogoutCall`, `SignedOut`, `Reload` | `logout`, and the app loaded anew |
| `AuExpire`, `Issue` | the controller |

### TermConn, EnterpriseSSH, JumpTerminal

The `Socks` variables hold the `readyState` of each socket, including those that close
while another is current; `tcRef`, `esRef` and `jtActive` the ref. The others are the
refs, timers and React states beside it, under their names in the code. `esBorrowed` names
the sockets a redirect has opened: they have the handlers of the first socket, so that
a redirect or a `Close` that comes on one of them closes the first one again and not it.

| actions | code |
|---|---|
| `MountConnects`, `TcConnect`, `TcOpened`, `SshConnected`, `OutputArrives`, `MarkConnected`, `TcClosed` | `connect` of `Terminal.tsx` and the handlers it installs |
| `CountdownEnds`, `ReconnectNow`, `CancelOverlay`, `DisableAutoReconnect`, `TcUnmount` | the overlay, its countdown and buttons, and the cleanup |
| `EsMount`, `EsConnect`, `EsOpened`, `SessionInfo`, `Redirect`, `CloseAsked`, `PongMissing`, `EsClosed`, `EsRetry`, `EsReconnect`, `EsUnmount` | `useEnterpriseSSH`; `PeerVanishes` is the network |
| `JtMount`, `JtConnect`, `JtReconnect`, `JtOpened`, `JtSessionInfo`, `JtError`, `JtServerCloses`, `JtClosed`, `JtUnmount` | `useJumpboxTerminal` |

### TermLine

`tlLine` is the line of the device (external), `tlBuf` the terminal's copy of it,
`tlDialog` the command the dialog shows, `tlDelayed` what a capture sends 50 ms later.
The ghost `tlSource` says what line and copy have taken since they were last empty together:
keys only, keys and a cancelled dialog, or something else; a suggestion put on an empty line
(`Suggested`) counts as keys. The ghost `tlRan` says how the last line came to run.

| actions | code |
|---|---|
| `KeyTyped`, `Backspace`, `CtrlC`, `OtherKey`, `EnterCaptures`, `CaptureSent`, `EnterAsks`, `EnterRuns` | `onData` |
| `Unseen`, `UnseenEnter`, `NextStep` | text and Enter that reach the device past it: suggestions, snippets, broadcasts |
| `Proceed`, `UseAlternative`, `CancelDialog` | the buttons of the dialog |
| `LineLost`, `LineBack` | the connection goes and comes back |

### AgentLoop

`agLoop` says of each loop where it awaits, the autonomy it was started with, the
tools still to run and whether the user approved them. A tool is a `run_command` with its
command, one with a list of commands (`batch`, and `more` for each that follows: the list is
one await per command and does not look at the flag), or any other, among them those that
reach a device by themselves (`device`). `agStop`, `agAbort`, `agResolver`, `agPending`, `agTalk` are the refs and
states all loops share. The ghosts: `agHalted` is the only loop there was when
Stop was pressed, `agMixed` that loops have overlapped or the conversation was cleared or
replaced under one.

| actions | code |
|---|---|
| `AgSend` | `sendMessage` |
| `Answered`, `ApiFails`, `ToolsCalled`, `Asked`, `Executes`, `NothingToShow`, `ToolEnds`, `ToolThrows`, `Resume`, `AgOthers`, `Rest`, with `Round`, `EndRound`, `Ends`, `Truncated` | the loop between its awaits: the model, the approval, each tool, the next round |
| `Approve`, `Reject`, `AgStopPressed`, `AgClear`, `SetLevel` | the buttons of the panel |
| `AgContinue` | other messages are handed to the hook and replace the conversation (`Histories`: their texts) |

### MopRun

`runExecs` and `runRows` are the agent's tables, `runRef` and `runShown` the ref and the
React state, `runFlow` the start flow, `runPhase` a phase on all devices, `runCalls` the
calls in flight and the command that is being edited, `runLoad` the tab opened on an execution. The ghost `runMixed` records
that a reply about an execution came after a later one had been created.

| actions | code |
|---|---|
| `StartFlow`, `Created`, `DeviceAdded`, `DeviceShown`, `StepsAdded`, `StartCalled`, `FlowFails` | `startExecutionFlow`, one action per await |
| `Control`, `StepCalled`, `Handled`, `Replied`, `Cancelled`, `CallFails`, `RunReset` | the controls: sent, handled by the agent, applied when the reply comes |
| `EditSaved` | the input of an edited command is left: its step is made pending, whatever became of it since |
| `PhaseClicked`, `PhaseOnDevice`, `PhaseListed`, `PhaseShown` | `runPhase` |
| `CloseTab`, `Reopen`, `LoadedExecution`, `LoadedRows`, `LoadFails` | the tab |

### TaskFeed

`tfTask` are the rows of the tasks in the agent's table, `tfRunner` how far the runner of each
is, `tfCancel` the tasks a cancel has read as pending; `tfRows` what the list shows of each,
`tfDeleted` the ids this window deleted; `tfSubs`, `tfLeaving`, `tfComing`, `tfWs`, `tfStay`,
`tfOpening` the variables of the module, `tfSocks` the sockets with what is on the way.

| actions | code |
|---|---|
| `TaskMade`, `TaskDropped` | a task is created, by this window or another, and deleted |
| `RunnerLooks`, `RunnerStarts`, `RunnerTells`, `RunnerEnds` | the runner: a row is written and the event sent in different steps, and a runner whose row was overwritten or has gone leaves without one |
| `CancelSees`, `CancelWrites` | a cancel of a pending task, which writes what it read earlier about and sends no event |
| `ListSent`, `Broadcast` | `handle_task_progress` and the events |
| `Subscribe`, `Unsubscribe`, `Disconnects`, `Reconnects`, `ModuleConnect`, `FeedOpened`, `FeedClosed` | the shared socket and its timers |
| `Received`, `SetTasks`, `UpdateTask` | a list or an event arrives |
| `CreateAsked`, `CreateAnswered`, `DeleteTask` | the requests of this window |

Standalone mode only. A subscription needs two free sockets, a bound; a list the agent cannot
read is left out. No fairness is assumed: `EndsAreShown` says what is on the way.

### WorkspaceStore

`wkStored` is the list in the settings, `wkPanel` the sidebar's copy, `wkOpen` the tabs,
`wkOps` the calls under way, each with its own copy of the list. The ghost `wkGone` holds
what was deleted when nobody else still had its row.

| actions | code |
|---|---|
| `OpenAdds`, `AutoSaves`, `TabCloses` | the tab, its auto-save after a second, its save when it goes |
| `WkLoads`, `AddSaves`, `UpdateSaves`, `WkFails` | load the list, change it, write it back |
| `PanelLoads`, `DeleteAsks`, `DeleteConfirmed`, `DeleteSaves` | the sidebar and its deletion |

## 3. Runs

`Spec` is `Init /\ [][Next]_vars`, `FairSpec` adds fairness (section 4); `PartsSpec` is
that of a module with several components.

| run | what it checks and shows |
|---|---|
| `tasks_queue` | two tasks, one permit and a client that cancels and deletes, under fairness: `QueuedTasksAreDecided`, `TerminalEventIsLast` and the refinement `ImplementsGate` |
| `runs` | *task:* one task over two iterations with tools and prompts, a cancel or delete, a restart and a database error: `MutationsWereApproved`, `PermitsConserved`, `ResultsAreTheRunners`, `RunningHasARunner`, and `CancelledRunnersEnd`. *MOP:* two executions on two devices, with two controls in flight, a tab that is closed and opened: `RunningHasItsPlan`, `OnlyPhasesRunAhead`, and `RunsEnd` |
| `clients` | *pool:* four calls to one jump, two of which may be cut off: `FailedHandlesAreNotReused`, `CallsReturn`. *auth:* `NobodyWaitsInVain`, `RequestsSettle`. *terminals:* `OneLiveSocket`, `OneSession`, `LostIsRetried`, `JumpFollowsItsSocket`. *agent:* `CommandsWereShown`, `ResultsFollowTheirCall`, `StoppedLoopsRunNoCommand`, `StoppedLoopsEnd`. *line:* `TypedRisksAreAsked` |
| `hostkeys_trust` | *hosts:* a prompted and an unprompted handshake, two hosts, two keys, a revocation, a restart: `KeysAreVouchedFor`, `HandshakesEnd`. *server:* `OneConnectionPerRun`, `FirstConnectSettles`. *feed:* `DeletedComesBackByItsCreateOnly`, `EndsAreShown`. *workspaces:* `GoneStaysGone` |
| `tunnels_pool` | three overlapping starts and stops by two REST calls, one of which may be cut off: `PoolHoldsNoStrays` |
| `tunnels_session` | a terminal session with a forward, an automatic start, a REST call and a bridge, under fairness: `ClosedSessionsLeaveNothing`, `CallsReturn` (no deadlock between the pool lock, the connection mutexes and the bridges), `CancelledListenersEnd` |
| `tasks_terminal_rows`, `tasks_cancel_window`, `tasks_last_iteration`, `tunnels_listener`, `hostkeys_revoked`, `line_confirmed` | each checks one statement of a comment that the code does not keep (section 6) |

`runs`, `clients`, `hostkeys_trust` and `tunnels_pool` also check the type invariant of every
component in them (`TypesOK`, `TypeOK`).

In `CommandsWereShown`, `StoppedLoopsRunNoCommand`, `OneSession`, `TypedRisksAreAsked` and
`RequestsSettle` the comments name what the code does not keep and the property therefore leaves
out; section 6 lists it.

Deadlock is checked wherever something may always come. The exception is `HostKeys`: there the
handshakes are given, and when the last of them has ended nothing is left to do. That
nothing is stuck before that is what `HandshakesEnd` says. Because deadlock is off in
`hostkeys_trust` it is off for the three components beside it too, whose liveness
properties stand in for it. (In `clients` the pool has a step of its own for being
done, `PoolServed`.)

**Bounds.** The bounds are constants, named in each module.

* *Tasks = 2, one permit* (`tasks_queue`). Admission is about one runner inside and another waiting;
  a third task adds only a longer line, and the theorems cover any number. The two ids
  are interchangeable, so they are created in one order (`CreatedInOrder`); a symmetry set would
  not be sound with a liveness property.
* *One task, MaxIterations = 2, MaxBlocks = 1* (`runs`). A second iteration distinguishes "stops
  at the next loop head" from "stops at once", and gives the task a second prompt that an
  answer to the first must not reach. The client cancels and deletes any number of times,
  one request after the other, at any moment of the runner's life.
* *MaxRestarts = 1, MaxStoreErrors = 1.* One of each can fall between any two steps.
* *NDevices = 2, MaxExecs = 2, MaxRows = 3, MaxCalls = 2, MaxStepOps = 1.* A flow half-way through needs a
  second device, a reply about an earlier execution needs a later one, and two calls can be
  handled and answered in the wrong order. Three rows are one execution in full and the first
  device of another. `SecondOnlyStarts` keeps the instance within minutes: while a second execution
  exists, steps and phases have not been used; the theorems are free of it.
* *MaxStarts = 3, two tunnels to one server, two REST calls.* Two calls are needed
  for a race, a third start for a start that follows a race and meets what it left.
  Tunnels with different keys share only the locks. `MaxBridges = 1` suffices to
  hold a connection mutex while a stop wants it. In `tunnels_session` the forward is dynamic
  and the stored tunnel is not, so that bridges of both kinds occur.
* *Two handshakes and one revocation, two hosts, two keys.* Any stale copy needs one
  saver that loads early and one that saves in between, and two hosts tell the loss
  of another's entry from that of one's own. Hosts and keys are interchangeable, so the
  prompted handshake takes the first of each (`OneOfThem`).
* *Four calls of the pool.* One that leaves a connection behind, one that finds it dead or
  expired, and two in line behind, of which one disappears.
* *Two requests, two token pairs.* One that starts the refresh and one that
  waits for it; the pair that expires and the one that follows. A third pair would only
  send a waiting request round once more (see `RequestsSettle`).
* *Four sockets of a local or enterprise terminal, three of a jumpbox.* The current one and late events of
  two or more that it has replaced. A tab of `TermConn` may use four one after the other, the others
  use a socket again after its last event.
* *Two loops, two steps of tools, two messages kept.* One loop beside another; a tool, or a command
  of a list, before and after a stop; the shortest limit that does not part a call from its
  results. Messages handed in from outside (`Histories`) are as many as are kept.
* *MaxLine = 2.* A risky token with something before or after it.
* *Two runs of the effect, two sockets, one retry; one component that shows tasks and three sockets
  with two messages and a list each; two workspaces and two calls.* Each is an older and a newer one of
  its kind; the third socket is one that closes, and the component comes and goes.

## 4. Fairness

* *Tokio polls every task that can go on*: weak fairness of handlers and runners in
  `AgentTasks`, of callers and listeners in `Tunnels`, of handshakes in `HostKeys`.
  Weak fairness is enough as the semaphore and the locks of tokio are FIFO; the
  models contain the queue where its order matters (`queue`, `line`).
* *Timers fire*: a prompt of a task after 600 s, of a host key after 120 s, connecting
  after 15 s, disconnecting a stale connection after 2 s; in the frontend the retries of
  `EnterpriseSSH` and `LangServer` and the timeout of `initialize`. In `ExecPool` fairness is
  on `Acquire` and on the steps a timer forces (`TimerStep`), and on nothing else.
* *The browser settles what is under way*: a socket that is connecting opens or fails, one that
  is closing closes, and a request is answered or fails (`AuthFairness`, `EsFairness`, `LsFairness`,
  `RunFairness`).
* *Promises resume*: each step of a loop in `AgentLoop`, of the start flow and of a phase in `MopRun`.
* *What is outside is under no obligation*: users need not answer, cancel, click or close
  anything, a terminal need not be closed, restarts need not happen, an open socket need not
  be lost. A client of a dynamic forward may keep silent in the SOCKS5 negotiation, which reads
  from it without a timeout (`Negotiate` is not fair); its bridge outlives the stop then, and
  `CancelledListenersEnd` says so. In `ExecPool` servers need not answer; that a login ends, which has no timeout in
  the code, is a hypothesis inside `CallsReturn`. A language server need not answer either.
* *Hypotheses inside properties*: `RequestsSettle` supposes that access tokens stop expiring at some
  time. A request that was denied and waited in the queue is not marked as a retry
  (`controllerClient.ts:142-151`), so that each token that runs out too early sends it there again.
* *Assumed of the outside*: a request to the AI provider ends (its HTTP clients have
  timeouts of 60 to 120 s, `ai/providers.rs`), and so does a tool; in `Tunnels` the SSH server answers connection and channel requests
  in the end, and a bridge whose token is cancelled ends.

## 5. Proofs

TLAPS proves these for every value of the constants, from the assumptions named in
the modules and nothing else: the bounds are natural numbers (positive where a
capacity of zero makes no sense), slots are finite sets, "none" is no id. Two
assumptions say something of the code. `KeysAssumption` of `Tunnels` keeps the forwards of a
session apart from the stored tunnels that start by themselves (the ids of forwards are
`session:...`, `ws.rs:232`), and `MaxConcurrent` is positive (it is three).

| module | theorem | what it says |
|---|---|---|
| `AgentTasks_proofs` | `TypeCorrect` | `Spec => []TypeOK` |
| | `PermitsAreConserved` | free permits and live runners add up to `MaxConcurrent` |
| | `GateIsImplemented` | `Spec => Gate!GateSpec` |
| | `OnlyApprovedMutations` | a mutating tool runs only for a prompt a user approved |
| | `EveryPromptHasAWaiter` | a visible prompt has a runner suspended on it |
| | `ResultsComeFromTheRunner` | a row reads completed or failed only if its runner decided exactly that |
| | `RunningRowsAreWorkedOn` | short of restarts and database errors, a running row has a runner |
| | `NothingFollowsATerminalEvent` | a terminal event is the last of its task |
| `Tunnels_proofs` | `TypeCorrect` | `Spec => []TypeOK` |
| | `PoolListsOnlyTunnelsInUse` | `PoolHoldsNoStrays`, for any keys, tunnels and callers |
| | `ClosedSessionsAreClean` | `ClosedSessionsLeaveNothing`, for any forwards |
| `MopRun_proofs` | `RunTypes` | rows that are shown, listed, called or added exist in the table |
| | `RunningWithItsPlan` | a running execution has every device with the steps of its plan |
| | `OnlyPhasesRunBeforeTheStart` | nothing but a phase button touches a step of an execution that was not started |
| | `TypesAreCorrect` | the types in the composition `MCRuns` |
| `AgentLoop_proofs` | `AgentType`, `AgentPanel` | types; the panel shows the commands of a loop that waits |
| | `AgentCommandsWereShown` | a `run_command` runs only when approved on the panel, or in safe-auto |
| | `AgentStopsCommands` | a stopped loop that was alone calls no further `run_command` |
| | `AgentResultsFollow` | no results are sent without their call |
| `AuthSession_proofs` | `AuthType` | types: whatever token is named has been issued |
| | `AuthNobodyWaitsInVain` | who waits has a refresh under way that will release it |
| | `AuthSignedInHasTokens` | who is shown as signed in has tokens |
| `Connections_proofs` | `TypeCorrect`, `OneSessionForAJump`, `NoFailedHandles`, `GateIsImplemented` | `ExecPool`: types, one connection per jump, no failed one again, a gate of capacity one |
| | `TermConnType`, `TermConnOneSocket` | `TermConn`: types, one live socket |
| | `EnterpriseType`, `EnterpriseOneSession`, `EnterpriseRetryIsArmed` | `EnterpriseSSH`: types, one live socket but for those a second redirect has left open, a lost session has its retry to come |
| | `JumpType`, `JumpFollows` | `JumpTerminal`: types, everything follows the active socket |
| | `TermLineType`, `TermLineAsks` | `TermLine`: types, no risky line of keys alone runs unasked, unless its dialog was cancelled |
| | `TypesAreCorrect` | the types in the composition `MCClients` |
| `Hosts_proofs` | `TypeCorrect`, `EveryPromptHasAWaiter`, `OnlyVouchedKeys` | `HostKeys`: types, prompts have a waiter, only keys somebody trusted are stored or let through |
| | `LanguageTypes`, `RunsHaveOneConnection` | `LangServer`: types, one connection per run of the effect |
| | `FeedTypes`, `DeletedTasksStayAway`, `EndsAreOnTheirWay` | `TaskFeed`: types, what was deleted comes back by its create only, an end that was sent and is not shown is on its way |
| | `WorkspaceTypes`, `GoneWorkspacesStayGone` | `WorkspaceStore`: types, what is gone stays gone |
| | `TypesAreCorrect` | the types in the composition `MCHosts` |

Most invariants are not inductive as they stand. What each proof adds, and why:

**AgentTasks.** `TypeOK` is inductive; it is proved part by part, one lemma per part
and one step per action. `PermitsConserved` is not: that a permit is taken once per
task needs to know that a task whose handler has not left the line has no runner
(`LaunchedOnce`), that only tasks that exist are asked to be cancelled
(`RequestsKnown`), and that `Inside` is finite, for the cardinalities. `AdmissionInv`
is their conjunction. The refinement maps every action to a gate step or a stutter
under that invariant. `ApprovalInv` follows an approval on its way: taken off the map, in the
oneshot, read by the runner; at each place it belongs to the prompt that the runner
waits for, because a task has one prompt at a time (`PromptsHaveAWaiter`). `ResultInv` ties the row
and the last event to the place of the runner: a runner writes "running" when it starts
and its result when it ends (`GoalsFollowTheRun`), a result is in the row only from then on
(`ResultsComeLast`), and "running" only between the two writes (`RunningIsWorking`).

**Tunnels.** `PlacesInv` adds to the types what the place of a caller says of its call
(`CallsOK`) and of the locks (`LocksOK`): while somebody sweeps the pool nobody joins a connection or
sweeps too, so that the connection is still there. With it
`PoolHoldsNoStrays` is inductive as it stands. `SessionInv` follows the forwards of a
session: only the session starts them (`OnlyTheSessionStartsForwards`), each once
(`EachForwardOnce`), a live listener of one is that of its active entry or about to be
(`ForwardsAreListed`), and once the session is gone what is still active is still to be
stopped (`SessionMoves`).

**HostKeys.** `TypeOK` and `PromptsHaveAWaiter` are inductive together: only the
waiter of a prompt gives the answer a type. `TrustInv` adds that every private copy,
not only the file, holds vouched keys (`StoresOK`), since any copy may become the
file, and that an approval on its way is about the host and key of its handshake
(`DecisionsOK`). The ghost `mixed` weakens the claim to "vouched for some host" once two
saves have overlapped, since then it is not true of the very host.

**ExecPool.** `PoolInv` adds to the types that the line lists waiting calls without
repetition (`LineOK`, which makes leaving the line well defined; `LineFacts` has the
lemmas) and how the slot and the connections fit the place of the call that has the
mutex (`SlotOK`).

**MopRun.** `MopTypes` says that the table only grows and that every row named anywhere is in it.
`PlanInv` holds in a tab that was not opened on an execution and was
given no late reply (`OneExecution`). There the ref and
what is shown are about the latest execution (`RefIsLatest`, `RowsAreLatest`), the flow has
prepared the devices it has passed (`FlowPlans`), a call to start, pause or resume is
about an execution that is planned in full (`CallsPlanned`), and so is whatever is shown as live
(`LiveIsPlanned`). For `OnlyPhasesRunBeforeTheStart` the calls about single steps in flight are followed to
the execution of their row, which has been started. The hypothesis is needed: TLC finds the execution that runs
half-planned without it (section 6).

**AgentLoop.** `Commands` says whose commands the panel shows, over any number of loops, and which
tools a loop may still have in hand at each place, approved or not.
`Talk` says that a loop that is alone, with a call under way, has the call as
its last message. `HaltInv` says that a stopped loop that was alone stays alone with
the flag set and nobody to ask, and that a refusal leaves no `run_command` in the list.

**AuthSession.** `Inv` has the queue, the flag and the refreshes request by request
(`Waiting`), at most one request that refreshes (`OneRefresher`), and that the n-th sign-in
asks for its permissions after it has the user (`LoginsInOrder`).

**Sockets.** `OneLiveSocket`, `OneSession` and `JumpFollowsItsSocket` are inductive with their types and,
for `EnterpriseSSH`, `RetryIsArmed`; a new socket leaves alone live, beside itself, only what a second redirect has left open. **TermLine:** as long as line and copy
have taken keys only they are equal (`KeysKeepThemEqual`). **LangServer:** a run of the effect has a probe,
a socket or a retry and not two of them, and a run that has not begun has none
(`OneThingPerRun`). **TaskFeed:** the messages on the way are typed; sockets that are not
open have none (`OthersAreEmpty`); once the end of a task was told, on every open socket it comes behind
whatever says running (`ClaimsAreCorrected`), and no list can say so any more (`DoneIsOver`). **WorkspaceStore:** a row
that is gone is in no list, no copy and no call that would add it (`NobodyHasGone`).

**Compositions.** `PartsStep` shows that a step of `MCRuns`, `MCClients` or `MCHosts` is a step
or a stutter of each component, and `PartsAreBehaviours` that their behaviours are behaviours
of each; so the theorems hold of what is model-checked, `TypesOK` among them.

**Only model-checked:** liveness under fairness, which the prover does not reach
(`QueuedTasksAreDecided`, `CancelledRunnersEnd`, `CallsReturn` of tunnels and pool,
`CancelledListenersEnd`, `HandshakesEnd`, `FirstConnectSettles`, `RequestsSettle`,
`LostIsRetried`, `StoppedLoopsEnd`, `RunsEnd`), and the six statements that fail. Every
invariant and every action property of a passing run is stated by a theorem.

## 6. Where the code and its texts disagree

Six runs show a statement of the repository that the code does not keep.

* `tasks_terminal_rows` (`tasks/store.rs:109`): "terminal (no transitions out)"
  (`models.rs:47`). A cancel between the SELECT and the UPDATE of the runner's
  `update_task` is overwritten: a cancelled task runs.
* `tasks_cancel_window` (`tasks/executor.rs:190`): no handle means "Task not running"
  (`executor.rs:194`). Between spawn and register a running task has none, and the
  cancel signals nobody.
* `tasks_last_iteration` (`tasks/react.rs:463`): the loop "iterates until completion".
  A conversation that ends in the last allowed iteration is recorded as failed.
* `tunnels_listener` (`tunnels/mod.rs:374`): stop will "cancel the listener task"
  (`mod.rs:388`). Of two overlapping starts of one tunnel the first listener is
  beyond the reach of every stop.
* `hostkeys_revoked` (`ssh/host_keys.rs:183`): after a revocation the user "will get a
  fresh TOFU prompt" (`api.rs:9538`). A handshake with another host writes the
  revoked key back with its older copy.
* `line_confirmed` (`components/Terminal.tsx:3037`): "Send the command that was pending"
  (3036). The command goes out after its own text, which is already on the line of the device:
  it runs `reloadreload`.

Seen in the models and stated by no run (the first group is in `hazards` where a property bears on it):

*Agent.* A runner that ends before it is registered leaves its handle in the registry for
ever. Overlapping starts to one server open two connections, which "share a single
connection" in `mod.rs:4-5`; a slow sweep takes a restarted tunnel off the connection it
uses; a start refused late leaves its id on the connection; a session whose terminal is gone
before it is announced skips the cleanup of its forwards (`ws.rs:272`, `ws.rs:288`).
A login without timeout blocks the slot of a jump; a connection that is lost while a
command runs counts as success and fails the next call. A crash between truncating
and writing `known_hosts` loses every trusted key; overlapping saves can put a key
under another host. A client of a dynamic forward that keeps silent in the SOCKS5 negotiation
(`dynamic_forward.rs:104-206`) keeps its bridge after the stop. A runner whose last write is
refused or fails leaves without an event (`executor.rs:301`, `executor.rs:327`), and a list
shows its task as running until it is read again; a restart leaves running rows behind. An install whose agent restarts, or that was started twice, may be
shown as under way for ever. `change_master_password` reads a column that no migration makes
(`providers/local.rs:2101`, `db/schema.sql:665-681`) and cannot succeed.

*MOP.* Cancel or Abort while an earlier control is under way, start again, and the late reply
sets the ref back to the old execution: the rest of the start flow adds devices and steps to
that one and starts it. The result of a phase of the old execution is shown in
the new one. The phase buttons run the steps of an execution that was not started
(`MopExecuteTab.tsx:412`). A late save of an edited command resets a step that has run since
(`MopExecuteTab.tsx:801-812`, `MopWorkspace.tsx:1108-1118`). The status of an execution is not final: the agent writes what is asked for.

*Command line.* After a cancelled dialog the copy is empty while the device has the line, and the
next Enter runs it unasked (`Terminal.tsx:3051`), against "Press Enter to see confirmation
dialog" (`SettingsHighlighting.tsx:760-761`). A line with a capture is not asked
about either (`Terminal.tsx:1182-1188`).

*Sockets and sessions.* A second redirect of an enterprise session closes the first socket again and
leaves open the one it came on (`useEnterpriseSSH.ts:257`, `280-283`), against "Close current
connection without triggering reconnect" (`useEnterpriseSSH.ts:255`). A request that is denied again after it has
waited in the queue waits there again, without limit (`controllerClient.ts:142-151`). A terminal's status does not follow its socket after a late close.
A late close takes the keepalive of the enterprise socket that replaced it. The
interceptor and the timer may refresh together, against "to prevent race conditions"
(`hooks/useProactiveRefresh.ts:12-13`). After the effect of the language client has run again a lost
connection is not retried. Two sockets may feed one task list, against "one WS shared across
all hook consumers" (`hooks/useAgentTasks.ts:146`), which may also show a row twice, and a
subscriber may be left without any; a pending task that is cancelled sends no event.

*Chat and workspaces.* At the manual level, too, `ai_ssh_execute` (`useAIAgent.ts:996`),
`discover_neighbors` (`useAIAgent.ts:1527`) and the file tools (`useAIAgent.ts:2072-2113`) run
unasked, against "User must approve every action" (`api/agent.ts:13`); a `run_command` with a list of
commands ends the loop before the panel (`useAIAgent.ts:2625-2632`). After Stop such a list goes on to
its end in safe-auto (`useAIAgent.ts:977-989`), and so do all tools but `run_command` once it
was refused (`useAIAgent.ts:2650-2661`). Two loops take each other's flag and resolver. Closing a tab and deleting its workspace races with the
tab's save, against "even with the race this would be safe"
(`components/workspace/WorkspacesPanel.tsx:141`); a panel that is not shown again keeps its old list.

## 7. Plan

The order was: what runs unattended and changes devices first (`AgentTasks`), then
what all connections rest on (`HostKeys`), then the pools (`Tunnels`, `ExecPool`), then the
frontend's sessions and loops. Next:

1. *Vault* (`providers/local.rs`): unlock with its rate limit, lock, and the change of
   the master password against concurrent reads and writes. Properties: every stored
   secret can be read with the current key, whatever interleaves.
2. *Progress stream* (`tasks/progress.rs`): the bounded buffer and subscribers that lag
   behind, between `AgentTasks` and `TaskFeed`. An abstract specification of what a
   list may show, implemented by both together.
3. *Plan editor* (`components/mop/MopWorkspace.tsx`): edits made while a save is under way are
   marked clean when it returns (line 713).
4. *Refinements worth stating*: one abstract "session with one live socket" implemented by
   `TermConn`, `EnterpriseSSH` and `JumpTerminal`, which are now proved one by one.
5. Smaller ones: sessions that several editors share, the OAuth2 token cache, the map of MCP clients.

The project keeps to about a dozen runs, so that checking all of them stays a matter
of minutes: a new component joins one of the compositions.

## 8. Running it

    tlc -workers 2 -config HostKeysTrust.cfg MCHosts
    tlapm Hosts_proofs.tla

Every configuration ends within five minutes on two cores; a proof module takes some
minutes from nothing.

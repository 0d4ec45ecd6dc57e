----------------------------- MODULE LangServer -----------------------------
(***************************************************************************)
(* A language server from both ends: the host of the agent that installs   *)
(* its binary on demand (lsp/host.rs, lsp/install.rs), and the editor that *)
(* connects to it (useLspClient).  The editor is one of a loose file: its  *)
(* WebSockets have a child process each and share it with nobody.          *)
(*                                                                         *)
(* The effect of the hook runs again whenever the language, the file or    *)
(* the refresh key changes.  Every run has a "cancelled" of its own; all   *)
(* runs share the refs wsRef, reconnectAttemptsRef, shutdownInitiatedRef.  *)
(***************************************************************************)
EXTENDS Integers, FiniteSets

CONSTANTS LsInstalls,      \* requests that install the plugin
          LsSlots,         \* bound: sockets that exist, or are waited for, at once
          LsMaxEffects,    \* bound: runs of the effect
          LsMaxAttempts,   \* RECONNECT_MAX_ATTEMPTS
          LsMaxRestarts    \* bound: restarts of the agent

ASSUME LsAssumption ==
  /\ IsFiniteSet(LsSlots) /\ "none" \notin LsSlots
  /\ LsMaxEffects \in Nat /\ LsMaxAttempts \in Nat /\ LsMaxRestarts \in Nat

VARIABLES lsEntry,      \* LspHost.installs has the plugin
          lsInstall,    \* where each request and its task stand
          lsBinary,     \* the binary is at its path
          lsRestarts,   \* restarts so far
          lsMounted,    \* the editor is there
          lsEffect,     \* the current run of the effect
          lsFlow,       \* what is under way in each run
          lsShutdown,   \* shutdownInitiatedRef
          lsTries,      \* reconnectAttemptsRef
          lsSocks,      \* readyState of each socket and the run that made it
          lsRef,        \* wsRef
          lsAsked,      \* pendingRef: by the socket whose onopen asked, the socket
                        \* its initialize went out on, "lost", or "none"
          lsStatus      \* status

lsHostVars == <<lsEntry, lsInstall, lsBinary, lsRestarts>>
lsRunVars == <<lsMounted, lsEffect, lsShutdown>>
lsVars == <<lsHostVars, lsRunVars, lsFlow, lsTries, lsSocks, lsRef, lsAsked, lsStatus>>

LsRuns == 1..LsMaxEffects
LsNoSocket == [state |-> "closed", by |-> 0]

LsInit ==
  /\ lsEntry = FALSE
  /\ lsInstall = [i \in LsInstalls |-> "off"]
  /\ lsBinary = TRUE
  /\ lsRestarts = 0
  /\ lsMounted = FALSE /\ lsEffect = 0 /\ lsShutdown = FALSE
  /\ lsFlow = [f \in LsRuns |-> "none"]
  /\ lsTries = 0
  /\ lsSocks = [s \in LsSlots |-> LsNoSocket]
  /\ lsRef = "none"
  /\ lsAsked = [s \in LsSlots |-> "none"]
  /\ lsStatus = "idle"

----------------------------------------------------------------------------
(* The host.                                                                *)

LsClientUnchanged ==
  UNCHANGED <<lsRunVars, lsFlow, lsTries, lsSocks, lsRef, lsAsked, lsStatus>>

\* install_plugin looks the plugin up and, in a second step, inserts it.
InstallAsked(i) ==
  /\ lsInstall[i] = "off"
  /\ lsInstall' = [lsInstall EXCEPT ![i] = IF lsEntry THEN "refused" ELSE "checked"]
  /\ UNCHANGED <<lsEntry, lsBinary, lsRestarts>> /\ LsClientUnchanged

InstallStarts(i) ==
  /\ lsInstall[i] = "checked"
  /\ lsInstall' = [lsInstall EXCEPT ![i] = "running"]
  /\ lsEntry' = TRUE
  /\ UNCHANGED <<lsBinary, lsRestarts>> /\ LsClientUnchanged

\* The wheel is downloaded, verified and extracted; the smoke test follows.
InstallExtracts(i) ==
  /\ lsInstall[i] = "running"
  /\ lsInstall' = [lsInstall EXCEPT ![i] = "testing"]
  /\ lsBinary' = TRUE
  /\ UNCHANGED <<lsEntry, lsRestarts>> /\ LsClientUnchanged

\* The task ends, well or not, and removes the plugin from a copy of the map.
InstallEnds(i) ==
  /\ lsInstall[i] \in {"running", "testing"}
  /\ lsInstall' = [lsInstall EXCEPT ![i] = "ended"]
  /\ UNCHANGED <<lsEntry, lsBinary, lsRestarts>> /\ LsClientUnchanged

\* uninstall_plugin removes the directory, whatever runs from it or writes to it.
Uninstalled ==
  /\ lsBinary /\ lsBinary' = FALSE
  /\ UNCHANGED <<lsEntry, lsInstall, lsRestarts>> /\ LsClientUnchanged

\* compute_install_status
LsInstallStatus ==
  IF lsEntry THEN "installing" ELSE IF lsBinary THEN "installed" ELSE "not-installed"

\* The map and the tasks are gone, and so is the server end of every socket.
AgentRestarts ==
  /\ lsRestarts < LsMaxRestarts
  /\ lsRestarts' = lsRestarts + 1
  /\ lsEntry' = FALSE
  /\ lsInstall' = [i \in LsInstalls |-> IF lsInstall[i] = "off" THEN "off" ELSE "ended"]
  /\ lsSocks' = [s \in LsSlots |->
       IF lsSocks[s].state = "closed" THEN lsSocks[s]
       ELSE [lsSocks[s] EXCEPT !.state = "closing"]]
  /\ UNCHANGED <<lsBinary, lsRunVars, lsFlow, lsTries, lsRef, lsAsked, lsStatus>>

----------------------------------------------------------------------------
(* The editor.                                                              *)

Cancelled(f) == ~lsMounted \/ f # lsEffect

\* The cleanup of the current run: a socket that is open is closed.
LsCleanup ==
  /\ lsShutdown' = TRUE
  /\ lsSocks' =
       IF lsRef # "none" /\ lsSocks[lsRef].state = "open"
       THEN [lsSocks EXCEPT ![lsRef].state = "closing"] ELSE lsSocks

LsMount ==
  /\ lsEffect = 0 /\ LsMaxEffects > 0
  /\ lsMounted' = TRUE /\ lsEffect' = 1
  /\ lsFlow' = [lsFlow EXCEPT ![1] = "listing"]
  /\ UNCHANGED <<lsHostVars, lsShutdown, lsTries, lsSocks, lsRef, lsAsked, lsStatus>>

\* Another language or file, or the banner's refresh after an install.
LsRunAgain ==
  /\ lsMounted /\ lsEffect < LsMaxEffects
  /\ LsCleanup
  /\ lsEffect' = lsEffect + 1
  /\ lsFlow' = [lsFlow EXCEPT ![lsEffect + 1] = "listing"]
  /\ UNCHANGED <<lsHostVars, lsMounted, lsTries, lsRef, lsAsked, lsStatus>>

LsUnmount ==
  /\ lsMounted /\ lsMounted' = FALSE
  /\ LsCleanup
  /\ UNCHANGED <<lsHostVars, lsEffect, lsFlow, lsTries, lsRef, lsAsked, lsStatus>>

LsFlowEnds(f) == lsFlow' = [lsFlow EXCEPT ![f] = "none"]

\* A new socket takes the place of the one in wsRef, which is left alone.
\* It takes any free slot.
LsFree == {s \in LsSlots : lsSocks[s].state = "closed" /\ lsAsked[s] = "none"}

LsNewSocket(f) ==
  LET s == CHOOSE s \in LsFree : TRUE IN
  /\ LsFree # {}
  /\ lsSocks' = [lsSocks EXCEPT ![s] = [state |-> "connecting", by |-> f]]
  /\ lsRef' = s
  /\ lsStatus' = "connecting"

\* connect of run f: nothing if that run is over.  Without a token it fails.
LsConnect(f) ==
  \/ Cancelled(f) /\ UNCHANGED <<lsSocks, lsRef, lsStatus>>
  \/ ~Cancelled(f) /\ LsNewSocket(f)
  \/ ~Cancelled(f) /\ lsStatus' = "error" /\ UNCHANGED <<lsSocks, lsRef>>

\* listPlugins has answered or failed.
LsListed(f) ==
  /\ lsFlow[f] = "listing"
  /\ LsFlowEnds(f)
  /\ \/ LsInstallStatus = "installed" /\ LsConnect(f)
     \/ /\ lsStatus' \in IF Cancelled(f) THEN {lsStatus} ELSE {"error", "idle"}
        /\ UNCHANGED <<lsSocks, lsRef>>
     \/ /\ LsInstallStatus # "installed"
        /\ lsStatus' = IF Cancelled(f) THEN lsStatus ELSE "unavailable"
        /\ UNCHANGED <<lsSocks, lsRef>>
  /\ UNCHANGED <<lsHostVars, lsRunVars, lsTries, lsAsked>>

\* onopen: initialize goes out on whatever socket wsRef has, if that is open.
LsOpened(s) ==
  LET via == IF lsRef = s \/ (lsRef # "none" /\ lsSocks[lsRef].state = "open")
             THEN lsRef ELSE "lost" IN
  /\ lsSocks[s].state = "connecting"
  /\ lsSocks' = [lsSocks EXCEPT ![s].state = "open"]
  /\ lsTries' = 0
  /\ lsAsked' = [lsAsked EXCEPT ![s] = via]
  /\ UNCHANGED <<lsHostVars, lsRunVars, lsFlow, lsRef, lsStatus>>

\* The server answers initialize with a result or an error.
LsAnswered(s) ==
  /\ lsAsked[s] \in LsSlots /\ lsSocks[lsAsked[s]].state = "open"
  /\ lsAsked' = [lsAsked EXCEPT ![s] = "none"]
  /\ lsStatus' \in {"connected", "error"}
  /\ UNCHANGED <<lsHostVars, lsRunVars, lsFlow, lsTries, lsSocks, lsRef>>

\* Mutant of LsTimedOut: a server that does not answer is connected to again.
LsTimedOutRetriesMutant(s) ==
  /\ lsAsked[s] # "none"
  /\ lsAsked' = [lsAsked EXCEPT ![s] = "none"]
  /\ lsFlow' = [lsFlow EXCEPT ![lsSocks[s].by] = "retrying"]
  /\ UNCHANGED <<lsHostVars, lsRunVars, lsTries, lsSocks, lsRef, lsStatus>>

\* Ten seconds without an answer: an error, whichever run is current by then.
LsTimedOut(s) ==
  /\ lsAsked[s] # "none"
  /\ lsAsked' = [lsAsked EXCEPT ![s] = "none"]
  /\ lsStatus' = "error"
  /\ UNCHANGED <<lsHostVars, lsRunVars, lsFlow, lsTries, lsSocks, lsRef>>

\* What went out on a socket that is gone will not be answered.
LsUnanswered(s) ==
  lsAsked' = [r \in LsSlots |-> IF lsAsked[r] = s THEN "lost" ELSE lsAsked[r]]

\* Mutant of LsClosed: wsRef keeps the socket that closed.
LsClosedKeepsRefMutant(s) ==
  /\ lsSocks[s].state # "closed"
  /\ lsSocks' = [lsSocks EXCEPT ![s].state = "closed"]
  /\ LsUnanswered(s)
  /\ UNCHANGED <<lsHostVars, lsRunVars, lsFlow, lsTries, lsRef, lsStatus>>

\* Mutant of LsClosed: after the last attempt nothing is said.
LsClosedGivesUpMutant(s) ==
  LET f == lsSocks[s].by
      again == ~lsShutdown /\ ~Cancelled(f) /\ lsTries < LsMaxAttempts IN
  /\ lsSocks[s].state # "closed"
  /\ lsSocks' = [lsSocks EXCEPT ![s].state = "closed"]
  /\ lsRef' = "none"
  /\ LsUnanswered(s)
  /\ lsTries' = IF again THEN lsTries + 1 ELSE lsTries
  /\ lsFlow' = IF again THEN [lsFlow EXCEPT ![f] = "retrying"] ELSE lsFlow
  /\ UNCHANGED <<lsHostVars, lsRunVars, lsStatus>>

\* onclose, of whichever socket: wsRef is cleared.  Before the first cleanup a
\* retry is set, five times at most.
LsClosed(s) ==
  LET f == lsSocks[s].by IN
  /\ lsSocks[s].state # "closed"
  /\ lsSocks' = [lsSocks EXCEPT ![s].state = "closed"]
  /\ lsRef' = "none"
  /\ LsUnanswered(s)
  /\ \/ /\ lsShutdown \/ Cancelled(f)
        /\ UNCHANGED <<lsTries, lsFlow, lsStatus>>
     \/ /\ ~lsShutdown /\ ~Cancelled(f) /\ lsTries < LsMaxAttempts
        /\ lsTries' = lsTries + 1
        /\ lsFlow' = [lsFlow EXCEPT ![f] = "retrying"]
        /\ UNCHANGED lsStatus
     \/ /\ ~lsShutdown /\ ~Cancelled(f) /\ lsTries = LsMaxAttempts
        /\ lsStatus' = "error"
        /\ UNCHANGED <<lsTries, lsFlow>>
  /\ UNCHANGED <<lsHostVars, lsRunVars>>

LsRetry(f) ==
  /\ lsFlow[f] = "retrying"
  /\ LsFlowEnds(f)
  /\ LsConnect(f)
  /\ UNCHANGED <<lsHostVars, lsRunVars, lsTries, lsAsked>>

LsNext ==
  \/ \E i \in LsInstalls :
       InstallAsked(i) \/ InstallStarts(i) \/ InstallExtracts(i) \/ InstallEnds(i)
  \/ Uninstalled \/ AgentRestarts
  \/ LsMount \/ LsRunAgain \/ LsUnmount
  \/ \E f \in LsRuns : LsListed(f) \/ LsRetry(f)
  \/ \E s \in LsSlots : LsOpened(s) \/ LsAnswered(s) \/ LsTimedOut(s) \/ LsClosed(s)

LsSpec == LsInit /\ [][LsNext]_lsVars

\* Requests to the agent are answered or fail, timers fire, and a socket that is
\* connecting or being closed does not stay so.  Servers need not answer.
LsSettles(s) == lsSocks[s].state \in {"connecting", "closing"} /\ (LsOpened(s) \/ LsClosed(s))
LsFairness ==
  /\ \A f \in LsRuns : WF_lsVars(LsListed(f) \/ LsRetry(f))
  /\ \A s \in LsSlots : WF_lsVars(LsTimedOut(s) \/ LsSettles(s))

----------------------------------------------------------------------------
(* Properties.                                                              *)

LsBusy(f) == {s \in LsSlots : lsSocks[s].by = f /\ lsSocks[s].state # "closed"}

\* Type invariant; wsRef never has a socket that has closed.
LsTypeOK ==
  /\ lsEntry \in BOOLEAN /\ lsBinary \in BOOLEAN
  /\ lsInstall \in [LsInstalls ->
       {"off", "checked", "refused", "running", "testing", "ended"}]
  /\ lsRestarts \in 0..LsMaxRestarts
  /\ lsMounted \in BOOLEAN /\ lsShutdown \in BOOLEAN
  /\ lsEffect \in 0..LsMaxEffects
  /\ lsFlow \in [LsRuns -> {"none", "listing", "retrying"}]
  /\ lsTries \in 0..LsMaxAttempts
  /\ lsSocks \in [LsSlots ->
       [state : {"connecting", "open", "closing", "closed"}, by : 0..LsMaxEffects]]
  /\ lsRef \in LsSlots \cup {"none"}
  /\ lsAsked \in [LsSlots -> LsSlots \cup {"lost", "none"}]
  /\ lsStatus \in {"idle", "connecting", "connected", "unavailable", "error"}
  /\ lsRef # "none" => lsSocks[lsRef].state # "closed"

\* Every run of the effect has one thing under way at most: the list of plugins,
\* a socket or a retry.  A second one would tell the server of every change twice.
OneConnectionPerRun ==
  \A f \in LsRuns :
    /\ Cardinality(LsBusy(f)) <= 1
    /\ lsFlow[f] # "none" => LsBusy(f) = {}

\* Until the effect runs again, an editor that is connecting learns how that ended:
\* lost sockets, lost requests and silent servers all have an end.
FirstConnectSettles ==
  (lsMounted /\ lsEffect = 1 /\ lsStatus = "connecting")
    ~> (lsStatus # "connecting" \/ ~lsMounted \/ lsEffect # 1)
=============================================================================

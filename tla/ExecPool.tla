------------------------------ MODULE ExecPool ------------------------------
(***************************************************************************)
(* The pool of SSH connections to jump hosts (ssh/exec_pool.rs), through   *)
(* which SNMP tools are run on a bastion: one slot per jump, a mutex that  *)
(* holds at most one cached connection.  Different jumps share nothing but *)
(* the map of slots, so this is one slot.                                  *)
(*                                                                         *)
(* A call waits for the mutex in line, keeps it for all it does, reuses    *)
(* the cached connection or replaces it, and runs one command.  The HTTP   *)
(* request behind a call may go away at any await and take the call along. *)
(***************************************************************************)
EXTENDS Naturals, FiniteSets, SequencesExt

CONSTANTS
  Calls,      \* calls of exec_on_remote_pooled for the jump; each opens at most
              \* one connection, named by the call
  NoCall,     \* nobody has the mutex; the slot is empty
  Cuttable    \* calls whose request may be dropped

ASSUME CallsAssumption == NoCall \notin Calls /\ Cuttable \subseteq Calls

VARIABLES
  line,       \* the calls waiting for the mutex of the slot
  holder,     \* the call that has it
  at,         \* where each call stands
  entry,      \* the connection in the slot
  stale,      \* it was used last 60 s ago or longer
  conn,       \* what became of each connection
  failed      \* ghost: connections on which exec_on_handle failed or timed out

lockVars == <<line, holder, at>>
slotVars == <<entry, stale>>
poolVars == <<lockVars, slotVars, conn, failed>>

-----------------------------------------------------------------------------
PoolPlace == {"off", "wait", "disconnect", "connect", "auth", "channel", "run",
          "done", "gone"}
Inside == {"disconnect", "connect", "auth", "channel", "run"}
ConnState == {"none", "opening", "open", "dead", "closing"}

PoolInit ==
  /\ line = <<>>
  /\ holder = NoCall
  /\ at = [c \in Calls |-> "off"]
  /\ entry = NoCall
  /\ stale = FALSE
  /\ conn = [c \in Calls |-> "none"]
  /\ failed = {}

PoolGoTo(c, place) == at' = [at EXCEPT ![c] = place]

\* The call ends and with it the guard of the mutex.
Return(c) == PoolGoTo(c, "done") /\ holder' = NoCall /\ UNCHANGED line

\* The slot is emptied and the handle in it dropped.
DropEntry ==
  /\ entry' = NoCall
  /\ stale' = FALSE
  /\ conn' = [conn EXCEPT ![entry] = "closing"]

-----------------------------------------------------------------------------
Call(c) ==
  /\ at[c] = "off"
  /\ PoolGoTo(c, "wait")
  /\ line' = Append(line, c)
  /\ UNCHANGED <<holder, slotVars, conn, failed>>

\* The head of the line gets the mutex and looks into the slot: a connection used
\* within the last minute is good, an older one is taken out and disconnected.
Acquire(c) ==
  /\ holder = NoCall
  /\ line # <<>> /\ c = Head(line)
  /\ holder' = c
  /\ line' = Tail(line)
  /\ \/ /\ entry # NoCall /\ ~stale
        /\ PoolGoTo(c, "channel")
        /\ UNCHANGED <<slotVars, conn>>
     \/ /\ entry # NoCall /\ stale
        /\ DropEntry
        /\ PoolGoTo(c, "disconnect")
     \/ /\ entry = NoCall
        /\ conn' = [conn EXCEPT ![c] = "opening"]
        /\ PoolGoTo(c, "connect")
        /\ UNCHANGED slotVars
  /\ UNCHANGED failed

\* The old connection said goodbye, or did not within 2 s.
Disconnected(c) ==
  /\ at[c] = "disconnect"
  /\ PoolGoTo(c, "connect")
  /\ conn' = [conn EXCEPT ![c] = "opening"]
  /\ UNCHANGED <<line, holder, slotVars, failed>>

\* The transport is up, with its host key checked.
Connected(c) ==
  /\ at[c] = "connect"
  /\ PoolGoTo(c, "auth")
  /\ UNCHANGED <<line, holder, slotVars, conn, failed>>

\* Unreachable, or not through within 15 s: the error returns the call.
PoolConnectFails(c) ==
  /\ at[c] = "connect"
  /\ conn' = [conn EXCEPT ![c] = "closing"]
  /\ Return(c)
  /\ UNCHANGED <<slotVars, failed>>

\* The server answers the authentication; nothing limits how long it may take.
AuthEnds(c) ==
  /\ at[c] = "auth"
  /\ \/ /\ conn' = [conn EXCEPT ![c] = "open"]
        /\ entry' = c
        /\ stale' = FALSE
        /\ PoolGoTo(c, "channel")
        /\ UNCHANGED <<line, holder>>
     \/ /\ conn' = [conn EXCEPT ![c] = "closing"]
        /\ Return(c)
        /\ UNCHANGED slotVars
  /\ UNCHANGED failed

ChannelOpened(c) ==
  /\ at[c] = "channel"
  /\ conn[entry] = "open"
  /\ PoolGoTo(c, "run")
  /\ UNCHANGED <<line, holder, slotVars, conn, failed>>

\* The channel is closed: the result counts as a success even if it was the whole
\* connection that died and there is no exit status.
ExecReturns(c) ==
  /\ at[c] = "run"
  /\ stale' = FALSE
  /\ Return(c)
  /\ UNCHANGED <<entry, conn, failed>>

\* Mutant of ExecFails: a timeout keeps the connection.
ExecFailsKeepsHandleMutant(c) ==
  /\ at[c] \in {"channel", "run"}
  /\ failed' = failed \cup {entry}
  /\ Return(c)
  /\ UNCHANGED <<slotVars, conn>>

\* Mutant of ExecFails: no timeout; a command without end is waited for.
ExecNeverTimesOutMutant(c) ==
  /\ at[c] = "channel"
  /\ conn[entry] = "dead"
  /\ failed' = failed \cup {entry}
  /\ DropEntry
  /\ Return(c)

\* An error while the channel is opened, or no end of the command in time.
ExecFails(c) ==
  /\ at[c] \in {"channel", "run"}
  /\ failed' = failed \cup {entry}
  /\ DropEntry
  /\ Return(c)

-----------------------------------------------------------------------------
(* The surroundings.                                                        *)

\* The request behind the call goes away, at whatever await the call is.  Only the
\* connection it was opening is lost; one it ran a command on stays in the slot.
DropCall(c) ==
  /\ c \in Cuttable
  /\ \/ /\ at[c] = "wait"
        /\ \E i \in 1..Len(line) : line[i] = c /\ line' = RemoveAt(line, i)
        /\ PoolGoTo(c, "gone")
        /\ UNCHANGED <<holder, conn>>
     \/ /\ at[c] \in {"connect", "auth"}
        /\ conn' = [conn EXCEPT ![c] = "closing"]
        /\ Return(c)
     \/ /\ at[c] \in {"disconnect", "channel", "run"}
        /\ Return(c)
        /\ UNCHANGED conn
  /\ UNCHANGED <<slotVars, failed>>

\* A minute since the cached connection was used.
Expire ==
  /\ entry # NoCall
  /\ stale' = TRUE
  /\ UNCHANGED <<lockVars, entry, conn, failed>>

\* The server or the network ends a connection; the slot does not notice.
Die(c) ==
  /\ conn[c] = "open"
  /\ conn' = [conn EXCEPT ![c] = "dead"]
  /\ UNCHANGED <<lockVars, slotVars, failed>>

-----------------------------------------------------------------------------
\* What happens at the latest when a timer fires: after 2 s, 15 s, timeout_total.
TimerStep(c) == Disconnected(c) \/ PoolConnectFails(c) \/ ExecFails(c)

\* What takes an answer of the server.
ServerStep(c) == Connected(c) \/ AuthEnds(c) \/ ChannelOpened(c) \/ ExecReturns(c)

PoolNext ==
  \/ \E c \in Calls : \/ Call(c) \/ Acquire(c) \/ TimerStep(c) \/ ServerStep(c)
                      \/ DropCall(c) \/ Die(c)
  \/ Expire

PoolSpec == PoolInit /\ [][PoolNext]_poolVars

\* The mutex is fair and timers fire.  Nothing is said of the server.
PoolFairness ==
  /\ WF_poolVars(\E c \in Calls : Acquire(c))
  /\ WF_poolVars(\E c \in Calls : TimerStep(c))

-----------------------------------------------------------------------------
(* Properties.                                                              *)

\* Every variable keeps its type, and the mutex is held by the call inside.
PoolTypeOK ==
  /\ line \in Seq(Calls)
  /\ holder \in Calls \cup {NoCall}
  /\ at \in [Calls -> PoolPlace]
  /\ entry \in Calls \cup {NoCall}
  /\ stale \in BOOLEAN
  /\ conn \in [Calls -> ConnState]
  /\ failed \subseteq Calls
  /\ \A c \in Calls : at[c] \in Inside <=> holder = c

\* exec_pool.rs:14-20: the jump never sees two sessions of the pool at a time, and
\* none is forgotten: the one there is is cached or just being opened by the call
\* that has the mutex.  (Those being closed may linger.)
OneSessionPerJump ==
  \A c \in Calls :
    conn[c] \in {"opening", "open"} =>
      \/ entry = c
      \/ entry = NoCall /\ holder = c

\* exec_pool.rs:23-25: a connection on which an operation failed or timed out is not
\* used again, nor is one being closed.
FailedHandlesAreNotReused ==
  entry # NoCall => entry \notin failed /\ conn[entry] \in {"open", "dead"}

\* If servers answer the authentications, every call returns, however the calls
\* before it end and whatever happens to the connection.
CallsReturn ==
  []<>(\A c \in Calls : at[c] # "auth")
    => ((\E c \in Calls : at[c] = "wait") ~> (\A c \in Calls : at[c] \in {"off", "done", "gone"}))

\* The slot is a gate of capacity one: calls enter in the order they came.
Gate == INSTANCE TaskGate WITH
          Tasks <- Calls,
          Capacity <- 1,
          line <- line,
          inside <- {c \in Calls : at[c] \in Inside},
          past <- {c \in Calls : at[c] \in Inside \cup {"done"}}

ImplementsGate == Gate!GateSpec
=============================================================================

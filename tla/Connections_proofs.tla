------------------------- MODULE Connections_proofs -------------------------
(***************************************************************************)
(* The connections the client keeps and what is typed into them, for any   *)
(* number of calls, sockets and keys: the exec pool of the agent, the three*)
(* WebSockets of the terminals, and the command line of a terminal.        *)
(***************************************************************************)
EXTENDS MCClients, AgentLoop_proofs, AuthSession_proofs, LineFacts, FiniteSetTheorems, TLAPS

-----------------------------------------------------------------------------
(***************************************************************************)
(* The exec pool.                                                          *)
(***************************************************************************)
\* The tuples UNCHANGED is stated with carry no meaning of their own.
USE DEF poolVars, lockVars, slotVars

-----------------------------------------------------------------------------
(* The inductive invariant.                                                 *)

\* The line holds calls that wait, each once.
LineOK ==
  /\ \A i \in 1..Len(line) : at[line[i]] = "wait"
  /\ \A i, j \in 1..Len(line) : line[i] = line[j] => i = j

\* A connection is being opened exactly while its call connects or logs in; an open
\* one is in the slot; the slot is empty while its content is being replaced.
SlotOK ==
  /\ \A c \in Calls :
       /\ at[c] \in {"off", "wait", "gone", "disconnect"} => conn[c] = "none"
       /\ at[c] \in {"off", "wait", "gone"} => c \notin failed
       /\ conn[c] = "opening" <=> at[c] \in {"connect", "auth"}
       /\ conn[c] = "open" => entry = c
       /\ at[c] \in {"disconnect", "connect", "auth"} => entry = NoCall /\ c \notin failed
       /\ at[c] \in {"channel", "run"} => entry # NoCall
  /\ FailedHandlesAreNotReused

PoolInv == PoolTypeOK /\ LineOK /\ SlotOK

\* Leaving a line and joining it keep LineOK.
LEMMA LineStep ==
  ASSUME PoolInv, NEW c \in Calls,
         \/ Call(c)
         \/ Acquire(c)
         \/ DropCall(c) /\ at[c] = "wait"
  PROVE  line' \in Seq(Calls) /\ LineOK'
<1>1. Len(line) \in Nat /\ \A i \in 1..Len(line) : line[i] \in Calls
  BY LenProperties, ElementOfSeq DEF PoolInv, PoolTypeOK
<1>2. CASE Call(c)
  <2>1. /\ line' \in Seq(Calls)
        /\ Len(line') = Len(line) + 1
        /\ \A i \in 1..Len(line) : line'[i] = line[i]
        /\ line'[Len(line) + 1] = c
    BY <1>2, AppendProperties DEF Call, PoolInv, PoolTypeOK
  <2>2. \A d \in Calls : at'[d] = IF d = c THEN "wait" ELSE at[d]
    BY <1>2 DEF Call, PoolGoTo, PoolInv, PoolTypeOK
  <2>3. \A i \in 1..Len(line) : line[i] # c
    BY <1>2 DEF Call, PoolInv, LineOK
  <2>4. QED
    BY <1>1, <2>1, <2>2, <2>3 DEF PoolInv, LineOK
<1>3. CASE Acquire(c)
  <2>1. /\ line' \in Seq(Calls)
        /\ Len(line') = Len(line) - 1
        /\ \A i \in 1..Len(line') : line'[i] = line[i + 1]
        /\ line[1] = c /\ Len(line) > 0
    BY <1>3, HeadTailProperties, EmptySeq DEF Acquire, PoolInv, PoolTypeOK
  <2>2. \A d \in Calls : d # c => at'[d] = at[d]
    BY <1>3 DEF Acquire, PoolGoTo, PoolInv, PoolTypeOK
  <2>3. \A i \in 1..Len(line') : i + 1 \in 1..Len(line) /\ line'[i] # c
    BY <1>1, <2>1 DEF PoolInv, LineOK
  <2>4. \A i \in 1..Len(line') : at'[line'[i]] = "wait"
    BY <1>1, <2>1, <2>2, <2>3 DEF PoolInv, LineOK
  <2>5. ASSUME NEW i \in 1..Len(line'), NEW j \in 1..Len(line'), line'[i] = line'[j]
        PROVE  i = j
    <3>1. i + 1 \in 1..Len(line) /\ j + 1 \in 1..Len(line)
      BY <2>3
    <3>2. line[i + 1] = line[j + 1]
      BY <2>1, <2>5
    <3>3. i + 1 = j + 1
      BY <3>1, <3>2 DEF PoolInv, LineOK
    <3>4. i \in Int /\ j \in Int
      OBVIOUS
    <3>5. QED
      BY <3>3, <3>4
  <2>6. QED
    BY <2>1, <2>4, <2>5 DEF LineOK
<1>4. CASE DropCall(c) /\ at[c] = "wait"
  <2>1. PICK i \in 1..Len(line) : line[i] = c /\ line' = RemoveAt(line, i)
    BY <1>4 DEF DropCall
  <2>2. /\ line' \in Seq(Calls)
        /\ \A j, k \in 1..Len(line') : line'[j] = line'[k] => j = k
        /\ \A j \in 1..Len(line') : \E k \in 1..Len(line) : k # i /\ line'[j] = line[k]
    <3>1. line \in Seq(Calls) /\ \A j, k \in 1..Len(line) : line[j] = line[k] => j = k
      BY DEF PoolInv, PoolTypeOK, LineOK
    <3>2. /\ RemoveAt(line, i) \in Seq(Calls)
          /\ \A j, k \in 1..Len(RemoveAt(line, i)) :
               RemoveAt(line, i)[j] = RemoveAt(line, i)[k] => j = k
          /\ \A j \in 1..Len(RemoveAt(line, i)) :
               \E k \in 1..Len(line) : k # i /\ RemoveAt(line, i)[j] = line[k]
      BY <3>1, RemoveAtType, RemoveAtDistinct
    <3>3. QED
      BY <2>1, <3>2
  <2>3. \A d \in Calls : d # c => at'[d] = at[d]
    BY <1>4 DEF DropCall, PoolGoTo, PoolInv, PoolTypeOK
  <2>4. \A j \in 1..Len(line') : line'[j] \in Calls /\ line'[j] # c
                                 /\ at[line'[j]] = "wait"
    BY <1>1, <2>1, <2>2 DEF PoolInv, LineOK
  <2>5. QED
    BY <2>2, <2>3, <2>4 DEF LineOK
<1>5. QED
  BY <1>2, <1>3, <1>4

\* Other steps do not touch the line and move no call that is in it.
LEMMA LineUntouched ==
  ASSUME PoolInv, UNCHANGED line, NEW c \in Calls, at[c] # "wait",
         \A d \in Calls : d # c => at'[d] = at[d]
  PROVE  line' \in Seq(Calls) /\ LineOK'
<1>1. \A i \in 1..Len(line) : line[i] \in Calls
  BY ElementOfSeq DEF PoolInv, PoolTypeOK
<1>2. QED
  BY <1>1 DEF PoolInv, PoolTypeOK, LineOK

\* Every action keeps the invariant.
LEMMA PoolInvariant == PoolSpec => []PoolInv
<1>1. PoolInit => PoolInv
  <2> SUFFICES ASSUME PoolInit PROVE PoolInv
    OBVIOUS
  <2>1. line \in Seq(Calls) /\ LineOK
    BY EmptySeq DEF PoolInit, LineOK
  <2>2. QED
    BY <2>1, CallsAssumption
    DEF PoolInit, PoolInv, PoolTypeOK, SlotOK, FailedHandlesAreNotReused, PoolPlace, Inside, ConnState
<1>2. PoolInv /\ [PoolNext]_poolVars => PoolInv'
  <2> SUFFICES ASSUME PoolInv, [PoolNext]_poolVars
               PROVE  PoolInv'
    OBVIOUS
  <2> USE CallsAssumption DEF PoolInv, SlotOK, FailedHandlesAreNotReused, PoolPlace,
          Inside, ConnState, PoolGoTo
  <2>1. ASSUME NEW c \in Calls, Call(c)
        PROVE  PoolInv'
    <3>1. line' \in Seq(Calls) /\ LineOK'
      BY <2>1, LineStep
    <3>2. QED
      BY <2>1, <3>1 DEF Call, PoolTypeOK
  <2>2. ASSUME NEW c \in Calls, Acquire(c)
        PROVE  PoolInv'
    <3>1. line' \in Seq(Calls) /\ LineOK'
      BY <2>2, LineStep
    <3>2. at[c] = "wait"
      BY <2>2, HeadTailProperties, EmptySeq, LenProperties DEF Acquire, PoolTypeOK, LineOK
    <3>3. CASE entry # NoCall /\ ~stale
      BY <2>2, <3>1, <3>2, <3>3 DEF Acquire, PoolTypeOK
    <3>4. CASE entry # NoCall /\ stale
      <4>1. /\ holder = NoCall /\ holder' = c
            /\ at' = [at EXCEPT ![c] = "disconnect"]
            /\ entry' = NoCall /\ stale' = FALSE
            /\ conn' = [conn EXCEPT ![entry] = "closing"]
            /\ UNCHANGED failed
        BY <2>2, <3>4 DEF Acquire, DropEntry
      <4>2. c # entry
        BY <3>2, <3>4
      <4>3. PoolTypeOK'
        BY <3>1, <3>4, <4>1 DEF PoolTypeOK
      <4>4. SlotOK'
        BY <3>2, <3>4, <4>1, <4>2 DEF PoolTypeOK
      <4>5. QED
        BY <3>1, <4>3, <4>4
    <3>5. CASE entry = NoCall
      BY <2>2, <3>1, <3>2, <3>5, SMTT(30) DEF Acquire, PoolTypeOK
    <3>6. QED
      BY <3>3, <3>4, <3>5 DEF PoolTypeOK
  <2>3. ASSUME NEW c \in Calls, Disconnected(c)
        PROVE  PoolInv'
    <3>1. line' \in Seq(Calls) /\ LineOK'
      BY <2>3, LineUntouched DEF Disconnected, PoolTypeOK
    <3>2. QED
      BY <2>3, <3>1 DEF Disconnected, PoolTypeOK
  <2>4. ASSUME NEW c \in Calls, Connected(c)
        PROVE  PoolInv'
    <3>1. line' \in Seq(Calls) /\ LineOK'
      BY <2>4, LineUntouched DEF Connected, PoolTypeOK
    <3>2. QED
      BY <2>4, <3>1 DEF Connected, PoolTypeOK
  <2>5. ASSUME NEW c \in Calls, PoolConnectFails(c)
        PROVE  PoolInv'
    <3>1. line' \in Seq(Calls) /\ LineOK'
      BY <2>5, LineUntouched DEF PoolConnectFails, Return, PoolTypeOK
    <3>2. QED
      BY <2>5, <3>1 DEF PoolConnectFails, Return, PoolTypeOK
  <2>6. ASSUME NEW c \in Calls, AuthEnds(c)
        PROVE  PoolInv'
    <3>1. line' \in Seq(Calls) /\ LineOK'
      BY <2>6, LineUntouched DEF AuthEnds, Return, PoolTypeOK
    <3>2. CASE at'[c] = "channel"
      <4>1. /\ at[c] = "auth" /\ entry = NoCall /\ entry' = c /\ stale' = FALSE
            /\ conn' = [conn EXCEPT ![c] = "open"]
            /\ at' = [at EXCEPT ![c] = "channel"]
            /\ UNCHANGED <<holder, failed>>
        BY <2>6, <3>2 DEF AuthEnds, Return, PoolTypeOK
      <4>2. PoolTypeOK'
        BY <3>1, <4>1 DEF PoolTypeOK
      <4>3. SlotOK'
        BY <4>1 DEF PoolTypeOK
      <4>4. QED
        BY <3>1, <4>2, <4>3
    <3>3. CASE at'[c] # "channel"
      <4>1. /\ at[c] = "auth" /\ entry = NoCall
            /\ conn' = [conn EXCEPT ![c] = "closing"]
            /\ at' = [at EXCEPT ![c] = "done"]
            /\ holder' = NoCall
            /\ UNCHANGED <<slotVars, failed>>
        BY <2>6, <3>3 DEF AuthEnds, Return, PoolTypeOK
      <4>2. QED
        BY <3>1, <4>1 DEF PoolTypeOK
    <3>4. QED
      BY <3>2, <3>3
  <2>7. ASSUME NEW c \in Calls, ChannelOpened(c)
        PROVE  PoolInv'
    <3>1. line' \in Seq(Calls) /\ LineOK'
      BY <2>7, LineUntouched DEF ChannelOpened, PoolTypeOK
    <3>2. QED
      BY <2>7, <3>1 DEF ChannelOpened, PoolTypeOK
  <2>8. ASSUME NEW c \in Calls, ExecReturns(c)
        PROVE  PoolInv'
    <3>1. line' \in Seq(Calls) /\ LineOK'
      BY <2>8, LineUntouched DEF ExecReturns, Return, PoolTypeOK
    <3>2. QED
      BY <2>8, <3>1 DEF ExecReturns, Return, PoolTypeOK
  <2>9. ASSUME NEW c \in Calls, ExecFails(c)
        PROVE  PoolInv'
    <3>1. line' \in Seq(Calls) /\ LineOK'
      BY <2>9, LineUntouched DEF ExecFails, Return, PoolTypeOK
    <3>2. QED
      BY <2>9, <3>1, ZenonT(40) DEF ExecFails, Return, DropEntry, PoolTypeOK
  <2>10. ASSUME NEW c \in Calls, DropCall(c)
         PROVE  PoolInv'
    <3>1. CASE at[c] = "wait"
      <4>1. line' \in Seq(Calls) /\ LineOK'
        BY <2>10, <3>1, LineStep
      <4>2. QED
        BY <2>10, <3>1, <4>1 DEF DropCall, PoolTypeOK
    <3>2. CASE at[c] # "wait"
      <4>1. line' \in Seq(Calls) /\ LineOK'
        BY <2>10, <3>2, LineUntouched DEF DropCall, Return, PoolTypeOK
      <4>2. QED
        BY <2>10, <3>2, <4>1 DEF DropCall, Return, PoolTypeOK
    <3>3. QED
      BY <3>1, <3>2
  <2>11. ASSUME NEW c \in Calls, Die(c)
         PROVE  PoolInv'
    BY <2>11 DEF Die, PoolTypeOK, LineOK
  <2>12. CASE Expire
    BY <2>12 DEF Expire, PoolTypeOK, LineOK
  <2>13. CASE UNCHANGED poolVars
    BY <2>13 DEF PoolTypeOK, LineOK
  <2>14. QED
    BY <2>1, <2>2, <2>3, <2>4, <2>5, <2>6, <2>7, <2>8, <2>9, <2>10, <2>11, <2>12, <2>13
    DEF PoolNext, TimerStep, ServerStep
<1>3. QED
  BY <1>1, <1>2, PTL DEF PoolSpec

\* Every variable keeps its type, and the call inside is the one with the mutex.
THEOREM TypeCorrect == PoolSpec => []PoolTypeOK
<1>1. PoolInv => PoolTypeOK
  BY DEF PoolInv
<1>2. QED
  BY <1>1, PoolInvariant, PTL

\* The jump never sees two sessions of the pool, and none is forgotten.
THEOREM OneSessionForAJump == PoolSpec => []OneSessionPerJump
<1>1. PoolInv => OneSessionPerJump
  <2> SUFFICES ASSUME PoolInv, NEW c \in Calls, conn[c] = "opening"
               PROVE  entry = NoCall /\ holder = c
    BY DEF OneSessionPerJump, PoolInv, SlotOK
  <2>1. QED
    BY DEF PoolInv, SlotOK, PoolTypeOK, Inside
<1>2. QED
  BY <1>1, PoolInvariant, PTL

\* A connection on which an operation failed is not used again.
THEOREM NoFailedHandles == PoolSpec => []FailedHandlesAreNotReused
<1>1. PoolInv => FailedHandlesAreNotReused
  BY DEF PoolInv, SlotOK
<1>2. QED
  BY <1>1, PoolInvariant, PTL

-----------------------------------------------------------------------------
(* The gate.                                                                *)

Entered == {c \in Calls : at[c] \in Inside \cup {"done"}}
Within == {c \in Calls : at[c] \in Inside}

\* The pool serves calls in the order in which they came, one at a time: every step
\* is a step of TaskGate with capacity one or leaves the gate alone.
THEOREM GateIsImplemented == PoolSpec => ImplementsGate
<1>1. PoolInit => Gate!GateInit
  BY DEF PoolInit, Gate!GateInit, Inside
<1>2. PoolInv /\ [PoolNext]_poolVars => [Gate!GateNext]_(Gate!gateVars)
  <2> SUFFICES ASSUME PoolInv, [PoolNext]_poolVars
               PROVE  Gate!GateNext \/ UNCHANGED Gate!gateVars
    OBVIOUS
  <2> USE DEF PoolInv, PoolTypeOK, PoolGoTo, Inside
  <2>1. ASSUME NEW c \in Calls, Call(c)
        PROVE  Gate!Join(c)
    BY <2>1 DEF Call, Gate!Join
  <2>2. ASSUME NEW c \in Calls, Acquire(c)
        PROVE  Gate!Enter(c)
    <3>1. at[c] = "wait"
      BY <2>2, HeadTailProperties, EmptySeq, LenProperties DEF Acquire, LineOK
    <3>2. at'[c] \in Inside /\ \A d \in Calls : d # c => at'[d] = at[d]
      BY <2>2 DEF Acquire
    <3>3. Within = {}
      BY <2>2, CallsAssumption DEF Acquire, Within
    <3>4. Gate!Cardinality(Within) = 0
      BY <3>3, FS_EmptySet DEF Cardinality, Gate!Cardinality
    <3>5. Within' = Within \cup {c} /\ Entered' = Entered \cup {c} /\ c \notin Entered
      BY <3>1, <3>2 DEF Within, Entered
    <3>6. QED
      BY <2>2, <3>4, <3>5 DEF Acquire, Gate!Enter, Within, Entered
  <2>3. ASSUME NEW c \in Calls,
               \/ Disconnected(c) \/ Connected(c) \/ ChannelOpened(c)
               \/ AuthEnds(c) /\ at'[c] = "channel"
        PROVE  UNCHANGED Gate!gateVars
    BY <2>3 DEF Disconnected, Connected, ChannelOpened, AuthEnds, Return, Gate!gateVars
  <2>4. ASSUME NEW c \in Calls,
               \/ PoolConnectFails(c) \/ ExecReturns(c) \/ ExecFails(c)
               \/ AuthEnds(c) /\ at'[c] # "channel"
               \/ DropCall(c) /\ at[c] # "wait"
        PROVE  Gate!Leave(c)
    BY <2>4
    DEF PoolConnectFails, ExecReturns, ExecFails, AuthEnds, DropCall, Return, Gate!Leave
  <2>5. ASSUME NEW c \in Calls, DropCall(c), at[c] = "wait"
        PROVE  Gate!Abandon(c)
    BY <2>5 DEF DropCall, Gate!Abandon, RemoveAt, Gate!RemoveAt
  <2>6. CASE \/ \E c \in Calls : Die(c)
             \/ Expire
             \/ UNCHANGED poolVars
    BY <2>6 DEF Die, Expire, Gate!gateVars
  <2>7. QED
    BY <2>1, <2>2, <2>3, <2>4, <2>5, <2>6
    DEF PoolNext, TimerStep, ServerStep, Gate!GateNext
<1>3. QED
  BY <1>1, <1>2, PoolInvariant, PTL DEF PoolSpec, ImplementsGate, Gate!GateSpec

-----------------------------------------------------------------------------
(***************************************************************************)
(* The WebSockets.  Each type invariant is inductive together with the     *)
(* statement that only the socket of the ref is live, since an event is that*)
(* of a live socket, and a socket is only ever replaced in the step that   *)
(* closes it.                                                              *)
(***************************************************************************)
(***************************************************************************)
(* The local terminal.                                                     *)
(***************************************************************************)
TcInv == TcTypeOK /\ OneLiveSocket

\* What connect changes, as the invariant has it.
ConnectSets ==
  /\ tcSocks \in [Sockets -> TcLive \cup {"unused", "closing", "closed"}]
  /\ tcAuto \in [Sockets -> BOOLEAN]
  /\ tcRef \in 0..MaxSockets
  /\ tcIntent \in BOOLEAN /\ tcOverlay \in BOOLEAN /\ tcCountdown \in BOOLEAN
  /\ tcStatus \in {"connecting", "connected", "disconnected", "error"}
  /\ \A s \in Sockets : tcSocks[s] = "unused" <=> s > tcRef
  /\ \A s \in Sockets : tcSocks[s] \in TcLive => s = tcRef

\* connect, whatever its caller leaves: sockets that are unused above the ref,
\* and no live one but that of the ref it is called with.
LEMMA ConnectKeepsOne ==
  ASSUME TcTypeOK, NEW socks \in [Sockets -> TcLive \cup {"unused", "closing", "closed"}],
         NEW ref \in {0, tcRef}, NEW intent \in BOOLEAN, NEW auto \in BOOLEAN,
         \A s \in Sockets : socks[s] = "unused" <=> tcSocks[s] = "unused",
         \A s \in Sockets : socks[s] \in TcLive => s = ref,
         TcConnect(socks, ref, intent, auto)
  PROVE  ConnectSets'
<1>1. tcRef \in 0..MaxSockets /\ \A s \in Sockets : tcSocks[s] = "unused" <=> s > tcRef
  BY DEF TcTypeOK
<1>2. CASE ref # 0 /\ socks[ref] \in TcLive
  <2>1. tcSocks' = socks /\ tcRef' = ref /\ ref = tcRef
    BY <1>2 DEF TcConnect
  <2>2. /\ tcIntent' = intent /\ tcCountdown' = FALSE
        /\ tcAuto' = tcAuto /\ tcStatus' = tcStatus /\ tcOverlay' = tcOverlay
    BY <1>2 DEF TcConnect
  <2> QED
    BY <1>1, <2>1, <2>2 DEF TcTypeOK, ConnectSets
<1>3. CASE ~(ref # 0 /\ socks[ref] \in TcLive)
  <2>1. PICK s \in Unused : /\ \A r \in Unused : s <= r
                            /\ tcSocks' = [socks EXCEPT ![s] = "connecting"]
                            /\ tcAuto' = [tcAuto EXCEPT ![s] = auto]
                            /\ tcRef' = s
    BY <1>3 DEF TcConnect
  <2>2. /\ tcIntent' = (intent \/ ref # 0) /\ tcStatus' = "connecting"
        /\ tcOverlay' = FALSE /\ tcCountdown' = FALSE
    BY <1>3 DEF TcConnect
  <2>3. s \in Sockets /\ s = tcRef + 1
    BY <1>1, <2>1, TcAssumption DEF Unused, Sockets
  <2>4. \A r \in Sockets : tcSocks'[r] = "unused" <=> r > tcRef'
    BY <1>1, <2>1, <2>3 DEF Sockets
  <2>5. \A r \in Sockets : tcSocks'[r] \in TcLive => r = tcRef'
    BY <1>1, <1>3, <2>1, <2>3 DEF Sockets
  <2>6. /\ tcSocks' \in [Sockets -> TcLive \cup {"unused", "closing", "closed"}]
        /\ tcAuto' \in [Sockets -> BOOLEAN]
        /\ tcRef' \in 0..MaxSockets
    BY <2>1, <2>3 DEF TcTypeOK, TcLive, Sockets
  <2> QED
    BY <2>2, <2>4, <2>5, <2>6 DEF ConnectSets
<1> QED
  BY <1>2, <1>3

LEMMA TcInitInv == TcInit => TcInv
<1> SUFFICES ASSUME TcInit PROVE TcInv
  OBVIOUS
<1>1. tcRef \in 0..MaxSockets
  BY TcAssumption DEF TcInit
<1>2. \A s \in Sockets : tcSocks[s] = "unused" /\ s > tcRef
  BY DEF TcInit, Sockets
<1>3. \A s \in Sockets : tcSocks[s] \notin TcLive
  BY <1>2 DEF TcLive
<1>4. /\ tcSocks \in [Sockets -> TcLive \cup {"unused", "closing", "closed"}]
      /\ tcAuto \in [Sockets -> BOOLEAN]
  BY DEF TcInit
<1> QED
  BY <1>1, <1>2, <1>3, <1>4 DEF TcInit, TcInv, TcTypeOK, OneLiveSocket, LiveSockets

LEMMA TcStepInv == TcInv /\ [TcNext]_tcVars => TcInv'
<1> SUFFICES ASSUME TcInv, [TcNext]_tcVars PROVE TcInv'
  OBVIOUS
<1>0. TcTypeOK /\ \A s \in Sockets : tcSocks[s] \in TcLive => s = tcRef
  BY DEF TcInv, OneLiveSocket, LiveSockets
<1>1. CASE MountConnects
  <2>1. TcConnect(tcSocks, 0, tcIntent, tcEnabled) /\ tcRef = 0
    BY <1>1 DEF MountConnects
  <2>2. \A s \in Sockets : tcSocks[s] \in TcLive => s = 0
    BY <1>0, <2>1
  <2>3. tcKind' \in {"ssh", "local"} /\ UNCHANGED <<tcConnected, tcEver, tcEnabled>>
    BY <1>1 DEF MountConnects
  <2>4. tcIntent \in BOOLEAN /\ tcEnabled \in BOOLEAN
    BY <1>0 DEF TcTypeOK
  <2>5. ConnectSets'
    BY <1>0, <2>1, <2>2, <2>4, ConnectKeepsOne DEF TcTypeOK
  <2> QED
    BY <1>0, <2>3, <2>5 DEF TcInv, TcTypeOK, ConnectSets, OneLiveSocket, LiveSockets
<1>2. ASSUME NEW s \in Sockets, SocketEvent(s) PROVE TcInv'
  <2>1. CASE TcOpened(s)
    <3>1. tcSocks[s] = "connecting" /\ UNCHANGED <<tcKind, tcAuto, tcRef, tcIntent, tcCountdown, tcEnabled>>
      BY <2>1 DEF TcOpened
    <3>2. CASE tcSocks' = [tcSocks EXCEPT ![s] = "up"] /\ MarkConnected
      BY <1>0, <3>1, <3>2 DEF MarkConnected, TcInv, TcTypeOK, OneLiveSocket, LiveSockets, TcLive
    <3>3. CASE /\ tcSocks' = [tcSocks EXCEPT ![s] = "open"]
               /\ UNCHANGED <<tcConnected, tcEver, tcStatus, tcOverlay>>
      BY <1>0, <3>1, <3>3 DEF TcInv, TcTypeOK, OneLiveSocket, LiveSockets, TcLive
    <3> QED
      BY <2>1, <3>2, <3>3 DEF TcOpened
  <2>2. CASE SshConnected(s)
    BY <1>0, <2>2 DEF SshConnected, MarkConnected, TcInv, TcTypeOK, OneLiveSocket, LiveSockets, TcLive
  <2>3. CASE OutputArrives(s)
    BY <1>0, <2>3 DEF OutputArrives, MarkConnected, TcInv, TcTypeOK, OneLiveSocket, LiveSockets
  <2>4. CASE TcClosed(s)
    BY <1>0, <2>4 DEF TcClosed, TcInv, TcTypeOK, OneLiveSocket, LiveSockets, TcLive
  <2> QED
    BY <1>2, <2>1, <2>2, <2>3, <2>4 DEF SocketEvent
<1>3. CASE CountdownEnds
  <2>1. /\ TcConnect(tcSocks, tcRef, tcIntent, TRUE)
        /\ UNCHANGED <<tcKind, tcConnected, tcEver, tcEnabled>>
    BY <1>3 DEF CountdownEnds
  <2>2. ConnectSets'
    BY <1>0, <2>1, ConnectKeepsOne DEF TcTypeOK
  <2> QED
    BY <1>0, <2>1, <2>2 DEF ConnectSets, TcInv, TcTypeOK, OneLiveSocket, LiveSockets
<1>4. CASE ReconnectNow
  <2> DEFINE socks == [tcSocks EXCEPT ![tcRef] = IF @ = "closed" THEN @ ELSE "closing"]
  <2>1. /\ tcRef # 0 /\ TcConnect(socks, 0, TRUE, tcEnabled)
        /\ UNCHANGED <<tcKind, tcConnected, tcEver, tcEnabled>>
    BY <1>4 DEF ReconnectNow
  <2>2. tcRef \in Sockets /\ tcSocks[tcRef] # "unused"
    BY <1>0, <2>1, TcAssumption DEF TcTypeOK, Sockets
  <2>3. /\ socks \in [Sockets -> TcLive \cup {"unused", "closing", "closed"}]
        /\ \A s \in Sockets : socks[s] = "unused" <=> tcSocks[s] = "unused"
        /\ \A s \in Sockets : socks[s] \in TcLive => s = 0
    BY <1>0, <2>2 DEF TcTypeOK, TcLive
  <2> HIDE DEF socks
  <2>4. tcEnabled \in BOOLEAN
    BY <1>0 DEF TcTypeOK
  <2>5. ConnectSets'
    BY <1>0, <2>1, <2>3, <2>4, ConnectKeepsOne
  <2> QED
    BY <1>0, <2>1, <2>5 DEF ConnectSets, TcInv, TcTypeOK, OneLiveSocket, LiveSockets
<1>5. CASE CancelOverlay
  BY <1>0, <1>5 DEF CancelOverlay, TcInv, TcTypeOK, OneLiveSocket, LiveSockets
<1>6. CASE DisableAutoReconnect
  BY <1>0, <1>6 DEF DisableAutoReconnect, TcInv, TcTypeOK, OneLiveSocket, LiveSockets
<1>7. CASE TcUnmount
  <2>1. TcInit'
    BY <1>7 DEF TcUnmount, TcInit
  <2>2. (TcInit => TcInv)'
    BY TcInitInv, PTL
  <2> QED
    BY <2>1, <2>2
<1>8. CASE UNCHANGED tcVars
  BY <1>0, <1>8 DEF tcVars, TcInv, TcTypeOK, OneLiveSocket, LiveSockets
<1> QED
  BY <1>1, <1>2, <1>3, <1>4, <1>5, <1>6, <1>7, <1>8 DEF TcNext

\* Every variable of a terminal tab keeps its type: sockets are made one after the
\* other, the ref names the last, and a connected tab has been connected before.
THEOREM TermConnType == TcSpec => []TcTypeOK
<1>1. TcInv => TcTypeOK
  BY DEF TcInv
<1> QED
  BY <1>1, TcInitInv, TcStepInv, PTL DEF TcSpec

\* A terminal tab has at most one live socket, the one it writes to, for any number
\* of sockets and any order of countdowns, clicks and late close events.
THEOREM TermConnOneSocket == TcSpec => []OneLiveSocket
<1>1. TcInv => OneLiveSocket
  BY DEF TcInv
<1> QED
  BY <1>1, TcInitInv, TcStepInv, PTL DEF TcSpec

(***************************************************************************)
(* The enterprise terminal.                                                *)
(***************************************************************************)
EsInv == EsTypeOK /\ OneSession /\ RetryIsArmed

EsStates == EsOpen \cup {"connecting", "redirected", "closing", "closed"}
EsDead == {"closing", "closed"}

\* What every new socket does to the sockets and the ref: it alone is live, but for
\* those that were left open before.
LEMMA NewSocketIsTheOne ==
  ASSUME NEW socks \in [EsSlots -> EsStates], NewSocket(socks)
  PROVE  /\ esSocks' \in [EsSlots -> EsStates]
         /\ esRef' \in EsSlots
         /\ esSocks'[esRef'] = "connecting"
         /\ esSocks[esRef'] = "closed"
         /\ \A s \in EsSlots : s = esRef' \/ esSocks'[s] = socks[s]
<1>1. PICK s \in EsSlots : /\ esSocks[s] = "closed"
                           /\ esSocks' = [socks EXCEPT ![s] = "connecting"]
                           /\ esRef' = s
  BY DEF NewSocket
<1>2. esSocks' \in [EsSlots -> EsStates]
  BY <1>1 DEF EsStates
<1> QED
  BY <1>1, <1>2

\* Closing a socket changes no other.
LEMMA ShutClosesIt ==
  ASSUME EsTypeOK, NEW s \in EsSlots
  PROVE  /\ Shut(esSocks, s) \in [EsSlots -> EsStates]
         /\ Shut(esSocks, s)[s] \in EsDead
         /\ \A r \in EsSlots : r = s \/ Shut(esSocks, s)[r] = esSocks[r]
BY DEF Shut, EsTypeOK, EsStates, EsDead

\* connect closes the socket of the ref, so that the new one is the only live one,
\* but for those that a redirect has left open.
LEMMA EsConnectKeeps ==
  ASSUME EsTypeOK, OneSession, EsConnect
  PROVE  /\ esTimer' \in BOOLEAN /\ esPing' \in BOOLEAN => EsTypeOK'
         /\ OneSession' /\ RetryIsArmed' /\ esRef' # "none"
<1> DEFINE left == IF esRef \in EsSlots THEN Shut(esSocks, esRef) ELSE esSocks
<1>1. /\ left \in [EsSlots -> EsStates]
      /\ \A s \in EsSlots : s # esRef => left[s] = esSocks[s]
      /\ \A s \in EsSlots : s = esRef => left[s] \in EsDead
      /\ \A s \in EsSlots : esSocks[s] # "closed" => left[s] # "closed"
  <2>1. CASE esRef \in EsSlots
    <3>1. left = Shut(esSocks, esRef)
      BY <2>1
    <3>2. \A s \in EsSlots : esSocks[s] # "closed" => left[s] # "closed"
      BY <2>1, <3>1 DEF Shut, EsTypeOK
    <3> QED
      BY <2>1, <3>1, <3>2, ShutClosesIt
  <2>2. CASE esRef \notin EsSlots
    BY <2>2 DEF EsTypeOK, EsStates
  <2> QED
    BY <2>1, <2>2
<1>2. \A s \in EsSlots : left[s] \in EsDead \/ (s \in esBorrowed /\ left[s] = "redirected")
  BY <1>1 DEF EsTypeOK, OneSession, EsLive, EsOpen, EsDead
<1>3. /\ \/ NewSocket(left) /\ esStatus' = "connecting"
         \/ esSocks' = left /\ esRef' = "failed" /\ esStatus' = "error"
      /\ esBorrowed' = esBorrowed
  BY DEF EsConnect
<1> HIDE DEF left
<1>4. CASE NewSocket(left) /\ esStatus' = "connecting"
  <2>1. /\ esSocks' \in [EsSlots -> EsStates]
        /\ esRef' \in EsSlots
        /\ esSocks'[esRef'] = "connecting"
        /\ \A s \in EsSlots : s = esRef' \/ esSocks'[s] = left[s]
    BY <1>1, <1>4, NewSocketIsTheOne
  <2>2. esRef' # "none" /\ esRef' \in EsLive'
    BY <2>1, EsAssumption DEF EsLive
  <2>3. OneSession'
    BY <1>2, <1>3, <2>1 DEF OneSession, EsLive, EsOpen, EsDead
  <2>4. \A s \in esBorrowed' : esSocks'[s] # "closed"
    BY <1>1, <1>3, <2>1 DEF EsTypeOK
  <2>5. RetryIsArmed'
    BY <2>2 DEF RetryIsArmed
  <2>6. esTimer' \in BOOLEAN /\ esPing' \in BOOLEAN => EsTypeOK'
    BY <1>3, <1>4, <2>1, <2>2, <2>4 DEF EsTypeOK, EsStates
  <2> QED
    BY <2>2, <2>3, <2>5, <2>6
<1>5. CASE esSocks' = left /\ esRef' = "failed" /\ esStatus' = "error"
  <2>1. OneSession'
    BY <1>2, <1>3, <1>5 DEF OneSession, EsLive, EsOpen, EsDead
  <2>2. \A s \in esBorrowed' : esSocks'[s] # "closed"
    BY <1>1, <1>3, <1>5 DEF EsTypeOK
  <2>3. RetryIsArmed'
    BY <1>5, EsAssumption DEF RetryIsArmed
  <2> QED
    BY <1>1, <1>3, <1>5, <2>1, <2>2, <2>3 DEF EsTypeOK, EsStates
<1> QED
  BY <1>3, <1>4, <1>5

LEMMA EsInitInv == EsInit => EsInv
BY EsAssumption DEF EsInit, EsInv, EsTypeOK, OneSession, RetryIsArmed, EsLive, EsOpen

LEMMA EsStepInv == EsInv /\ [EsNext]_esVars => EsInv'
<1> SUFFICES ASSUME EsInv, [EsNext]_esVars PROVE EsInv'
  OBVIOUS
<1>0. EsTypeOK /\ OneSession /\ RetryIsArmed
  BY DEF EsInv
<1>1. CASE EsMount
  BY <1>0, <1>1, EsConnectKeeps DEF EsMount, EsInv, EsTypeOK
<1>2. CASE EsRetry
  BY <1>0, <1>2, EsConnectKeeps DEF EsRetry, EsInv, EsTypeOK
<1>3. CASE EsReconnect
  BY <1>0, <1>3, EsConnectKeeps DEF EsReconnect, EsInv
<1>4. CASE EsUnmount
  <2>1. EsInit'
    BY <1>4 DEF EsUnmount, EsInit
  <2>2. (EsInit => EsInv)'
    BY EsInitInv, PTL
  <2> QED
    BY <2>1, <2>2
<1>5. ASSUME NEW s \in EsSlots, esSocks[s] \in EsOpen \cup {"redirected"}, esSocks' = Shut(esSocks, s),
             UNCHANGED <<esBorrowed, esRef, esTimer, esPing, esStatus>>
      PROVE  EsInv'
  <2>1. /\ esSocks' \in [EsSlots -> EsStates] /\ esSocks'[s] = "closing"
        /\ \A r \in EsSlots : r = s \/ esSocks'[r] = esSocks[r]
    BY <1>0, <1>5, ShutClosesIt DEF Shut, EsTypeOK, EsOpen
  <2>2. OneSession' /\ RetryIsArmed'
    BY <1>0, <1>5, <2>1 DEF OneSession, RetryIsArmed, EsLive, EsOpen
  <2> QED
    BY <1>0, <1>5, <2>1, <2>2 DEF EsInv, EsTypeOK, EsStates, EsOpen
<1>6. CASE PongMissing
  BY <1>5, <1>6 DEF PongMissing, EsOpen
<1>7. ASSUME NEW s \in EsSlots, CloseAsked(s) PROVE EsInv'
  BY <1>5, <1>7 DEF CloseAsked, EsOpen
<1>8. ASSUME NEW s \in EsSlots, EsOpened(s) PROVE EsInv'
  BY <1>0, <1>8, EsAssumption
     DEF EsOpened, EsInv, EsTypeOK, OneSession, RetryIsArmed, EsLive, EsOpen
<1>9. ASSUME NEW s \in EsSlots, SessionInfo(s) PROVE EsInv'
  BY <1>0, <1>9, EsAssumption
     DEF SessionInfo, EsInv, EsTypeOK, OneSession, RetryIsArmed, EsLive, EsOpen
<1>10. ASSUME NEW s \in EsSlots, Redirect(s) PROVE EsInv'
  <2> DEFINE told == IF s \in esBorrowed THEN [esSocks EXCEPT ![s] = "redirected"]
                     ELSE Shut(esSocks, s)
  <2>1. /\ esSocks[s] = "open" /\ s = esRef
        /\ \/ NewSocket(told) /\ esBorrowed' = esBorrowed \cup {esRef'}
           \/ esSocks' = told /\ UNCHANGED <<esBorrowed, esRef>>
        /\ UNCHANGED <<esTimer, esPing, esStatus>>
    BY <1>0, <1>10 DEF Redirect, OneSession, EsLive, EsOpen
  <2>2. /\ told \in [EsSlots -> EsStates]
        /\ \A r \in EsSlots : r = s \/ told[r] = esSocks[r]
        /\ told[s] = "closing" \/ (s \in esBorrowed /\ told[s] = "redirected")
    BY <1>0, <2>1, ShutClosesIt DEF Shut, EsTypeOK, EsStates
  <2> HIDE DEF told
  <2>3. CASE NewSocket(told) /\ esBorrowed' = esBorrowed \cup {esRef'}
    <3>1. /\ esSocks' \in [EsSlots -> EsStates]
          /\ esRef' \in EsSlots
          /\ esSocks'[esRef'] = "connecting"
          /\ \A r \in EsSlots : r = esRef' \/ esSocks'[r] = told[r]
      BY <2>2, <2>3, NewSocketIsTheOne
    <3>2. OneSession'
      BY <1>0, <2>1, <2>2, <2>3, <3>1 DEF OneSession, EsLive, EsOpen
    <3>3. EsTypeOK'
      BY <1>0, <2>1, <2>2, <2>3, <3>1, EsAssumption DEF EsTypeOK, EsStates
    <3> QED
      BY <3>1, <3>2, <3>3 DEF EsInv, RetryIsArmed, EsLive
  <2>4. CASE esSocks' = told /\ UNCHANGED <<esBorrowed, esRef>>
    <3>1. OneSession' /\ RetryIsArmed'
      BY <1>0, <2>1, <2>2, <2>4 DEF OneSession, RetryIsArmed, EsLive, EsOpen
    <3>2. EsTypeOK'
      BY <1>0, <2>1, <2>2, <2>4, EsAssumption DEF EsTypeOK, EsStates
    <3> QED
      BY <3>1, <3>2 DEF EsInv
  <2> QED
    BY <2>1, <2>3, <2>4
<1>11. ASSUME NEW s \in EsSlots, PeerVanishes(s) PROVE EsInv'
  BY <1>0, <1>11, EsAssumption
     DEF PeerVanishes, EsInv, EsTypeOK, OneSession, RetryIsArmed, EsLive, EsOpen
<1>12. ASSUME NEW s \in EsSlots, EsClosed(s) PROVE EsInv'
  BY <1>0, <1>12, EsAssumption
     DEF EsClosed, EsInv, EsTypeOK, OneSession, RetryIsArmed, EsLive, EsOpen
<1>13. CASE UNCHANGED esVars
  BY <1>0, <1>13 DEF esVars, EsInv, EsTypeOK, OneSession, RetryIsArmed, EsLive
<1> QED
  BY <1>1, <1>2, <1>3, <1>4, <1>6, <1>7, <1>8, <1>9, <1>10, <1>11, <1>12, <1>13 DEF EsNext

\* The hook's state keeps its types, and an unmounted one has no timer and no socket.
THEOREM EnterpriseType == EsSpec => []EsTypeOK
<1>1. EsInv => EsTypeOK
  BY DEF EsInv
<1> QED
  BY <1>1, EsInitInv, EsStepInv, PTL DEF EsSpec

\* A live socket is the one of wsRef, or one that a redirect opened and a second one
\* left open, for any number of sockets that close late.
THEOREM EnterpriseOneSession == EsSpec => []OneSession
<1>1. EsInv => OneSession
  BY DEF EsInv
<1> QED
  BY <1>1, EsInitInv, EsStepInv, PTL DEF EsSpec

\* A terminal whose socket is gone has its retry armed or a close event to come that
\* will arm it.
THEOREM EnterpriseRetryIsArmed == EsSpec => []RetryIsArmed
<1>1. EsInv => RetryIsArmed
  BY DEF EsInv
<1> QED
  BY <1>1, EsInitInv, EsStepInv, PTL DEF EsSpec

(***************************************************************************)
(* The jumpbox terminal.                                                   *)
(***************************************************************************)
JtInv == JtTypeOK /\ JumpFollowsItsSocket

\* Closing the active socket leaves no live one.
LEMMA JtClosingLeavesNone ==
  ASSUME JtTypeOK, JumpFollowsItsSocket
  PROVE  /\ JtClosing(jtSocks, jtActive) \in [JtSlots -> JtLive \cup {"closing", "closed"}]
         /\ \A r \in JtSlots : JtClosing(jtSocks, jtActive)[r] \notin JtLive
<1>1. CASE jtActive = "none"
  BY <1>1, JtAssumption DEF JtClosing, JtTypeOK, JumpFollowsItsSocket
<1>2. CASE jtActive # "none"
  BY <1>2 DEF JtClosing, JtTypeOK, JumpFollowsItsSocket, JtLive
<1> QED
  BY <1>1, <1>2

\* connect closes the active socket, so the new one is the only live one and no
\* socket is open.
LEMMA JtConnectKeeps ==
  ASSUME JtTypeOK, JumpFollowsItsSocket, JtConnect
  PROVE  /\ jtSocks' \in [JtSlots -> JtLive \cup {"closing", "closed"}]
         /\ jtActive' \in JtSlots /\ jtSocks'[jtActive'] = "connecting"
         /\ \A s \in JtSlots : s # jtActive' => jtSocks'[s] \notin JtLive
         /\ jtStatus' = "connecting" /\ jtShown' = jtShown
<1>1. PICK s \in JtSlots : /\ jtSocks[s] = "closed" /\ s # jtActive
                           /\ jtSocks' = [JtClosing(jtSocks, jtActive) EXCEPT ![s] = "connecting"]
                           /\ jtActive' = s
  BY DEF JtConnect
<1>2. /\ JtClosing(jtSocks, jtActive) \in [JtSlots -> JtLive \cup {"closing", "closed"}]
      /\ \A r \in JtSlots : JtClosing(jtSocks, jtActive)[r] \notin JtLive
  BY JtClosingLeavesNone
<1> QED
  BY <1>1, <1>2 DEF JtConnect, JtLive

LEMMA JtInitInv == JtInit => JtInv
<1> SUFFICES ASSUME JtInit PROVE JtInv
  OBVIOUS
<1>1. jtSocks \in [JtSlots -> JtLive \cup {"closing", "closed"}]
  BY DEF JtInit
<1>2. \A s \in JtSlots : jtSocks[s] = "closed"
  BY DEF JtInit
<1>3. /\ jtActive = "none" /\ jtPing = FALSE
      /\ jtStatus = "disconnected" /\ jtShown = "disconnected"
  BY DEF JtInit
<1>4. JtTypeOK
  BY <1>1, <1>3 DEF JtTypeOK
<1>5. JumpFollowsItsSocket
  BY <1>2, <1>3 DEF JumpFollowsItsSocket, JtLive
<1> QED
  BY <1>4, <1>5 DEF JtInv

LEMMA JtStepInv == JtInv /\ [JtNext]_jtVars => JtInv'
<1> SUFFICES ASSUME JtInv, [JtNext]_jtVars PROVE JtInv'
  OBVIOUS
<1>0. JtTypeOK /\ JumpFollowsItsSocket
  BY DEF JtInv
<1>1. CASE JtMount
  BY <1>0, <1>1, JtConnectKeeps, JtAssumption
     DEF JtMount, JtInv, JtTypeOK, JumpFollowsItsSocket, JtLive
<1>2. CASE JtReconnect
  BY <1>0, <1>2, JtConnectKeeps, JtAssumption
     DEF JtReconnect, JtInv, JtTypeOK, JumpFollowsItsSocket, JtLive
<1>3. CASE JtUnmount
  <2>1. /\ JtClosing(jtSocks, jtActive) \in [JtSlots -> JtLive \cup {"closing", "closed"}]
        /\ \A r \in JtSlots : JtClosing(jtSocks, jtActive)[r] \notin JtLive
    BY <1>0, JtClosingLeavesNone
  <2>2. /\ jtSocks' = JtClosing(jtSocks, jtActive)
        /\ jtActive' = "none" /\ jtPing' = FALSE
        /\ jtStatus' = "disconnected" /\ jtShown' = "disconnected"
    BY <1>3 DEF JtUnmount
  <2>3. JtTypeOK'
    BY <2>1, <2>2 DEF JtTypeOK
  <2>4. JumpFollowsItsSocket'
    BY <2>1, <2>2 DEF JumpFollowsItsSocket, JtLive
  <2> QED
    BY <2>3, <2>4 DEF JtInv
<1>4. ASSUME NEW s \in JtSlots, JtOpened(s) PROVE JtInv'
  BY <1>0, <1>4, JtAssumption DEF JtOpened, JtInv, JtTypeOK, JumpFollowsItsSocket, JtLive
<1>5. ASSUME NEW s \in JtSlots, JtSessionInfo(s) PROVE JtInv'
  BY <1>0, <1>5, JtAssumption DEF JtSessionInfo, JtInv, JtTypeOK, JumpFollowsItsSocket, JtLive
<1>6. ASSUME NEW s \in JtSlots, JtError(s) PROVE JtInv'
  BY <1>0, <1>6, JtAssumption DEF JtError, JtInv, JtTypeOK, JumpFollowsItsSocket, JtLive
<1>7. ASSUME NEW s \in JtSlots, JtServerCloses(s) PROVE JtInv'
  BY <1>0, <1>7, JtAssumption DEF JtServerCloses, JtClosing, JtInv, JtTypeOK, JumpFollowsItsSocket, JtLive
<1>8. ASSUME NEW s \in JtSlots, JtClosed(s) PROVE JtInv'
  BY <1>0, <1>8, JtAssumption DEF JtClosed, JtInv, JtTypeOK, JumpFollowsItsSocket, JtLive
<1>9. CASE UNCHANGED jtVars
  BY <1>0, <1>9 DEF jtVars, JtInv, JtTypeOK, JumpFollowsItsSocket
<1> QED
  BY <1>1, <1>2, <1>3, <1>4, <1>5, <1>6, <1>7, <1>8, <1>9 DEF JtNext

\* The hook's state keeps its types, and a closed tab shows no connection.
THEOREM JumpType == JtSpec => []JtTypeOK
<1>1. JtInv => JtTypeOK
  BY DEF JtInv
<1> QED
  BY <1>1, JtInitInv, JtStepInv, PTL DEF JtSpec

\* The active socket is the only live one, what the tab shows is its own, and it
\* has its keepalive: what the generation check is for.
THEOREM JumpFollows == JtSpec => []JumpFollowsItsSocket
<1>1. JtInv => JumpFollowsItsSocket
  BY DEF JtInv
<1> QED
  BY <1>1, JtInitInv, JtStepInv, PTL DEF JtSpec

-----------------------------------------------------------------------------
(***************************************************************************)
(* The command line: while only keys have gone into both the line and its  *)
(* copy the two are equal, so what Enter checks is what Enter runs.        *)
(***************************************************************************)
KeysKeepThemEqual == tlSource = "keys" => tlBuf = tlLine

TlInv == TlTypeOK /\ KeysKeepThemEqual /\ TypedRisksAreAsked

(***************************************************************************)
(* What the pieces of text are.                                            *)
(***************************************************************************)
LEMMA LinesAreTexts ==
  ASSUME NEW text \in TlLines
  PROVE  text \in Seq(Tokens) /\ Len(text) <= MaxLine
<1>1. PICK n \in 0..MaxLine : text \in [1..n -> Tokens]
  BY DEF TlLines
<1>2. n \in Nat /\ n <= MaxLine
  BY <1>1, TlAssumption
<1> QED
  BY <1>1, <1>2

LEMMA DropLastType ==
  ASSUME NEW text \in Seq(Tokens)
  PROVE  DropLast(text) \in Seq(Tokens) /\ Len(DropLast(text)) <= Len(text)
<1>1. CASE text = <<>>
  BY <1>1 DEF DropLast
<1>2. CASE text # <<>>
  BY <1>2 DEF DropLast
<1> QED
  BY <1>1, <1>2

LEMMA CaptureType ==
  ASSUME NEW text \in Seq(Tokens), NEW c \in CaptureOf(text)
  PROVE  c \in Seq(Tokens)
<1>1. PICK i \in 2..Len(text) : c = SubSeq(text, 1, i - 1)
  BY DEF CaptureOf, CapturesIn
<1> QED
  BY <1>1

\* What Put changes, as the invariant has it.
PutKept ==
  /\ tlLine \in Seq(Tokens) /\ tlBuf \in Seq(Tokens)
  /\ Len(tlLine) <= MaxLine /\ Len(tlBuf) <= MaxLine
  /\ tlSource \in Sources
  /\ KeysKeepThemEqual

\* What a step that puts texts on the line and into the copy keeps.
LEMMA PutKeeps ==
  ASSUME TlInv, NEW text \in Seq(Tokens), NEW buf \in Seq(Tokens), NEW source \in Sources,
         Len(text) <= MaxLine, Len(buf) <= MaxLine, source = "keys" => buf = text,
         Put(text, buf, source)
  PROVE  PutKept'
BY DEF Put, PutKept, KeysKeepThemEqual, Sources

\* The line and the copy end up empty together.
LEMMA ClearKeeps == TlInv /\ Put(<<>>, <<>>, "keys") => PutKept'
BY TlAssumption DEF Put, PutKept, KeysKeepThemEqual, Sources

\* The line alone ends up empty.
LEMMA LineClearKeeps == ASSUME TlInv, Put(<<>>, tlBuf, "other") PROVE PutKept'
<1>1. <<>> \in Seq(Tokens) /\ Len(<<>>) <= MaxLine
  BY TlAssumption
<1>2. tlBuf \in Seq(Tokens) /\ Len(tlBuf) <= MaxLine
  BY DEF TlInv, TlTypeOK
<1> QED
  BY <1>1, <1>2, PutKeeps DEF Sources

\* The copy alone is cleared.
LEMMA CopyClearKeeps ==
  ASSUME TlInv, NEW source \in {"cancelled", "other"}, Put(tlLine, <<>>, source)
  PROVE  PutKept'
<1>1. <<>> \in Seq(Tokens) /\ Len(<<>>) <= MaxLine
  BY TlAssumption
<1>2. tlLine \in Seq(Tokens) /\ Len(tlLine) <= MaxLine
  BY DEF TlInv, TlTypeOK
<1> QED
  BY <1>1, <1>2, PutKeeps DEF Sources

\* A step that runs a line notes it as one; a risky one of keys only is never
\* noted as run by the user's Enter.
LEMMA RanKeeps ==
  ASSUME NEW by \in {"enter", "proceed", "capture", "elsewhere"}, NEW text, NEW shown,
         NEW source \in Sources, Ran(by, text, source, shown),
         by = "enter" /\ source = "keys" => ~Risky(text)
  PROVE  /\ tlRan' \in [by : {"none", "enter", "proceed", "capture", "elsewhere"},
                        risky : BOOLEAN, source : Sources, asShown : BOOLEAN]
         /\ TypedRisksAreAsked'
<1>1. Risky(text) \in BOOLEAN
  BY DEF Risky
<1>2. (text = shown) \in BOOLEAN
  OBVIOUS
<1> QED
  BY <1>1, <1>2 DEF Ran, Sources, TypedRisksAreAsked

LEMMA TlInitInv == TlInit => TlInv
BY TlAssumption DEF TlInit, TlInv, TlTypeOK, Sources, KeysKeepThemEqual, TypedRisksAreAsked, NoDialog

(***************************************************************************)
(* The steps.                                                              *)
(***************************************************************************)
LEMMA TlStepInv == TlInv /\ [TlNext]_tlVars => TlInv'
<1> SUFFICES ASSUME TlInv, [TlNext]_tlVars PROVE TlInv'
  OBVIOUS
<1> USE TlAssumption
<1>s. "keys" \in Sources /\ "cancelled" \in Sources /\ "other" \in Sources
  BY DEF Sources
<1>0. TlTypeOK /\ KeysKeepThemEqual /\ TypedRisksAreAsked
  BY DEF TlInv
<1>1. CASE KeyTyped
  <2>1. PICK k \in Tokens : Put(Append(tlLine, k), Append(tlBuf, k), tlSource)
    BY <1>1 DEF KeyTyped
  <2>2. /\ Append(tlLine, k) \in Seq(Tokens) /\ Len(Append(tlLine, k)) <= MaxLine
        /\ Append(tlBuf, k) \in Seq(Tokens) /\ Len(Append(tlBuf, k)) <= MaxLine
    BY <1>0, <1>1 DEF KeyTyped, TlTypeOK
  <2>3. tlSource \in Sources /\ (tlSource = "keys" => Append(tlBuf, k) = Append(tlLine, k))
    BY <1>0 DEF TlTypeOK, KeysKeepThemEqual
  <2>4. UNCHANGED <<tlOpen, tlDialog, tlDelayed, tlRan>>
    BY <1>1 DEF KeyTyped
  <2>put. PutKept'
    BY <1>0, <2>1, <2>2, <2>3, <2>4, PutKeeps DEF TlTypeOK
  <2> QED
    BY <1>0, <2>1, <2>2, <2>3, <2>4, <2>put DEF TlInv, TlTypeOK, TypedRisksAreAsked, PutKept
<1>2. CASE Backspace
  <2>1. /\ DropLast(tlLine) \in Seq(Tokens) /\ Len(DropLast(tlLine)) <= MaxLine
        /\ DropLast(tlBuf) \in Seq(Tokens) /\ Len(DropLast(tlBuf)) <= MaxLine
    BY <1>0, DropLastType DEF TlTypeOK
  <2>2. tlSource \in Sources /\ (tlSource = "keys" => DropLast(tlBuf) = DropLast(tlLine))
    BY <1>0 DEF TlTypeOK, KeysKeepThemEqual
  <2>3. /\ Put(DropLast(tlLine), DropLast(tlBuf), tlSource)
        /\ UNCHANGED <<tlOpen, tlDialog, tlDelayed, tlRan>>
    BY <1>2 DEF Backspace
  <2>put. PutKept'
    BY <1>0, <2>1, <2>2, <2>3, PutKeeps DEF TlTypeOK
  <2> QED
    BY <1>0, <2>1, <2>2, <2>3, <2>put DEF TlInv, TlTypeOK, TypedRisksAreAsked, PutKept
<1>3. CASE CtrlC
  <2>1. Put(<<>>, <<>>, "keys") /\ UNCHANGED <<tlOpen, tlDialog, tlDelayed, tlRan>>
    BY <1>3 DEF CtrlC
  <2>put. PutKept'
    BY <1>0, <2>1, ClearKeeps
  <2> QED
    BY <1>0, <2>1, <2>put DEF TlInv, TlTypeOK, TypedRisksAreAsked, PutKept
<1>4. CASE OtherKey
  <2>1. PICK text \in TlLines : Put(text, tlBuf, "other")
    BY <1>4 DEF OtherKey
  <2>2. UNCHANGED <<tlOpen, tlDialog, tlDelayed, tlRan>>
    BY <1>4 DEF OtherKey
  <2>put. PutKept'
    BY <1>s, <1>0, <2>1, <2>2, LinesAreTexts, PutKeeps DEF TlTypeOK
  <2> QED
    BY <1>0, <2>1, <2>2, LinesAreTexts, <2>put DEF TlInv, TlTypeOK, TypedRisksAreAsked, PutKept
<1>5. CASE EnterCaptures
  <2>1. /\ tlDelayed' \in CaptureOf(tlBuf) /\ Put(<<>>, <<>>, "keys")
        /\ UNCHANGED <<tlOpen, tlDialog, tlRan>>
    BY <1>5 DEF EnterCaptures
  <2>2. tlDelayed' \in Seq(Tokens)
    BY <1>0, <2>1, CaptureType DEF TlTypeOK
  <2>put. PutKept'
    BY <1>0, <2>1, <2>2, ClearKeeps
  <2> QED
    BY <1>0, <2>1, <2>2, <2>put DEF TlInv, TlTypeOK, TypedRisksAreAsked, PutKept
<1>6. CASE EnterAsks
  BY <1>0, <1>6 DEF EnterAsks, TlInv, TlTypeOK, KeysKeepThemEqual, TypedRisksAreAsked
<1>7. CASE EnterRuns
  <2>1. /\ ~Risky(tlBuf) /\ Ran("enter", tlLine, tlSource, tlLine) /\ Put(<<>>, <<>>, "keys")
        /\ UNCHANGED <<tlOpen, tlDialog, tlDelayed>>
    BY <1>7 DEF EnterRuns
  <2>2. tlSource \in Sources /\ (tlSource = "keys" => ~Risky(tlLine))
    BY <1>0, <2>1 DEF TlTypeOK, KeysKeepThemEqual
  <2>put. PutKept'
    BY <1>0, <2>1, <2>2, ClearKeeps
  <2> QED
    BY <1>0, <2>1, <2>2, <2>put, RanKeeps DEF TlInv, TlTypeOK, PutKept
<1>8. CASE CaptureSent
  <2>1. /\ Ran("capture", tlLine \o tlDelayed, "other", tlDelayed) /\ Put(<<>>, tlBuf, "other")
        /\ tlDelayed' = <<>> /\ UNCHANGED <<tlOpen, tlDialog>>
    BY <1>8 DEF CaptureSent
  <2>put. PutKept'
    BY <1>0, <2>1, LineClearKeeps
  <2>2. tlDelayed' \in Seq(Tokens)
    BY <2>1
  <2>3. /\ tlRan' \in [by : {"none", "enter", "proceed", "capture", "elsewhere"},
                       risky : BOOLEAN, source : Sources, asShown : BOOLEAN]
        /\ TypedRisksAreAsked'
    BY <1>s, <2>1, RanKeeps
  <2> QED
    BY <1>0, <2>1, <2>2, <2>3, <2>put DEF TlInv, TlTypeOK, PutKept
<1>9. CASE Unseen
  <2>1. PICK k \in Tokens : Put(Append(tlLine, k), tlBuf, "other")
    BY <1>9 DEF Unseen
  <2>2. Append(tlLine, k) \in Seq(Tokens) /\ Len(Append(tlLine, k)) <= MaxLine
    BY <1>0, <1>9 DEF Unseen, TlTypeOK
  <2>3. UNCHANGED <<tlOpen, tlDialog, tlDelayed, tlRan>>
    BY <1>9 DEF Unseen
  <2>put. PutKept'
    BY <1>s, <1>0, <2>1, <2>2, <2>3, PutKeeps DEF TlTypeOK
  <2> QED
    BY <1>0, <2>1, <2>2, <2>3, <2>put DEF TlInv, TlTypeOK, TypedRisksAreAsked, PutKept
<1>10. CASE UnseenEnter
  <2>1. /\ Ran("elsewhere", tlLine, "other", tlLine) /\ Put(<<>>, tlBuf, "other")
        /\ UNCHANGED <<tlOpen, tlDialog, tlDelayed>>
    BY <1>10 DEF UnseenEnter
  <2>put. PutKept'
    BY <1>0, <2>1, LineClearKeeps
  <2> QED
    BY <1>s, <1>0, <2>1, <2>put, RanKeeps DEF TlInv, TlTypeOK, PutKept
<1>11. CASE NextStep
  <2>1. PICK k \in Tokens : Put(Append(tlLine, k), <<k>>, Suggested)
    BY <1>11 DEF NextStep, Tokens
  <2>2. /\ Append(tlLine, k) \in Seq(Tokens) /\ Len(Append(tlLine, k)) <= MaxLine
        /\ <<k>> \in Seq(Tokens) /\ Len(<<k>>) <= MaxLine
    BY <1>0, <1>11 DEF NextStep, TlTypeOK
  <2>3. Suggested \in Sources /\ (Suggested = "keys" => <<k>> = Append(tlLine, k))
    BY <1>0 DEF TlTypeOK, Suggested, Sources
  <2>4. UNCHANGED <<tlOpen, tlDialog, tlDelayed, tlRan>>
    BY <1>11 DEF NextStep
  <2>put. PutKept'
    BY <1>0, <2>1, <2>2, <2>3, <2>4, PutKeeps DEF TlTypeOK
  <2> QED
    BY <1>0, <2>1, <2>2, <2>3, <2>4, <2>put DEF TlInv, TlTypeOK, TypedRisksAreAsked, PutKept
<1>12. CASE Proceed
  <2>1. tlDialog' = NoDialog /\ UNCHANGED <<tlOpen, tlDelayed>>
    BY <1>12 DEF Proceed
  <2>2. CASE /\ Ran("proceed", tlLine \o tlDialog, "other", tlDialog)
             /\ Put(<<>>, <<>>, "keys")
    <3>1. PutKept'
      BY <2>2, ClearKeeps
    <3>2. /\ tlRan' \in [by : {"none", "enter", "proceed", "capture", "elsewhere"},
                         risky : BOOLEAN, source : Sources, asShown : BOOLEAN]
          /\ TypedRisksAreAsked'
      BY <1>s, <2>2, RanKeeps
    <3>3. tlDialog' \in Seq(Tokens)
      BY <2>1 DEF NoDialog
    <3> QED
      BY <1>0, <2>1, <3>1, <3>2, <3>3 DEF TlInv, TlTypeOK, PutKept
  <2>3. CASE UNCHANGED <<tlLine, tlBuf, tlSource, tlRan>>
    BY <1>0, <2>1, <2>3 DEF TlInv, TlTypeOK, KeysKeepThemEqual, TypedRisksAreAsked, NoDialog
  <2> QED
    BY <1>12, <2>2, <2>3 DEF Proceed
<1>13. CASE CancelDialog
  <2>1. /\ tlDialog' = NoDialog
        /\ Put(tlLine, <<>>, IF tlSource = "other" THEN "other" ELSE "cancelled")
        /\ UNCHANGED <<tlOpen, tlDelayed, tlRan>>
    BY <1>13 DEF CancelDialog
  <2>put. PutKept'
    BY <1>0, <2>1, CopyClearKeeps
  <2> QED
    BY <1>0, <2>1, <2>put DEF TlInv, TlTypeOK, TypedRisksAreAsked, NoDialog, PutKept
<1>14. CASE UseAlternative
  <2>1. tlDialog' = NoDialog /\ UNCHANGED <<tlOpen, tlDelayed, tlRan>>
    BY <1>14 DEF UseAlternative
  <2>2. CASE /\ Len(tlLine) < MaxLine
             /\ Put(Append(tlLine, "plain"), <<"plain">>, Suggested)
    <3>1. /\ Append(tlLine, "plain") \in Seq(Tokens) /\ Len(Append(tlLine, "plain")) <= MaxLine
          /\ <<"plain">> \in Seq(Tokens) /\ Len(<<"plain">>) <= MaxLine
      BY <1>0, <2>2 DEF TlTypeOK, Tokens
    <3>2. Suggested \in Sources /\ (Suggested = "keys" => <<"plain">> = Append(tlLine, "plain"))
      BY <1>0 DEF TlTypeOK, Suggested, Sources
    <3>9. PutKept'
      BY <1>0, <2>1, <2>2, <3>1, <3>2, PutKeeps DEF TlTypeOK
    <3> QED
      BY <1>0, <2>1, <2>2, <3>1, <3>2, <3>9 DEF TlInv, TlTypeOK, TypedRisksAreAsked, NoDialog, PutKept
  <2>3. CASE Put(tlLine, <<>>, "other")
    BY <1>0, <2>1, <2>3, CopyClearKeeps DEF TlInv, TlTypeOK, TypedRisksAreAsked, NoDialog, PutKept
  <2> QED
    BY <1>14, <2>2, <2>3 DEF UseAlternative
<1>15. CASE LineLost
  <2>1. /\ tlOpen' = FALSE /\ tlDelayed' = <<>> /\ Put(<<>>, tlBuf, "other")
        /\ UNCHANGED <<tlDialog, tlRan>>
    BY <1>15 DEF LineLost
  <2>put. PutKept'
    BY <1>0, <2>1, LineClearKeeps
  <2>2. tlDelayed' \in Seq(Tokens)
    BY <2>1
  <2> QED
    BY <1>0, <2>1, <2>2, <2>put DEF TlInv, TlTypeOK, TypedRisksAreAsked, PutKept
<1>16. CASE LineBack
  BY <1>0, <1>16 DEF LineBack, TlInv, TlTypeOK, KeysKeepThemEqual, TypedRisksAreAsked
<1>17. CASE UNCHANGED tlVars
  BY <1>0, <1>17 DEF tlVars, TlInv, TlTypeOK, KeysKeepThemEqual, TypedRisksAreAsked
<1> QED
  BY <1>1, <1>2, <1>3, <1>4, <1>5, <1>6, <1>7, <1>8, <1>9, <1>10, <1>11, <1>12, <1>13,
     <1>14, <1>15, <1>16, <1>17 DEF TlNext

\* Lines, the copy and the dialog keep their types; the dialog shows risky commands only.
THEOREM TermLineType == TlSpec => []TlTypeOK
<1>1. TlInv => TlTypeOK
  BY DEF TlInv
<1> QED
  BY <1>1, TlInitInv, TlStepInv, PTL DEF TlSpec

\* A risky line made by keys alone never runs on the user's Enter without the question,
\* for lines of any length, as long as no dialog was cancelled on it.
THEOREM TermLineAsks == TlSpec => []TypedRisksAreAsked
<1>1. TlInv => TypedRisksAreAsked
  BY DEF TlInv
<1> QED
  BY <1>1, TlInitInv, TlStepInv, PTL DEF TlSpec

-----------------------------------------------------------------------------
(***************************************************************************)
(* The connections side by side, with the sign-in.                         *)
(***************************************************************************)
LEMMA ServedIsAStutter == PoolServed => UNCHANGED poolVars
BY DEF PoolServed

\* A step of the whole is one of each component, or leaves it as it is.
LEMMA PartsStep ==
  [PartsNext]_partVars =>
    /\ [PoolNext]_poolVars /\ [AuthNext]_auVars /\ [TcNext]_tcVars /\ [EsNext]_esVars
    /\ [JtNext]_jtVars /\ [AgNext]_agVars /\ [TlNext]_tlVars
BY ServedIsAStutter DEF PartsNext, partVars

\* What runs side by side is, for each component, a behaviour of that component, so
\* that every theorem about one of them holds of the run that checks them together.
LEMMA PartsAreBehaviours ==
  PartsSpec => /\ PoolSpec /\ AuthSpec /\ TcSpec /\ EsSpec
               /\ JtSpec /\ AgSpec /\ TlSpec
<1>1. PartsInit => PoolInit /\ AuthInit /\ TcInit /\ EsInit /\ JtInit /\ AgInit /\ TlInit
  BY DEF PartsInit
<1> QED
  BY <1>1, PartsStep, PTL
     DEF PartsSpec, PoolSpec, AuthSpec, TcSpec, EsSpec, JtSpec, AgSpec, TlSpec

\* The states of the exec pool, of the sign-in, of the sockets of the terminals, of the
\* AI agent's conversation and of the command line are of their types.
THEOREM TypesAreCorrect == PartsSpec => []TypesOK
BY PartsAreBehaviours, TypeCorrect, AuthType, TermConnType, EnterpriseType, JumpType,
   AgentType, TermLineType, PTL DEF TypesOK
=============================================================================

---------------------------- MODULE Tunnels_proofs ----------------------------
(***************************************************************************)
(* Theorems about Tunnels for any tunnels, keys, REST calls and forwards,  *)
(* and any bounds on starts, bridged clients and calls cut off.            *)
(***************************************************************************)
EXTENDS Tunnels, TLAPS

\* The tuples UNCHANGED is stated with carry no meaning of their own.
USE DEF vars, callVars, madeVars, poolVars, bridgeVars, dropVars

-----------------------------------------------------------------------------
(* Types, and what the place of a caller says of its call.                  *)

StartPlaces == {"lookup", "connect", "join", "insert", "activate"}

\* A call under way is about a tunnel, and a start has a number of its own.
CallsOK ==
  /\ \A a \in Callers : pc[a] \notin {"idle", "next"} => cur[a] \in TunnelIds
  /\ \A a \in Callers : pc[a] \in StartPlaces =>
       /\ num[a] # 0 /\ num[a] <= made
       /\ owner[num[a]] = cur[a]
  /\ \A n \in Numbers : n > made => owner[n] = "none" /\ listener[n] = "none"

\* While the pool is swept nobody joins a connection of it or sweeps it too, so the
\* connection somebody joins, or the sweep still has to visit, is there.
LocksOK ==
  /\ \A a \in Callers : pc[a] = "join" => pool[KeyFor(a)] # 0
  /\ \A a \in Callers : pc[a] = "clean" =>
       /\ \A b \in Callers \ {a} : pc[b] \notin {"join", "clean"}
       /\ \A k \in left[a] : pool[k] # 0

PlacesInv == TypeOK /\ CallsOK /\ LocksOK

\* The places of a start are not those between calls.
LEMMA StartersAreCalled ==
  ASSUME TypeOK, CallsOK, NEW a \in Callers, pc[a] \notin {"idle", "next"}
  PROVE  /\ cur[a] \in TunnelIds /\ KeyFor(a) \in Keys
         /\ pc[a] \in StartPlaces => num[a] \in Numbers
BY KeysAssumption, TunnelBoundsAssumption DEF TypeOK, CallsOK, KeyFor, Numbers

\* What spawning a listener leaves of the calls, the listeners and the connections.
LEMMA SpawnTypes ==
  ASSUME TypeOK, CallsOK, NEW a \in Callers, NEW c \in Numbers,
         pc[a] \in {"join", "insert"}, Spawn(a, c)
  PROVE  /\ pc' \in [Callers -> Place] /\ cur' \in [Callers -> TunnelIds \cup {"none"}]
         /\ num' \in [Callers -> 0..MaxStarts]
         /\ conn' \in [Numbers -> 0..MaxStarts]
         /\ listener' \in [Numbers -> Running \cup {"none", "ended"}]
         /\ cutOff' \subseteq TunnelIds
         /\ \A n \in Numbers : listener'[n] # "none" => conn'[n] # 0
         /\ pc'[a] \in {"next", "activate"}
         /\ pc'[a] = "activate" =>
              cur'[a] = cur[a] /\ num'[a] = num[a] /\ cutOff' = cutOff
         /\ pc'[a] = "next" => cur[a] \in cutOff' /\ listener' = listener
         /\ cutOff \subseteq cutOff'
         /\ \A b \in Callers \ {a} :
              pc'[b] = pc[b] /\ cur'[b] = cur[b] /\ num'[b] = num[b]
         /\ \A n \in Numbers \ {num[a]} : listener'[n] = listener[n]
<1>1. cur[a] \in TunnelIds /\ num[a] \in Numbers
  BY StartersAreCalled DEF StartPlaces
<1>2. CASE cur[a] \in Unsupported
  BY <1>1, <1>2, TunnelBoundsAssumption DEF Spawn, Return, GoTo, TypeOK, Place
<1>3. CASE cur[a] \notin Unsupported
  <2>1. /\ conn' = [conn EXCEPT ![num[a]] = c]
        /\ listener' = [listener EXCEPT ![num[a]] = "starting"]
        /\ pc' = [pc EXCEPT ![a] = "activate"] /\ UNCHANGED <<cur, num, cutOff>>
    BY <1>3 DEF Spawn, GoTo
  <2>2. c # 0 /\ c \in 0..MaxStarts
    BY TunnelBoundsAssumption DEF Numbers
  <2>3. QED
    BY <1>1, <2>1, <2>2 DEF TypeOK, Place, Running
<1>4. QED
  BY <1>2, <1>3

\* A step of a caller that touches no connection, tunnel or listener.
LEMMA CallTypes ==
  ASSUME TypeOK, NEW a \in Callers, NEW toStop, NEW toStart, Call(a, toStop, toStart),
         toStop \subseteq TunnelIds, toStart \subseteq TunnelIds,
         session' \in {"new", "starting", "open", "lost", "gone"}
  PROVE  TypeOK'
BY DEF Call, GoTo, TypeOK, Place

LEMMA TypeStep ==
  ASSUME PlacesInv, [Next]_vars
  PROVE  TypeOK'
<1> USE TunnelBoundsAssumption
<1>0. TypeOK /\ CallsOK /\ LocksOK
  BY DEF PlacesInv
<1>1. ASSUME NEW c \in Clients, Request(c) PROVE TypeOK'
  <2>1. PICK toStop \in SUBSET TunnelIds, toStart \in SUBSET TunnelIds :
          Call(c, toStop, toStart)
    BY <1>1, KeysAssumption DEF Request
  <2>2. session' \in {"new", "starting", "open", "lost", "gone"} /\ c \in Callers
    BY <1>0, <1>1 DEF Request, TypeOK, Callers
  <2>3. QED
    BY <1>0, <2>1, <2>2, CallTypes
<1>2. ASSUME NEW c \in Clients, DropCall(c) PROVE TypeOK'
  <2>1. c \in Callers /\ cur[c] \in TunnelIds
    BY <1>0, <1>2, StartersAreCalled DEF DropCall, Callers
  <2>2. drops' \in 0..MaxDrops
    BY <1>0, <1>2 DEF DropCall, TypeOK
  <2>3. QED
    BY <1>0, <1>2, <2>1, <2>2 DEF DropCall, Return, GoTo, TypeOK, Place
<1>3. CASE SessionStep
  <2>1. CASE Announce
    BY <1>0, <2>1 DEF Announce, TypeOK
  <2>2. CASE Connect \/ Disconnect
    <3>1. PICK toStop \in SUBSET TunnelIds, toStart \in SUBSET TunnelIds :
            Call(Session, toStop, toStart)
      BY <2>2, KeysAssumption DEF Connect, Disconnect
    <3>2. session' \in {"new", "starting", "open", "lost", "gone"} /\ Session \in Callers
      BY <2>2 DEF Connect, Disconnect, Callers
    <3>3. QED
      BY <1>0, <3>1, <3>2, CallTypes
  <2>3. QED
    BY <1>3, <2>1, <2>2 DEF SessionStep
<1>4. ASSUME NEW a \in Callers, Finish(a) \/ StartFails(a) \/ Lookup(a) \/ Connected(a)
      PROVE  TypeOK'
  BY <1>0, <1>4 DEF Finish, StartFails, Lookup, Connected, Return, GoTo, TypeOK, Place
<1>5. ASSUME NEW a \in Callers, NEW t \in TunnelIds, CheckActive(a, t) PROVE TypeOK'
  <2>1. CASE UNCHANGED <<pc, cur, num, madeVars>>
    BY <1>0, <1>5, <2>1 DEF CheckActive, TypeOK
  <2>2. CASE /\ made < MaxStarts /\ made' = made + 1
             /\ owner' = [owner EXCEPT ![made + 1] = t]
             /\ num' = [num EXCEPT ![a] = made + 1]
             /\ cur' = [cur EXCEPT ![a] = t]
             /\ GoTo(a, "lookup")
    <3>1. made + 1 \in 0..MaxStarts
      BY <1>0, <2>2 DEF TypeOK
    <3>2. QED
      BY <1>0, <1>5, <2>2, <3>1 DEF CheckActive, GoTo, TypeOK, Place
  <2>3. QED
    BY <1>5, <2>1, <2>2 DEF CheckActive
<1>6. ASSUME NEW a \in Callers, JoinConnection(a) PROVE TypeOK'
  <2> DEFINE c == pool[KeyFor(a)]
  <2>1. /\ pc[a] = "join" /\ cur[a] \in TunnelIds /\ KeyFor(a) \in Keys
    BY <1>0, <1>6, StartersAreCalled DEF JoinConnection
  <2>2. c \in Numbers
    BY <1>0, <2>1 DEF LocksOK, TypeOK, Numbers
  <2>3. users' \in [Numbers -> SUBSET TunnelIds]
    BY <1>0, <1>6, <2>1 DEF JoinConnection, TypeOK
  <2>4. Spawn(a, c)
    BY <1>6 DEF JoinConnection
  <2> HIDE DEF c
  <2>5. QED
    BY <1>0, <1>6, <2>1, <2>2, <2>3, <2>4, SpawnTypes DEF JoinConnection, TypeOK
<1>7. ASSUME NEW a \in Callers, InsertConnection(a) PROVE TypeOK'
  <2>1. /\ pc[a] = "insert" /\ cur[a] \in TunnelIds /\ KeyFor(a) \in Keys
        /\ num[a] \in Numbers /\ num[a] \in 0..MaxStarts
    BY <1>0, <1>7, StartersAreCalled DEF InsertConnection, StartPlaces, Numbers
  <2>2. /\ users' \in [Numbers -> SUBSET TunnelIds] /\ pool' \in [Keys -> 0..MaxStarts]
        /\ Spawn(a, num[a])
    BY <1>0, <1>7, <2>1 DEF InsertConnection, TypeOK
  <2>3. QED
    BY <1>0, <1>7, <2>1, <2>2, SpawnTypes DEF InsertConnection, TypeOK
<1>8. ASSUME NEW a \in Callers, Activate(a) PROVE TypeOK'
  <2>1. cur[a] \in TunnelIds /\ num[a] \in 0..MaxStarts
    BY <1>0, <1>8, StartersAreCalled DEF Activate, TypeOK
  <2>2. QED
    BY <1>0, <1>8, <2>1 DEF Activate, Return, GoTo, TypeOK, Place
<1>9. ASSUME NEW a \in Callers, NEW t \in TunnelIds, RemoveActive(a, t) PROVE TypeOK'
  <2>1. active[t] # 0 => active[t] \in Numbers
    BY <1>0 DEF TypeOK, Numbers
  <2>2. QED
    BY <1>0, <1>9, <2>1 DEF RemoveActive, GoTo, TypeOK, Place
<1>10. ASSUME NEW a \in Callers, BeginSweep(a) PROVE TypeOK'
  BY <1>0, <1>10 DEF BeginSweep, GoTo, TypeOK, Place
<1>11. ASSUME NEW a \in Callers, NEW k \in Keys, SweepConnection(a, k) PROVE TypeOK'
  BY <1>0, <1>11 DEF SweepConnection, TypeOK
<1>12. ASSUME NEW a \in Callers, EndSweep(a) PROVE TypeOK'
  BY <1>0, <1>12 DEF EndSweep, Return, GoTo, TypeOK, Place
<1>13. ASSUME NEW n \in Numbers,
              Bind(n) \/ ListenerEnds(n) \/ Negotiate(n) \/ OpenChannel(n) \/ ChannelOpened(n) \/ BridgeEnds(n)
       PROVE  TypeOK'
  BY <1>0, <1>13
  DEF Bind, ListenerEnds, Negotiate, OpenChannel, ChannelOpened, BridgeEnds, TypeOK, Running
<1>14. ASSUME NEW n \in Numbers, Accept(n) PROVE TypeOK'
  <2>1. bridges' \in 0..MaxBridges
    BY <1>0, <1>14 DEF Accept, TypeOK
  <2>2. QED
    BY <1>0, <1>14, <2>1 DEF Accept, TypeOK
<1>15. CASE UNCHANGED vars
  BY <1>0, <1>15 DEF TypeOK
<1>16. QED
  BY <1>1, <1>2, <1>3, <1>4, <1>5, <1>6, <1>7, <1>8, <1>9, <1>10, <1>11, <1>12, <1>13,
     <1>14, <1>15
  DEF Next, CallStep, StartStep, StopStep, ListenerStep

\* A call under way keeps its tunnel and its number.
LEMMA CallsStep ==
  ASSUME PlacesInv, [Next]_vars
  PROVE  CallsOK'
<1> USE TunnelBoundsAssumption
<1>0. TypeOK /\ CallsOK /\ LocksOK
  BY DEF PlacesInv
<1>a. ASSUME NEW a \in Callers,
             \A b \in Callers \ {a} : pc'[b] = pc[b] /\ cur'[b] = cur[b] /\ num'[b] = num[b],
             \/ pc'[a] \in {"idle", "next"}
             \/ pc'[a] \in {"sweep", "clean"} /\ cur'[a] \in TunnelIds
             \/ pc[a] \in StartPlaces /\ pc'[a] \in StartPlaces /\ cur'[a] = cur[a] /\ num'[a] = num[a],
             UNCHANGED madeVars,
             \A n \in Numbers : n > made => listener'[n] = listener[n]
      PROVE  CallsOK'
  BY <1>0, <1>a DEF CallsOK, StartPlaces
<1>1. ASSUME NEW c \in Clients, Request(c) \/ DropCall(c) PROVE CallsOK'
  <2>1. c \in Callers
    BY DEF Callers
  <2>2. /\ \A b \in Callers \ {c} : pc'[b] = pc[b] /\ cur'[b] = cur[b] /\ num'[b] = num[b]
        /\ pc'[c] \in {"idle", "next"} /\ UNCHANGED madeVars /\ UNCHANGED listener
    BY <1>0, <1>1, <2>1 DEF Request, Call, DropCall, Return, GoTo, TypeOK
  <2>3. QED
    BY <1>a, <2>1, <2>2
<1>2. CASE SessionStep
  <2>1. Session \in Callers
    BY DEF Callers
  <2>2. \/ UNCHANGED <<callVars, madeVars, listener>>
        \/ /\ \A b \in Callers \ {Session} :
                pc'[b] = pc[b] /\ cur'[b] = cur[b] /\ num'[b] = num[b]
           /\ pc'[Session] = "next" /\ UNCHANGED madeVars /\ UNCHANGED listener
    BY <1>0, <1>2, <2>1
    DEF SessionStep, Connect, Announce, Disconnect, Call, GoTo, TypeOK
  <2>3. QED
    BY <1>0, <1>a, <2>1, <2>2 DEF CallsOK
<1>3. ASSUME NEW a \in Callers, Finish(a) \/ StartFails(a) \/ Activate(a) \/ EndSweep(a)
      PROVE  CallsOK'
  <2>1. /\ \A b \in Callers \ {a} : pc'[b] = pc[b] /\ cur'[b] = cur[b] /\ num'[b] = num[b]
        /\ pc'[a] \in {"idle", "next"} /\ UNCHANGED madeVars /\ UNCHANGED listener
    BY <1>0, <1>3 DEF Finish, StartFails, Activate, EndSweep, Return, GoTo, TypeOK
  <2>2. QED
    BY <1>a, <2>1
<1>4. ASSUME NEW a \in Callers, Lookup(a) \/ Connected(a) PROVE CallsOK'
  <2>1. /\ \A b \in Callers \ {a} : pc'[b] = pc[b] /\ cur'[b] = cur[b] /\ num'[b] = num[b]
        /\ pc[a] \in StartPlaces /\ pc'[a] \in StartPlaces
        /\ cur'[a] = cur[a] /\ num'[a] = num[a] /\ UNCHANGED madeVars /\ UNCHANGED listener
    BY <1>0, <1>4 DEF Lookup, Connected, GoTo, TypeOK, StartPlaces
  <2>2. QED
    BY <1>a, <2>1
<1>5. ASSUME NEW a \in Callers, NEW t \in TunnelIds, CheckActive(a, t) PROVE CallsOK'
  <2>1. CASE UNCHANGED <<pc, cur, num, madeVars>>
    BY <1>0, <1>5, <2>1 DEF CheckActive, CallsOK
  <2>2. CASE /\ made < MaxStarts /\ made' = made + 1
             /\ owner' = [owner EXCEPT ![made + 1] = t]
             /\ num' = [num EXCEPT ![a] = made + 1]
             /\ cur' = [cur EXCEPT ![a] = t]
             /\ GoTo(a, "lookup")
    <3>1. made \in Nat /\ made + 1 \in Numbers /\ UNCHANGED listener
      BY <1>0, <1>5, <2>2 DEF CheckActive, TypeOK, Numbers
    <3>2. /\ \A b \in Callers \ {a} : pc'[b] = pc[b] /\ cur'[b] = cur[b] /\ num'[b] = num[b]
          /\ pc'[a] = "lookup" /\ cur'[a] = t /\ num'[a] = made + 1
          /\ owner'[made + 1] = t
          /\ \A n \in Numbers \ {made + 1} : owner'[n] = owner[n]
      BY <1>0, <2>2, <3>1 DEF GoTo, TypeOK
    <3>3. \A b \in Callers : pc[b] \in StartPlaces => num[b] \in Numbers /\ num[b] # made + 1
      BY <1>0, <3>1 DEF CallsOK, TypeOK, Numbers
    <3>4. \A b \in Callers : pc'[b] \notin {"idle", "next"} => cur'[b] \in TunnelIds
      BY <1>0, <3>2 DEF CallsOK
    <3>5. \A b \in Callers : pc'[b] \in StartPlaces =>
            num'[b] # 0 /\ num'[b] <= made' /\ owner'[num'[b]] = cur'[b]
      BY <1>0, <2>2, <3>1, <3>2, <3>3 DEF CallsOK, TypeOK
    <3>6. \A n \in Numbers : n > made' => owner'[n] = "none" /\ listener'[n] = "none"
      BY <1>0, <2>2, <3>1, <3>2 DEF CallsOK, Numbers
    <3>7. QED
      BY <3>4, <3>5, <3>6 DEF CallsOK
  <2>3. QED
    BY <1>5, <2>1, <2>2 DEF CheckActive
<1>6. ASSUME NEW a \in Callers, JoinConnection(a) \/ InsertConnection(a) PROVE CallsOK'
  <2>1. /\ pc[a] \in {"join", "insert"} /\ pc[a] \in StartPlaces
        /\ cur[a] \in TunnelIds /\ KeyFor(a) \in Keys /\ num[a] \in Numbers
    BY <1>0, <1>6, StartersAreCalled DEF JoinConnection, InsertConnection, StartPlaces
  <2>2. PICK c \in Numbers : Spawn(a, c)
    BY <1>0, <1>6, <2>1 DEF JoinConnection, InsertConnection, LocksOK, TypeOK, Numbers
  <2>3. /\ pc'[a] \in {"next", "activate"}
        /\ pc'[a] = "activate" => cur'[a] = cur[a] /\ num'[a] = num[a]
        /\ \A b \in Callers \ {a} : pc'[b] = pc[b] /\ cur'[b] = cur[b] /\ num'[b] = num[b]
        /\ \A n \in Numbers \ {num[a]} : listener'[n] = listener[n]
    BY <1>0, <2>1, <2>2, SpawnTypes
  <2>4. num[a] <= made /\ UNCHANGED madeVars
    BY <1>0, <1>6, <2>1 DEF CallsOK, JoinConnection, InsertConnection
  <2>5. \A n \in Numbers : n > made => n # num[a]
    BY <1>0, <2>1, <2>4 DEF TypeOK, Numbers
  <2>6. pc'[a] = "activate" => pc'[a] \in StartPlaces
    BY DEF StartPlaces
  <2>7. QED
    BY <1>a, <2>1, <2>3, <2>4, <2>5, <2>6
<1>7. ASSUME NEW a \in Callers, NEW t \in TunnelIds, RemoveActive(a, t) PROVE CallsOK'
  BY <1>0, <1>7 DEF RemoveActive, GoTo, TypeOK, CallsOK, StartPlaces
<1>8. ASSUME NEW a \in Callers, BeginSweep(a) PROVE CallsOK'
  BY <1>0, <1>8 DEF BeginSweep, GoTo, TypeOK, CallsOK, StartPlaces
<1>9. ASSUME NEW a \in Callers, NEW k \in Keys, SweepConnection(a, k) PROVE CallsOK'
  BY <1>0, <1>9 DEF SweepConnection, CallsOK
<1>10. ASSUME NEW n \in Numbers,
              \/ Bind(n) \/ ListenerEnds(n) \/ Negotiate(n) \/ OpenChannel(n) \/ ChannelOpened(n)
              \/ BridgeEnds(n) \/ Accept(n)
       PROVE  CallsOK'
  <2>1. /\ UNCHANGED <<callVars, madeVars>>
        /\ \A m \in Numbers : listener[m] = "none" => listener'[m] = "none"
    BY <1>0, <1>10
    DEF Bind, ListenerEnds, Negotiate, OpenChannel, ChannelOpened, BridgeEnds, Accept, TypeOK
  <2>2. QED
    BY <1>0, <2>1 DEF CallsOK
<1>11. CASE UNCHANGED vars
  BY <1>0, <1>11 DEF CallsOK
<1>12. QED
  BY <1>1, <1>2, <1>3, <1>4, <1>5, <1>6, <1>7, <1>8, <1>9, <1>10, <1>11
  DEF Next, CallStep, StartStep, StopStep, ListenerStep

\* The pool changes under its write lock only.
LEMMA LocksStep ==
  ASSUME PlacesInv, [Next]_vars
  PROVE  LocksOK'
<1> USE TunnelBoundsAssumption
<1>0. TypeOK /\ CallsOK /\ LocksOK
  BY DEF PlacesInv
<1>a. ASSUME NEW a \in Callers,
             \A b \in Callers \ {a} :
               pc'[b] = pc[b] /\ cur'[b] = cur[b] /\ left'[b] = left[b],
             pc'[a] \notin {"join", "clean"},
             \A k \in Keys : pool[k] # 0 => pool'[k] # 0
      PROVE  LocksOK'
  <2>1. \A b \in Callers \ {a} : KeyFor(b)' = KeyFor(b)
    BY <1>a DEF KeyFor
  <2>2. \A b \in Callers : pc[b] = "join" => KeyFor(b) \in Keys
    BY <1>0, StartersAreCalled
  <2>3. \A b \in Callers : left[b] \subseteq Keys
    BY <1>0 DEF TypeOK
  <2>4. QED
    BY <1>0, <1>a, <2>1, <2>2, <2>3 DEF LocksOK
<1>1. ASSUME NEW c \in Clients, Request(c) \/ DropCall(c) PROVE LocksOK'
  <2>1. c \in Callers
    BY DEF Callers
  <2>2. /\ \A b \in Callers \ {c} : pc'[b] = pc[b] /\ cur'[b] = cur[b] /\ left'[b] = left[b]
        /\ pc'[c] \in {"idle", "next"} /\ UNCHANGED pool
    BY <1>0, <1>1, <2>1 DEF Request, Call, DropCall, Return, GoTo, TypeOK
  <2>3. QED
    BY <1>a, <2>1, <2>2
<1>2. CASE SessionStep
  <2>1. Session \in Callers
    BY DEF Callers
  <2>2. \/ UNCHANGED <<callVars, pool>>
        \/ /\ \A b \in Callers \ {Session} :
                pc'[b] = pc[b] /\ cur'[b] = cur[b] /\ left'[b] = left[b]
           /\ pc'[Session] = "next" /\ UNCHANGED pool
    BY <1>0, <1>2, <2>1
    DEF SessionStep, Connect, Announce, Disconnect, Call, GoTo, TypeOK
  <2>3. QED
    BY <1>0, <1>a, <2>1, <2>2 DEF LocksOK, KeyFor
<1>3. ASSUME NEW a \in Callers,
             Finish(a) \/ StartFails(a) \/ Activate(a) \/ Connected(a)
      PROVE  LocksOK'
  <2>1. /\ \A b \in Callers \ {a} : pc'[b] = pc[b] /\ cur'[b] = cur[b] /\ left'[b] = left[b]
        /\ pc'[a] \in {"idle", "next", "insert"} /\ UNCHANGED pool
    BY <1>0, <1>3 DEF Finish, StartFails, Activate, Connected, Return, GoTo, TypeOK
  <2>2. QED
    BY <1>a, <2>1
<1>4. ASSUME NEW a \in Callers, Lookup(a) PROVE LocksOK'
  <2>1. /\ \A b \in Callers \ {a} : pc'[b] = pc[b]
        /\ \A b \in Callers : KeyFor(b)' = KeyFor(b) /\ left'[b] = left[b]
        /\ pc'[a] = "join" => pool[KeyFor(a)] # 0
        /\ pc'[a] # "clean" /\ UNCHANGED pool
        /\ \A b \in Callers : pc[b] # "clean"
    BY <1>0, <1>4 DEF Lookup, GoTo, PoolReadable, KeyFor, TypeOK
  <2>2. QED
    BY <1>0, <2>1 DEF LocksOK
<1>5. ASSUME NEW a \in Callers, NEW t \in TunnelIds,
             CheckActive(a, t) \/ RemoveActive(a, t)
      PROVE  LocksOK'
  <2>1. /\ \A b \in Callers \ {a} : pc'[b] = pc[b] /\ cur'[b] = cur[b] /\ left'[b] = left[b]
        /\ pc'[a] \in {"next", "lookup", "sweep"} /\ UNCHANGED pool
    BY <1>0, <1>5 DEF CheckActive, RemoveActive, GoTo, TypeOK
  <2>2. QED
    BY <1>a, <2>1
<1>6. ASSUME NEW a \in Callers, JoinConnection(a) \/ InsertConnection(a) PROVE LocksOK'
  <2>1. /\ pc[a] \in {"join", "insert"} /\ pc[a] \in StartPlaces
        /\ cur[a] \in TunnelIds /\ KeyFor(a) \in Keys /\ num[a] \in Numbers
    BY <1>0, <1>6, StartersAreCalled DEF JoinConnection, InsertConnection, StartPlaces
  <2>2. PICK c \in Numbers : Spawn(a, c)
    BY <1>0, <1>6, <2>1 DEF JoinConnection, InsertConnection, LocksOK, TypeOK, Numbers
  <2>3. /\ pc'[a] \in {"next", "activate"}
        /\ \A b \in Callers \ {a} : pc'[b] = pc[b] /\ cur'[b] = cur[b]
    BY <1>0, <2>1, <2>2, SpawnTypes
  <2>4. /\ UNCHANGED left
        /\ \A k \in Keys : pool[k] # 0 => pool'[k] # 0
    BY <1>0, <1>6, <2>1 DEF JoinConnection, InsertConnection, TypeOK, Numbers
  <2>5. QED
    BY <1>a, <2>3, <2>4
<1>7. ASSUME NEW a \in Callers, BeginSweep(a) PROVE LocksOK'
  <2>1. /\ \A b \in Callers \ {a} : pc'[b] = pc[b] /\ left'[b] = left[b]
        /\ pc'[a] = "clean" /\ left'[a] = {k \in Keys : pool[k] # 0}
        /\ UNCHANGED <<pool, cur>>
        /\ \A b \in Callers : pc[b] \notin {"join", "clean"}
    BY <1>0, <1>7 DEF BeginSweep, GoTo, PoolWritable, TypeOK
  <2>2. QED
    BY <1>0, <2>1 DEF LocksOK, KeyFor
<1>8. ASSUME NEW a \in Callers, NEW k \in Keys, SweepConnection(a, k) PROVE LocksOK'
  <2>1. /\ UNCHANGED <<pc, cur, pool>>
        /\ \A b \in Callers : left'[b] \subseteq left[b]
    BY <1>0, <1>8 DEF SweepConnection, TypeOK
  <2>2. QED
    BY <1>0, <2>1 DEF LocksOK, KeyFor
<1>9. ASSUME NEW a \in Callers, EndSweep(a) PROVE LocksOK'
  <2>1. /\ \A b \in Callers \ {a} : pc'[b] = pc[b] /\ pc[b] \notin {"join", "clean"}
        /\ pc'[a] = "next"
    BY <1>0, <1>9 DEF EndSweep, Return, GoTo, TypeOK, LocksOK
  <2>2. QED
    BY <2>1 DEF LocksOK
<1>10. ASSUME NEW n \in Numbers,
              \/ Bind(n) \/ ListenerEnds(n) \/ Negotiate(n) \/ OpenChannel(n) \/ ChannelOpened(n)
              \/ BridgeEnds(n) \/ Accept(n)
       PROVE  LocksOK'
  BY <1>0, <1>10
  DEF Bind, ListenerEnds, Negotiate, OpenChannel, ChannelOpened, BridgeEnds, Accept, LocksOK, KeyFor
<1>11. CASE UNCHANGED vars
  BY <1>0, <1>11 DEF LocksOK, KeyFor
<1>12. QED
  BY <1>1, <1>2, <1>3, <1>4, <1>5, <1>6, <1>7, <1>8, <1>9, <1>10, <1>11
  DEF Next, CallStep, StartStep, StopStep, ListenerStep

LEMMA PlacesInvariant == Spec => []PlacesInv
<1>1. Init => PlacesInv
  <2> SUFFICES ASSUME Init PROVE PlacesInv
    OBVIOUS
  <2>1. 0 \in 0..MaxStarts /\ 0 \in 0..MaxBridges /\ 0 \in 0..MaxDrops
    BY TunnelBoundsAssumption
  <2>2. TypeOK
    BY <2>1 DEF Init, TypeOK, Place, Running
  <2>3. CallsOK /\ LocksOK
    BY DEF Init, CallsOK, LocksOK, StartPlaces
  <2>4. QED
    BY <2>2, <2>3 DEF PlacesInv
<1>2. PlacesInv /\ [Next]_vars => PlacesInv'
  BY TypeStep, CallsStep, LocksStep DEF PlacesInv
<1>3. QED
  BY <1>1, <1>2, PTL DEF Spec

\* Every variable keeps its type, and a listener has a connection to use.
THEOREM TypeCorrect == Spec => []TypeOK
BY PlacesInvariant, PTL DEF PlacesInv

-----------------------------------------------------------------------------
(* The pool.                                                                *)

\* Why a tunnel may stand among the users of the connection pooled under k.
Justified(t, k) == active[t] # 0 \/ Starting(t) \/ Sweeping(t, k) \/ t \in cutOff

\* A step by which no caller comes to or leaves the places the justifications look
\* at, and that takes nothing out of the pool or its users, keeps it as it is.
LEMMA StraysKept ==
  ASSUME PoolHoldsNoStrays, NEW a \in Callers,
         \A b \in Callers \ {a} : pc'[b] = pc[b] /\ cur'[b] = cur[b] /\ left'[b] = left[b],
         pc[a] \notin {"activate", "sweep", "clean"},
         UNCHANGED poolVars, cutOff \subseteq cutOff', drops <= drops', drops \in Nat,
         drops' \in Nat, \A t \in TunnelIds : active[t] # 0 => active'[t] # 0,
         TypeOK
  PROVE  PoolHoldsNoStrays'
<1>1. ASSUME NEW k \in Keys, pool[k] # 0
      PROVE  \/ users[pool[k]] # {}
             \/ drops' > 0
             \/ \E b \in Callers : pc'[b] = "clean"
  BY <1>1 DEF PoolHoldsNoStrays
<1>2. ASSUME NEW k \in Keys, pool[k] # 0, NEW t \in users[pool[k]]
      PROVE  Justified(t, k)'
  <2>1. t \in TunnelIds
    BY <1>2, TunnelBoundsAssumption DEF TypeOK, Numbers
  <2>2. Justified(t, k)
    BY <1>2 DEF PoolHoldsNoStrays, Justified
  <2>3. QED
    BY <2>1, <2>2 DEF Justified, Starting, Sweeping
<1>3. QED
  BY <1>1, <1>2 DEF PoolHoldsNoStrays, Justified

\* Whatever overlaps, every tunnel listed by a pooled connection has its reason.
LEMMA StraysStep ==
  ASSUME PlacesInv, PoolHoldsNoStrays, [Next]_vars
  PROVE  PoolHoldsNoStrays'
<1> USE TunnelBoundsAssumption
<1>0. TypeOK /\ CallsOK /\ LocksOK
  BY DEF PlacesInv
<1>u. ASSUME NEW k \in Keys, pool[k] # 0
      PROVE  /\ pool[k] \in Numbers /\ users[pool[k]] \subseteq TunnelIds
             /\ \/ users[pool[k]] # {}
                \/ drops > 0
                \/ \E b \in Callers : pc[b] = "clean"
             /\ \A t \in users[pool[k]] : Justified(t, k)
  <2>1. pool[k] \in Numbers
    BY <1>0, <1>u DEF TypeOK, Numbers
  <2>2. users[pool[k]] \subseteq TunnelIds
    BY <1>0, <2>1 DEF TypeOK
  <2>3. QED
    BY <1>u, <2>1, <2>2 DEF PoolHoldsNoStrays, Justified
<1>1. ASSUME NEW c \in Clients, Request(c) PROVE PoolHoldsNoStrays'
  <2>1. c \in Callers /\ drops \in Nat
    BY <1>0 DEF Callers, TypeOK
  <2>2. /\ \A b \in Callers \ {c} : pc'[b] = pc[b] /\ cur'[b] = cur[b] /\ left'[b] = left[b]
        /\ pc[c] = "idle" /\ UNCHANGED <<poolVars, cutOff, drops, active>>
    BY <1>0, <1>1, <2>1 DEF Request, Call, GoTo, TypeOK
  <2>3. QED
    BY <1>0, <2>1, <2>2, StraysKept
<1>2. ASSUME NEW c \in Clients, DropCall(c) PROVE PoolHoldsNoStrays'
  <2>1. c \in Callers
    BY DEF Callers
  <2>2. /\ \A b \in Callers \ {c} : pc'[b] = pc[b] /\ cur'[b] = cur[b] /\ left'[b] = left[b]
        /\ cutOff' = cutOff \cup {cur[c]} /\ UNCHANGED <<poolVars, active>>
        /\ drops' > 0
    BY <1>0, <1>2, <2>1 DEF DropCall, Return, GoTo, TypeOK
  <2>3. ASSUME NEW k \in Keys, pool[k] # 0, NEW t \in users[pool[k]]
        PROVE  Justified(t, k)'
    <3>1. Justified(t, k)
      BY <1>u, <2>3
    <3>2. QED
      BY <2>2, <3>1 DEF Justified, Starting, Sweeping
  <2>4. QED
    BY <2>2, <2>3 DEF PoolHoldsNoStrays, Justified
<1>3. CASE SessionStep
  <2>1. Session \in Callers /\ drops \in Nat
    BY <1>0 DEF Callers, TypeOK
  <2>2. /\ \A b \in Callers \ {Session} :
             pc'[b] = pc[b] /\ cur'[b] = cur[b] /\ left'[b] = left[b]
        /\ pc[Session] = "idle" /\ UNCHANGED <<poolVars, cutOff, drops, active>>
    BY <1>0, <1>3, <2>1
    DEF SessionStep, Connect, Announce, Disconnect, Call, GoTo, TypeOK
  <2>3. QED
    BY <1>0, <2>1, <2>2, StraysKept
<1>4. ASSUME NEW a \in Callers, Finish(a) \/ StartFails(a) \/ Lookup(a) \/ Connected(a)
      PROVE  PoolHoldsNoStrays'
  <2>1. /\ \A b \in Callers \ {a} : pc'[b] = pc[b] /\ cur'[b] = cur[b] /\ left'[b] = left[b]
        /\ pc[a] \notin {"activate", "sweep", "clean"}
        /\ UNCHANGED <<poolVars, cutOff, drops, active>>
    BY <1>0, <1>4 DEF Finish, StartFails, Lookup, Connected, Return, GoTo, TypeOK
  <2>2. drops \in Nat
    BY <1>0 DEF TypeOK
  <2>3. QED
    BY <1>0, <2>1, <2>2, StraysKept
<1>5. ASSUME NEW a \in Callers, NEW t \in TunnelIds, CheckActive(a, t)
      PROVE  PoolHoldsNoStrays'
  <2>1. /\ \A b \in Callers \ {a} : pc'[b] = pc[b] /\ cur'[b] = cur[b] /\ left'[b] = left[b]
        /\ pc[a] = "next" /\ UNCHANGED <<poolVars, cutOff, drops, active>>
    BY <1>0, <1>5 DEF CheckActive, GoTo, TypeOK
  <2>2. drops \in Nat
    BY <1>0 DEF TypeOK
  <2>3. QED
    BY <1>0, <2>1, <2>2, StraysKept
<1>6. ASSUME NEW a \in Callers, JoinConnection(a) \/ InsertConnection(a)
      PROVE  PoolHoldsNoStrays'
  <2>1. /\ pc[a] \in {"join", "insert"} /\ pc[a] \in StartPlaces
        /\ cur[a] \in TunnelIds /\ KeyFor(a) \in Keys /\ num[a] \in Numbers
    BY <1>0, <1>6, StartersAreCalled DEF JoinConnection, InsertConnection, StartPlaces
  <2>2. PICK c \in Numbers :
          /\ Spawn(a, c)
          /\ \/ users' = [users EXCEPT ![c] = @ \cup {cur[a]}] /\ pool' = pool
             \/ users' = [users EXCEPT ![c] = {cur[a]}] /\ pool' = [pool EXCEPT ![KeyFor(a)] = c]
    <3>1. CASE JoinConnection(a)
      <4>1. pool[KeyFor(a)] \in Numbers
        BY <1>0, <2>1, <3>1 DEF JoinConnection, LocksOK, TypeOK, Numbers
      <4>2. QED
        BY <3>1, <4>1 DEF JoinConnection
    <3>2. CASE InsertConnection(a)
      BY <2>1, <3>2 DEF InsertConnection
    <3>3. QED
      BY <1>6, <3>1, <3>2
  <2>3. /\ pc'[a] \in {"next", "activate"}
        /\ pc'[a] = "activate" => cur'[a] = cur[a]
        /\ pc'[a] = "next" => cur[a] \in cutOff'
        /\ cutOff \subseteq cutOff'
        /\ \A b \in Callers \ {a} : pc'[b] = pc[b] /\ cur'[b] = cur[b]
    BY <1>0, <2>1, <2>2, SpawnTypes
  <2>4. UNCHANGED <<left, active, drops>>
    BY <1>6 DEF JoinConnection, InsertConnection
  <2>5. /\ users'[c] # {} /\ cur[a] \in users'[c]
        /\ \A n \in Numbers \ {c} : users'[n] = users[n]
        /\ users'[c] \subseteq users[c] \cup {cur[a]}
    <3>1. users' = [users EXCEPT ![c] = users[c] \cup {cur[a]}]
          \/ users' = [users EXCEPT ![c] = {cur[a]}]
      BY <2>2
    <3>2. DOMAIN users = Numbers
      BY <1>0 DEF TypeOK
    <3>3. QED
      BY <3>1, <3>2
  <2>6. \A k \in Keys : pool'[k] # 0 => \/ pool'[k] = pool[k]
                                        \/ pool'[k] = c /\ users'[c] = {cur[a]}
    BY <1>0, <2>1, <2>2 DEF TypeOK
  <2>7. ASSUME NEW k \in Keys, NEW t, t = cur[a]
        PROVE  Justified(t, k)'
    BY <2>1, <2>3, <2>7 DEF Justified, Starting
  <2>8. ASSUME NEW k \in Keys, NEW t \in TunnelIds, Justified(t, k)
        PROVE  Justified(t, k)'
    BY <2>1, <2>3, <2>4, <2>8 DEF Justified, Starting, Sweeping
  <2>9. ASSUME NEW k \in Keys, pool'[k] # 0
        PROVE  \/ users'[pool'[k]] # {}
               \/ drops' > 0
               \/ \E b \in Callers : pc'[b] = "clean"
    <3>1. CASE pool'[k] = c
      BY <2>5, <3>1
    <3>2. CASE pool'[k] # c
      BY <1>u, <2>1, <2>3, <2>4, <2>5, <2>6, <2>9, <3>2
    <3>3. QED
      BY <3>1, <3>2
  <2>10. ASSUME NEW k \in Keys, pool'[k] # 0, NEW t \in users'[pool'[k]]
         PROVE  Justified(t, k)'
    <3>1. CASE t = cur[a]
      BY <2>7, <3>1
    <3>2. CASE t # cur[a]
      <4>1. pool'[k] = pool[k] /\ t \in users[pool[k]]
        BY <1>u, <2>5, <2>6, <2>10, <3>2
      <4>2. t \in TunnelIds /\ Justified(t, k)
        BY <1>u, <2>10, <4>1
      <4>3. QED
        BY <2>8, <4>2
    <3>3. QED
      BY <3>1, <3>2
  <2>11. QED
    BY <2>9, <2>10 DEF PoolHoldsNoStrays, Justified
<1>7. ASSUME NEW a \in Callers, Activate(a) PROVE PoolHoldsNoStrays'
  <2>1. /\ pc[a] = "activate" /\ cur[a] \in TunnelIds /\ num[a] # 0
        /\ \A b \in Callers \ {a} : pc'[b] = pc[b] /\ cur'[b] = cur[b] /\ left'[b] = left[b]
        /\ active' = [active EXCEPT ![cur[a]] = num[a]]
        /\ UNCHANGED <<poolVars, cutOff, drops>>
    BY <1>0, <1>7 DEF Activate, Return, GoTo, TypeOK, CallsOK, StartPlaces
  <2>2. ASSUME NEW k \in Keys, NEW t \in TunnelIds, Justified(t, k)
        PROVE  Justified(t, k)'
    BY <1>0, <2>1, <2>2 DEF Justified, Starting, Sweeping, TypeOK
  <2>3. QED
    BY <1>u, <2>1, <2>2 DEF PoolHoldsNoStrays, Justified
<1>8. ASSUME NEW a \in Callers, NEW t \in TunnelIds, RemoveActive(a, t)
      PROVE  PoolHoldsNoStrays'
  <2>1. /\ pc[a] = "next"
        /\ \A b \in Callers \ {a} : pc'[b] = pc[b] /\ cur'[b] = cur[b] /\ left'[b] = left[b]
        /\ UNCHANGED <<poolVars, cutOff, drops>>
        /\ \/ UNCHANGED active
           \/ active' = [active EXCEPT ![t] = 0] /\ pc'[a] = "sweep" /\ cur'[a] = t
    BY <1>0, <1>8 DEF RemoveActive, GoTo, TypeOK
  <2>2. ASSUME NEW k \in Keys, NEW s \in TunnelIds, Justified(s, k)
        PROVE  Justified(s, k)'
    BY <1>0, <2>1, <2>2 DEF Justified, Starting, Sweeping, TypeOK
  <2>3. QED
    BY <1>u, <2>1, <2>2 DEF PoolHoldsNoStrays, Justified
<1>9. ASSUME NEW a \in Callers, BeginSweep(a) PROVE PoolHoldsNoStrays'
  <2>1. /\ pc[a] = "sweep" /\ pc'[a] = "clean" /\ cur' = cur
        /\ left'[a] = {k \in Keys : pool[k] # 0}
        /\ \A b \in Callers \ {a} : pc'[b] = pc[b] /\ left'[b] = left[b]
        /\ UNCHANGED <<poolVars, active, cutOff, drops>>
    BY <1>0, <1>9 DEF BeginSweep, GoTo, TypeOK
  <2>2. ASSUME NEW k \in Keys, pool[k] # 0, NEW t \in TunnelIds, Justified(t, k)
        PROVE  Justified(t, k)'
    BY <2>1, <2>2 DEF Justified, Starting, Sweeping
  <2>3. QED
    BY <1>u, <2>1, <2>2 DEF PoolHoldsNoStrays, Justified
<1>10. ASSUME NEW a \in Callers, NEW k \in Keys, SweepConnection(a, k)
       PROVE  PoolHoldsNoStrays'
  <2>1. /\ pc[a] = "clean" /\ k \in left[a] /\ pool[k] \in Numbers
        /\ users' = [users EXCEPT ![pool[k]] = @ \ {cur[a]}]
        /\ left' = [left EXCEPT ![a] = @ \ {k}]
        /\ UNCHANGED <<pc, cur, pool, active, cutOff, drops>>
    BY <1>0, <1>10 DEF SweepConnection, LocksOK, TypeOK, Numbers
  <2>2. ASSUME NEW j \in Keys, pool[j] # 0, NEW t \in users'[pool[j]]
        PROVE  Justified(t, j)'
    <3>1. t \in users[pool[j]] /\ ~(pool[j] = pool[k] /\ t = cur[a]) /\ t \in TunnelIds
      BY <1>0, <1>u, <2>1, <2>2 DEF TypeOK
    <3>2. Justified(t, j)
      BY <1>u, <2>2, <3>1
    <3>3. j = k => t # cur[a]
      BY <3>1
    <3>4. QED
      BY <1>0, <2>1, <3>2, <3>3 DEF Justified, Starting, Sweeping, TypeOK
  <2>3. QED
    BY <2>1, <2>2 DEF PoolHoldsNoStrays, Justified
<1>11. ASSUME NEW a \in Callers, EndSweep(a) PROVE PoolHoldsNoStrays'
  <2>1. /\ pc[a] = "clean" /\ left[a] = {} /\ pc'[a] = "next"
        /\ \A b \in Callers \ {a} : pc'[b] = pc[b] /\ cur'[b] = cur[b] /\ left'[b] = left[b]
        /\ UNCHANGED <<users, active, cutOff, drops>>
        /\ \A k \in Keys : pool'[k] # 0 => pool'[k] = pool[k] /\ users[pool[k]] # {}
    BY <1>0, <1>11 DEF EndSweep, Return, GoTo, TypeOK
  <2>2. ASSUME NEW k \in Keys, NEW t \in TunnelIds, Justified(t, k)
        PROVE  Justified(t, k)'
    BY <2>1, <2>2 DEF Justified, Starting, Sweeping
  <2>3. QED
    BY <1>u, <2>1, <2>2 DEF PoolHoldsNoStrays, Justified
<1>12. ASSUME NEW n \in Numbers,
              \/ Bind(n) \/ ListenerEnds(n) \/ Negotiate(n) \/ OpenChannel(n) \/ ChannelOpened(n)
              \/ BridgeEnds(n) \/ Accept(n)
       PROVE  PoolHoldsNoStrays'
  BY <1>12
  DEF Bind, ListenerEnds, Negotiate, OpenChannel, ChannelOpened, BridgeEnds, Accept,
      PoolHoldsNoStrays, Starting, Sweeping
<1>13. CASE UNCHANGED vars
  BY <1>13 DEF PoolHoldsNoStrays, Starting, Sweeping
<1>14. QED
  BY <1>1, <1>2, <1>3, <1>4, <1>5, <1>6, <1>7, <1>8, <1>9, <1>10, <1>11, <1>12, <1>13
  DEF Next, CallStep, StartStep, StopStep, ListenerStep

\* However starts, stops and cut-off calls overlap, the pool lists no tunnel without
\* a reason and no connection without a tunnel, for any keys and callers.
THEOREM PoolListsOnlyTunnelsInUse == Spec => []PoolHoldsNoStrays
<1>1. Init => PoolHoldsNoStrays
  BY DEF Init, PoolHoldsNoStrays
<1>2. QED
  BY <1>1, StraysStep, PlacesInvariant, PTL DEF Spec

-----------------------------------------------------------------------------
(* The forwards of the session.                                             *)

\* REST calls start stored tunnels only; they may stop any.
OnlyTheSessionStartsForwards ==
  \A c \in Clients : /\ starts[c] \cap Forwards = {}
                     /\ pc[c] \in StartPlaces => cur[c] \notin Forwards

\* What the session is doing in each part of its life; once it is gone, the forwards
\* that are still listed are those it has still to stop.
SessionMoves ==
  /\ session \in {"new", "open", "lost"} => pc[Session] = "idle"
  /\ pc[Session] = "idle" => stops[Session] = {} /\ starts[Session] = {}
  /\ session = "gone" => /\ pc[Session] \in {"idle", "next", "sweep", "clean"}
                         /\ starts[Session] = {}
                         /\ \A f \in Forwards : active[f] # 0 => f \in stops[Session]

\* A forward is started once: it has at most one number.
EachForwardOnce ==
  \A n \in Numbers : owner[n] \in Forwards =>
    /\ session # "new"
    /\ owner[n] \notin starts[Session]
    /\ \A m \in Numbers : owner[m] = owner[n] => m = n

\* The live listener of a forward is the one of its active entry, or about to be.
ForwardsAreListed ==
  \A n \in Numbers : owner[n] \in Forwards /\ Live(n) =>
    \/ active[owner[n]] = n
    \/ pc[Session] = "activate" /\ num[Session] = n

SessionInv ==
  /\ OnlyTheSessionStartsForwards /\ SessionMoves /\ EachForwardOnce /\ ForwardsAreListed

\* Every step keeps the forwards with the session.
LEMMA SessionInvStep ==
  ASSUME PlacesInv, SessionInv, [Next]_vars
  PROVE  SessionInv'
<1> USE TunnelBoundsAssumption, KeysAssumption
<1>0. /\ TypeOK /\ CallsOK /\ LocksOK
      /\ OnlyTheSessionStartsForwards /\ SessionMoves /\ EachForwardOnce /\ ForwardsAreListed
      /\ Session \in Callers /\ Clients = Callers \ {Session}
  BY DEF PlacesInv, SessionInv, Callers
<1>1. ASSUME NEW c \in Clients, Request(c) PROVE SessionInv'
  <2>1. PICK toStop \in SUBSET TunnelIds, toStart \in SUBSET (TunnelIds \ Forwards) :
          Call(c, toStop, toStart)
    BY <1>1 DEF Request
  <2>2. /\ \A b \in Callers \ {c} : /\ pc'[b] = pc[b] /\ starts'[b] = starts[b]
                                    /\ stops'[b] = stops[b]
        /\ pc'[c] = "next" /\ starts'[c] \cap Forwards = {}
        /\ UNCHANGED <<cur, num, owner, active, cancelled, listener, session>>
    BY <1>0, <1>1, <2>1 DEF Request, Call, GoTo, TypeOK
  <2>3. OnlyTheSessionStartsForwards'
    BY <1>0, <2>2 DEF OnlyTheSessionStartsForwards, StartPlaces
  <2>4. SessionMoves' /\ EachForwardOnce' /\ ForwardsAreListed'
    BY <1>0, <2>2 DEF SessionMoves, EachForwardOnce, ForwardsAreListed, Live
  <2>5. QED
    BY <2>3, <2>4 DEF SessionInv
<1>2. ASSUME NEW c \in Clients, DropCall(c) PROVE SessionInv'
  <2>1. /\ \A b \in Callers \ {c} : /\ pc'[b] = pc[b] /\ starts'[b] = starts[b]
                                    /\ cur'[b] = cur[b] /\ num'[b] = num[b]
                                    /\ stops'[b] = stops[b]
        /\ pc'[c] = "idle" /\ starts'[c] = {}
        /\ UNCHANGED <<owner, active, cancelled, listener, session>>
    BY <1>0, <1>2 DEF DropCall, Return, GoTo, TypeOK
  <2>2. OnlyTheSessionStartsForwards'
    BY <1>0, <2>1 DEF OnlyTheSessionStartsForwards, StartPlaces
  <2>3. SessionMoves' /\ EachForwardOnce' /\ ForwardsAreListed'
    BY <1>0, <2>1 DEF SessionMoves, EachForwardOnce, ForwardsAreListed, Live
  <2>4. QED
    BY <2>2, <2>3 DEF SessionInv
<1>3. CASE Connect
  <2>1. /\ session = "new" /\ session' = "starting" /\ pc[Session] = "idle"
        /\ pc'[Session] = "next"
        /\ \A b \in Clients : pc'[b] = pc[b] /\ starts'[b] = starts[b]
        /\ UNCHANGED <<cur, num, owner, active, cancelled, listener>>
    BY <1>0, <1>3 DEF Connect, Call, GoTo, TypeOK
  <2>2. \A n \in Numbers : owner[n] \notin Forwards
    BY <1>0, <2>1 DEF EachForwardOnce
  <2>3. OnlyTheSessionStartsForwards' /\ SessionMoves' /\ EachForwardOnce' /\ ForwardsAreListed'
    BY <1>0, <2>1, <2>2
    DEF OnlyTheSessionStartsForwards, SessionMoves, EachForwardOnce, ForwardsAreListed
  <2>4. QED
    BY <2>3 DEF SessionInv
<1>4. CASE Announce
  <2>1. /\ session' \in {"open", "lost"} /\ pc[Session] = "idle"
        /\ UNCHANGED <<callVars, owner, active, cancelled, listener>>
    BY <1>4 DEF Announce
  <2>2. OnlyTheSessionStartsForwards' /\ SessionMoves' /\ EachForwardOnce' /\ ForwardsAreListed'
    BY <1>0, <2>1
    DEF OnlyTheSessionStartsForwards, SessionMoves, EachForwardOnce, ForwardsAreListed, Live
  <2>3. QED
    BY <2>2 DEF SessionInv
<1>5. CASE Disconnect
  <2>1. /\ session = "open" /\ session' = "gone" /\ pc[Session] = "idle"
        /\ pc'[Session] = "next" /\ starts'[Session] = {}
        /\ stops'[Session] = {t \in Forwards : active[t] # 0}
        /\ \A b \in Clients : pc'[b] = pc[b] /\ starts'[b] = starts[b]
        /\ UNCHANGED <<cur, num, owner, active, cancelled, listener>>
    BY <1>0, <1>5 DEF Disconnect, Call, GoTo, TypeOK
  <2>2. OnlyTheSessionStartsForwards' /\ SessionMoves' /\ EachForwardOnce' /\ ForwardsAreListed'
    BY <1>0, <2>1
    DEF OnlyTheSessionStartsForwards, SessionMoves, EachForwardOnce, ForwardsAreListed, Live
  <2>3. QED
    BY <2>2 DEF SessionInv
<1>6. ASSUME NEW a \in Callers, Finish(a) PROVE SessionInv'
  <2>1. /\ \A b \in Callers \ {a} : pc'[b] = pc[b]
        /\ pc[a] = "next" /\ pc'[a] = "idle" /\ stops[a] = {} /\ starts[a] = {}
        /\ UNCHANGED <<stops, starts, cur, num, owner, active, cancelled, listener, session>>
    BY <1>0, <1>6 DEF Finish, GoTo, TypeOK
  <2>2. OnlyTheSessionStartsForwards' /\ SessionMoves' /\ EachForwardOnce' /\ ForwardsAreListed'
    BY <1>0, <2>1
    DEF OnlyTheSessionStartsForwards, SessionMoves, EachForwardOnce, ForwardsAreListed, Live,
        StartPlaces
  <2>3. QED
    BY <2>2 DEF SessionInv
<1>7. ASSUME NEW a \in Callers, StartFails(a) PROVE SessionInv'
  <2>1. /\ \A b \in Callers \ {a} : pc'[b] = pc[b] /\ cur'[b] = cur[b] /\ num'[b] = num[b]
        /\ pc[a] \in {"lookup", "connect"} /\ pc'[a] = "next"
        /\ UNCHANGED <<stops, starts, owner, active, cancelled, listener, session>>
    BY <1>0, <1>7 DEF StartFails, Return, GoTo, TypeOK
  <2>2. OnlyTheSessionStartsForwards' /\ SessionMoves' /\ EachForwardOnce' /\ ForwardsAreListed'
    BY <1>0, <2>1
    DEF OnlyTheSessionStartsForwards, SessionMoves, EachForwardOnce, ForwardsAreListed, Live,
        StartPlaces
  <2>3. QED
    BY <2>2 DEF SessionInv
<1>8. ASSUME NEW a \in Callers, Lookup(a) \/ Connected(a) PROVE SessionInv'
  <2>1. /\ \A b \in Callers \ {a} : pc'[b] = pc[b]
        /\ pc[a] \in {"lookup", "connect"} /\ pc'[a] \in {"connect", "join", "insert"}
        /\ UNCHANGED <<stops, starts, cur, num, owner, active, cancelled, listener, session>>
    BY <1>0, <1>8 DEF Lookup, Connected, GoTo, TypeOK
  <2>2. OnlyTheSessionStartsForwards' /\ SessionMoves' /\ EachForwardOnce' /\ ForwardsAreListed'
    BY <1>0, <2>1
    DEF OnlyTheSessionStartsForwards, SessionMoves, EachForwardOnce, ForwardsAreListed, Live,
        StartPlaces
  <2>3. QED
    BY <2>2 DEF SessionInv
<1>9. ASSUME NEW a \in Callers, NEW t \in TunnelIds, CheckActive(a, t) PROVE SessionInv'
  <2>1. /\ pc[a] = "next" /\ t \in starts[a]
        /\ \A b \in Callers \ {a} : /\ pc'[b] = pc[b] /\ cur'[b] = cur[b] /\ num'[b] = num[b]
                                    /\ starts'[b] = starts[b]
        /\ starts'[a] = starts[a] \ {t}
        /\ UNCHANGED <<stops, active, cancelled, listener, session>>
    BY <1>0, <1>9 DEF CheckActive, GoTo, TypeOK
  <2>2. CASE UNCHANGED <<pc, cur, num, madeVars>>
    <3>1. OnlyTheSessionStartsForwards' /\ SessionMoves' /\ EachForwardOnce' /\ ForwardsAreListed'
      BY <1>0, <2>1, <2>2
      DEF OnlyTheSessionStartsForwards, SessionMoves, EachForwardOnce, ForwardsAreListed, Live,
          StartPlaces
    <3>2. QED
      BY <3>1 DEF SessionInv
  <2>3. CASE /\ made < MaxStarts /\ made' = made + 1
             /\ owner' = [owner EXCEPT ![made + 1] = t]
             /\ num' = [num EXCEPT ![a] = made + 1]
             /\ cur' = [cur EXCEPT ![a] = t]
             /\ GoTo(a, "lookup")
    <3>1. made + 1 \in Numbers /\ owner[made + 1] = "none" /\ listener[made + 1] = "none"
      BY <1>0, <2>3 DEF TypeOK, CallsOK, Numbers
    <3>2. /\ owner'[made + 1] = t /\ \A n \in Numbers \ {made + 1} : owner'[n] = owner[n]
          /\ pc'[a] = "lookup" /\ cur'[a] = t
      BY <1>0, <2>3, <3>1 DEF TypeOK, GoTo
    <3>3. t \in Forwards => a = Session /\ session \notin {"new", "gone"}
      BY <1>0, <2>1 DEF OnlyTheSessionStartsForwards, SessionMoves
    <3>4. OnlyTheSessionStartsForwards'
      BY <1>0, <2>1, <3>2, <3>3 DEF OnlyTheSessionStartsForwards, StartPlaces
    <3>5. SessionMoves'
      BY <1>0, <2>1, <3>2 DEF SessionMoves
    <3>6. EachForwardOnce'
      BY <1>0, <2>1, <3>1, <3>2, <3>3 DEF EachForwardOnce
    <3>7. ForwardsAreListed'
      BY <1>0, <2>1, <3>1, <3>2 DEF ForwardsAreListed, Live, Running
    <3>8. QED
      BY <3>4, <3>5, <3>6, <3>7 DEF SessionInv
  <2>4. QED
    BY <1>9, <2>2, <2>3 DEF CheckActive
<1>10. ASSUME NEW a \in Callers, JoinConnection(a) \/ InsertConnection(a) PROVE SessionInv'
  <2>1. /\ pc[a] \in {"join", "insert"} /\ pc[a] \in StartPlaces
        /\ cur[a] \in TunnelIds /\ KeyFor(a) \in Keys /\ num[a] \in Numbers
        /\ owner[num[a]] = cur[a]
    BY <1>0, <1>10, StartersAreCalled
    DEF JoinConnection, InsertConnection, StartPlaces, CallsOK
  <2>2. PICK c \in Numbers : Spawn(a, c)
    <3>1. CASE JoinConnection(a)
      BY <1>0, <2>1, <3>1 DEF JoinConnection, LocksOK, TypeOK, Numbers
    <3>2. CASE InsertConnection(a)
      BY <2>1, <3>2 DEF InsertConnection
    <3>3. QED
      BY <1>10, <3>1, <3>2
  <2>3. /\ pc'[a] \in {"next", "activate"}
        /\ pc'[a] = "activate" => cur'[a] = cur[a] /\ num'[a] = num[a]
        /\ pc'[a] = "next" => listener' = listener
        /\ \A b \in Callers \ {a} : pc'[b] = pc[b] /\ cur'[b] = cur[b] /\ num'[b] = num[b]
        /\ \A n \in Numbers \ {num[a]} : listener'[n] = listener[n]
    BY <1>0, <2>1, <2>2, SpawnTypes
  <2>4. UNCHANGED <<stops, starts, owner, active, cancelled, session>>
    BY <1>10 DEF JoinConnection, InsertConnection
  <2>5. OnlyTheSessionStartsForwards'
    BY <1>0, <2>1, <2>3, <2>4 DEF OnlyTheSessionStartsForwards, StartPlaces
  <2>6. SessionMoves' /\ EachForwardOnce'
    BY <1>0, <2>1, <2>3, <2>4 DEF SessionMoves, EachForwardOnce
  <2>7. ForwardsAreListed'
    <3>1. ASSUME NEW n \in Numbers, owner[n] \in Forwards, n # num[a], Live(n)'
          PROVE  active[owner[n]] = n \/ (pc'[Session] = "activate" /\ num'[Session] = n)
      BY <1>0, <2>1, <2>3, <2>4, <3>1 DEF ForwardsAreListed, Live
    <3>2. ASSUME NEW n \in Numbers, n = num[a], owner[n] \in Forwards, Live(n)'
          PROVE  active[owner[n]] = n \/ (pc'[Session] = "activate" /\ num'[Session] = n)
      <4>1. a = Session
        BY <1>0, <2>1, <3>2 DEF OnlyTheSessionStartsForwards
      <4>2. CASE pc'[a] = "activate"
        BY <2>3, <3>2, <4>1, <4>2
      <4>3. CASE pc'[a] = "next"
        <5>1. Live(n)
          BY <2>3, <2>4, <3>2, <4>3 DEF Live
        <5>2. pc[Session] # "activate"
          BY <2>1, <4>1
        <5>3. QED
          BY <1>0, <3>2, <5>1, <5>2 DEF ForwardsAreListed
      <4>4. QED
        BY <2>3, <4>2, <4>3
    <3>3. \A n \in Numbers : owner'[n] = owner[n] /\ UNCHANGED active
      BY <2>4
    <3>4. QED
      BY <3>1, <3>2, <3>3 DEF ForwardsAreListed
  <2>8. QED
    BY <2>5, <2>6, <2>7 DEF SessionInv
<1>11. ASSUME NEW a \in Callers, Activate(a) PROVE SessionInv'
  <2>1. /\ pc[a] = "activate" /\ cur[a] \in TunnelIds /\ num[a] \in Numbers
        /\ owner[num[a]] = cur[a]
    BY <1>0, <1>11, StartersAreCalled DEF Activate, StartPlaces, CallsOK
  <2>2. /\ \A b \in Callers \ {a} : pc'[b] = pc[b] /\ cur'[b] = cur[b] /\ num'[b] = num[b]
        /\ pc'[a] = "next" /\ active' = [active EXCEPT ![cur[a]] = num[a]]
        /\ UNCHANGED <<stops, starts, owner, cancelled, listener, session>>
    BY <1>0, <1>11 DEF Activate, Return, GoTo, TypeOK
  <2>3. active'[cur[a]] = num[a] /\ \A t \in TunnelIds \ {cur[a]} : active'[t] = active[t]
    BY <1>0, <2>1, <2>2 DEF TypeOK
  <2>4. cur[a] \in Forwards => a = Session
    BY <1>0, <2>1 DEF OnlyTheSessionStartsForwards, StartPlaces
  <2>5. OnlyTheSessionStartsForwards'
    BY <1>0, <2>2 DEF OnlyTheSessionStartsForwards, StartPlaces
  <2>6. SessionMoves'
    BY <1>0, <2>1, <2>2, <2>3, <2>4 DEF SessionMoves
  <2>7. EachForwardOnce'
    BY <1>0, <2>2 DEF EachForwardOnce
  <2>8. ForwardsAreListed'
    <3>1. ASSUME NEW n \in Numbers, owner[n] \in Forwards, Live(n)
          PROVE  active'[owner[n]] = n \/ (pc'[Session] = "activate" /\ num'[Session] = n)
      <4>1. CASE owner[n] = cur[a]
        BY <1>0, <2>1, <2>3, <3>1, <4>1 DEF EachForwardOnce
      <4>2. CASE owner[n] # cur[a]
        <5>1. owner[n] \in TunnelIds
          BY <3>1, KeysAssumption
        <5>2. CASE active[owner[n]] = n
          BY <2>3, <4>2, <5>1, <5>2
        <5>3. CASE pc[Session] = "activate" /\ num[Session] = n
          <6>1. a # Session
            BY <2>1, <4>2, <5>3
          <6>2. QED
            BY <1>0, <2>2, <5>3, <6>1
        <5>4. QED
          BY <1>0, <3>1, <5>2, <5>3 DEF ForwardsAreListed
      <4>3. QED
        BY <4>1, <4>2
    <3>2. \A n \in Numbers : owner'[n] = owner[n] /\ (Live(n)' <=> Live(n))
      BY <2>2 DEF Live
    <3>3. QED
      BY <3>1, <3>2 DEF ForwardsAreListed
  <2>9. QED
    BY <2>5, <2>6, <2>7, <2>8 DEF SessionInv
<1>12. ASSUME NEW a \in Callers, NEW t \in TunnelIds, RemoveActive(a, t) PROVE SessionInv'
  <2>1. /\ \A b \in Callers \ {a} : /\ pc'[b] = pc[b] /\ cur'[b] = cur[b]
                                    /\ stops'[b] = stops[b]
        /\ pc[a] = "next" /\ pc'[a] \in {"next", "sweep"} /\ t \in stops[a]
        /\ stops'[a] = stops[a] \ {t} /\ active'[t] = 0
        /\ \A s \in TunnelIds \ {t} : active'[s] = active[s]
        /\ UNCHANGED <<starts, num, owner, listener, session>>
        /\ cancelled \subseteq cancelled'
        /\ active[t] # 0 => active[t] \in cancelled'
    BY <1>0, <1>12 DEF RemoveActive, GoTo, TypeOK
  <2>2. OnlyTheSessionStartsForwards'
    BY <1>0, <2>1 DEF OnlyTheSessionStartsForwards, StartPlaces
  <2>3. SessionMoves'
    BY <1>0, <2>1 DEF SessionMoves
  <2>4. EachForwardOnce'
    BY <1>0, <2>1 DEF EachForwardOnce
  <2>5. ForwardsAreListed'
    <3>1. ASSUME NEW n \in Numbers, owner[n] \in Forwards, Live(n)'
          PROVE  active'[owner[n]] = n \/ (pc'[Session] = "activate" /\ num'[Session] = n)
      <4>1. Live(n) /\ n # 0
        BY <2>1, <3>1 DEF Live, Numbers
      <4>2. CASE active[owner[n]] = n
        BY <2>1, <3>1, <4>1, <4>2 DEF Live
      <4>3. CASE pc[Session] = "activate" /\ num[Session] = n
        BY <1>0, <2>1, <4>3
      <4>4. QED
        BY <1>0, <3>1, <4>1, <4>2, <4>3 DEF ForwardsAreListed
    <3>2. QED
      BY <2>1, <3>1 DEF ForwardsAreListed
  <2>6. QED
    BY <2>2, <2>3, <2>4, <2>5 DEF SessionInv
<1>13. ASSUME NEW a \in Callers, BeginSweep(a) \/ EndSweep(a) PROVE SessionInv'
  <2>1. /\ \A b \in Callers \ {a} : pc'[b] = pc[b] /\ cur'[b] = cur[b] /\ num'[b] = num[b]
        /\ pc[a] \in {"sweep", "clean"} /\ pc'[a] \in {"clean", "next"}
        /\ UNCHANGED <<stops, starts, owner, active, cancelled, listener, session>>
    BY <1>0, <1>13 DEF BeginSweep, EndSweep, Return, GoTo, TypeOK
  <2>2. OnlyTheSessionStartsForwards' /\ SessionMoves' /\ EachForwardOnce' /\ ForwardsAreListed'
    BY <1>0, <2>1
    DEF OnlyTheSessionStartsForwards, SessionMoves, EachForwardOnce, ForwardsAreListed, Live,
        StartPlaces
  <2>3. QED
    BY <2>2 DEF SessionInv
<1>14. ASSUME NEW n \in Numbers, Bind(n) \/ ListenerEnds(n) PROVE SessionInv'
  <2>1. /\ UNCHANGED <<callVars, owner, active, cancelled, session>>
        /\ \A m \in Numbers : listener'[m] \in Running => listener[m] \in Running
    BY <1>0, <1>14 DEF Bind, ListenerEnds, TypeOK, Running
  <2>2. OnlyTheSessionStartsForwards' /\ SessionMoves' /\ EachForwardOnce' /\ ForwardsAreListed'
    BY <1>0, <2>1
    DEF OnlyTheSessionStartsForwards, SessionMoves, EachForwardOnce, ForwardsAreListed, Live
  <2>3. QED
    BY <2>2 DEF SessionInv
<1>15. ASSUME \/ \E a \in Callers, k \in Keys : SweepConnection(a, k)
              \/ \E n \in Numbers :
                   Negotiate(n) \/ OpenChannel(n) \/ ChannelOpened(n) \/ BridgeEnds(n) \/ Accept(n)
              \/ UNCHANGED vars
       PROVE  SessionInv'
  <2>1. UNCHANGED <<pc, stops, starts, cur, num, owner, active, cancelled, listener, session>>
    BY <1>15 DEF SweepConnection, Negotiate, OpenChannel, ChannelOpened, BridgeEnds, Accept
  <2>2. QED
    BY <2>1
    DEF SessionInv, OnlyTheSessionStartsForwards, SessionMoves, EachForwardOnce,
        ForwardsAreListed, Live
<1>16. QED
  BY <1>1, <1>2, <1>3, <1>4, <1>5, <1>6, <1>7, <1>8, <1>9, <1>10, <1>11, <1>12, <1>13,
     <1>14, <1>15
  DEF Next, CallStep, StartStep, StopStep, SessionStep, ListenerStep

LEMMA SessionInvariant == Spec => []SessionInv
<1>1. Init => SessionInv
  BY KeysAssumption
  DEF Init, SessionInv, OnlyTheSessionStartsForwards, SessionMoves, EachForwardOnce,
      ForwardsAreListed, Live, Running, Callers, StartPlaces
<1>2. QED
  BY <1>1, SessionInvStep, PlacesInvariant, PTL DEF Spec

\* A terminal session that was closed and has cleaned up leaves no forward listed and
\* no listener of one running, whatever REST calls started and stopped meanwhile.
THEOREM ClosedSessionsAreClean == Spec => []ClosedSessionsLeaveNothing
<1>1. PlacesInv /\ SessionInv => ClosedSessionsLeaveNothing
  <2> SUFFICES ASSUME PlacesInv, SessionInv, session = "gone", pc[Session] = "idle"
               PROVE  /\ \A t \in Forwards : active[t] = 0
                      /\ \A n \in Numbers :
                           owner[n] \in Forwards /\ listener[n] \in Running => n \in cancelled
    BY DEF ClosedSessionsLeaveNothing
  <2>1. \A t \in Forwards : active[t] = 0
    BY DEF SessionInv, SessionMoves
  <2>2. \A n \in Numbers : n # 0
    BY DEF Numbers
  <2>3. QED
    BY <2>1, <2>2 DEF SessionInv, ForwardsAreListed, Live
<1>2. QED
  BY <1>1, SessionInvariant, PlacesInvariant, PTL
=============================================================================

------------------------------ MODULE Tunnels ------------------------------
(***************************************************************************)
(* The tunnel manager (tunnels/mod.rs): SSH connections pooled by key, the *)
(* map of active tunnels, the listener tasks with their bridged clients    *)
(* (local_forward.rs, dynamic_forward.rs), and its callers: the REST       *)
(* handlers of api.rs and the SSH terminal session of ws.rs, which starts  *)
(* and stops its own forwards.                                             *)
(*                                                                         *)
(* A call of start_tunnel is numbered, and the connection, the listener    *)
(* and the ActiveTunnel it creates carry its number.  Who holds a lock can *)
(* be read off the program counters: the read lock on the pool is held at  *)
(* "join", its write lock at "clean", the mutex of a connection while a    *)
(* bridge is "opening" a channel over it.                                  *)
(***************************************************************************)
EXTENDS Naturals, FiniteSets

CONSTANTS
  TunnelIds,    \* stored tunnels and the forwards of a session
  Keys,         \* ConnectionKey: host, port, profile, effective jump
  KeyOf,        \* the key each tunnel resolves to
  Forwards,     \* tunnels that belong to the SSH terminal session
  AutoStart,    \* stored tunnels that are enabled and start automatically
  Dynamic,      \* dynamic forwards: their clients speak SOCKS5
  Unsupported,  \* tunnels start_tunnel refuses after it has a connection
  Clients,      \* concurrent REST calls
  Session,      \* the SSH terminal session
  MaxStarts,    \* calls of start_tunnel (bound)
  MaxBridges,   \* TCP clients accepted (bound)
  MaxDrops      \* REST calls cut off by their client (bound)

\* Ids of forwards begin with "session:", those of stored tunnels do not (ws.rs).
ASSUME KeysAssumption ==
  /\ KeyOf \in [TunnelIds -> Keys] /\ "none" \notin TunnelIds
  /\ Forwards \subseteq TunnelIds
  /\ AutoStart \subseteq TunnelIds \ Forwards
  /\ Dynamic \subseteq TunnelIds
  /\ Session \notin Clients
ASSUME TunnelBoundsAssumption ==
  MaxStarts \in Nat /\ MaxBridges \in Nat /\ MaxDrops \in Nat

VARIABLES
  pc,         \* where each caller stands
  stops,      \* tunnels the caller still has to stop
  starts,     \* tunnels the caller still has to start, after the stops
  cur,        \* the tunnel of the call under way
  num,        \* the number of the start_tunnel call under way
  left,       \* pool entries a stop_tunnel still has to visit
  made,       \* start_tunnel calls so far
  owner,      \* the tunnel of each numbered call
  conn,       \* the connection its listener uses
  pool,       \* TunnelManager.connections: key -> connection, 0 if none
  users,      \* PooledConnection.tunnel_ids
  active,     \* TunnelManager.active_tunnels: id -> number, 0 if none
  cancelled,  \* numbers whose CancellationToken is cancelled
  listener,   \* the listener task of each number
  bridge,     \* its client
  bridges,    \* clients accepted so far
  drops,      \* calls cut off so far
  session,    \* the life of the SSH terminal session
  cutOff      \* ghost: tunnels a start was refused or cut off for

callVars == <<pc, stops, starts, cur, num, left>>
madeVars == <<made, owner>>
poolVars == <<pool, users>>
bridgeVars == <<bridge, bridges>>
dropVars == <<drops, cutOff>>
vars == <<callVars, madeVars, conn, poolVars, active, cancelled, listener,
          bridgeVars, dropVars, session>>

-----------------------------------------------------------------------------
Callers == Clients \cup {Session}
Numbers == 1..MaxStarts
Running == {"starting", "bound"}

Init ==
  /\ pc = [a \in Callers |-> "idle"]
  /\ stops = [a \in Callers |-> {}]
  /\ starts = [a \in Callers |-> {}]
  /\ cur = [a \in Callers |-> "none"]
  /\ num = [a \in Callers |-> 0]
  /\ left = [a \in Callers |-> {}]
  /\ made = 0
  /\ owner = [n \in Numbers |-> "none"]
  /\ conn = [n \in Numbers |-> 0]
  /\ pool = [k \in Keys |-> 0]
  /\ users = [n \in Numbers |-> {}]
  /\ active = [t \in TunnelIds |-> 0]
  /\ cancelled = {}
  /\ listener = [n \in Numbers |-> "none"]
  /\ bridge = [n \in Numbers |-> "none"]
  /\ bridges = 0
  /\ drops = 0
  /\ cutOff = {}
  /\ session = "new"

\* Mutant of ConnFree: a bridge keeps the mutex for as long as its client stays.
BridgeKeepsMutexMutant(c) ==
  \A n \in Numbers : bridge[n] \in {"opening", "open"} => conn[n] # c

\* tokio's RwLock prefers writers: a reader waits for those already waiting.
PoolReadable == \A a \in Callers : pc[a] \notin {"insert", "sweep", "clean"}
PoolWritable == \A a \in Callers : pc[a] \notin {"join", "clean"}
ConnFree(c) == \A n \in Numbers : bridge[n] = "opening" => conn[n] # c

KeyFor(a) == KeyOf[cur[a]]
GoTo(a, place) == pc' = [pc EXCEPT ![a] = place]
Return(a, place) ==
  /\ GoTo(a, place)
  /\ cur' = [cur EXCEPT ![a] = "none"]
  /\ num' = [num EXCEPT ![a] = 0]

-----------------------------------------------------------------------------
(* Calls.                                                                   *)

Call(a, toStop, toStart) ==
  /\ pc[a] = "idle"
  /\ GoTo(a, "next")
  /\ stops' = [stops EXCEPT ![a] = toStop]
  /\ starts' = [starts EXCEPT ![a] = toStart]
  /\ UNCHANGED <<cur, num, left, madeVars, conn, poolVars, active, cancelled,
                 listener, bridgeVars, dropVars>>

\* start; reconnect; stop, update and delete (both stop first), of a forward too;
\* start-all; stop-all, which works from a snapshot of the active ids.
Request(c) ==
  /\ \/ \E t \in TunnelIds \ Forwards :
          Call(c, {}, {t}) \/ Call(c, {t}, {t})
     \/ \E t \in TunnelIds : Call(c, {t}, {})
     \/ Call(c, {}, AutoStart)
     \/ Call(c, {t \in TunnelIds : active[t] # 0}, {})
  /\ UNCHANGED session

\* The SSH terminal is connected and starts its enabled forwards, if it has any.
Connect ==
  /\ session = "new"
  /\ Forwards # {}
  /\ session' = "starting"
  /\ Call(Session, {}, Forwards)

\* Connected is sent to the terminal: if that fails the handler returns at once.
Announce ==
  /\ session = "starting"
  /\ pc[Session] = "idle"
  /\ session' \in {"open", "lost"}
  /\ UNCHANGED <<callVars, madeVars, conn, poolVars, active, cancelled,
                 listener, bridgeVars, dropVars>>

\* The terminal is closed: the forwards then listed are stopped.
Disconnect ==
  /\ session = "open"
  /\ session' = "gone"
  /\ Call(Session, {t \in Forwards : active[t] # 0}, {})

\* The caller is through with everything it was asked.
Finish(a) ==
  /\ pc[a] = "next"
  /\ stops[a] = {} /\ starts[a] = {}
  /\ GoTo(a, "idle")
  /\ UNCHANGED <<stops, starts, cur, num, left, madeVars, conn, poolVars,
                 active, cancelled, listener, bridgeVars, dropVars, session>>

\* A REST client hangs up: the handler is dropped where it is suspended, the
\* locks it holds are released, what it did stays done.
DropCall(c) ==
  /\ drops < MaxDrops
  /\ pc[c] \notin {"idle", "next"}
  /\ drops' = drops + 1
  /\ cutOff' = cutOff \cup {cur[c]}
  /\ Return(c, "idle")
  /\ stops' = [stops EXCEPT ![c] = {}]
  /\ starts' = [starts EXCEPT ![c] = {}]
  /\ left' = [left EXCEPT ![c] = {}]
  /\ UNCHANGED <<madeVars, conn, poolVars, active, cancelled,
                 listener, bridgeVars, session>>

-----------------------------------------------------------------------------
(* start_tunnel.                                                            *)

\* An id that is active already is refused; the lock is released at once.  (A
\* start beyond the bound counts as one that fails early.)
CheckActive(a, t) ==
  /\ pc[a] = "next"
  /\ stops[a] = {} /\ t \in starts[a]
  /\ starts' = [starts EXCEPT ![a] = @ \ {t}]
  /\ \/ /\ active[t] # 0 \/ made = MaxStarts
        /\ UNCHANGED <<pc, cur, num, madeVars>>
     \/ /\ active[t] = 0
        /\ made < MaxStarts
        /\ made' = made + 1
        /\ owner' = [owner EXCEPT ![made + 1] = t]
        /\ num' = [num EXCEPT ![a] = made + 1]
        /\ cur' = [cur EXCEPT ![a] = t]
        /\ GoTo(a, "lookup")
  /\ UNCHANGED <<stops, left, conn, poolVars, active, cancelled, listener,
                 bridgeVars, dropVars, session>>

\* The profile, the credential, the jump or the SSH connection fails.
StartFails(a) ==
  /\ pc[a] \in {"lookup", "connect"}
  /\ Return(a, "next")
  /\ UNCHANGED <<stops, starts, left, madeVars, conn, poolVars,
                 active, cancelled, listener, bridgeVars, dropVars, session>>

\* Mutant of Lookup: the key is taken to be pooled.
LookupAssumesHitMutant(a) ==
  /\ pc[a] = "lookup"
  /\ PoolReadable
  /\ GoTo(a, "join")
  /\ UNCHANGED <<stops, starts, cur, num, left, madeVars, conn, poolVars,
                 active, cancelled, listener, bridgeVars, dropVars, session>>

\* get_or_create_connection looks into the pool; only a hit keeps the lock.
Lookup(a) ==
  /\ pc[a] = "lookup"
  /\ PoolReadable
  /\ GoTo(a, IF pool[KeyFor(a)] = 0 THEN "connect" ELSE "join")
  /\ UNCHANGED <<stops, starts, cur, num, left, madeVars, conn, poolVars,
                 active, cancelled, listener, bridgeVars, dropVars, session>>

\* connect_and_authenticate or connect_via_jump succeeds.
Connected(a) ==
  /\ pc[a] = "connect"
  /\ GoTo(a, "insert")
  /\ UNCHANGED <<stops, starts, cur, num, left, madeVars, conn, poolVars,
                 active, cancelled, listener, bridgeVars, dropVars, session>>

\* With a connection c in hand the listener is spawned, unless the forward is
\* remote or incomplete: that is an error, and nothing is undone.
Spawn(a, c) ==
  \/ /\ cur[a] \in Unsupported
     /\ cutOff' = cutOff \cup {cur[a]}
     /\ Return(a, "next")
     /\ UNCHANGED <<conn, listener>>
  \/ /\ cur[a] \notin Unsupported
     /\ conn' = [conn EXCEPT ![num[a]] = c]
     /\ listener' = [listener EXCEPT ![num[a]] = "starting"]
     /\ GoTo(a, "activate")
     /\ UNCHANGED <<cur, num, cutOff>>

\* A pooled connection is joined once its mutex is free.
JoinConnection(a) ==
  LET c == pool[KeyFor(a)] IN
  /\ pc[a] = "join"
  /\ ConnFree(c)
  /\ users' = [users EXCEPT ![c] = @ \cup {cur[a]}]
  /\ Spawn(a, c)
  /\ UNCHANGED <<stops, starts, left, madeVars, pool, active,
                 cancelled, bridgeVars, drops, session>>

\* A new connection replaces whatever has been pooled under its key meanwhile.
InsertConnection(a) ==
  LET c == num[a] IN
  /\ pc[a] = "insert"
  /\ PoolWritable
  /\ pool' = [pool EXCEPT ![KeyFor(a)] = c]
  /\ users' = [users EXCEPT ![c] = {cur[a]}]
  /\ Spawn(a, c)
  /\ UNCHANGED <<stops, starts, left, madeVars, active, cancelled,
                 bridgeVars, drops, session>>

\* active_tunnels.insert: an entry put there meanwhile is dropped, which neither
\* cancels nor ends its listener.
Activate(a) ==
  /\ pc[a] = "activate"
  /\ active' = [active EXCEPT ![cur[a]] = num[a]]
  /\ Return(a, "next")
  /\ UNCHANGED <<stops, starts, left, madeVars, conn, poolVars,
                 cancelled, listener, bridgeVars, dropVars, session>>

-----------------------------------------------------------------------------
(* stop_tunnel.                                                             *)

\* Mutant of RemoveActive: the entry is dropped without cancelling its token.
RemoveActiveForgetsTokenMutant(a, t) ==
  /\ pc[a] = "next"
  /\ t \in stops[a]
  /\ stops' = [stops EXCEPT ![a] = @ \ {t}]
  /\ \/ /\ active[t] = 0
        /\ UNCHANGED <<pc, cur, active>>
     \/ /\ active[t] # 0
        /\ active' = [active EXCEPT ![t] = 0]
        /\ cur' = [cur EXCEPT ![a] = t]
        /\ GoTo(a, "sweep")
  /\ UNCHANGED <<starts, num, left, madeVars, conn, poolVars, cancelled, listener,
                 bridgeVars, dropVars, session>>

\* The active entry is taken out and its token cancelled; an id that is not
\* active is an error and nothing is cleaned up.
RemoveActive(a, t) ==
  /\ pc[a] = "next"
  /\ t \in stops[a]
  /\ stops' = [stops EXCEPT ![a] = @ \ {t}]
  /\ \/ /\ active[t] = 0
        /\ UNCHANGED <<pc, cur, active, cancelled>>
     \/ /\ active[t] # 0
        /\ active' = [active EXCEPT ![t] = 0]
        /\ cancelled' = cancelled \cup {active[t]}
        /\ cur' = [cur EXCEPT ![a] = t]
        /\ GoTo(a, "sweep")
  /\ UNCHANGED <<starts, num, left, madeVars, conn, poolVars, listener,
                 bridgeVars, dropVars, session>>

BeginSweep(a) ==
  /\ pc[a] = "sweep"
  /\ PoolWritable
  /\ left' = [left EXCEPT ![a] = {k \in Keys : pool[k] # 0}]
  /\ GoTo(a, "clean")
  /\ UNCHANGED <<stops, starts, cur, num, madeVars, conn, poolVars, active,
                 cancelled, listener, bridgeVars, dropVars, session>>

\* Every pooled connection in turn, whatever its key: its mutex, then retain.
SweepConnection(a, k) ==
  /\ pc[a] = "clean"
  /\ k \in left[a]
  /\ ConnFree(pool[k])
  /\ users' = [users EXCEPT ![pool[k]] = @ \ {cur[a]}]
  /\ left' = [left EXCEPT ![a] = @ \ {k}]
  /\ UNCHANGED <<pc, stops, starts, cur, num, madeVars, conn, pool, active,
                 cancelled, listener, bridgeVars, dropVars, session>>

\* Mutant of EndSweep: empty connections stay pooled.
EndSweepKeepsEmptyMutant(a) ==
  /\ pc[a] = "clean"
  /\ left[a] = {}
  /\ Return(a, "next")
  /\ UNCHANGED <<stops, starts, left, madeVars, conn, poolVars, active,
                 cancelled, listener, bridgeVars, dropVars, session>>

\* Those found empty leave the pool, and the write lock is released.
EndSweep(a) ==
  /\ pc[a] = "clean"
  /\ left[a] = {}
  /\ pool' = [k \in Keys |-> IF pool[k] # 0 /\ users[pool[k]] = {}
                             THEN 0 ELSE pool[k]]
  /\ Return(a, "next")
  /\ UNCHANGED <<stops, starts, left, madeVars, conn, users, active,
                 cancelled, listener, bridgeVars, dropVars, session>>

-----------------------------------------------------------------------------
(* The listener tasks and the clients they bridge.                          *)

\* Two listeners of one tunnel want the same address; any bind may fail.  The
\* failure is logged and the active entry keeps reading Connected.
Bind(n) ==
  /\ listener[n] = "starting"
  /\ \/ /\ \A m \in Numbers : listener[m] = "bound" => owner[m] # owner[n]
        /\ listener' = [listener EXCEPT ![n] = "bound"]
     \/ listener' = [listener EXCEPT ![n] = "ended"]
  /\ UNCHANGED <<callVars, madeVars, conn, poolVars, active, cancelled,
                 bridgeVars, dropVars, session>>

\* select! may take a client although the token is cancelled.
Accept(n) ==
  /\ listener[n] = "bound"
  /\ bridge[n] = "none"
  /\ bridges < MaxBridges
  /\ bridges' = bridges + 1
  /\ bridge' = [bridge EXCEPT ![n] = IF owner[n] \in Dynamic THEN "greeting" ELSE "accepted"]
  /\ UNCHANGED <<callVars, madeVars, conn, poolVars, active, cancelled,
                 listener, dropVars, session>>

\* The SOCKS5 negotiation of a dynamic forward: greeting and request are read from
\* the client without a look at the token and without a timeout.
Negotiate(n) ==
  /\ bridge[n] = "greeting"
  /\ \E result \in {"accepted", "none"} : bridge' = [bridge EXCEPT ![n] = result]
  /\ UNCHANGED <<callVars, madeVars, conn, poolVars, active, cancelled,
                 listener, bridges, dropVars, session>>

\* Mutant of ListenerEnds: the token is looked at only when a client comes.
ListenerEndsOnClientMutant(n) ==
  /\ listener[n] = "bound"
  /\ n \in cancelled
  /\ bridge[n] = "accepted"
  /\ listener' = [listener EXCEPT ![n] = "ended"]
  /\ UNCHANGED <<callVars, madeVars, conn, poolVars, active, cancelled,
                 bridgeVars, dropVars, session>>

\* The accept loop ends when its token is cancelled; its client lives on.
ListenerEnds(n) ==
  /\ listener[n] = "bound"
  /\ n \in cancelled
  /\ listener' = [listener EXCEPT ![n] = "ended"]
  /\ UNCHANGED <<callVars, madeVars, conn, poolVars, active, cancelled,
                 bridgeVars, dropVars, session>>

\* The channel is opened under the mutex of the connection; neither the wait
\* for the mutex nor the opening looks at the token.
OpenChannel(n) ==
  /\ bridge[n] = "accepted"
  /\ ConnFree(conn[n])
  /\ bridge' = [bridge EXCEPT ![n] = "opening"]
  /\ UNCHANGED <<callVars, madeVars, conn, poolVars, active, cancelled,
                 listener, bridges, dropVars, session>>

\* The server confirms or refuses.
ChannelOpened(n) ==
  /\ bridge[n] = "opening"
  /\ \E result \in {"open", "none"} : bridge' = [bridge EXCEPT ![n] = result]
  /\ UNCHANGED <<callVars, madeVars, conn, poolVars, active, cancelled,
                 listener, bridges, dropVars, session>>

\* Either side closes, or the token is cancelled.
BridgeEnds(n) ==
  /\ bridge[n] = "open"
  /\ bridge' = [bridge EXCEPT ![n] = "none"]
  /\ UNCHANGED <<callVars, madeVars, conn, poolVars, active, cancelled,
                 listener, bridges, dropVars, session>>

-----------------------------------------------------------------------------
StartStep(a) ==
  \/ \E t \in TunnelIds : CheckActive(a, t)
  \/ StartFails(a) \/ Lookup(a) \/ Connected(a)
  \/ JoinConnection(a) \/ InsertConnection(a) \/ Activate(a)

StopStep(a) ==
  \/ \E t \in TunnelIds : RemoveActive(a, t)
  \/ BeginSweep(a) \/ EndSweep(a)
  \/ \E k \in Keys : SweepConnection(a, k)

CallStep(a) == StartStep(a) \/ StopStep(a) \/ Finish(a)
SessionStep == Connect \/ Announce \/ Disconnect
ListenerStep(n) ==
  Bind(n) \/ ListenerEnds(n) \/ OpenChannel(n) \/ ChannelOpened(n)

Next ==
  \/ \E c \in Clients : Request(c) \/ DropCall(c)
  \/ \E a \in Callers : CallStep(a)
  \/ SessionStep
  \/ \E n \in Numbers : ListenerStep(n) \/ Accept(n) \/ Negotiate(n) \/ BridgeEnds(n)

Spec == Init /\ [][Next]_vars

\* tokio goes on with every task that can go on, SSH servers answer connection
\* and channel requests in the end, and a bridge ends once its token is
\* cancelled.  Users, clients of a listener and the terminal are free.
Fairness ==
  /\ \A a \in Callers : WF_vars(CallStep(a))
  /\ \A n \in Numbers : /\ WF_vars(ListenerStep(n))
                        /\ WF_vars(n \in cancelled /\ BridgeEnds(n))

FairSpec == Spec /\ Fairness

-----------------------------------------------------------------------------
(* Properties.                                                              *)

Place == {"idle", "next", "lookup", "connect", "join", "insert", "activate",
          "sweep", "clean"}

\* Every variable keeps its type, and a listener has a connection to use.
TypeOK ==
  /\ pc \in [Callers -> Place]
  /\ stops \in [Callers -> SUBSET TunnelIds]
  /\ starts \in [Callers -> SUBSET TunnelIds]
  /\ cur \in [Callers -> TunnelIds \cup {"none"}]
  /\ num \in [Callers -> 0..MaxStarts]
  /\ left \in [Callers -> SUBSET Keys]
  /\ made \in 0..MaxStarts
  /\ owner \in [Numbers -> TunnelIds \cup {"none"}]
  /\ conn \in [Numbers -> 0..MaxStarts]
  /\ pool \in [Keys -> 0..MaxStarts]
  /\ users \in [Numbers -> SUBSET TunnelIds]
  /\ active \in [TunnelIds -> 0..MaxStarts]
  /\ cancelled \subseteq Numbers
  /\ listener \in [Numbers -> Running \cup {"none", "ended"}]
  /\ bridge \in [Numbers -> {"none", "greeting", "accepted", "opening", "open"}]
  /\ bridges \in 0..MaxBridges
  /\ drops \in 0..MaxDrops
  /\ cutOff \subseteq TunnelIds
  /\ session \in {"new", "starting", "open", "lost", "gone"}
  /\ \A n \in Numbers : listener[n] # "none" => conn[n] # 0

Starting(t) == \E a \in Callers : cur[a] = t /\ pc[a] = "activate"
Sweeping(t, k) ==
  \E a \in Callers : /\ cur[a] = t
                     /\ \/ pc[a] = "sweep"
                        \/ pc[a] = "clean" /\ k \in left[a]

\* No SSH connection is left in the pool for nothing, however starts and stops
\* overlap: every tunnel it lists runs, is just being started, or is about to be
\* swept out; and it lists one.  The two ways to leave one behind are a start
\* refused or cut off after it joined, and a stop cut off in its sweep.
PoolHoldsNoStrays ==
  \A k \in Keys : pool[k] # 0 =>
    /\ \/ users[pool[k]] # {}
       \/ drops > 0
       \/ \E a \in Callers : pc[a] = "clean"
    /\ \A t \in users[pool[k]] :
         active[t] # 0 \/ Starting(t) \/ Sweeping(t, k) \/ t \in cutOff

\* When the terminal of a session has been closed and its cleanup is done, none
\* of its forwards runs, although stop-all may have stopped some of them first.
ClosedSessionsLeaveNothing ==
  session = "gone" /\ pc[Session] = "idle" =>
    /\ \A t \in Forwards : active[t] = 0
    /\ \A n \in Numbers :
         owner[n] \in Forwards /\ listener[n] \in Running => n \in cancelled

\* No call waits for ever: the pool lock, taken by starts and stops and kept while
\* waiting for the mutex of a connection, cannot deadlock with the bridges.
CallsReturn == \A a \in Callers : pc[a] # "idle" ~> pc[a] = "idle"

\* The listener of a stopped tunnel gives its port back, and the client it took is
\* disconnected, at whatever point of the opening the stop finds it.  The exception
\* is a client that keeps silent in the SOCKS5 negotiation of a dynamic forward,
\* which nothing ends: it keeps its task for ever.
CancelledListenersEnd ==
  \A n \in Numbers :
    n \in cancelled ~> listener[n] = "ended" /\ bridge[n] \in {"none", "greeting"}

Live(n) == listener[n] \in Running /\ n \notin cancelled

\* mod.rs:388: stopping a tunnel will "cancel the listener task".  So every
\* listener is the one of the active entry, or about to become it.
StopReachesTheListener ==
  \A n \in Numbers :
    Live(n) => \/ active[owner[n]] = n
               \/ \E a \in Callers : pc[a] = "activate" /\ num[a] = n
=============================================================================

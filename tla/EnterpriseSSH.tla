---------------------------- MODULE EnterpriseSSH ----------------------------
(***************************************************************************)
(* The WebSocket of an enterprise terminal: useEnterpriseSSH with the refs  *)
(* it shares between the sockets it makes, the retry after every close, the *)
(* keepalive that finds a dead peer and the redirect to another instance.   *)
(* The terminal uses it with endless retries.                               *)
(***************************************************************************)
EXTENDS Integers, FiniteSets

CONSTANT EsSlots   \* bound: sockets that exist at once, closing ones included

ASSUME EsAssumption == IsFiniteSet(EsSlots) /\ "none" \notin EsSlots /\ "failed" \notin EsSlots

VARIABLES esSocks,     \* readyState of each socket; "up" once SessionInfo came,
                       \* "stalled" when its peer is gone and nobody has noticed,
                       \* "redirected" when it named another instance and is open
          esBorrowed,  \* sockets a redirect has opened: they have the handlers of the
                       \* first one, whose ws.close() is about that one
          esRef,       \* wsRef; "failed" for null in a mounted hook
          esTimer,     \* reconnectTimerRef is set
          esPing,      \* pingIntervalRef is set
          esStatus     \* status

esVars == <<esSocks, esBorrowed, esRef, esTimer, esPing, esStatus>>

EsOpen == {"open", "up", "stalled"}
EsLive == {s \in EsSlots : esSocks[s] \in EsOpen \cup {"connecting", "redirected"}}
Shut(socks, s) == [socks EXCEPT ![s] = IF @ = "closed" THEN @ ELSE "closing"]

EsInit ==
  /\ esSocks = [s \in EsSlots |-> "closed"]
  /\ esBorrowed = {}
  /\ esRef = "none" /\ esTimer = FALSE /\ esPing = FALSE
  /\ esStatus = "disconnected"

\* A new socket takes the place of the one in wsRef.
NewSocket(socks) ==
  \E s \in EsSlots :
    /\ esSocks[s] = "closed" /\ s # esRef
    /\ esSocks' = [socks EXCEPT ![s] = "connecting"]
    /\ esRef' = s

\* connect: the socket of wsRef is closed first.  When the browser refuses to make
\* the new one, nothing else is tried.
EsConnect ==
  LET left == IF esRef \in EsSlots THEN Shut(esSocks, esRef) ELSE esSocks IN
  /\ \/ NewSocket(left) /\ esStatus' = "connecting"
     \/ esSocks' = left /\ esRef' = "failed" /\ esStatus' = "error"
  /\ UNCHANGED esBorrowed

EsMount ==
  /\ esRef = "none"
  /\ EsConnect /\ UNCHANGED <<esTimer, esPing>>

\* onopen: startKeepalive clears both timers before it sets its own.
EsOpened(s) ==
  /\ esSocks[s] = "connecting"
  /\ esSocks' = [esSocks EXCEPT ![s] = "open"]
  /\ esTimer' = FALSE /\ esPing' = TRUE
  /\ UNCHANGED <<esBorrowed, esRef, esStatus>>

SessionInfo(s) ==
  /\ esSocks[s] = "open"
  /\ esSocks' = [esSocks EXCEPT ![s] = "up"]
  /\ esStatus' = "connected"
  /\ UNCHANGED <<esBorrowed, esRef, esTimer, esPing>>

\* Mutant of Redirect: the socket of the first instance is left open.
RedirectKeepsOldMutant(s) ==
  /\ esSocks[s] = "open"
  /\ NewSocket(esSocks) /\ esBorrowed' = esBorrowed \cup {esRef'}
  /\ UNCHANGED <<esTimer, esPing, esStatus>>

\* The broker names another instance: the socket is closed and one with the same
\* handlers opened, unless the browser refuses to.  A socket with borrowed handlers
\* is not closed: they close the first one again.  The flag that should keep the
\* close event from reconnecting is set and cleared before that event comes.
Redirect(s) ==
  LET told == IF s \in esBorrowed THEN [esSocks EXCEPT ![s] = "redirected"]
              ELSE Shut(esSocks, s) IN
  /\ esSocks[s] = "open"
  /\ \/ NewSocket(told) /\ esBorrowed' = esBorrowed \cup {esRef'}
     \/ esSocks' = told /\ UNCHANGED <<esBorrowed, esRef>>
  /\ UNCHANGED <<esTimer, esPing, esStatus>>

\* The message Close; a socket with borrowed handlers is not closed by it either.
CloseAsked(s) ==
  /\ esSocks[s] \in {"open", "up"} /\ s \notin esBorrowed
  /\ esSocks' = Shut(esSocks, s)
  /\ UNCHANGED <<esBorrowed, esRef, esTimer, esPing, esStatus>>

\* External: the peer is gone without a word.
PeerVanishes(s) ==
  /\ esSocks[s] = "up"
  /\ esSocks' = [esSocks EXCEPT ![s] = "stalled"]
  /\ UNCHANGED <<esBorrowed, esRef, esTimer, esPing, esStatus>>

\* The interval finds no pong for 65 seconds.
PongMissing ==
  /\ esPing /\ esRef \in EsSlots /\ esSocks[esRef] \in {"stalled", "redirected"}
  /\ esSocks' = Shut(esSocks, esRef)
  /\ UNCHANGED <<esBorrowed, esRef, esTimer, esPing, esStatus>>

\* Mutant of EsClosed: only a session that was established is retried.
EsClosedUnlessConnectedMutant(s) ==
  /\ esSocks[s] # "closed"
  /\ esSocks' = [esSocks EXCEPT ![s] = "closed"]
  /\ esTimer' = (esStatus = "connected") /\ esPing' = FALSE
  /\ esStatus' = IF esTimer' THEN "reconnecting" ELSE "disconnected"
  /\ esBorrowed' = esBorrowed \ {s}
  /\ UNCHANGED esRef

\* onclose, of whichever socket: the timers are cleared and a retry is set.
EsClosed(s) ==
  /\ esSocks[s] # "closed"
  /\ esSocks' = [esSocks EXCEPT ![s] = "closed"]
  /\ esTimer' = TRUE /\ esPing' = FALSE
  /\ esStatus' = "reconnecting"
  /\ esBorrowed' = esBorrowed \ {s}
  /\ UNCHANGED esRef

EsRetry ==
  /\ esTimer /\ esTimer' = FALSE
  /\ EsConnect /\ UNCHANGED esPing

\* The overlay, the menus of the tab, a key pressed while not connected; so does
\* the effect that connects, when it is cleaned up and run again.
EsReconnect ==
  /\ esRef # "none"
  /\ esTimer' = FALSE /\ esPing' = FALSE
  /\ EsConnect

\* The late events of an unmounted hook find nothing to change.  (What it leaves
\* open, a socket that was redirected, is not followed any further.)
EsUnmount ==
  /\ esRef # "none"
  /\ esSocks' = [s \in EsSlots |-> "closed"] /\ esBorrowed' = {}
  /\ esRef' = "none" /\ esTimer' = FALSE /\ esPing' = FALSE
  /\ esStatus' = "disconnected"

EsNext ==
  \/ EsMount \/ EsRetry \/ EsReconnect \/ EsUnmount \/ PongMissing
  \/ \E s \in EsSlots :
       \/ EsOpened(s) \/ SessionInfo(s) \/ Redirect(s) \/ CloseAsked(s)
       \/ PeerVanishes(s) \/ EsClosed(s)

EsSpec == EsInit /\ [][EsNext]_esVars

\* Timers fire, and a socket that is being closed closes.
EsCloses == \E s \in EsSlots : esSocks[s] = "closing" /\ EsClosed(s)
EsFairness == WF_esVars(EsRetry) /\ WF_esVars(EsCloses)

----------------------------------------------------------------------------
\* Type invariant.
EsTypeOK ==
  /\ esSocks \in [EsSlots -> EsOpen \cup {"connecting", "redirected", "closing", "closed"}]
  /\ esBorrowed \subseteq EsSlots
  /\ esRef \in EsSlots \cup {"none", "failed"}
  /\ esTimer \in BOOLEAN /\ esPing \in BOOLEAN
  /\ esStatus \in {"disconnected", "connecting", "connected", "reconnecting", "error"}
  /\ \A s \in esBorrowed : esSocks[s] # "closed"
  /\ esRef = "none" => ~esTimer /\ ~esPing /\ \A s \in EsSlots : esSocks[s] = "closed"

\* Reconnects, retries and redirects leave no second session open: a live socket is
\* the one of wsRef.  The exception is a socket that a redirect has opened and that
\* was redirected again: its handlers do not close it.
OneSession ==
  \A s \in EsLive : s = esRef \/ (s \in esBorrowed /\ esSocks[s] = "redirected")

\* A terminal whose socket is gone has its retry armed, or a close event to come
\* that will arm it: no order of late closes and timers leaves it stranded.
RetryIsArmed ==
  esRef \in EsSlots \ EsLive => esTimer \/ \E s \in EsSlots : esSocks[s] = "closing"

\* So the terminal does get another connection under way, unless the browser refuses
\* to make the socket, after which nothing is tried any more.
LostIsRetried == esRef \in EsSlots \ EsLive ~> esRef \in EsLive \cup {"none", "failed"}
=============================================================================

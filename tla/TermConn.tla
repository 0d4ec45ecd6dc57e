------------------------------ MODULE TermConn ------------------------------
(***************************************************************************)
(* The connection of one terminal tab to the local agent: the WebSockets it *)
(* opens one after the other, what their events do to the refs the          *)
(* component keeps, the overlay with its countdown and the ways to          *)
(* reconnect.  A socket closes some time after close() is called, so the    *)
(* events of an old one may come when a new one is already open.            *)
(***************************************************************************)
EXTENDS Integers, FiniteSets

CONSTANT MaxSockets    \* bound: sockets a tab opens before it is closed

ASSUME TcAssumption == MaxSockets \in Nat \ {0}

Sockets == 1..MaxSockets

VARIABLES tcKind,      \* "ssh" with a session id, "local" without
          tcSocks,     \* readyState of each socket, "unused" before it is made
          tcAuto,      \* of each socket: auto-reconnect was enabled when it was made
          tcRef,       \* wsRef, 0 for null
          tcConnected, \* isConnectedRef
          tcEver,      \* hasEverConnectedRef
          tcIntent,    \* isIntentionalCloseRef
          tcStatus,    \* the last status reported to the tab
          tcOverlay,   \* showReconnectOverlay
          tcCountdown, \* the countdown interval is running
          tcEnabled    \* ~autoReconnectDisabled

tcVars == <<tcKind, tcSocks, tcAuto, tcRef, tcConnected, tcEver, tcIntent, tcStatus,
            tcOverlay, tcCountdown, tcEnabled>>

TcLive == {"connecting", "open", "up"}    \* "up": Connected has come
Unused == {s \in Sockets : tcSocks[s] = "unused"}
LiveSockets == {s \in Sockets : tcSocks[s] \in TcLive}

\* No tab is open.
TcInit ==
  /\ tcKind = "ssh"
  /\ tcSocks = [s \in Sockets |-> "unused"]
  /\ tcAuto = [s \in Sockets |-> TRUE]
  /\ tcRef = 0
  /\ tcConnected = FALSE /\ tcEver = FALSE /\ tcIntent = FALSE
  /\ tcStatus = "disconnected"
  /\ tcOverlay = FALSE /\ tcCountdown = FALSE /\ tcEnabled = TRUE

(***************************************************************************)
(* connect, called with the sockets, wsRef and flag its caller leaves.  An  *)
(* existing socket that is connecting or open is kept; another one is       *)
(* closed (once more) and the flag is set for the close event to come.      *)
(***************************************************************************)
\* Mutant of TcConnect: a socket that is there is not looked at.
ConnectAlwaysMutant(socks, ref, intent, auto) ==
  /\ \E s \in Unused :
       /\ \A r \in Unused : s <= r
       /\ tcSocks' = [socks EXCEPT ![s] = "connecting"]
       /\ tcAuto' = [tcAuto EXCEPT ![s] = auto]
       /\ tcRef' = s
  /\ tcIntent' = (intent \/ ref # 0)
  /\ tcStatus' = "connecting"
  /\ tcOverlay' = FALSE /\ tcCountdown' = FALSE

TcConnect(socks, ref, intent, auto) ==
  IF ref # 0 /\ socks[ref] \in TcLive
  THEN /\ tcSocks' = socks /\ tcRef' = ref /\ tcIntent' = intent
       /\ tcCountdown' = FALSE
       /\ UNCHANGED <<tcAuto, tcStatus, tcOverlay>>
  ELSE /\ \E s \in Unused :
            /\ \A r \in Unused : s <= r
            /\ tcSocks' = [socks EXCEPT ![s] = "connecting"]
            /\ tcAuto' = [tcAuto EXCEPT ![s] = auto]
            /\ tcRef' = s
       /\ tcIntent' = (intent \/ ref # 0)
       /\ tcStatus' = "connecting"
       /\ tcOverlay' = FALSE /\ tcCountdown' = FALSE

\* A tab is opened: the effect that connects on mount.
MountConnects ==
  /\ tcRef = 0
  /\ tcKind' \in {"ssh", "local"}
  /\ TcConnect(tcSocks, 0, tcIntent, tcEnabled)
  /\ UNCHANGED <<tcConnected, tcEver, tcEnabled>>

MarkConnected ==
  /\ tcConnected' = TRUE /\ tcEver' = TRUE
  /\ tcStatus' = "connected" /\ tcOverlay' = FALSE

\* onopen: a local shell is connected at once, SSH waits for Connected.
TcOpened(s) ==
  /\ tcSocks[s] = "connecting"
  /\ \/ tcKind = "local" /\ tcSocks' = [tcSocks EXCEPT ![s] = "up"] /\ MarkConnected
     \/ /\ tcKind = "ssh" /\ tcSocks' = [tcSocks EXCEPT ![s] = "open"]
        /\ UNCHANGED <<tcConnected, tcEver, tcStatus, tcOverlay>>
  /\ UNCHANGED <<tcKind, tcAuto, tcRef, tcIntent, tcCountdown, tcEnabled>>

SshConnected(s) ==
  /\ tcSocks[s] = "open"
  /\ tcSocks' = [tcSocks EXCEPT ![s] = "up"]
  /\ MarkConnected
  /\ UNCHANGED <<tcKind, tcAuto, tcRef, tcIntent, tcCountdown, tcEnabled>>

\* Output while not connected: taken as a Connected that was missed.
OutputArrives(s) ==
  /\ tcSocks[s] = "up" /\ ~tcConnected
  /\ MarkConnected
  /\ tcCountdown' = FALSE
  /\ UNCHANGED <<tcKind, tcSocks, tcAuto, tcRef, tcIntent, tcEnabled>>

\* onclose of any socket, old or new; a failure to connect reports an error first.
TcClosed(s) ==
  /\ tcSocks[s] \in TcLive \cup {"closing"}
  /\ tcSocks' = [tcSocks EXCEPT ![s] = "closed"]
  /\ tcConnected' = FALSE
  /\ \/ /\ tcIntent
        /\ tcIntent' = FALSE
        /\ tcStatus' = IF tcSocks[s] = "connecting" THEN "error" ELSE tcStatus
        /\ UNCHANGED <<tcOverlay, tcCountdown>>
     \/ /\ ~tcIntent
        /\ tcStatus' = "disconnected"
        /\ tcOverlay' = (tcOverlay \/ (tcEver /\ tcConnected))
        /\ tcCountdown' = (tcCountdown \/ (tcEver /\ tcConnected /\ tcAuto[s]))
        /\ UNCHANGED tcIntent
  /\ UNCHANGED <<tcKind, tcAuto, tcRef, tcEver, tcEnabled>>

(***************************************************************************)
(* Reconnecting.                                                           *)
(***************************************************************************)
\* The countdown is over; its closure is one of a render with auto-reconnect.
CountdownEnds ==
  /\ tcCountdown
  /\ TcConnect(tcSocks, tcRef, tcIntent, TRUE)
  /\ UNCHANGED <<tcKind, tcConnected, tcEver, tcEnabled>>

\* The button of the overlay, the menus of the tab.
ReconnectNow ==
  /\ tcRef # 0
  /\ TcConnect([tcSocks EXCEPT ![tcRef] = IF @ = "closed" THEN @ ELSE "closing"],
               0, TRUE, tcEnabled)
  /\ UNCHANGED <<tcKind, tcConnected, tcEver, tcEnabled>>

CancelOverlay ==
  /\ tcOverlay
  /\ tcOverlay' = FALSE /\ tcCountdown' = FALSE
  /\ UNCHANGED <<tcKind, tcSocks, tcAuto, tcRef, tcConnected, tcEver, tcIntent, tcStatus, tcEnabled>>

DisableAutoReconnect ==
  /\ tcOverlay /\ tcEnabled
  /\ tcEnabled' = FALSE /\ tcCountdown' = FALSE
  /\ UNCHANGED <<tcKind, tcSocks, tcAuto, tcRef, tcConnected, tcEver, tcIntent, tcStatus, tcOverlay>>

\* The tab is unmounted, its socket closed; the next one starts afresh.
TcUnmount ==
  /\ tcRef # 0
  /\ tcKind' = "ssh"
  /\ tcSocks' = [s \in Sockets |-> "unused"]
  /\ tcAuto' = [s \in Sockets |-> TRUE]
  /\ tcRef' = 0
  /\ tcConnected' = FALSE /\ tcEver' = FALSE /\ tcIntent' = FALSE
  /\ tcStatus' = "disconnected"
  /\ tcOverlay' = FALSE /\ tcCountdown' = FALSE /\ tcEnabled' = TRUE

SocketEvent(s) == TcOpened(s) \/ SshConnected(s) \/ OutputArrives(s) \/ TcClosed(s)
TcNext ==
  \/ MountConnects \/ (\E s \in Sockets : SocketEvent(s))
  \/ CountdownEnds \/ ReconnectNow \/ CancelOverlay \/ DisableAutoReconnect \/ TcUnmount

TcSpec == TcInit /\ [][TcNext]_tcVars

----------------------------------------------------------------------------
\* Type invariant.
TcTypeOK ==
  /\ tcKind \in {"ssh", "local"}
  /\ tcSocks \in [Sockets -> TcLive \cup {"unused", "closing", "closed"}]
  /\ tcAuto \in [Sockets -> BOOLEAN]
  /\ tcRef \in 0..MaxSockets
  /\ tcConnected \in BOOLEAN /\ tcEver \in BOOLEAN /\ tcIntent \in BOOLEAN
  /\ tcOverlay \in BOOLEAN /\ tcCountdown \in BOOLEAN /\ tcEnabled \in BOOLEAN
  /\ tcStatus \in {"connecting", "connected", "disconnected", "error"}
  /\ \A s \in Sockets : tcSocks[s] = "unused" <=> s > tcRef
  /\ tcConnected => tcEver

\* A tab has at most one live socket, the one it writes to, however countdowns,
\* clicks on Reconnect and late close events fall: no second shell is opened
\* for it and none is left open that it has lost.
OneLiveSocket == LiveSockets \subseteq {tcRef}
=============================================================================

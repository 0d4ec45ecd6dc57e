---------------------------- MODULE JumpTerminal ----------------------------
(***************************************************************************)
(* The WebSocket of a jumpbox terminal (useJumpboxTerminal): each socket    *)
(* has a generation, and the events of one that is not the active one are   *)
(* ignored.  The same life as TermConn and EnterpriseSSH, told apart by     *)
(* that check; nothing reconnects by itself.                                *)
(***************************************************************************)
EXTENDS Integers, FiniteSets

CONSTANT JtSlots   \* bound: sockets that exist at once; a generation is named by its
                   \* socket, which is used again only after its last event

ASSUME JtAssumption == IsFiniteSet(JtSlots) /\ "none" \notin JtSlots

VARIABLES jtSocks,    \* readyState of each socket; "up" once SessionInfo came
          jtActive,   \* wsRef and activeGenerationRef, which change together
          jtPing,     \* the interval of the keepalive is set
          jtStatus,   \* status of the hook
          jtShown     \* the status the terminal has told its tab

jtVars == <<jtSocks, jtActive, jtPing, jtStatus, jtShown>>

JtLive == {"connecting", "open", "up"}
JtClosing(socks, s) ==
  IF s = "none" THEN socks
  ELSE [socks EXCEPT ![s] = IF @ \in JtLive THEN "closing" ELSE @]

JtInit ==
  /\ jtSocks = [s \in JtSlots |-> "closed"]
  /\ jtActive = "none" /\ jtPing = FALSE
  /\ jtStatus = "disconnected" /\ jtShown = "disconnected"

\* connect: on mount, and by the overlay and the menus of the tab.
JtConnect ==
  /\ \E s \in JtSlots :
       /\ jtSocks[s] = "closed" /\ s # jtActive
       /\ jtSocks' = [JtClosing(jtSocks, jtActive) EXCEPT ![s] = "connecting"]
       /\ jtActive' = s
  /\ jtStatus' = "connecting"
  /\ UNCHANGED jtShown

JtMount == jtActive = "none" /\ JtConnect /\ UNCHANGED jtPing
JtReconnect == jtActive # "none" /\ JtConnect /\ jtPing' = FALSE

JtOpened(s) ==
  /\ jtSocks[s] = "connecting"
  /\ jtSocks' = [jtSocks EXCEPT ![s] = "open"]
  /\ jtPing' = (jtPing \/ s = jtActive)
  /\ UNCHANGED <<jtActive, jtStatus, jtShown>>

JtSessionInfo(s) ==
  /\ jtSocks[s] = "open"
  /\ jtSocks' = [jtSocks EXCEPT ![s] = "up"]
  /\ IF s = jtActive THEN jtStatus' = "connected" /\ jtShown' = "connected"
     ELSE UNCHANGED <<jtStatus, jtShown>>
  /\ UNCHANGED <<jtActive, jtPing>>

\* An Error message, which does not close the socket.
JtError(s) ==
  /\ jtSocks[s] \in {"open", "up"} /\ s = jtActive
  /\ jtStatus' = "error"
  /\ UNCHANGED <<jtSocks, jtActive, jtPing, jtShown>>

\* A Close message of the server.
JtServerCloses(s) ==
  /\ jtSocks[s] \in {"open", "up"} /\ s = jtActive
  /\ jtSocks' = JtClosing(jtSocks, s)
  /\ UNCHANGED <<jtActive, jtPing, jtStatus, jtShown>>

\* Mutant of JtClosed: the generation is not looked at.
JtClosedAnyMutant(s) ==
  /\ jtSocks[s] # "closed"
  /\ jtSocks' = [jtSocks EXCEPT ![s] = "closed"]
  /\ jtPing' = FALSE /\ jtStatus' = "disconnected" /\ jtShown' = "disconnected"
  /\ UNCHANGED jtActive

\* onclose; a socket that has been superseded is ignored entirely.
JtClosed(s) ==
  /\ jtSocks[s] # "closed"
  /\ jtSocks' = [jtSocks EXCEPT ![s] = "closed"]
  /\ IF s = jtActive
     THEN jtPing' = FALSE /\ jtStatus' = "disconnected" /\ jtShown' = "disconnected"
     ELSE UNCHANGED <<jtPing, jtStatus, jtShown>>
  /\ UNCHANGED jtActive

\* The tab is closed; another may be opened while the old socket closes.
JtUnmount ==
  /\ jtActive # "none"
  /\ jtSocks' = JtClosing(jtSocks, jtActive)
  /\ jtActive' = "none" /\ jtPing' = FALSE
  /\ jtStatus' = "disconnected" /\ jtShown' = "disconnected"

JtNext ==
  \/ JtMount \/ JtReconnect \/ JtUnmount
  \/ \E s \in JtSlots :
       JtOpened(s) \/ JtSessionInfo(s) \/ JtError(s) \/ JtServerCloses(s) \/ JtClosed(s)

JtSpec == JtInit /\ [][JtNext]_jtVars

----------------------------------------------------------------------------
\* Type invariant.
JtTypeOK ==
  /\ jtSocks \in [JtSlots -> JtLive \cup {"closing", "closed"}]
  /\ jtActive \in JtSlots \cup {"none"}
  /\ jtPing \in BOOLEAN
  /\ jtStatus \in {"disconnected", "connecting", "connected", "error"}
  /\ jtShown \in {"disconnected", "connected"}
  /\ jtActive = "none" => ~jtPing /\ jtStatus = "disconnected" /\ jtShown = "disconnected"

\* However reconnects and late events interleave: a live socket is the active one,
\* a tab that shows "connected" has a socket whose end it has not been told, and an
\* open socket has its keepalive.
JumpFollowsItsSocket ==
  /\ \A s \in JtSlots : jtSocks[s] \in JtLive => s = jtActive
  /\ jtShown = "connected" => jtActive # "none" /\ jtSocks[jtActive] # "closed"
  /\ \A s \in JtSlots : jtSocks[s] \in {"open", "up"} => jtPing
=============================================================================

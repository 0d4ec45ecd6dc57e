----------------------------- MODULE AuthSession -----------------------------
(***************************************************************************)
(* The signed-in session of the enterprise frontend: the auth store with   *)
(* its tokens, the interceptor that turns a 401 into one refresh and makes *)
(* the other denied requests wait for it, the timer that refreshes ahead   *)
(* of the expiry, sign-in, sign-out and the permissions fetched after a    *)
(* sign-in.  The controller is external: it issues, rotates and revokes.   *)
(***************************************************************************)
EXTENDS Integers, Sequences, FiniteSets

CONSTANTS AuCalls,        \* requests of the app's components that may be open at once
          MaxLogins,    \* bound: sign-ins before the app is reloaded
          MaxOpen,      \* bound: requests open when another is sent
          MaxTokens     \* bound: token pairs the controller issues before that

ASSUME AuthAssumption ==
  /\ AuCalls # {} /\ IsFiniteSet(AuCalls)
  /\ MaxLogins \in Nat \ {0} /\ MaxOpen \in Nat \ {0} /\ MaxTokens \in Nat \ {0}

AuLogins == 1..MaxLogins      \* the n-th sign-in, each perhaps by another user
Requests == ({"call"} \X AuCalls) \cup ({"me", "caps"} \X AuLogins) \cup {<<"logout", 0>>}
LogoutCall == <<"logout", 0>>

VARIABLES auStore,      \* the auth store; a token pair is named by its number, 0 for null
          auReqs,       \* the requests that go through the controller client
          auRefreshing, \* isRefreshing
          auQueue,      \* failedQueue
          auRefreshes,  \* calls of doRefreshToken whose answer is out
          auTimer,      \* the token whose refresh timer has fired
          auPerms,      \* capabilities store: whose permissions, 0 for none
          auServer      \* the controller: who each pair was issued to, what is valid

auVars == <<auStore, auReqs, auRefreshing, auQueue, auRefreshes, auTimer, auPerms, auServer>>

SignedOut == [access |-> 0, refresh |-> 0, auth |-> FALSE, user |-> 0, loading |-> FALSE]
NoSession == [issued |-> <<>>, expired |-> 0, refresh |-> {}, logins |-> 0]
NoRequest == [pc |-> "idle", tok |-> 0, retry |-> FALSE]

AuthInit ==
  /\ auStore = SignedOut
  /\ auReqs = [r \in Requests |-> NoRequest]
  /\ auRefreshing = FALSE /\ auQueue = {} /\ auRefreshes = {}
  /\ auTimer = 0 /\ auPerms = 0
  /\ auServer = NoSession

AuPlaces == {"idle", "login", "sent", "denied", "queued", "refreshing"}
Issued == Len(auServer.issued)

Valid(tok) == tok > auServer.expired
AuSent(r, tok, retry) == [auReqs EXCEPT ![r] = [pc |-> "sent", tok |-> tok, retry |-> retry]]
Issue(login, revoked) ==
  LET n == Issued + 1 IN
    [auServer EXCEPT !.issued = Append(@, login),
                     !.refresh = (@ \ revoked) \cup {n}]

(***************************************************************************)
(* Signing in.                                                             *)
(***************************************************************************)
\* The login screen is there when nobody is signed in and nothing is loading.
Login ==
  /\ ~auStore.auth /\ ~auStore.loading /\ auServer.logins < MaxLogins
  /\ auServer' = [auServer EXCEPT !.logins = @ + 1]
  /\ auStore' = [auStore EXCEPT !.loading = TRUE]
  /\ auReqs' = [auReqs EXCEPT ![<<"me", auServer'.logins>>].pc = "login"]
  /\ UNCHANGED <<auRefreshing, auQueue, auRefreshes, auTimer, auPerms>>

\* The tokens are set first, then /auth/me is asked who they belong to.
LoginAnswered(l) ==
  /\ auReqs[<<"me", l>>].pc = "login" /\ Issued < MaxTokens
  /\ auServer' = Issue(l, {})
  /\ LET n == Issued' IN
       /\ auStore' = [auStore EXCEPT !.access = n, !.refresh = n, !.auth = TRUE]
       /\ auReqs' = AuSent(<<"me", l>>, n, FALSE)
  /\ UNCHANGED <<auRefreshing, auQueue, auRefreshes, auTimer, auPerms>>

LoginFails(l) ==
  /\ auReqs[<<"me", l>>].pc = "login"
  /\ auReqs' = [auReqs EXCEPT ![<<"me", l>>] = NoRequest]
  /\ auStore' = [auStore EXCEPT !.loading = FALSE]
  /\ UNCHANGED <<auRefreshing, auQueue, auRefreshes, auTimer, auPerms, auServer>>

(***************************************************************************)
(* Requests.                                                               *)
(***************************************************************************)
AuOpen == {r \in Requests : auReqs[r].pc # "idle"}
AuSend(r) ==
  /\ auStore.auth /\ auReqs[r].pc = "idle" /\ Cardinality(AuOpen) < MaxOpen
  /\ r[1] = "call" \/ r = LogoutCall
  /\ auReqs' = AuSent(r, auStore.access, FALSE)
  /\ UNCHANGED <<auStore, auRefreshing, auQueue, auRefreshes, auTimer, auPerms, auServer>>

\* What the caller of each kind does with the answer, given the requests and the
\* store the interceptor leaves: a login asks for the permissions, a sign-out
\* clears the store whatever the controller said.
Settle(r, ok, reqs, store) ==
  LET done == [reqs EXCEPT ![r] = NoRequest] IN
  CASE r[1] = "me" ->
         /\ auStore' = [store EXCEPT !.loading = FALSE,
                          !.user = IF ok THEN auServer.issued[auReqs[r].tok] ELSE @]
         /\ auReqs' = IF ok THEN [done EXCEPT ![<<"caps", r[2]>>] =
                                    [pc |-> "sent", tok |-> store.access, retry |-> FALSE]]
                      ELSE done
         /\ UNCHANGED auPerms
    [] r[1] = "caps" ->
         /\ auPerms' = IF ok THEN auServer.issued[auReqs[r].tok] ELSE auPerms
         /\ auReqs' = done /\ auStore' = store
    [] r = LogoutCall ->
         /\ auStore' = SignedOut /\ auReqs' = done /\ UNCHANGED auPerms
    [] OTHER ->
         /\ auReqs' = done /\ auStore' = store /\ UNCHANGED auPerms

\* The controller takes the request; signing out revokes the user's tokens.
Accepted(r) ==
  /\ auReqs[r].pc = "sent" /\ Valid(auReqs[r].tok)
  /\ Settle(r, TRUE, auReqs, auStore)
  /\ auServer' = IF r # LogoutCall THEN auServer
       ELSE [auServer EXCEPT !.refresh =
               {n \in @ : auServer.issued[n] # auServer.issued[auReqs[r].tok]}]
  /\ UNCHANGED <<auRefreshing, auQueue, auRefreshes, auTimer>>

\* A network error or an answer other than 401.
Failed(r) ==
  /\ auReqs[r].pc = "sent"
  /\ Settle(r, FALSE, auReqs, auStore)
  /\ UNCHANGED <<auRefreshing, auQueue, auRefreshes, auTimer, auServer>>

Denied(r) ==
  /\ auReqs[r].pc = "sent" /\ ~Valid(auReqs[r].tok)
  /\ auReqs' = [auReqs EXCEPT ![r].pc = "denied"]
  /\ UNCHANGED <<auStore, auRefreshing, auQueue, auRefreshes, auTimer, auPerms, auServer>>

(***************************************************************************)
(* The interceptor on a 401: give up after a retry, wait for the refresh   *)
(* that is going on, or start one.                                         *)
(***************************************************************************)

Unauthorized(r) ==
  /\ auReqs[r].pc = "denied"
  /\ \/ /\ auReqs[r].retry \/ (~auRefreshing /\ auStore.refresh = 0)
        /\ Settle(r, FALSE, auReqs, auStore)
        /\ UNCHANGED <<auRefreshing, auQueue, auRefreshes>>
     \/ /\ ~auReqs[r].retry /\ auRefreshing
        /\ auQueue' = auQueue \cup {r}
        /\ auReqs' = [auReqs EXCEPT ![r].pc = "queued"]
        /\ UNCHANGED <<auStore, auRefreshing, auRefreshes, auPerms>>
     \/ /\ ~auReqs[r].retry /\ ~auRefreshing /\ auStore.refresh # 0
        /\ auRefreshing' = TRUE
        /\ auReqs' = [auReqs EXCEPT ![r].pc = "refreshing", ![r].retry = TRUE]
        /\ auRefreshes' = auRefreshes \cup {[by |-> r, tok |-> auStore.refresh, pc |-> "sent", new |-> 0]}
        /\ UNCHANGED <<auStore, auQueue, auPerms>>
  /\ UNCHANGED <<auTimer, auServer>>

\* The timer of useProactiveRefresh, which a new token replaces.
Timer == <<"timer", 0>>
TimerFires ==
  /\ auStore.access # 0 /\ auTimer # auStore.access
  /\ auTimer' = auStore.access
  /\ auRefreshes' = IF auRefreshing \/ auStore.refresh = 0 THEN auRefreshes
       ELSE auRefreshes \cup {[by |-> Timer, tok |-> auStore.refresh, pc |-> "sent", new |-> 0]}
  /\ UNCHANGED <<auStore, auReqs, auRefreshing, auQueue, auPerms, auServer>>

\* The controller answers with a new pair and may revoke the refresh token used,
\* or it refuses, or the answer is lost.
RefreshServed(f) ==
  /\ f.pc = "sent"
  /\ \/ /\ f.tok \in auServer.refresh /\ Issued < MaxTokens
        /\ \E revoked \in {{}, {f.tok}} : auServer' = Issue(auServer.issued[f.tok], revoked)
        /\ auRefreshes' = (auRefreshes \ {f}) \cup
             {[f EXCEPT !.pc = "ok", !.new = Issued']}
     \/ /\ auRefreshes' = (auRefreshes \ {f}) \cup {[f EXCEPT !.pc = "failed"]}
        /\ UNCHANGED auServer
  /\ UNCHANGED <<auStore, auReqs, auRefreshing, auQueue, auTimer, auPerms>>

\* doRefreshToken: a failure, also of the network, clears the store.
Refreshed(f) ==
  IF f.pc = "ok" THEN [auStore EXCEPT !.access = f.new, !.refresh = f.new] ELSE SignedOut

Rejected(waiting) == auReqs' = [r \in Requests |-> IF r \in waiting THEN NoRequest ELSE auReqs[r]]
Resent(waiting, tok) ==
  auReqs' = [r \in Requests |->
    IF r \in waiting THEN [auReqs[r] EXCEPT !.pc = "sent", !.tok = tok] ELSE auReqs[r]]

\* Mutant of RefreshAnswered: a failed refresh rejects its own request only.
RefreshFailureKeepsQueueMutant(f) ==
  /\ f.pc # "sent"
  /\ auRefreshes' = auRefreshes \ {f}
  /\ auStore' = Refreshed(f)
  /\ IF f.by = Timer
     THEN UNCHANGED <<auReqs, auRefreshing, auQueue>>
     ELSE /\ IF f.pc = "ok" THEN Resent(auQueue \cup {f.by}, f.new) /\ auQueue' = {}
             ELSE Rejected({f.by}) /\ UNCHANGED auQueue
          /\ auRefreshing' = FALSE
  /\ UNCHANGED <<auTimer, auPerms, auServer>>

\* Mutant of RefreshAnswered: the flag is not reset after a failure.
RefreshFailureKeepsFlagMutant(f) ==
  /\ f.pc # "sent"
  /\ auRefreshes' = auRefreshes \ {f}
  /\ auStore' = Refreshed(f)
  /\ IF f.by = Timer
     THEN UNCHANGED <<auReqs, auRefreshing, auQueue>>
     ELSE /\ IF f.pc = "ok" THEN Resent(auQueue \cup {f.by}, f.new) ELSE Rejected(auQueue \cup {f.by})
          /\ auRefreshing' = (f.pc # "ok") /\ auQueue' = {}
  /\ UNCHANGED <<auTimer, auPerms, auServer>>

\* The answer reaches the store; a refresh of the interceptor then sends the
\* requests that waited again, or rejects them, and its own with them.
RefreshAnswered(f) ==
  /\ f.pc # "sent"
  /\ auRefreshes' = auRefreshes \ {f}
  /\ auStore' = Refreshed(f)
  /\ IF f.by = Timer
     THEN UNCHANGED <<auReqs, auRefreshing, auQueue>>
     ELSE /\ IF f.pc = "ok" THEN Resent(auQueue \cup {f.by}, f.new) ELSE Rejected(auQueue \cup {f.by})
          /\ auRefreshing' = FALSE /\ auQueue' = {}
  /\ UNCHANGED <<auTimer, auPerms, auServer>>

\* External: an access token expires, after those issued before it.
AuExpire ==
  /\ auServer.expired < Issued
  /\ auServer' = [auServer EXCEPT !.expired = @ + 1]
  /\ UNCHANGED <<auStore, auReqs, auRefreshing, auQueue, auRefreshes, auTimer, auPerms>>

\* The page is loaded again: tokens are only kept in memory.
Reload ==
  /\ auServer.logins > 0
  /\ auStore' = SignedOut
  /\ auReqs' = [r \in Requests |-> NoRequest]
  /\ auRefreshing' = FALSE /\ auQueue' = {} /\ auRefreshes' = {}
  /\ auTimer' = 0 /\ auPerms' = 0
  /\ auServer' = NoSession

AuAnswer(r) == Accepted(r) \/ Failed(r) \/ Denied(r) \/ Unauthorized(r)
LoginStep == \E l \in AuLogins : LoginAnswered(l) \/ LoginFails(l)
RefreshStep == \E f \in auRefreshes : RefreshServed(f) \/ RefreshAnswered(f)
AuthNext ==
  \/ Login \/ LoginStep \/ (\E r \in Requests : AuSend(r) \/ AuAnswer(r))
  \/ TimerFires \/ RefreshStep \/ AuExpire \/ Reload

AuthSpec == AuthInit /\ [][AuthNext]_auVars

\* Every request is answered, lost or timed out, and so is a sign-in and a refresh.
AuthFairness == (\A r \in Requests : WF_auVars(AuAnswer(r))) /\ WF_auVars(LoginStep) /\ WF_auVars(RefreshStep)

----------------------------------------------------------------------------
\* Type invariant.
AuthTypeOK ==
  /\ auServer \in [issued : Seq(AuLogins), expired : Nat, refresh : SUBSET Nat, logins : 0..MaxLogins]
  /\ auServer.expired <= Issued /\ auServer.refresh \subseteq 1..Issued
  /\ auStore \in [access : 0..Issued, refresh : 0..Issued, auth : BOOLEAN,
                  user : 0..MaxLogins, loading : BOOLEAN]
  /\ auReqs \in [Requests -> [pc : AuPlaces, tok : 0..Issued, retry : BOOLEAN]]
  /\ auRefreshing \in BOOLEAN /\ auQueue \subseteq Requests
  /\ \A f \in auRefreshes :
       /\ f \in [by : Requests \cup {Timer}, tok : 1..Issued, pc : {"sent", "ok", "failed"}, new : 0..Issued]
       /\ f.pc = "ok" => f.new # 0
  /\ auTimer \in 0..Issued /\ auPerms \in 0..MaxLogins

\* A denied request waits only while a refresh that will release it is out:
\* failedQueue holds exactly those that wait, isRefreshing is set exactly while
\* the one request that started the refresh has not had its answer.
NobodyWaitsInVain ==
  /\ auQueue = {r \in Requests : auReqs[r].pc = "queued"}
  /\ {f.by : f \in auRefreshes} \ {Timer} = {r \in Requests : auReqs[r].pc = "refreshing"}
  /\ auRefreshing = (\E r \in Requests : auReqs[r].pc = "refreshing")
  /\ (auQueue # {} => auRefreshing)
  /\ \A f, g \in auRefreshes : f.by = g.by /\ f.by # Timer => f = g

\* Whoever is shown as signed in has tokens to refresh with, whatever refreshes
\* and sign-outs that were under way answer late.
SignedInHasTokens == auStore.auth => auStore.access # 0 /\ auStore.refresh # 0

\* Every request of the app's components is settled in the end, if access tokens stop
\* expiring: no way a refresh can end leaves it in the queue.  (The hypothesis is
\* needed: a request that waited in the queue is not marked as a retry, so that every
\* further token that runs out too early sends it there again.  MaxTokens bounds how
\* often that happens in a run.)
RequestsSettle ==
  <>[][~AuExpire]_auVars =>
    \A c \in AuCalls : auReqs[<<"call", c>>].pc # "idle" ~> auReqs[<<"call", c>>].pc = "idle"
=============================================================================

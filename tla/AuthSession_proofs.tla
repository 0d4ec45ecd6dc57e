--------------------------- MODULE AuthSession_proofs ---------------------------
(***************************************************************************)
(* The signed-in session for any number of requests, sign-ins and tokens:   *)
(* the queue of denied requests never outlives the refresh it waits for,    *)
(* and nobody is shown as signed in without tokens.                         *)
(***************************************************************************)
EXTENDS AuthSession, SequenceTheorems, TLAPS

\* At most one request has started the refresh that is going on.
OneRefresher ==
  \A r, q \in Requests : auReqs[r].pc = "refreshing" /\ auReqs[q].pc = "refreshing" => r = q

\* The n-th sign-in asks who signed in once, and for the permissions after that.
LoginsInOrder ==
  \A l \in AuLogins :
    /\ auReqs[<<"me", l>>].pc # "idle" => l <= auServer.logins /\ auReqs[<<"caps", l>>].pc = "idle"
    /\ auReqs[<<"caps", l>>].pc # "idle" => l <= auServer.logins

AuRequest == [pc : AuPlaces, tok : 0..Issued, retry : BOOLEAN]
AuStores == [access : 0..Issued, refresh : 0..Issued, auth : BOOLEAN,
             user : 0..MaxLogins, loading : BOOLEAN]
Refresh(f) ==
  /\ f \in [by : Requests \cup {Timer}, tok : 1..Issued, pc : {"sent", "ok", "failed"}, new : 0..Issued]
  /\ f.pc = "ok" => f.new # 0

(***************************************************************************)
(* Requests and types.                                                     *)
(***************************************************************************)
LEMMA RequestsAre ==
  /\ \A l \in AuLogins : <<"me", l>> \in Requests /\ <<"caps", l>> \in Requests
  /\ \A l, k \in AuLogins : <<"me", l>> # <<"caps", k>> /\ (<<"me", l>> = <<"me", k>> => l = k)
                            /\ (<<"caps", l>> = <<"caps", k>> => l = k)
  /\ LogoutCall \in Requests
  /\ Timer \notin Requests
  /\ \A r \in Requests : r[1] \in {"me", "caps"} => r[2] \in AuLogins /\ r = <<r[1], r[2]>>
BY DEF Requests, LogoutCall, Timer

LEMMA IssuedType == AuthTypeOK => Issued \in Nat
BY DEF AuthTypeOK, Issued

LEMMA NoRequestIs ==
  AuthTypeOK => NoRequest \in AuRequest /\ NoRequest.pc = "idle"
BY IssuedType DEF NoRequest, AuRequest, AuPlaces

LEMMA SignedOutIs == AuthTypeOK => SignedOut \in AuStores
BY IssuedType, AuthAssumption DEF SignedOut, AuStores

\* What the requests and the refreshes say together with the queue and the flag:
\* NobodyWaitsInVain, request by request.
Waiting ==
  /\ auQueue \subseteq Requests
  /\ \A r \in Requests : r \in auQueue <=> auReqs[r].pc = "queued"
  /\ \A f \in auRefreshes : f.by # Timer => f.by \in Requests /\ auReqs[f.by].pc = "refreshing"
  /\ \A r \in Requests : auReqs[r].pc = "refreshing" => \E f \in auRefreshes : f.by = r
  /\ auRefreshing = (\E r \in Requests : auReqs[r].pc = "refreshing")
  /\ (auQueue # {} => auRefreshing)
  /\ \A f, g \in auRefreshes : f.by = g.by /\ f.by # Timer => f = g

LEMMA WaitingIs == AuthTypeOK => (NobodyWaitsInVain <=> Waiting)
<1> SUFFICES ASSUME AuthTypeOK PROVE NobodyWaitsInVain <=> Waiting
  OBVIOUS
<1>1. auQueue \subseteq Requests /\ Timer \notin Requests /\ \A f \in auRefreshes : f.by \in Requests \cup {Timer}
  BY RequestsAre DEF AuthTypeOK
<1>2. (auQueue = {r \in Requests : auReqs[r].pc = "queued"})
        <=> \A r \in Requests : r \in auQueue <=> auReqs[r].pc = "queued"
  BY <1>1
<1>3. ({f.by : f \in auRefreshes} \ {Timer} = {r \in Requests : auReqs[r].pc = "refreshing"})
        <=> /\ \A f \in auRefreshes : f.by # Timer => f.by \in Requests /\ auReqs[f.by].pc = "refreshing"
            /\ \A r \in Requests : auReqs[r].pc = "refreshing" => \E f \in auRefreshes : f.by = r
  BY <1>1
<1> QED
  BY <1>1, <1>2, <1>3 DEF NobodyWaitsInVain, Waiting

(***************************************************************************)
(* What the callers of requests do with an answer.                         *)
(***************************************************************************)
LEMMA UserOf ==
  ASSUME AuthTypeOK, NEW tok \in 1..Issued
  PROVE  auServer.issued[tok] \in 0..MaxLogins /\ auServer.issued[tok] \in AuLogins
<1>1. auServer.issued \in Seq(AuLogins) /\ tok \in 1..Len(auServer.issued)
  BY DEF AuthTypeOK, Issued
<1>2. auServer.issued[tok] \in AuLogins
  BY <1>1, ElementOfSeq
<1> QED
  BY <1>2, AuthAssumption DEF AuLogins

LEMMA SettleDoes ==
  ASSUME AuthTypeOK, LoginsInOrder, NEW r \in Requests, auReqs[r].pc \in {"sent", "denied"},
         NEW ok \in BOOLEAN, ok => auReqs[r].tok \in 1..Issued,
         Settle(r, ok, auReqs, auStore)
  PROVE  /\ auReqs' \in [Requests -> AuRequest] /\ auReqs'[r].pc = "idle"
         /\ \A k \in Requests \ {r} :
              \/ auReqs'[k] = auReqs[k]
              \/ /\ r[1] = "me" /\ k = <<"caps", r[2]>>
                 /\ auReqs[k].pc = "idle" /\ auReqs'[k].pc = "sent"
         /\ auStore' \in AuStores /\ (SignedInHasTokens => SignedInHasTokens')
         /\ auPerms' \in 0..MaxLogins
<1> DEFINE done == [auReqs EXCEPT ![r] = NoRequest]
<1>0. /\ auReqs \in [Requests -> AuRequest] /\ auStore \in AuStores /\ auPerms \in 0..MaxLogins
      /\ done \in [Requests -> AuRequest] /\ done[r].pc = "idle"
      /\ \A k \in Requests \ {r} : done[k] = auReqs[k]
  BY NoRequestIs DEF AuthTypeOK, AuRequest, AuStores
<1>1. CASE r[1] = "me"
  <2> DEFINE next == <<"caps", r[2]>>
             ask == [pc |-> "sent", tok |-> auStore.access, retry |-> FALSE]
  <2>1. r[2] \in AuLogins /\ r = <<"me", r[2]>> /\ next \in Requests /\ next # r
    BY <1>1, RequestsAre
  <2>2. auReqs[next].pc = "idle"
    BY <2>1 DEF LoginsInOrder
  <2>3. /\ auStore' = [auStore EXCEPT !.loading = FALSE,
                         !.user = IF ok THEN auServer.issued[auReqs[r].tok] ELSE @]
        /\ auReqs' = IF ok THEN [done EXCEPT ![next] = ask] ELSE done
        /\ auPerms' = auPerms
    BY <1>1 DEF Settle, LogoutCall
  <2>4. ask \in AuRequest /\ ask.pc = "sent"
    BY <1>0 DEF AuRequest, AuStores, AuPlaces
  <2> HIDE DEF next, ask, done
  <2>5. auStore' \in AuStores /\ (SignedInHasTokens => SignedInHasTokens')
    BY <1>0, <2>3, UserOf DEF AuStores, SignedInHasTokens
  <2>6. CASE ok
    <3>1. auReqs' = [done EXCEPT ![next] = ask]
      BY <2>3, <2>6
    <3>2. auReqs' \in [Requests -> AuRequest] /\ auReqs'[r].pc = "idle" /\ auReqs'[next].pc = "sent"
      BY <1>0, <2>1, <2>4, <3>1
    <3>3. \A k \in Requests \ {r, next} : auReqs'[k] = auReqs[k]
      BY <1>0, <3>1
    <3> QED
      BY <1>0, <1>1, <2>2, <2>3, <2>5, <3>2, <3>3 DEF next
  <2>7. CASE ~ok
    BY <1>0, <2>3, <2>5, <2>7
  <2> QED
    BY <2>6, <2>7
<1>2. CASE r[1] = "caps"
  <2>1. /\ auPerms' = IF ok THEN auServer.issued[auReqs[r].tok] ELSE auPerms
        /\ auReqs' = done /\ auStore' = auStore
    BY <1>2 DEF Settle, LogoutCall
  <2> QED
    BY <1>0, <2>1, UserOf DEF SignedInHasTokens
<1>3. CASE r = LogoutCall
  <2>1. auStore' = SignedOut /\ auReqs' = done /\ auPerms' = auPerms
    BY <1>3 DEF Settle, LogoutCall
  <2>2. SignedInHasTokens'
    BY <2>1 DEF SignedInHasTokens, SignedOut
  <2> QED
    BY <1>0, <2>1, <2>2, SignedOutIs
<1>4. CASE r[1] \notin {"me", "caps"} /\ r # LogoutCall
  <2>1. auReqs' = done /\ auStore' = auStore /\ auPerms' = auPerms
    BY <1>4 DEF Settle
  <2> QED
    BY <1>0, <2>1 DEF SignedInHasTokens
<1> QED
  BY <1>1, <1>2, <1>3, <1>4

(***************************************************************************)
(* Steps that leave the queue and the flag alone.                          *)
(***************************************************************************)
LEMMA CalmStep ==
  ASSUME Waiting, OneRefresher, auQueue' = auQueue, auRefreshing' = auRefreshing,
         \A r \in Requests : auReqs'[r].pc = "queued" <=> auReqs[r].pc = "queued",
         \A r \in Requests : auReqs'[r].pc = "refreshing" <=> auReqs[r].pc = "refreshing",
         \A f \in auRefreshes' : f.by # Timer => \E g \in auRefreshes : g.by = f.by,
         \A g \in auRefreshes : g.by # Timer => \E f \in auRefreshes' : f.by = g.by,
         \A f, g \in auRefreshes' : f.by = g.by /\ f.by # Timer => f = g
  PROVE  Waiting' /\ OneRefresher'
<1>1. OneRefresher'
  BY DEF OneRefresher
<1>2. auQueue' \subseteq Requests /\ \A r \in Requests : r \in auQueue' <=> auReqs'[r].pc = "queued"
  BY DEF Waiting
<1>3. \A f \in auRefreshes' : f.by # Timer => f.by \in Requests /\ auReqs'[f.by].pc = "refreshing"
  BY DEF Waiting
<1>4. ASSUME NEW r \in Requests, auReqs'[r].pc = "refreshing" PROVE \E f \in auRefreshes' : f.by = r
  BY <1>4, RequestsAre DEF Waiting
<1>5. auRefreshing' = (\E r \in Requests : auReqs'[r].pc = "refreshing")
  BY Zenon DEF Waiting
<1>6. auQueue' # {} => auRefreshing'
  BY DEF Waiting
<1> QED
  BY <1>1, <1>2, <1>3, <1>4, <1>5, <1>6 DEF Waiting

LEMMA CalmSame ==
  ASSUME Waiting, OneRefresher, auQueue' = auQueue, auRefreshing' = auRefreshing,
         auRefreshes' = auRefreshes,
         \A r \in Requests : auReqs'[r].pc = "queued" <=> auReqs[r].pc = "queued",
         \A r \in Requests : auReqs'[r].pc = "refreshing" <=> auReqs[r].pc = "refreshing"
  PROVE  Waiting' /\ OneRefresher'
<1>1. \A f, g \in auRefreshes : f.by = g.by /\ f.by # Timer => f = g
  BY DEF Waiting
<1> QED
  BY <1>1, CalmStep

\* A settled request was not queued, and the request for permissions was idle.
LEMMA SettleIsCalm ==
  ASSUME AuthTypeOK, LoginsInOrder, Waiting, OneRefresher,
         NEW r \in Requests, auReqs[r].pc \in {"sent", "denied"},
         NEW ok \in BOOLEAN, ok => auReqs[r].tok \in 1..Issued,
         Settle(r, ok, auReqs, auStore),
         UNCHANGED <<auQueue, auRefreshing, auRefreshes>>, auServer'.logins = auServer.logins
  PROVE  Waiting' /\ OneRefresher' /\ LoginsInOrder'
<1>1. /\ auReqs'[r].pc = "idle"
      /\ \A k \in Requests \ {r} :
           \/ auReqs'[k] = auReqs[k]
           \/ /\ r[1] = "me" /\ k = <<"caps", r[2]>>
              /\ auReqs[k].pc = "idle" /\ auReqs'[k].pc = "sent"
  BY SettleDoes
<1>2. Waiting' /\ OneRefresher'
  BY <1>1, CalmSame
<1>3. ASSUME NEW l \in AuLogins
      PROVE  /\ auReqs'[<<"me", l>>].pc # "idle" => l <= auServer.logins /\ auReqs'[<<"caps", l>>].pc = "idle"
             /\ auReqs'[<<"caps", l>>].pc # "idle" => l <= auServer.logins
  <2>1. <<"me", l>> \in Requests /\ <<"caps", l>> \in Requests
    BY RequestsAre
  <2>2. auReqs'[<<"me", l>>].pc # "idle" => <<"me", l>> # r /\ auReqs'[<<"me", l>>] = auReqs[<<"me", l>>]
    BY <1>1, <2>1, RequestsAre
  <2>3. \/ auReqs'[<<"caps", l>>].pc = "idle"
        \/ auReqs'[<<"caps", l>>] = auReqs[<<"caps", l>>]
        \/ r = <<"me", l>>
    BY <1>1, <2>1, RequestsAre
  <2> QED
    BY <1>1, <2>1, <2>2, <2>3 DEF LoginsInOrder
<1> QED
  BY <1>2, <1>3 DEF LoginsInOrder

(***************************************************************************)
(* The type invariant in parts, and what a new token pair does to them.    *)
(***************************************************************************)
ServerOK ==
  /\ auServer \in [issued : Seq(AuLogins), expired : Nat, refresh : SUBSET Nat, logins : 0..MaxLogins]
  /\ auServer.expired <= Issued /\ auServer.refresh \subseteq 1..Issued

LEMMA TypeParts ==
  AuthTypeOK <=>
    /\ ServerOK /\ auStore \in AuStores /\ auReqs \in [Requests -> AuRequest]
    /\ auRefreshing \in BOOLEAN /\ auQueue \subseteq Requests
    /\ \A f \in auRefreshes : Refresh(f)
    /\ auTimer \in 0..Issued /\ auPerms \in 0..MaxLogins
BY DEF AuthTypeOK, ServerOK, AuStores, AuRequest, Refresh

LEMMA TypePartsNext ==
  ASSUME ServerOK', auStore' \in AuStores', auReqs' \in [Requests -> AuRequest'],
         auRefreshing' \in BOOLEAN, auQueue' \subseteq Requests,
         \A f \in auRefreshes' : Refresh(f)',
         auTimer' \in 0..Issued', auPerms' \in 0..MaxLogins
  PROVE  AuthTypeOK'
BY DEF AuthTypeOK, ServerOK, AuStores, AuRequest, Refresh

\* Whatever was named by a pair issued so far still is after another is issued.
LEMMA Grows ==
  ASSUME Issued \in Nat, Issued' \in Nat, Issued' >= Issued
  PROVE  /\ \A s \in AuStores : s \in AuStores'
         /\ \A q \in [Requests -> AuRequest] : q \in [Requests -> AuRequest']
         /\ \A f : Refresh(f) => Refresh(f)'
         /\ 0..Issued \subseteq 0..Issued'
<1>1. 0..Issued \subseteq 0..Issued' /\ 1..Issued \subseteq 1..Issued'
  OBVIOUS
<1>2. AuRequest \subseteq AuRequest'
  BY <1>1 DEF AuRequest
<1>3. \A s \in AuStores : s \in AuStores'
  BY <1>1 DEF AuStores
<1>4. ASSUME NEW f, Refresh(f) PROVE Refresh(f)'
  BY <1>1, <1>4 DEF Refresh
<1> QED
  BY <1>1, <1>2, <1>3, <1>4

LEMMA IssueDoes ==
  ASSUME ServerOK, NEW l \in AuLogins, NEW revoked, auServer' = Issue(l, revoked)
  PROVE  /\ ServerOK' /\ Issued \in Nat /\ Issued' = Issued + 1
         /\ auServer'.logins = auServer.logins
<1>1. auServer.issued \in Seq(AuLogins) /\ Issued = Len(auServer.issued) /\ Issued \in Nat
  BY DEF ServerOK, Issued
<1>2. auServer'.issued = Append(auServer.issued, l)
  BY DEF ServerOK, Issue
<1>3. auServer'.issued \in Seq(AuLogins) /\ Len(auServer'.issued) = Len(auServer.issued) + 1
  BY <1>1, <1>2, AppendProperties
<1>4. Issued' = Issued + 1
  BY <1>1, <1>3 DEF Issued
<1>5. auServer' = [issued |-> auServer'.issued, expired |-> auServer.expired,
                   refresh |-> (auServer.refresh \ revoked) \cup {Issued + 1}, logins |-> auServer.logins]
  BY <1>2 DEF ServerOK, Issue
<1>6. auServer.refresh \subseteq 1..Issued /\ auServer.expired \in Nat /\ auServer.expired <= Issued
      /\ auServer.logins \in 0..MaxLogins /\ auServer.refresh \in SUBSET Nat
  BY DEF ServerOK
<1>7. (auServer.refresh \ revoked) \cup {Issued + 1} \subseteq 1..(Issued + 1)
      /\ (auServer.refresh \ revoked) \cup {Issued + 1} \in SUBSET Nat
  BY <1>1, <1>6
<1> QED
  BY <1>1, <1>3, <1>4, <1>5, <1>6, <1>7 DEF ServerOK

\* Requests that were busy before are the only busy ones after.
LEMMA OrderKept ==
  ASSUME LoginsInOrder, auServer'.logins = auServer.logins,
         \A r \in Requests : auReqs'[r].pc # "idle" => auReqs[r].pc # "idle"
  PROVE  LoginsInOrder'
BY RequestsAre DEF LoginsInOrder

\* The inductive invariant.
Inv == AuthTypeOK /\ Waiting /\ SignedInHasTokens /\ OneRefresher /\ LoginsInOrder

(***************************************************************************)
(* Signing in.                                                             *)
(***************************************************************************)
LEMMA LoginStepInv == ASSUME Inv, Login PROVE Inv'
<1> DEFINE n == auServer.logins + 1
           me == <<"me", n>>
<1>1. /\ ServerOK /\ auStore \in AuStores /\ auReqs \in [Requests -> AuRequest]
      /\ \A f \in auRefreshes : Refresh(f)
  BY TypeParts DEF Inv
<1>2. auServer.logins \in 0..MaxLogins /\ auServer.logins < MaxLogins
  BY <1>1 DEF ServerOK, Login
<1>3. n \in AuLogins /\ n \in 0..MaxLogins
  BY <1>2, AuthAssumption DEF AuLogins
<1>4. auServer' = [auServer EXCEPT !.logins = n] /\ auServer'.logins = n /\ Issued' = Issued /\ ServerOK'
  <2>1. auServer' = [auServer EXCEPT !.logins = n] /\ auServer'.logins = n /\ auServer'.issued = auServer.issued
    BY <1>1 DEF Login, ServerOK
  <2>2. Issued' = Issued
    BY <2>1 DEF Issued
  <2> QED
    BY <1>1, <1>3, <2>1, <2>2 DEF ServerOK
<1>5. me \in Requests /\ auReqs[me].pc = "idle" /\ auReqs[<<"caps", n>>].pc = "idle"
  BY <1>2, <1>3, RequestsAre DEF LoginsInOrder, Inv
<1>6. /\ auReqs' = [auReqs EXCEPT ![me].pc = "login"]
      /\ auStore' = [auStore EXCEPT !.loading = TRUE]
      /\ UNCHANGED <<auRefreshing, auQueue, auRefreshes, auTimer, auPerms>>
  BY <1>4 DEF Login
<1>7. /\ auReqs' \in [Requests -> AuRequest] /\ auReqs'[me].pc = "login"
      /\ \A r \in Requests \ {me} : auReqs'[r] = auReqs[r]
  <2> HIDE DEF me
  <2> QED BY <1>1, <1>5, <1>6 DEF AuRequest, AuPlaces
<1>8. auStore' \in AuStores /\ SignedInHasTokens'
  BY <1>1, <1>6 DEF AuStores, SignedInHasTokens, Inv
<1>9. AuRequest' = AuRequest /\ AuStores' = AuStores /\ \A f : Refresh(f)' <=> Refresh(f)
  BY <1>4 DEF AuRequest, AuStores, Refresh
<1>10. AuthTypeOK'
  <2>1. auTimer' \in 0..Issued' /\ auPerms' \in 0..MaxLogins /\ auRefreshing' \in BOOLEAN /\ auQueue' \subseteq Requests
    BY <1>4, <1>6 DEF Inv, AuthTypeOK
  <2> QED
    BY <1>1, <1>4, <1>6, <1>7, <1>8, <1>9, <2>1, TypePartsNext
<1>11. Waiting' /\ OneRefresher'
  BY <1>5, <1>6, <1>7, CalmSame DEF Inv
<1>12. ASSUME NEW l \in AuLogins
       PROVE /\ auReqs'[<<"me", l>>].pc # "idle" => l <= auServer'.logins /\ auReqs'[<<"caps", l>>].pc = "idle"
             /\ auReqs'[<<"caps", l>>].pc # "idle" => l <= auServer'.logins
  <2>1. <<"caps", l>> \in Requests /\ <<"me", l>> \in Requests /\ <<"caps", l>> # me
    BY <1>3, RequestsAre
  <2>2. auReqs'[<<"caps", l>>] = auReqs[<<"caps", l>>]
    BY <1>7, <2>1
  <2>3. l \in Int /\ auServer.logins \in Int
    BY <1>2 DEF AuLogins
  <2>4. CASE l = n
    BY <1>4, <1>5, <2>2, <2>3, <2>4
  <2>5. CASE l # n
    <3>1. auReqs'[<<"me", l>>] = auReqs[<<"me", l>>]
      BY <1>3, <1>7, <2>1, <2>5, RequestsAre
    <3> QED
      BY <1>4, <2>2, <2>3, <3>1 DEF Inv, LoginsInOrder
  <2> QED
    BY <2>4, <2>5
<1> QED
  BY <1>8, <1>10, <1>11, <1>12 DEF Inv, LoginsInOrder

LEMMA LoginAnsweredInv == ASSUME Inv, NEW l \in AuLogins, LoginAnswered(l) PROVE Inv'
<1> DEFINE me == <<"me", l>>
<1>1. /\ ServerOK /\ auStore \in AuStores /\ auReqs \in [Requests -> AuRequest]
      /\ (\A f \in auRefreshes : Refresh(f)) /\ auTimer \in 0..Issued
  BY TypeParts DEF Inv
<1>2. ServerOK' /\ Issued \in Nat /\ Issued' = Issued + 1 /\ auServer'.logins = auServer.logins
  BY <1>1, IssueDoes DEF LoginAnswered
<1>3. me \in Requests /\ auReqs[me].pc = "login"
  BY RequestsAre DEF LoginAnswered
<1>4. /\ auStore' = [auStore EXCEPT !.access = Issued', !.refresh = Issued', !.auth = TRUE]
      /\ auReqs' = [auReqs EXCEPT ![me] = [pc |-> "sent", tok |-> Issued', retry |-> FALSE]]
      /\ UNCHANGED <<auRefreshing, auQueue, auRefreshes, auTimer, auPerms>>
  BY DEF LoginAnswered, AuSent
<1>5. Issued' \in Nat /\ Issued' # 0 /\ Issued' >= Issued
  BY <1>2
<1>6. /\ auStore \in AuStores' /\ auReqs \in [Requests -> AuRequest'] /\ auTimer' \in 0..Issued'
      /\ \A f \in auRefreshes' : Refresh(f)'
  BY <1>1, <1>2, <1>4, <1>5, Grows
<1>7. auStore' \in AuStores' /\ SignedInHasTokens'
  <2>1. Issued' \in 0..Issued'
    BY <1>5
  <2>2. auStore' \in AuStores'
    BY <1>4, <1>6, <2>1 DEF AuStores
  <2>3. auStore'.access = Issued' /\ auStore'.refresh = Issued'
    BY <1>4, <1>6 DEF AuStores
  <2> QED
    BY <1>5, <2>2, <2>3 DEF SignedInHasTokens
<1>8. [pc |-> "sent", tok |-> Issued', retry |-> FALSE] \in AuRequest'
  BY <1>5 DEF AuRequest, AuPlaces
<1>9. /\ auReqs' \in [Requests -> AuRequest'] /\ auReqs'[me].pc = "sent"
      /\ \A r \in Requests \ {me} : auReqs'[r] = auReqs[r]
  <2> HIDE DEF me
  <2> QED BY <1>3, <1>4, <1>6, <1>8
<1>10. AuthTypeOK'
  <2>1. auPerms' \in 0..MaxLogins /\ auRefreshing' \in BOOLEAN /\ auQueue' \subseteq Requests
    BY <1>4 DEF Inv, AuthTypeOK
  <2> QED
    BY <1>2, <1>6, <1>7, <1>9, <2>1, TypePartsNext
<1>11. Waiting' /\ OneRefresher'
  BY <1>3, <1>4, <1>9, CalmSame DEF Inv
<1>12. LoginsInOrder'
  BY <1>2, <1>3, <1>9, OrderKept DEF Inv
<1> QED
  BY <1>7, <1>10, <1>11, <1>12 DEF Inv

\* Steps that leave the controller and the store alone keep their parts of the type.
LEMMA LoginFailsInv == ASSUME Inv, NEW l \in AuLogins, LoginFails(l) PROVE Inv'
<1> DEFINE me == <<"me", l>>
<1>1. /\ ServerOK /\ auStore \in AuStores /\ auReqs \in [Requests -> AuRequest]
      /\ (\A f \in auRefreshes : Refresh(f)) /\ auTimer \in 0..Issued
      /\ auPerms \in 0..MaxLogins /\ auRefreshing \in BOOLEAN /\ auQueue \subseteq Requests
  BY TypeParts DEF Inv
<1>2. /\ auServer' = auServer /\ auStore' = [auStore EXCEPT !.loading = FALSE]
      /\ auReqs' = [auReqs EXCEPT ![me] = NoRequest]
      /\ UNCHANGED <<auRefreshing, auQueue, auRefreshes, auTimer, auPerms>>
  BY DEF LoginFails
<1>3. me \in Requests /\ auReqs[me].pc = "login"
  BY RequestsAre DEF LoginFails
<1>4. NoRequest \in AuRequest /\ NoRequest.pc = "idle"
  BY NoRequestIs DEF Inv
<1>5. /\ auReqs' \in [Requests -> AuRequest] /\ auReqs'[me].pc = "idle"
      /\ \A r \in Requests \ {me} : auReqs'[r] = auReqs[r]
  <2> HIDE DEF me
  <2> QED BY <1>1, <1>2, <1>3, <1>4
<1>6. auStore' \in AuStores /\ SignedInHasTokens'
  BY <1>1, <1>2 DEF AuStores, SignedInHasTokens, Inv
<1>7. Issued' = Issued /\ ServerOK'
  BY <1>1, <1>2 DEF Issued, ServerOK
<1>8. AuthTypeOK'
  BY <1>1, <1>2, <1>5, <1>6, <1>7, TypePartsNext DEF AuRequest, AuStores, Refresh
<1>9. Waiting' /\ OneRefresher'
  BY <1>2, <1>3, <1>5, CalmSame DEF Inv
<1>10. LoginsInOrder'
  BY <1>2, <1>5, OrderKept DEF Inv
<1> QED
  BY <1>6, <1>8, <1>9, <1>10 DEF Inv

(***************************************************************************)
(* Requests.                                                               *)
(***************************************************************************)
\* A step on one request that leaves the rest of the session alone.
LEMMA OneRequest ==
  ASSUME Inv, NEW r \in Requests, auReqs[r].pc \notin {"queued", "refreshing"},
         NEW q \in AuRequest, q.pc \notin {"queued", "refreshing"},
         auReqs' = [auReqs EXCEPT ![r] = q],
         q.pc # "idle" => auReqs[r].pc # "idle" \/ r[1] \notin {"me", "caps"},
         UNCHANGED <<auStore, auRefreshing, auQueue, auRefreshes, auTimer, auPerms, auServer>>
  PROVE  Inv'
<1>1. /\ ServerOK /\ auStore \in AuStores /\ auReqs \in [Requests -> AuRequest]
      /\ (\A f \in auRefreshes : Refresh(f)) /\ auTimer \in 0..Issued
      /\ auPerms \in 0..MaxLogins /\ auRefreshing \in BOOLEAN /\ auQueue \subseteq Requests
  BY TypeParts DEF Inv
<1>2. /\ auReqs' \in [Requests -> AuRequest] /\ auReqs'[r] = q
      /\ \A k \in Requests \ {r} : auReqs'[k] = auReqs[k]
  BY <1>1
<1>3. Issued' = Issued /\ ServerOK'
  BY <1>1 DEF Issued, ServerOK
<1>4. AuthTypeOK'
  BY <1>1, <1>2, <1>3, TypePartsNext DEF AuRequest, AuStores, Refresh
<1>5. Waiting' /\ OneRefresher'
  BY <1>2, CalmSame DEF Inv
<1>6. SignedInHasTokens'
  BY DEF SignedInHasTokens, Inv
<1>7. ASSUME NEW l \in AuLogins
      PROVE  /\ auReqs'[<<"me", l>>].pc # "idle" => auReqs[<<"me", l>>].pc # "idle"
             /\ auReqs'[<<"caps", l>>].pc # "idle" => auReqs[<<"caps", l>>].pc # "idle"
  <2>1. <<"me", l>> \in Requests /\ <<"caps", l>> \in Requests
    BY RequestsAre
  <2>2. r = <<"me", l>> => r[1] = "me"
    OBVIOUS
  <2>3. r = <<"caps", l>> => r[1] = "caps"
    OBVIOUS
  <2> QED
    BY <1>2, <2>1, <2>2, <2>3
<1>8. LoginsInOrder'
  BY <1>7 DEF LoginsInOrder, Inv
<1> QED
  BY <1>4, <1>5, <1>6, <1>8 DEF Inv

LEMMA AuSendInv == ASSUME Inv, NEW r \in Requests, AuSend(r) PROVE Inv'
<1> DEFINE q == [pc |-> "sent", tok |-> auStore.access, retry |-> FALSE]
<1>1. q \in AuRequest /\ q.pc = "sent"
  BY TypeParts DEF Inv, AuStores, AuRequest, AuPlaces
<1>2. auReqs' = [auReqs EXCEPT ![r] = q] /\ auReqs[r].pc = "idle" /\ r[1] \notin {"me", "caps"}
      /\ UNCHANGED <<auStore, auRefreshing, auQueue, auRefreshes, auTimer, auPerms, auServer>>
  BY DEF AuSend, AuSent, LogoutCall
<1> HIDE DEF q
<1> QED
  BY <1>1, <1>2, OneRequest

LEMMA DeniedInv == ASSUME Inv, NEW r \in Requests, Denied(r) PROVE Inv'
<1> DEFINE q == [auReqs[r] EXCEPT !.pc = "denied"]
<1>1. q \in AuRequest /\ q.pc = "denied"
  BY TypeParts DEF Inv, AuRequest, AuPlaces
<1>2. auReqs \in [Requests -> AuRequest]
  BY TypeParts DEF Inv
<1>3. auReqs' = [auReqs EXCEPT ![r] = q] /\ auReqs[r].pc = "sent"
      /\ UNCHANGED <<auStore, auRefreshing, auQueue, auRefreshes, auTimer, auPerms, auServer>>
  BY <1>2 DEF Denied
<1> HIDE DEF q
<1> QED
  BY <1>1, <1>3, OneRequest

\* The steps that end a request: accepted, failed, or denied for good.
LEMMA SettleInv ==
  ASSUME Inv, NEW r \in Requests, auReqs[r].pc \in {"sent", "denied"},
         NEW ok \in BOOLEAN, ok => auReqs[r].tok \in 1..Issued,
         Settle(r, ok, auReqs, auStore),
         UNCHANGED <<auQueue, auRefreshing, auRefreshes, auTimer>>,
         ServerOK', Issued' = Issued, auServer'.logins = auServer.logins
  PROVE  Inv'
<1>1. /\ (\A f \in auRefreshes : Refresh(f)) /\ auTimer \in 0..Issued
      /\ auRefreshing \in BOOLEAN /\ auQueue \subseteq Requests
  BY TypeParts DEF Inv
<1>2. /\ auReqs' \in [Requests -> AuRequest] /\ auStore' \in AuStores
      /\ auPerms' \in 0..MaxLogins /\ SignedInHasTokens'
  BY SettleDoes DEF Inv
<1>3. AuthTypeOK'
  BY <1>1, <1>2, TypePartsNext DEF AuRequest, AuStores, Refresh
<1>4. Waiting' /\ OneRefresher' /\ LoginsInOrder'
  BY SettleIsCalm DEF Inv
<1> QED
  BY <1>2, <1>3, <1>4 DEF Inv

LEMMA AcceptedInv == ASSUME Inv, NEW r \in Requests, Accepted(r) PROVE Inv'
<1>1. ServerOK /\ auReqs[r] \in AuRequest
  BY TypeParts DEF Inv
<1>2. auReqs[r].tok \in 1..Issued
  BY <1>1, IssuedType DEF Inv, Accepted, Valid, AuRequest, ServerOK
<1>3. \E revoked \in SUBSET auServer.refresh : auServer' = [auServer EXCEPT !.refresh = revoked]
  <2>1. CASE r # LogoutCall
    <3>1. auServer' = [auServer EXCEPT !.refresh = auServer.refresh]
      BY <1>1, <2>1 DEF Accepted, ServerOK
    <3> QED
      BY <3>1
  <2>2. CASE r = LogoutCall
    BY <2>2 DEF Accepted
  <2> QED
    BY <2>1, <2>2
<1>4. PICK revoked \in SUBSET auServer.refresh : auServer' = [auServer EXCEPT !.refresh = revoked]
  BY <1>3
<1>5. /\ auServer' = [issued |-> auServer.issued, expired |-> auServer.expired,
                      refresh |-> revoked, logins |-> auServer.logins]
  BY <1>1, <1>4 DEF ServerOK
<1>6. ServerOK' /\ Issued' = Issued /\ auServer'.logins = auServer.logins
  BY <1>1, <1>5 DEF ServerOK, Issued
<1>7. /\ Settle(r, TRUE, auReqs, auStore) /\ auReqs[r].pc = "sent"
      /\ UNCHANGED <<auQueue, auRefreshing, auRefreshes, auTimer>>
  BY DEF Accepted
<1> QED
  BY <1>2, <1>6, <1>7, SettleInv

LEMMA FailedInv == ASSUME Inv, NEW r \in Requests, Failed(r) PROVE Inv'
<1>1. ServerOK' /\ Issued' = Issued /\ auServer'.logins = auServer.logins
  BY TypeParts DEF Inv, Failed, ServerOK, Issued
<1>2. /\ Settle(r, FALSE, auReqs, auStore) /\ auReqs[r].pc = "sent"
      /\ UNCHANGED <<auQueue, auRefreshing, auRefreshes, auTimer>>
  BY DEF Failed
<1> QED
  BY <1>1, <1>2, SettleInv

(***************************************************************************)
(* A denied request, and the timer.                                        *)
(***************************************************************************)
LEMMA UnauthorizedInv == ASSUME Inv, NEW r \in Requests, Unauthorized(r) PROVE Inv'
<1>1. /\ ServerOK /\ auStore \in AuStores /\ auReqs \in [Requests -> AuRequest]
      /\ (\A f \in auRefreshes : Refresh(f)) /\ auTimer \in 0..Issued
      /\ auPerms \in 0..MaxLogins /\ auRefreshing \in BOOLEAN /\ auQueue \subseteq Requests
  BY TypeParts DEF Inv
<1>2. /\ auReqs[r].pc = "denied" /\ auTimer' = auTimer /\ auServer' = auServer
      /\ Issued' = Issued /\ ServerOK' /\ auServer'.logins = auServer.logins
  BY <1>1 DEF Unauthorized, Issued, ServerOK
<1>3. CASE Settle(r, FALSE, auReqs, auStore) /\ UNCHANGED <<auRefreshing, auQueue, auRefreshes>>
  BY <1>2, <1>3, SettleInv
<1>4. CASE /\ auRefreshing
           /\ auQueue' = auQueue \cup {r}
           /\ auReqs' = [auReqs EXCEPT ![r].pc = "queued"]
           /\ UNCHANGED <<auStore, auRefreshing, auRefreshes, auPerms>>
  <2>1. /\ auReqs' \in [Requests -> AuRequest] /\ auReqs'[r].pc = "queued"
        /\ \A k \in Requests \ {r} : auReqs'[k] = auReqs[k]
    BY <1>1, <1>4 DEF AuRequest, AuPlaces
  <2>2. AuthTypeOK'
    BY <1>1, <1>2, <1>4, <2>1, TypePartsNext DEF AuRequest, AuStores, Refresh
  <2>3. OneRefresher'
    BY <1>2, <2>1 DEF Inv, OneRefresher
  <2>4. Waiting'
    <3>1. auQueue' \subseteq Requests /\ \A k \in Requests : k \in auQueue' <=> auReqs'[k].pc = "queued"
      BY <1>1, <1>4, <2>1 DEF Inv, Waiting
    <3>2. \A f \in auRefreshes' : f.by # Timer => f.by \in Requests /\ auReqs'[f.by].pc = "refreshing"
      BY <1>2, <1>4, <2>1 DEF Inv, Waiting
    <3>3. \A k \in Requests : auReqs'[k].pc = "refreshing" => \E f \in auRefreshes' : f.by = k
      BY <1>4, <2>1 DEF Inv, Waiting
    <3>4. \A k \in Requests : auReqs'[k].pc = "refreshing" <=> auReqs[k].pc = "refreshing"
      BY <1>2, <2>1
    <3>5. auRefreshing' = (\E k \in Requests : auReqs'[k].pc = "refreshing")
      BY <1>4, <3>4, Zenon DEF Inv, Waiting
    <3> QED
      BY <1>4, <3>1, <3>2, <3>3, <3>5 DEF Inv, Waiting
  <2>5. SignedInHasTokens'
    BY <1>4 DEF Inv, SignedInHasTokens
  <2>6. LoginsInOrder'
    BY <1>2, <2>1, OrderKept DEF Inv
  <2> QED
    BY <2>2, <2>3, <2>4, <2>5, <2>6 DEF Inv
<1>5. CASE /\ ~auRefreshing /\ auStore.refresh # 0
           /\ auRefreshing' = TRUE
           /\ auReqs' = [auReqs EXCEPT ![r].pc = "refreshing", ![r].retry = TRUE]
           /\ auRefreshes' = auRefreshes \cup {[by |-> r, tok |-> auStore.refresh, pc |-> "sent", new |-> 0]}
           /\ UNCHANGED <<auStore, auQueue, auPerms>>
  <2> DEFINE f0 == [by |-> r, tok |-> auStore.refresh, pc |-> "sent", new |-> 0]
  <2>1. /\ auReqs' \in [Requests -> AuRequest] /\ auReqs'[r].pc = "refreshing"
        /\ \A k \in Requests \ {r} : auReqs'[k] = auReqs[k]
    BY <1>1, <1>5 DEF AuRequest, AuPlaces
  <2>2. Refresh(f0)
    BY <1>1, <1>5, IssuedType DEF Inv, AuStores, Refresh
  <2>3. f0.by = r /\ auRefreshes' = auRefreshes \cup {f0}
    BY <1>5
  <2> HIDE DEF f0
  <2>4. \A f \in auRefreshes' : Refresh(f)
    BY <1>1, <2>2, <2>3
  <2>5. AuthTypeOK'
    BY <1>1, <1>2, <1>5, <2>1, <2>4, TypePartsNext DEF AuRequest, AuStores, Refresh
  <2>6. \A k \in Requests : auReqs[k].pc # "refreshing"
    BY <1>5 DEF Inv, Waiting
  <2>7. auQueue = {}
    BY <1>5 DEF Inv, Waiting
  <2>8. \A f \in auRefreshes : f.by = Timer
    BY <2>6 DEF Inv, Waiting
  <2>9. OneRefresher'
    BY <2>1, <2>6 DEF OneRefresher
  <2>10. Waiting'
    <3>1. \A k \in Requests : auReqs'[k].pc # "queued"
      BY <2>1, <2>7 DEF Inv, Waiting
    <3>2. auQueue' = {} /\ \A k \in Requests : k \in auQueue' <=> auReqs'[k].pc = "queued"
      BY <1>5, <2>7, <3>1
    <3>3. \A f \in auRefreshes' : f.by # Timer => f = f0
      BY <2>3, <2>8
    <3>4. \A k \in Requests : auReqs'[k].pc = "refreshing" => k = r
      BY <2>1, <2>6
    <3>5. auRefreshing' = (\E k \in Requests : auReqs'[k].pc = "refreshing")
      BY <1>5, <2>1, Zenon
    <3>6. f0 \in auRefreshes'
      BY <2>3
    <3>7. \A f \in auRefreshes' : f.by # Timer => f.by \in Requests /\ auReqs'[f.by].pc = "refreshing"
      BY <2>1, <2>3, <3>3
    <3>8. \A k \in Requests : auReqs'[k].pc = "refreshing" => \E f \in auRefreshes' : f.by = k
      BY <2>3, <3>4, <3>6
    <3>9. \A f, g \in auRefreshes' : f.by = g.by /\ f.by # Timer => f = g
      BY <3>3
    <3> QED
      BY <3>2, <3>5, <3>7, <3>8, <3>9 DEF Waiting
  <2>11. SignedInHasTokens'
    BY <1>5 DEF Inv, SignedInHasTokens
  <2>12. LoginsInOrder'
    BY <1>2, <2>1, OrderKept DEF Inv
  <2> QED
    BY <2>5, <2>9, <2>10, <2>11, <2>12 DEF Inv
<1> QED
  BY <1>3, <1>4, <1>5 DEF Unauthorized

LEMMA TimerFiresInv == ASSUME Inv, TimerFires PROVE Inv'
<1> DEFINE f0 == [by |-> Timer, tok |-> auStore.refresh, pc |-> "sent", new |-> 0]
<1>1. /\ ServerOK /\ auStore \in AuStores /\ auReqs \in [Requests -> AuRequest]
      /\ (\A f \in auRefreshes : Refresh(f)) /\ Issued \in Nat
      /\ auPerms \in 0..MaxLogins /\ auRefreshing \in BOOLEAN /\ auQueue \subseteq Requests
  BY TypeParts, IssuedType DEF Inv
<1>2. /\ auTimer' = auStore.access
      /\ UNCHANGED <<auStore, auReqs, auRefreshing, auQueue, auPerms, auServer>>
      /\ Issued' = Issued /\ ServerOK'
  BY <1>1 DEF TimerFires, Issued, ServerOK
<1>3. auRefreshes' = auRefreshes \/ (auRefreshes' = auRefreshes \cup {f0} /\ auStore.refresh # 0)
  BY DEF TimerFires
<1>4. auStore.refresh # 0 => Refresh(f0)
  BY <1>1 DEF AuStores, Refresh
<1>5. f0.by = Timer
  OBVIOUS
<1> HIDE DEF f0
<1>6. \A f \in auRefreshes' : Refresh(f)
  BY <1>1, <1>3, <1>4
<1>7. auTimer' \in 0..Issued
  BY <1>1, <1>2 DEF AuStores
<1>8. AuthTypeOK'
  BY <1>1, <1>2, <1>6, <1>7, TypePartsNext DEF AuRequest, AuStores, Refresh
<1>9. \A f, g \in auRefreshes' : f.by = g.by /\ f.by # Timer => f = g
  BY <1>3, <1>5 DEF Inv, Waiting
<1>10. Waiting' /\ OneRefresher'
  BY <1>2, <1>3, <1>5, <1>9, CalmStep DEF Inv
<1>11. SignedInHasTokens' /\ LoginsInOrder'
  BY <1>2 DEF Inv, SignedInHasTokens, LoginsInOrder
<1> QED
  BY <1>8, <1>10, <1>11 DEF Inv

(***************************************************************************)
(* Refreshes.                                                              *)
(***************************************************************************)
\* A refresh that has been served is the same refresh to those that wait for it.
LEMMA Replaced ==
  ASSUME Inv, NEW f \in auRefreshes, NEW h, h.by = f.by, Refresh(h)',
         auRefreshes' = (auRefreshes \ {f}) \cup {h},
         ServerOK', Issued' \in Nat, Issued' >= Issued, auServer'.logins = auServer.logins,
         UNCHANGED <<auStore, auReqs, auRefreshing, auQueue, auTimer, auPerms>>
  PROVE  Inv'
<1>1. /\ auStore \in AuStores /\ auReqs \in [Requests -> AuRequest]
      /\ (\A g \in auRefreshes : Refresh(g)) /\ auTimer \in 0..Issued /\ Issued \in Nat
      /\ auPerms \in 0..MaxLogins /\ auRefreshing \in BOOLEAN /\ auQueue \subseteq Requests
  BY TypeParts, IssuedType DEF Inv
<1>2. /\ auStore' \in AuStores' /\ auReqs' \in [Requests -> AuRequest'] /\ auTimer' \in 0..Issued'
      /\ \A g \in auRefreshes : Refresh(g)'
  BY <1>1, Grows
<1>3. \A g \in auRefreshes' : Refresh(g)'
  BY <1>2
<1>4. AuthTypeOK'
  BY <1>1, <1>2, <1>3, TypePartsNext
<1>5. \A g, k \in auRefreshes' : g.by = k.by /\ g.by # Timer => g = k
  BY DEF Inv, Waiting
<1>6. Waiting' /\ OneRefresher'
  BY <1>5, CalmStep DEF Inv
<1>7. SignedInHasTokens' /\ LoginsInOrder'
  BY DEF Inv, SignedInHasTokens, LoginsInOrder
<1> QED
  BY <1>4, <1>6, <1>7 DEF Inv

LEMMA RefreshServedInv == ASSUME Inv, NEW f \in auRefreshes, RefreshServed(f) PROVE Inv'
<1>1. /\ ServerOK /\ Issued \in Nat /\ \A g \in auRefreshes : Refresh(g)
  BY TypeParts, IssuedType DEF Inv
<1>2. UNCHANGED <<auStore, auReqs, auRefreshing, auQueue, auTimer, auPerms>>
  BY DEF RefreshServed
<1>3. CASE /\ f.tok \in auServer.refresh
           /\ \E revoked \in {{}, {f.tok}} : auServer' = Issue(auServer.issued[f.tok], revoked)
           /\ auRefreshes' = (auRefreshes \ {f}) \cup {[f EXCEPT !.pc = "ok", !.new = Issued']}
  <2>1. f \in [by : Requests \cup {Timer}, tok : 1..Issued, pc : {"sent", "ok", "failed"}, new : 0..Issued]
    BY <1>1 DEF Refresh
  <2>2. auServer.issued[f.tok] \in AuLogins
    BY <2>1, UserOf DEF Inv
  <2>3. ServerOK' /\ Issued' = Issued + 1 /\ auServer'.logins = auServer.logins
    BY <1>1, <1>3, <2>2, IssueDoes
  <2>4. PICK h : h = [f EXCEPT !.pc = "ok", !.new = Issued']
    OBVIOUS
  <2>5. h.by = f.by /\ h = [by |-> f.by, tok |-> f.tok, pc |-> "ok", new |-> Issued']
    BY <2>1, <2>4
  <2>6. f.tok \in 1..Issued' /\ Issued' \in 0..Issued' /\ Issued' # 0
    BY <1>1, <2>1, <2>3
  <2>7. Refresh(h)'
    BY <2>1, <2>5, <2>6 DEF Refresh
  <2>8. auRefreshes' = (auRefreshes \ {f}) \cup {h} /\ Issued' \in Nat /\ Issued' >= Issued
    BY <1>1, <1>3, <2>3, <2>4
  <2> QED
    BY <1>2, <2>3, <2>5, <2>7, <2>8, Replaced
<1>4. CASE /\ auRefreshes' = (auRefreshes \ {f}) \cup {[f EXCEPT !.pc = "failed"]}
           /\ auServer' = auServer
  <2>1. ServerOK' /\ Issued' = Issued
    BY <1>1, <1>4 DEF ServerOK, Issued
  <2>2. PICK h : h = [f EXCEPT !.pc = "failed"]
    OBVIOUS
  <2>3. h.by = f.by /\ Refresh(h)'
    BY <1>1, <2>1, <2>2 DEF Refresh
  <2>4. auRefreshes' = (auRefreshes \ {f}) \cup {h} /\ Issued' \in Nat /\ Issued' >= Issued
    BY <1>1, <1>4, <2>1, <2>2
  <2> QED
    BY <1>2, <1>4, <2>1, <2>3, <2>4, Replaced
<1> QED
  BY <1>3, <1>4 DEF RefreshServed

LEMMA RefreshAnsweredInv == ASSUME Inv, NEW f \in auRefreshes, RefreshAnswered(f) PROVE Inv'
<1>1. /\ ServerOK /\ auStore \in AuStores /\ auReqs \in [Requests -> AuRequest]
      /\ (\A g \in auRefreshes : Refresh(g)) /\ auTimer \in 0..Issued /\ Issued \in Nat
      /\ auPerms \in 0..MaxLogins /\ auRefreshing \in BOOLEAN /\ auQueue \subseteq Requests
  BY TypeParts, IssuedType DEF Inv
<1>2. /\ f.pc # "sent" /\ auRefreshes' = auRefreshes \ {f} /\ auStore' = Refreshed(f)
      /\ UNCHANGED <<auTimer, auPerms, auServer>>
      /\ Issued' = Issued /\ ServerOK' /\ auServer'.logins = auServer.logins
  BY <1>1 DEF RefreshAnswered, Issued, ServerOK
<1>3. f.new \in 0..Issued /\ (f.pc = "ok" => f.new # 0)
  BY <1>1 DEF Refresh
<1>4. auStore' \in AuStores /\ SignedInHasTokens'
  <2>1. CASE f.pc = "ok"
    <3>1. auStore' = [auStore EXCEPT !.access = f.new, !.refresh = f.new]
      BY <1>2, <2>1 DEF Refreshed
    <3>2. auStore' \in AuStores /\ auStore'.access = f.new /\ auStore'.refresh = f.new
      BY <1>1, <1>3, <3>1 DEF AuStores
    <3> QED
      BY <1>3, <2>1, <3>2 DEF SignedInHasTokens
  <2>2. CASE f.pc # "ok"
    <3>1. auStore' = SignedOut
      BY <1>2, <2>2 DEF Refreshed
    <3> QED
      BY <3>1, SignedOutIs DEF Inv, SignedInHasTokens, SignedOut
  <2> QED
    BY <2>1, <2>2
<1>5. CASE f.by = Timer
  <2>1. UNCHANGED <<auReqs, auRefreshing, auQueue>>
    BY <1>5 DEF RefreshAnswered
  <2>2. AuthTypeOK'
    BY <1>1, <1>2, <1>4, <2>1, TypePartsNext DEF AuRequest, AuStores, Refresh
  <2>3. \A g, h \in auRefreshes' : g.by = h.by /\ g.by # Timer => g = h
    BY <1>2 DEF Inv, Waiting
  <2>4. Waiting' /\ OneRefresher'
    BY <1>2, <1>5, <2>1, <2>3, CalmStep DEF Inv
  <2>5. LoginsInOrder'
    BY <1>2, <2>1, OrderKept DEF Inv
  <2> QED
    BY <1>4, <2>2, <2>4, <2>5 DEF Inv
<1>6. CASE f.by # Timer
  <2> DEFINE waiting == auQueue \cup {f.by}
  <2>1. /\ IF f.pc = "ok" THEN Resent(waiting, f.new) ELSE Rejected(waiting)
        /\ auRefreshing' = FALSE /\ auQueue' = {}
    BY <1>6 DEF RefreshAnswered
  <2>2. f.by \in Requests /\ auReqs[f.by].pc = "refreshing" /\ waiting \subseteq Requests
    BY <1>1, <1>6 DEF Inv, Waiting
  <2>3. \A r \in Requests : r \in waiting <=> auReqs[r].pc \in {"queued", "refreshing"}
    BY <2>2 DEF Inv, Waiting, OneRefresher
  <2> HIDE DEF waiting
  <2>4. /\ auReqs' \in [Requests -> AuRequest]
        /\ \A r \in Requests : auReqs'[r].pc \notin {"queued", "refreshing"}
        /\ \A r \in Requests : auReqs'[r].pc # "idle" => auReqs[r].pc # "idle"
    <3>1. CASE f.pc = "ok"
      <4>1. auReqs' = [r \in Requests |->
              IF r \in waiting THEN [auReqs[r] EXCEPT !.pc = "sent", !.tok = f.new] ELSE auReqs[r]]
        BY <2>1, <3>1 DEF Resent
      <4>2. ASSUME NEW r \in Requests
            PROVE  /\ [auReqs[r] EXCEPT !.pc = "sent", !.tok = f.new] \in AuRequest
                   /\ [auReqs[r] EXCEPT !.pc = "sent", !.tok = f.new].pc = "sent"
        BY <1>1, <1>3 DEF AuRequest, AuPlaces
      <4> QED
        BY <1>1, <2>3, <4>1, <4>2
    <3>2. CASE f.pc # "ok"
      <4>1. auReqs' = [r \in Requests |-> IF r \in waiting THEN NoRequest ELSE auReqs[r]]
        BY <2>1, <3>2 DEF Rejected
      <4>2. NoRequest \in AuRequest /\ NoRequest.pc = "idle"
        BY NoRequestIs DEF Inv
      <4> QED
        BY <1>1, <2>3, <4>1, <4>2
    <3> QED
      BY <3>1, <3>2
  <2>5. AuthTypeOK'
    BY <1>1, <1>2, <1>4, <2>1, <2>4, TypePartsNext DEF AuRequest, AuStores, Refresh
  <2>6. \A g \in auRefreshes' : g.by = Timer
    <3> SUFFICES ASSUME NEW g \in auRefreshes, g # f, g.by # Timer PROVE FALSE
      BY <1>2
    <3>1. g.by \in Requests /\ auReqs[g.by].pc = "refreshing"
      BY DEF Inv, Waiting
    <3>2. g.by = f.by
      BY <2>2, <3>1 DEF Inv, OneRefresher
    <3> QED
      BY <1>6, <3>2 DEF Inv, Waiting
  <2>7. OneRefresher'
    BY <2>4 DEF OneRefresher
  <2>8. Waiting'
    <3>1. auRefreshing' = (\E r \in Requests : auReqs'[r].pc = "refreshing")
      BY <2>1, <2>4
    <3>2. \A r \in Requests : r \in auQueue' <=> auReqs'[r].pc = "queued"
      BY <2>1, <2>4
    <3> QED
      BY <2>1, <2>4, <2>6, <3>1, <3>2 DEF Waiting
  <2>9. LoginsInOrder'
    BY <1>2, <2>4, OrderKept DEF Inv
  <2> QED
    BY <1>4, <2>5, <2>7, <2>8, <2>9 DEF Inv
<1> QED
  BY <1>5, <1>6

(***************************************************************************)
(* Time, the page, and the whole.                                          *)
(***************************************************************************)
LEMMA AuExpireInv == ASSUME Inv, AuExpire PROVE Inv'
<1>1. /\ ServerOK /\ auStore \in AuStores /\ auReqs \in [Requests -> AuRequest]
      /\ (\A f \in auRefreshes : Refresh(f)) /\ auTimer \in 0..Issued /\ Issued \in Nat
      /\ auPerms \in 0..MaxLogins /\ auRefreshing \in BOOLEAN /\ auQueue \subseteq Requests
  BY TypeParts, IssuedType DEF Inv
<1>2. /\ auServer' = [auServer EXCEPT !.expired = auServer.expired + 1] /\ auServer.expired < Issued
      /\ UNCHANGED <<auStore, auReqs, auRefreshing, auQueue, auRefreshes, auTimer, auPerms>>
  BY DEF AuExpire
<1>3. auServer' = [issued |-> auServer.issued, expired |-> auServer.expired + 1,
                   refresh |-> auServer.refresh, logins |-> auServer.logins]
  BY <1>1, <1>2 DEF ServerOK
<1>4. Issued' = Issued
  BY <1>3 DEF Issued
<1>5. ServerOK' /\ auServer'.logins = auServer.logins
  BY <1>1, <1>2, <1>3, <1>4 DEF ServerOK
<1>6. AuthTypeOK'
  BY <1>1, <1>2, <1>4, <1>5, TypePartsNext DEF AuRequest, AuStores, Refresh
<1>7. Waiting' /\ OneRefresher'
  BY <1>2, CalmSame DEF Inv
<1>8. SignedInHasTokens' /\ LoginsInOrder'
  BY <1>2, <1>5 DEF Inv, SignedInHasTokens, LoginsInOrder
<1> QED
  BY <1>6, <1>7, <1>8 DEF Inv

\* The state the page starts in.
LEMMA FreshPage ==
  ASSUME AuthInit PROVE Inv
<1>1. Issued = 0 /\ ServerOK
  <2>1. auServer.issued = <<>> /\ auServer = NoSession
    BY DEF AuthInit, NoSession
  <2>2. Issued = 0
    BY <2>1, EmptySeq DEF Issued
  <2>3. NoSession \in [issued : Seq(AuLogins), expired : Nat, refresh : SUBSET Nat, logins : 0..MaxLogins]
    BY AuthAssumption, EmptySeq DEF NoSession
  <2> QED
    BY <2>1, <2>2, <2>3 DEF ServerOK, NoSession
<1>2. SignedOut \in AuStores /\ NoRequest \in AuRequest
  BY <1>1, AuthAssumption DEF SignedOut, AuStores, NoRequest, AuRequest, AuPlaces
<1>3. /\ auStore = SignedOut /\ auReqs = [r \in Requests |-> NoRequest]
      /\ auRefreshing = FALSE /\ auQueue = {} /\ auRefreshes = {} /\ auTimer = 0 /\ auPerms = 0
  BY DEF AuthInit
<1>4. AuthTypeOK
  <2>1. auTimer \in 0..Issued /\ auPerms \in 0..MaxLogins
    BY <1>1, <1>3, AuthAssumption
  <2>2. auReqs \in [Requests -> AuRequest] /\ auStore \in AuStores
    BY <1>2, <1>3
  <2> QED
    BY <1>1, <1>3, <2>1, <2>2, TypeParts
<1>5. \A r \in Requests : auReqs[r].pc = "idle"
  BY <1>3 DEF NoRequest
<1>6. auRefreshing = (\E r \in Requests : auReqs[r].pc = "refreshing")
  BY <1>3, <1>5
<1>7. Waiting /\ OneRefresher
  BY <1>3, <1>5, <1>6 DEF Waiting, OneRefresher
<1>8. SignedInHasTokens /\ LoginsInOrder
  BY <1>3, <1>5, RequestsAre DEF SignedInHasTokens, SignedOut, LoginsInOrder
<1> QED
  BY <1>4, <1>7, <1>8 DEF Inv

LEMMA FreshPageNext == AuthInit' => Inv'
BY FreshPage, PTL

LEMMA ReloadInv == ASSUME Reload PROVE Inv'
BY FreshPageNext DEF Reload, AuthInit

LEMMA StepInv == Inv /\ [AuthNext]_auVars => Inv'
<1> SUFFICES ASSUME Inv, [AuthNext]_auVars PROVE Inv'
  OBVIOUS
<1>1. CASE Login
  BY <1>1, LoginStepInv
<1>2. CASE LoginStep
  BY <1>2, LoginAnsweredInv, LoginFailsInv DEF LoginStep
<1>3. ASSUME NEW r \in Requests, AuSend(r) \/ AuAnswer(r) PROVE Inv'
  BY <1>3, AuSendInv, AcceptedInv, FailedInv, DeniedInv, UnauthorizedInv DEF AuAnswer
<1>4. CASE TimerFires
  BY <1>4, TimerFiresInv
<1>5. CASE RefreshStep
  BY <1>5, RefreshServedInv, RefreshAnsweredInv DEF RefreshStep
<1>6. CASE AuExpire
  BY <1>6, AuExpireInv
<1>7. CASE Reload
  BY <1>7, ReloadInv
<1>8. CASE UNCHANGED auVars
  <2>1. UNCHANGED <<auStore, auReqs, auRefreshing, auQueue, auRefreshes, auTimer, auPerms, auServer>>
    BY <1>8 DEF auVars
  <2>2. AuthTypeOK'
    BY <2>1 DEF Inv, AuthTypeOK, Issued
  <2>3. Waiting' /\ OneRefresher'
    BY <2>1, CalmSame DEF Inv
  <2> QED
    BY <2>1, <2>2, <2>3 DEF Inv, SignedInHasTokens, LoginsInOrder
<1> QED
  BY <1>1, <1>2, <1>3, <1>4, <1>5, <1>6, <1>7, <1>8 DEF AuthNext

LEMMA InvHolds == AuthSpec => []Inv
<1>1. AuthInit => Inv
  BY FreshPage
<1> QED
  BY <1>1, StepInv, PTL DEF AuthSpec

\* The variables of the session keep their types: tokens, users and requests are
\* named by what the controller has issued.
THEOREM AuthType == AuthSpec => []AuthTypeOK
<1>1. Inv => AuthTypeOK
  BY DEF Inv
<1> QED
  BY <1>1, InvHolds, PTL

\* The interceptor of controllerClient: failedQueue holds exactly the requests that
\* wait, and isRefreshing is set exactly while the refresh that releases them is out.
THEOREM AuthNobodyWaitsInVain == AuthSpec => []NobodyWaitsInVain
<1>1. Inv => NobodyWaitsInVain
  BY WaitingIs DEF Inv
<1> QED
  BY <1>1, InvHolds, PTL

\* The auth store: nobody is shown as signed in without a pair of tokens, in
\* whatever order refreshes, sign-ins and sign-outs are answered.
THEOREM AuthSignedInHasTokens == AuthSpec => []SignedInHasTokens
<1>1. Inv => SignedInHasTokens
  BY DEF Inv
<1> QED
  BY <1>1, InvHolds, PTL
=================================================================================

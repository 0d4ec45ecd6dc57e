---------------------------- MODULE Hosts_proofs ----------------------------
(***************************************************************************)
(* What several connections or calls share, for any number of them: the    *)
(* known_hosts file of the handshakes, the sockets of a language server, the*)
(* list of AI tasks with its feed, and the list of saved workspaces.       *)
(***************************************************************************)
EXTENDS MCHosts, SequenceTheorems, FiniteSetTheorems, TLAPS

-----------------------------------------------------------------------------
(***************************************************************************)
(* The known hosts: any hosts and keys, any number of handshakes with and  *)
(* without prompts, revocations and restarts.                              *)
(***************************************************************************)
\* The tuples UNCHANGED is stated with carry no meaning of their own.
USE DEF vars, storeVars, aboutVars, promptVars, ghostVars

-----------------------------------------------------------------------------
(* Types.                                                                   *)

\* What a load may return is a store.
LEMMA OnDiskIsStore ==
  ASSUME TypeOK, NEW copy \in OnDisk
  PROVE  copy \in Store
BY DEF TypeOK, OnDisk

\* Every action keeps the types; the key of a prompt is one a server presented.
LEMMA TypeStep ==
  ASSUME TypeOK, PromptsHaveAWaiter, [Next]_vars
  PROVE  TypeOK'
<1> USE KeysAssumption, HandshakesAssumption DEF TypeOK, Savers, Place, Ended, GoTo
<1>1. ASSUME NEW h \in Handshakes, NEW host \in Hosts, NEW key \in Keys,
             Connect(h, host, key)
      PROVE  TypeOK'
  BY <1>1, OnDiskIsStore DEF Connect
<1>2. ASSUME NEW h \in Handshakes, ConnectFails(h)
      PROVE  TypeOK'
  BY <1>2 DEF ConnectFails
<1>3. ASSUME NEW h \in Handshakes, CheckServerKey(h)
      PROVE  TypeOK'
  <2>1. pc[h] = "connecting" /\ target[h] \in Hosts /\ presented[h] \in Keys
    BY <1>3 DEF CheckServerKey
  <2>2. \/ known' = [known EXCEPT ![h][target[h]] = presented[h]]
        \/ known' = known
    BY <1>3 DEF CheckServerKey
  <2>3. [known[h] EXCEPT ![target[h]] = presented[h]] \in Store
    BY <2>1 DEF Store
  <2>4. known' \in [Savers -> Store]
    BY <2>2, <2>3
  <2>5. QED
    BY <1>3, <2>1, <2>4 DEF CheckServerKey, Vouch
<1>4. ASSUME NEW h \in Handshakes, AwaitEnds(h)
      PROVE  TypeOK'
  BY <1>4 DEF AwaitEnds
<1>5. ASSUME NEW h \in Handshakes, SettlePrompt(h)
      PROVE  TypeOK'
  <2>1. pc[h] = "settle" /\ target[h] \in Hosts /\ presented[h] \in Keys
    BY <1>5 DEF SettlePrompt
  <2>2. known' \in [Savers -> Store]
    BY <1>5, <2>1, SMTT(30) DEF SettlePrompt, Store
  <2>3. QED
    BY <1>5, <2>1, <2>2 DEF SettlePrompt
<1>6. ASSUME NEW s \in Savers, Truncate(s)
      PROVE  TypeOK'
  <2>1. Empty \in Store
    BY DEF Empty, Store
  <2>2. QED
    BY <1>6, <2>1 DEF Truncate
<1>7. ASSUME NEW s \in Savers, Write(s)
      PROVE  TypeOK'
  <2>1. file' \in Store
    BY <1>7, OnDiskIsStore DEF Write
  <2>2. revoked' \subseteq Hosts \X Keys
    BY <1>7 DEF Write
  <2>3. QED
    BY <1>7, <2>1, <2>2 DEF Write, Saved
<1>8. ASSUME NEW s \in Savers, SaveFails(s)
      PROVE  TypeOK'
  BY <1>8, OnDiskIsStore DEF SaveFails
<1>9. ASSUME NEW h \in Handshakes, NEW decision \in {"approve", "reject"},
             TakePrompt(h, decision)
      PROVE  TypeOK'
  <2>1. target[h] \in Hosts /\ presented[h] \in Keys
    BY <1>9 DEF TakePrompt, PromptsHaveAWaiter
  <2>2. QED
    BY <1>9, <2>1 DEF TakePrompt, Vouch
<1>10. ASSUME NEW h \in Handshakes, NEW decision \in {"approve", "reject"},
              SendAnswer(h, decision)
       PROVE  TypeOK'
  BY <1>10 DEF SendAnswer
<1>11. ASSUME NEW r \in Revocations, NEW host \in Hosts, Revoke(r, host)
       PROVE  TypeOK'
  <2>1. PICK copy \in OnDisk : known' = [known EXCEPT ![r] = [copy EXCEPT ![host] = NoKey]]
    BY <1>11 DEF Revoke
  <2>2. known' \in [Savers -> Store]
    BY <2>1, OnDiskIsStore DEF Store
  <2>3. QED
    BY <1>11, <2>2 DEF Revoke
<1>12. CASE Restart
  BY <1>12, OnDiskIsStore DEF Restart
<1>13. CASE UNCHANGED vars
  BY <1>13
<1>14. QED
  BY <1>1, <1>2, <1>3, <1>4, <1>5, <1>6, <1>7, <1>8, <1>9, <1>10, <1>11, <1>12, <1>13
  DEF Next, HandshakeStep, SaveStep

\* Only a handshake that waits, or has just stopped waiting, has a prompt.
LEMMA WaiterStep ==
  ASSUME TypeOK, PromptsHaveAWaiter, [Next]_vars
  PROVE  PromptsHaveAWaiter'
<1> USE HandshakesAssumption DEF TypeOK, PromptsHaveAWaiter, Savers, GoTo
<1>1. ASSUME NEW h \in Handshakes,
             \/ \E host \in Hosts, key \in Keys : Connect(h, host, key)
             \/ ConnectFails(h) \/ CheckServerKey(h) \/ AwaitEnds(h) \/ SettlePrompt(h)
      PROVE  PromptsHaveAWaiter'
  BY <1>1 DEF Connect, ConnectFails, CheckServerKey, AwaitEnds, SettlePrompt
<1>2. ASSUME NEW s \in Savers, SaveStep(s)
      PROVE  PromptsHaveAWaiter'
  BY <1>2 DEF SaveStep, Truncate, Write, SaveFails
<1>3. ASSUME NEW h \in Handshakes, NEW decision \in {"approve", "reject"},
             TakePrompt(h, decision) \/ SendAnswer(h, decision)
      PROVE  PromptsHaveAWaiter'
  BY <1>3 DEF TakePrompt, SendAnswer
<1>4. ASSUME NEW r \in Revocations, NEW host \in Hosts, Revoke(r, host)
      PROVE  PromptsHaveAWaiter'
  BY <1>4 DEF Revoke
<1>5. CASE Restart \/ UNCHANGED vars
  BY <1>5 DEF Restart
<1>6. QED
  BY <1>1, <1>2, <1>3, <1>4, <1>5 DEF Next, HandshakeStep

\* The types and the waiters of prompts hold together: a prompt that is answered
\* needs its waiter for the answer to have its type.
LEMMA BasicInvariant == Spec => [](TypeOK /\ PromptsHaveAWaiter)
<1>1. Init => TypeOK /\ PromptsHaveAWaiter
  <2> SUFFICES ASSUME Init PROVE TypeOK /\ PromptsHaveAWaiter
    OBVIOUS
  <2>1. target \in [Savers -> Hosts]
    <3>1. (CHOOSE host \in Hosts : TRUE) \in Hosts
      BY KeysAssumption
    <3>2. QED
      BY <3>1 DEF Init
  <2>2. file \in Store /\ known \in [Savers -> Store]
    BY DEF Init, Empty, Store
  <2>3. pc \in [Savers -> Place] /\ \A h \in Handshakes : pc[h] = "off"
    BY DEF Init, Place, Savers
  <2>4. QED
    BY <2>1, <2>2, <2>3 DEF Init, TypeOK, PromptsHaveAWaiter
<1>2. QED
  BY <1>1, TypeStep, WaiterStep, PTL DEF Spec

\* Every variable keeps its type.
THEOREM TypeCorrect == Spec => []TypeOK
BY BasicInvariant, PTL

\* Every prompt the user can see is one a handshake is suspended on.
THEOREM EveryPromptHasAWaiter == Spec => []PromptsHaveAWaiter
BY BasicInvariant, PTL

-----------------------------------------------------------------------------
(* Trust.                                                                   *)

\* Every copy of the file, like the file itself, holds only keys that were vouched
\* for.
StoresOK ==
  /\ StoredKeysAreVouchedFor
  /\ \A s \in Savers, host \in Hosts :
       known[s][host] # NoKey => VouchedFor(host, known[s][host])

\* An approval, once given, is about the key and the host it was asked for, wherever
\* it is on its way to known_hosts.
DecisionsOK ==
  /\ \A h \in Handshakes :
       /\ answer[h] = "approve" => <<target[h], presented[h]>> \in vouched
       /\ answer[h] # "none" => pc[h] # "off"
       /\ pc[h] \in {"truncate", "write", "admitted"} => VouchedFor(target[h], presented[h])
  /\ \A m \in sending :
       /\ pc[m[1]] # "off"
       /\ m[2] = "approve" => <<target[m[1]], presented[m[1]]>> \in vouched

TrustInv == StoresOK /\ DecisionsOK

\* What a load may return in the middle of saves was vouched for as well.
LEMMA OnDiskIsVouchedFor ==
  ASSUME TypeOK, StoresOK, NEW copy \in OnDisk, NEW host \in Hosts, copy[host] # NoKey
  PROVE  VouchedFor(host, copy[host])
<1>1. CASE Writers = {}
  BY <1>1 DEF OnDisk, StoresOK, StoredKeysAreVouchedFor
<1>2. CASE Writers # {}
  <2>1. PICK from \in Hosts :
          /\ from = host \/ mixed
          /\ copy[host] \in {file[from]} \cup {known[s][from] : s \in Writers}
    BY <1>2 DEF OnDisk
  <2>2. VouchedFor(from, copy[host])
    BY <2>1 DEF StoresOK, StoredKeysAreVouchedFor, Writers
  <2>3. QED
    BY <2>1, <2>2 DEF VouchedFor
<1>3. QED
  BY <1>1, <1>2

\* Nothing that was vouched for ceases to be.
LEMMA VouchedForStays ==
  ASSUME [Next]_vars
  PROVE  /\ vouched \subseteq vouched' /\ (mixed => mixed')
         /\ \A host, key : VouchedFor(host, key) => VouchedFor(host, key)'
<1> DEFINE Kept == vouched \subseteq vouched' /\ (mixed => mixed')
<1>1. Kept
  <2>1. ASSUME NEW h \in Handshakes, CheckServerKey(h)
        PROVE  Kept
    BY <2>1 DEF CheckServerKey, Vouch
  <2>2. ASSUME NEW h \in pending, NEW decision \in {"approve", "reject"},
               TakePrompt(h, decision)
        PROVE  Kept
    BY <2>2 DEF TakePrompt, Vouch
  <2>3. ASSUME NEW s \in Savers, Truncate(s)
        PROVE  Kept
    <3>1. vouched' = vouched /\ mixed' = (mixed \/ Writers # {})
      BY <2>3 DEF Truncate
    <3>2. QED
      BY <3>1
  <2>4. ASSUME NEW s \in Savers, Write(s) \/ SaveFails(s)
        PROVE  Kept
    BY <2>4 DEF Write, SaveFails
  <2>5. ASSUME NEW h \in Handshakes,
               \/ \E host \in Hosts, key \in Keys : Connect(h, host, key)
               \/ ConnectFails(h) \/ AwaitEnds(h) \/ SettlePrompt(h)
        PROVE  Kept
    BY <2>5 DEF Connect, ConnectFails, AwaitEnds, SettlePrompt
  <2>6. ASSUME NEW m \in sending, SendAnswer(m[1], m[2])
        PROVE  Kept
    BY <2>6 DEF SendAnswer
  <2>7. ASSUME NEW r \in Revocations, NEW host \in Hosts, Revoke(r, host)
        PROVE  Kept
    BY <2>7 DEF Revoke
  <2>8. CASE Restart
    BY <2>8 DEF Restart
  <2>9. CASE UNCHANGED vars
    BY <2>9
  <2>10. QED
    BY <2>1, <2>2, <2>3, <2>4, <2>5, <2>6, <2>7, <2>8, <2>9
    DEF Next, HandshakeStep, SaveStep, Savers
<1>2. QED
  BY <1>1 DEF VouchedFor

\* Files and copies stay vouched for.
LEMMA StoresStep ==
  ASSUME TypeOK, PromptsHaveAWaiter, TrustInv, [Next]_vars
  PROVE  StoresOK'
<1> USE HandshakesAssumption DEF TypeOK, Savers, GoTo
<1>1. /\ \A host \in Hosts : file[host] # NoKey => VouchedFor(host, file[host])
      /\ \A s \in Savers, host \in Hosts :
           known[s][host] # NoKey => VouchedFor(host, known[s][host])
  BY DEF TrustInv, StoresOK, StoredKeysAreVouchedFor
<1>2. ASSUME \A host \in Hosts : file'[host] # NoKey => VouchedFor(host, file'[host]),
             \A s \in Savers, host \in Hosts :
               known'[s][host] # NoKey =>
                 \/ VouchedFor(host, known'[s][host])
                 \/ <<host, known'[s][host]>> \in vouched'
      PROVE  StoresOK'
  BY <1>2, VouchedForStays DEF StoresOK, StoredKeysAreVouchedFor, VouchedFor
<1>3. \A copy \in OnDisk, host \in Hosts :
        copy[host] # NoKey => VouchedFor(host, copy[host])
  BY OnDiskIsVouchedFor DEF TrustInv
<1>4. ASSUME NEW h \in Handshakes, NEW host \in Hosts, NEW key \in Keys,
             Connect(h, host, key)
      PROVE  StoresOK'
  <2>1. PICK copy \in OnDisk : known' = [known EXCEPT ![h] = copy]
    BY <1>4 DEF Connect
  <2>2. QED
    BY <1>1, <1>2, <1>3, <1>4, <2>1 DEF Connect
<1>5. ASSUME NEW h \in Handshakes, CheckServerKey(h)
      PROVE  StoresOK'
  <2>1. CASE known' = known
    BY <1>1, <1>2, <1>5, <2>1 DEF CheckServerKey
  <2>2. CASE known' # known
    <3>1. /\ known' = [known EXCEPT ![h][target[h]] = presented[h]]
          /\ <<target[h], presented[h]>> \in vouched'
          /\ UNCHANGED file
      BY <1>5, <2>2 DEF CheckServerKey, Vouch
    <3>2. ASSUME NEW s \in Savers, NEW host \in Hosts, known'[s][host] # NoKey
          PROVE  \/ VouchedFor(host, known'[s][host])
                 \/ <<host, known'[s][host]>> \in vouched'
      <4>1. CASE s = h /\ host = target[h]
        BY <3>1, <4>1 DEF Store
      <4>2. CASE ~(s = h /\ host = target[h])
        BY <1>1, <3>1, <3>2, <4>2 DEF Store
      <4>3. QED
        BY <4>1, <4>2
    <3>3. QED
      BY <1>1, <1>2, <3>1, <3>2
  <2>3. QED
    BY <2>1, <2>2
<1>6. ASSUME NEW h \in Handshakes, SettlePrompt(h)
      PROVE  StoresOK'
  <2>1. CASE answer[h] = "approve"
    <3>1. /\ known' = [known EXCEPT ![h][target[h]] = presented[h]]
          /\ <<target[h], presented[h]>> \in vouched'
          /\ UNCHANGED file
      BY <1>6, <2>1 DEF SettlePrompt, TrustInv, DecisionsOK
    <3>2. ASSUME NEW s \in Savers, NEW host \in Hosts, known'[s][host] # NoKey
          PROVE  \/ VouchedFor(host, known'[s][host])
                 \/ <<host, known'[s][host]>> \in vouched'
      <4>1. CASE s = h /\ host = target[h]
        BY <3>1, <4>1 DEF Store
      <4>2. CASE ~(s = h /\ host = target[h])
        BY <1>1, <3>1, <3>2, <4>2 DEF Store
      <4>3. QED
        BY <4>1, <4>2
    <3>3. QED
      BY <1>1, <1>2, <3>1, <3>2
  <2>2. CASE answer[h] # "approve"
    BY <1>1, <1>2, <1>6, <2>2 DEF SettlePrompt
  <2>3. QED
    BY <2>1, <2>2
<1>7. ASSUME NEW s \in Savers, Truncate(s)
      PROVE  StoresOK'
  BY <1>1, <1>2, <1>7 DEF Truncate, Empty
<1>8. ASSUME NEW s \in Savers, Write(s)
      PROVE  StoresOK'
  <2>1. file' = known[s] \/ file' \in OnDisk
    BY <1>8 DEF Write
  <2>2. QED
    BY <1>1, <1>2, <1>3, <1>8, <2>1 DEF Write
<1>9. ASSUME NEW s \in Savers, SaveFails(s)
      PROVE  StoresOK'
  BY <1>1, <1>2, <1>3, <1>9 DEF SaveFails
<1>10. ASSUME NEW h \in Handshakes, NEW decision \in {"approve", "reject"},
              \/ TakePrompt(h, decision) \/ SendAnswer(h, decision)
              \/ ConnectFails(h) \/ AwaitEnds(h)
       PROVE  StoresOK'
  BY <1>1, <1>2, <1>10 DEF TakePrompt, SendAnswer, ConnectFails, AwaitEnds
<1>11. ASSUME NEW r \in Revocations, NEW host \in Hosts, Revoke(r, host)
       PROVE  StoresOK'
  <2>1. PICK copy \in OnDisk : known' = [known EXCEPT ![r] = [copy EXCEPT ![host] = NoKey]]
    BY <1>11 DEF Revoke
  <2>2. copy \in Store
    BY OnDiskIsStore
  <2>3. \A s \in Savers, other \in Hosts :
          known'[s][other] # NoKey => VouchedFor(other, known'[s][other])
    BY <1>1, <1>3, <2>1, <2>2 DEF Store
  <2>4. QED
    BY <1>1, <1>2, <1>11, <2>3 DEF Revoke
<1>12. CASE Restart \/ UNCHANGED vars
  BY <1>1, <1>2, <1>3, <1>12 DEF Restart
<1>13. QED
  BY <1>4, <1>5, <1>6, <1>7, <1>8, <1>9, <1>10, <1>11, <1>12
  DEF Next, HandshakeStep, SaveStep

\* Decisions on their way, and the handshakes that follow them.
LEMMA DecisionsStep ==
  ASSUME TypeOK, PromptsHaveAWaiter, TrustInv, [Next]_vars
  PROVE  DecisionsOK'
<1> USE HandshakesAssumption DEF TypeOK, Savers, GoTo, DecisionsOK, TrustInv
<1>1. /\ vouched \subseteq vouched'
      /\ \A host, key : VouchedFor(host, key) => VouchedFor(host, key)'
      /\ \A host \in Hosts : \A key : <<host, key>> \in vouched' => VouchedFor(host, key)'
  BY VouchedForStays DEF VouchedFor
<1>2. ASSUME NEW h \in Handshakes, NEW host \in Hosts, NEW key \in Keys,
             Connect(h, host, key)
      PROVE  DecisionsOK'
  BY <1>1, <1>2 DEF Connect
<1>3. ASSUME NEW h \in Handshakes, CheckServerKey(h)
      PROVE  DecisionsOK'
  <2>1. pc'[h] \in {"truncate", "admitted"} => VouchedFor(target[h], presented[h])'
    <3>1. CASE known[h][target[h]] = presented[h]
      BY <1>1, <1>3, <3>1, KeysAssumption
      DEF CheckServerKey, StoresOK, StoredKeysAreVouchedFor
    <3>2. CASE known[h][target[h]] # presented[h]
      BY <1>1, <1>3, <3>2 DEF CheckServerKey, Vouch
    <3>3. QED
      BY <3>1, <3>2
  <2>2. QED
    BY <1>1, <1>3, <2>1 DEF CheckServerKey
<1>4. ASSUME NEW h \in Handshakes,
             ConnectFails(h) \/ AwaitEnds(h) \/ SettlePrompt(h)
      PROVE  DecisionsOK'
  BY <1>1, <1>4 DEF ConnectFails, AwaitEnds, SettlePrompt
<1>5. ASSUME NEW s \in Savers, SaveStep(s)
      PROVE  DecisionsOK'
  BY <1>1, <1>5 DEF SaveStep, Truncate, Write, SaveFails, Saved
<1>6. ASSUME NEW h \in Handshakes, NEW decision \in {"approve", "reject"},
             TakePrompt(h, decision)
      PROVE  DecisionsOK'
  BY <1>1, <1>6 DEF TakePrompt, Vouch, PromptsHaveAWaiter
<1>7. ASSUME NEW h \in Handshakes, NEW decision \in {"approve", "reject"},
             SendAnswer(h, decision)
      PROVE  DecisionsOK'
  BY <1>1, <1>7 DEF SendAnswer
<1>8. ASSUME NEW r \in Revocations, NEW host \in Hosts, Revoke(r, host)
      PROVE  DecisionsOK'
  BY <1>1, <1>8 DEF Revoke
<1>9. CASE Restart
  BY <1>1, <1>9 DEF Restart, Ended
<1>10. CASE UNCHANGED vars
  BY <1>1, <1>10
<1>11. QED
  BY <1>2, <1>3, <1>4, <1>5, <1>6, <1>7, <1>8, <1>9, <1>10
  DEF Next, HandshakeStep

\* The inductive invariant of trust: what is stored or on its way to be stored was vouched for.
LEMMA TrustInvariant == Spec => []TrustInv
<1>1. Init => TrustInv
  BY DEF Init, TrustInv, StoresOK, StoredKeysAreVouchedFor, DecisionsOK, Empty, Savers
<1>2. TypeOK /\ PromptsHaveAWaiter /\ TrustInv /\ [Next]_vars => TrustInv'
  BY StoresStep, DecisionsStep DEF TrustInv
<1>3. QED
  BY <1>1, <1>2, BasicInvariant, PTL DEF Spec

\* Only keys that somebody decided to trust are ever found in known_hosts, and only
\* connections with such keys are let through.
THEOREM OnlyVouchedKeys == Spec => []KeysAreVouchedFor
<1>1. TrustInv => StoredKeysAreVouchedFor
  BY DEF TrustInv, StoresOK
<1>2. TrustInv => AdmittedKeysAreVouchedFor
  BY DEF TrustInv, DecisionsOK, AdmittedKeysAreVouchedFor
<1>3. TrustInv => KeysAreVouchedFor
  BY <1>1, <1>2 DEF KeysAreVouchedFor
<1>4. QED
  BY <1>3, TrustInvariant, PTL

-----------------------------------------------------------------------------
(***************************************************************************)
(* The language server of an editor.                                       *)
(***************************************************************************)
SocketOf == [state : {"connecting", "open", "closing", "closed"}, by : 0..LsMaxEffects]

Busy(s) == lsSocks[s].state # "closed"

\* A run of the effect that has not begun has nothing; a run with something under
\* way has no socket, and one with a socket has no other.
OneThingPerRun ==
  /\ lsMounted => lsEffect >= 1
  /\ \A s \in LsSlots : Busy(s) => lsSocks[s].by \in 1..lsEffect
  /\ \A f \in LsRuns : lsFlow[f] # "none" =>
       /\ f <= lsEffect
       /\ \A s \in LsSlots : Busy(s) => lsSocks[s].by # f
  /\ \A s, r \in LsSlots : Busy(s) /\ Busy(r) /\ lsSocks[s].by = lsSocks[r].by => s = r

LsInv == LsTypeOK /\ OneThingPerRun

LEMMA SocketFields ==
  ASSUME NEW c \in SocketOf, NEW x \in {"connecting", "open", "closing", "closed"}
  PROVE  /\ [c EXCEPT !.state = x] \in SocketOf
         /\ [c EXCEPT !.state = x].state = x /\ [c EXCEPT !.state = x].by = c.by
BY DEF SocketOf

\* A socket of which only the state changes.
LEMMA StateChanges ==
  ASSUME lsSocks \in [LsSlots -> SocketOf], NEW s \in LsSlots,
         NEW x \in {"connecting", "open", "closing", "closed"},
         NEW socks, socks = [lsSocks EXCEPT ![s].state = x]
  PROVE  /\ socks \in [LsSlots -> SocketOf]
         /\ socks[s].state = x /\ socks[s].by = lsSocks[s].by
         /\ \A r \in LsSlots \ {s} : socks[r] = lsSocks[r]
<1> DEFINE d == [lsSocks[s] EXCEPT !.state = x]
<1>1. d \in SocketOf /\ d.state = x /\ d.by = lsSocks[s].by
  BY SocketFields
<1>2. socks = [lsSocks EXCEPT ![s] = d]
  OBVIOUS
<1> HIDE DEF d
<1>3. QED
  BY <1>1, <1>2

\* The cleanup of a run leaves its sockets, open or not.
LEMMA CleanupKeeps ==
  ASSUME LsTypeOK, LsCleanup
  PROVE  /\ lsSocks' \in [LsSlots -> SocketOf] /\ lsShutdown' = TRUE
         /\ \A s \in LsSlots : /\ lsSocks'[s].by = lsSocks[s].by
                               /\ Busy(s)' <=> Busy(s)
<1>1. lsSocks \in [LsSlots -> SocketOf]
  BY DEF LsTypeOK, SocketOf
<1>2. CASE lsRef # "none" /\ lsSocks[lsRef].state = "open"
  <2>1. lsRef \in LsSlots /\ lsSocks' = [lsSocks EXCEPT ![lsRef].state = "closing"]
    BY <1>2 DEF LsTypeOK, LsCleanup
  <2>2. QED
    BY <1>1, <1>2, <2>1, StateChanges DEF Busy, LsCleanup
<1>3. CASE ~(lsRef # "none" /\ lsSocks[lsRef].state = "open")
  BY <1>1, <1>3 DEF LsCleanup, Busy
<1>4. QED
  BY <1>2, <1>3

\* A run connects only once what it had under way has ended.
LEMMA ConnectKeeps ==
  ASSUME LsInv, NEW f \in LsRuns, lsFlow[f] # "none", LsFlowEnds(f), LsConnect(f),
         UNCHANGED <<lsHostVars, lsRunVars, lsTries, lsAsked>>
  PROVE  LsInv'
<1> USE DEF lsHostVars, lsRunVars
<1>1. lsSocks \in [LsSlots -> SocketOf] /\ lsSocks' \in [LsSlots -> SocketOf] => LsTypeOK'
  <2>1. lsFlow' \in [LsRuns -> {"none", "listing", "retrying"}]
    BY DEF LsFlowEnds, LsInv, LsTypeOK
  <2>2. lsRef' \in LsSlots \cup {"none"} /\ (lsRef' # "none" => lsSocks'[lsRef'].state # "closed")
    <3>1. CASE LsNewSocket(f)
      <4>1. PICK s \in LsFree : /\ lsSocks' = [lsSocks EXCEPT ![s] =
                                                 [state |-> "connecting", by |-> f]]
                                /\ lsRef' = s
        BY <3>1 DEF LsNewSocket
      <4>2. QED
        BY <4>1 DEF LsFree, LsInv, LsTypeOK
    <3>2. CASE UNCHANGED <<lsSocks, lsRef>>
      BY <3>2 DEF LsInv, LsTypeOK
    <3>3. QED
      BY <3>1, <3>2 DEF LsConnect
  <2>3. lsStatus' \in {"idle", "connecting", "connected", "unavailable", "error"}
    BY DEF LsConnect, LsNewSocket, LsInv, LsTypeOK
  <2>4. QED
    BY <2>1, <2>2, <2>3 DEF LsInv, LsTypeOK, SocketOf
<1>2. /\ lsSocks \in [LsSlots -> SocketOf]
      /\ lsFlow' = [lsFlow EXCEPT ![f] = "none"] /\ DOMAIN lsFlow = LsRuns
      /\ f \in 0..LsMaxEffects
  BY LsAssumption DEF LsInv, LsTypeOK, SocketOf, LsFlowEnds, LsRuns
<1>3. CASE lsSocks' = lsSocks
  BY <1>1, <1>2, <1>3 DEF LsInv, OneThingPerRun, Busy
<1>4. CASE LsNewSocket(f) /\ ~Cancelled(f)
  <2>1. PICK s \in LsFree :
          lsSocks' = [lsSocks EXCEPT ![s] = [state |-> "connecting", by |-> f]]
    BY <1>4 DEF LsNewSocket
  <2>2. [state |-> "connecting", by |-> f] \in SocketOf
    BY <1>2 DEF SocketOf
  <2>3. /\ s \in LsSlots /\ ~Busy(s) /\ f = lsEffect /\ f \in 1..lsEffect
    BY <1>4, LsAssumption DEF LsFree, Busy, Cancelled, LsRuns, LsInv, LsTypeOK
  <2>4. /\ lsSocks' \in [LsSlots -> SocketOf]
        /\ lsSocks'[s].state = "connecting" /\ lsSocks'[s].by = f
        /\ \A r \in LsSlots \ {s} : lsSocks'[r] = lsSocks[r]
    BY <1>2, <2>1, <2>2, <2>3
  <2>5. OneThingPerRun'
    BY <1>2, <2>3, <2>4 DEF LsInv, OneThingPerRun, Busy
  <2>6. QED
    BY <1>1, <1>2, <2>4, <2>5 DEF LsInv
<1>5. QED
  BY <1>3, <1>4 DEF LsConnect

\* Every step keeps the types and the one thing of every run.
LEMMA LsStep == LsInv /\ [LsNext]_lsVars => LsInv'
<1> SUFFICES ASSUME LsInv, [LsNext]_lsVars PROVE LsInv'
  OBVIOUS
<1> USE DEF lsHostVars, lsRunVars, LsClientUnchanged
<1>1. ASSUME NEW i \in LsInstalls,
             InstallAsked(i) \/ InstallStarts(i) \/ InstallExtracts(i) \/ InstallEnds(i)
      PROVE  LsInv'
  <2>1. /\ lsInstall' \in [LsInstalls ->
             {"off", "checked", "refused", "running", "testing", "ended"}]
        /\ lsEntry' \in BOOLEAN /\ lsBinary' \in BOOLEAN
    BY <1>1 DEF InstallAsked, InstallStarts, InstallExtracts, InstallEnds, LsInv, LsTypeOK
  <2>2. UNCHANGED <<lsRestarts, lsRunVars, lsFlow, lsTries, lsSocks, lsRef, lsAsked, lsStatus>>
    BY <1>1 DEF InstallAsked, InstallStarts, InstallExtracts, InstallEnds
  <2>3. LsTypeOK'
    BY <2>1, <2>2 DEF LsInv, LsTypeOK
  <2>4. OneThingPerRun'
    BY <2>2 DEF LsInv, OneThingPerRun, Busy
  <2>5. QED
    BY <2>3, <2>4 DEF LsInv
<1>2. CASE Uninstalled
  BY <1>2 DEF Uninstalled, LsInv, LsTypeOK, OneThingPerRun, Busy
<1>0. lsSocks \in [LsSlots -> SocketOf]
  BY DEF LsInv, LsTypeOK, SocketOf
<1>3. CASE AgentRestarts
  <2>1. \A s \in LsSlots : /\ lsSocks'[s] \in SocketOf /\ lsSocks'[s].by = lsSocks[s].by
                           /\ Busy(s)' <=> Busy(s)
    <3> SUFFICES ASSUME NEW s \in LsSlots
                 PROVE  /\ lsSocks'[s] \in SocketOf /\ lsSocks'[s].by = lsSocks[s].by
                        /\ Busy(s)' <=> Busy(s)
      OBVIOUS
    <3> DEFINE d == [lsSocks[s] EXCEPT !.state = "closing"]
    <3>1. d \in SocketOf /\ d.state = "closing" /\ d.by = lsSocks[s].by
      BY <1>0, SocketFields
    <3>2. lsSocks'[s] = IF lsSocks[s].state = "closed" THEN lsSocks[s] ELSE d
      BY <1>3 DEF AgentRestarts
    <3> HIDE DEF d
    <3>3. QED
      BY <1>0, <3>1, <3>2 DEF Busy
  <2>2. lsSocks' \in [LsSlots -> SocketOf]
    BY <1>3, <2>1 DEF AgentRestarts
  <2>3. OneThingPerRun'
    BY <1>3, <2>1, ZenonT(40) DEF AgentRestarts, LsInv, OneThingPerRun
  <2>4. lsRef' # "none" => lsSocks'[lsRef'].state # "closed"
    BY <1>3, <2>1 DEF AgentRestarts, LsInv, LsTypeOK, Busy
  <2>5. lsRestarts' \in 0..LsMaxRestarts
    BY <1>3, LsAssumption DEF AgentRestarts, LsInv, LsTypeOK
  <2>6. QED
    BY <1>3, <2>2, <2>3, <2>4, <2>5 DEF AgentRestarts, LsInv, LsTypeOK, SocketOf
<1>4. CASE LsMount
  BY <1>4, LsAssumption DEF LsMount, LsInv, LsTypeOK, OneThingPerRun, Busy, LsRuns
<1>5. CASE LsRunAgain \/ LsUnmount
  <2>1. LsCleanup
    BY <1>5 DEF LsRunAgain, LsUnmount
  <2>2. /\ lsSocks' \in [LsSlots -> SocketOf] /\ lsShutdown' = TRUE
        /\ \A s \in LsSlots : /\ lsSocks'[s].by = lsSocks[s].by
                              /\ Busy(s)' <=> Busy(s)
    BY <2>1, CleanupKeeps DEF LsInv
  <2>3. LsTypeOK'
    <3>1. lsFlow' \in [LsRuns -> {"none", "listing", "retrying"}]
      BY <1>5 DEF LsRunAgain, LsUnmount, LsInv, LsTypeOK
    <3>2. lsEffect' \in 0..LsMaxEffects
      BY <1>5, LsAssumption DEF LsRunAgain, LsUnmount, LsInv, LsTypeOK
    <3>3. lsMounted' \in BOOLEAN
      BY <1>5 DEF LsRunAgain, LsUnmount, LsInv, LsTypeOK
    <3>4. lsRef' # "none" => lsSocks'[lsRef'].state # "closed"
      BY <1>5, <2>2 DEF LsRunAgain, LsUnmount, LsInv, LsTypeOK, Busy
    <3>5. UNCHANGED <<lsHostVars, lsTries, lsRef, lsAsked, lsStatus>>
      BY <1>5 DEF LsRunAgain, LsUnmount
    <3>6. /\ lsEntry' \in BOOLEAN /\ lsBinary' \in BOOLEAN /\ lsShutdown' \in BOOLEAN
          /\ lsInstall' \in [LsInstalls ->
               {"off", "checked", "refused", "running", "testing", "ended"}]
          /\ lsRestarts' \in 0..LsMaxRestarts
          /\ lsTries' \in 0..LsMaxAttempts /\ lsRef' \in LsSlots \cup {"none"}
          /\ lsAsked' \in [LsSlots -> LsSlots \cup {"lost", "none"}]
          /\ lsStatus' \in {"idle", "connecting", "connected", "unavailable", "error"}
      BY <2>2, <3>5 DEF LsInv, LsTypeOK
    <3>7. QED
      BY <2>2, <3>1, <3>2, <3>3, <3>4, <3>6 DEF LsTypeOK, SocketOf
  <2>4. OneThingPerRun'
    <3>1. CASE LsUnmount
      BY <3>1, <2>2 DEF LsUnmount, LsInv, OneThingPerRun
    <3>2. CASE LsRunAgain
      <4>1. /\ lsEffect \in Nat /\ lsEffect' = lsEffect + 1 /\ lsEffect + 1 \in LsRuns
            /\ lsFlow' = [lsFlow EXCEPT ![lsEffect + 1] = "listing"]
            /\ DOMAIN lsFlow = LsRuns /\ UNCHANGED lsMounted
        BY <3>2, LsAssumption DEF LsRunAgain, LsInv, LsTypeOK, LsRuns
      <4>2. QED
        BY <2>2, <4>1 DEF LsInv, OneThingPerRun, LsRuns
    <3>3. QED
      BY <1>5, <3>1, <3>2
  <2>5. QED
    BY <2>3, <2>4 DEF LsInv
<1>6. ASSUME NEW f \in LsRuns, LsListed(f) PROVE LsInv'
  <2>1. CASE LsConnect(f)
    BY <1>6, <2>1, ConnectKeeps DEF LsListed
  <2>2. CASE UNCHANGED <<lsSocks, lsRef>>
    <3>1. lsStatus' \in {"idle", "connecting", "connected", "unavailable", "error"}
      BY <1>6 DEF LsListed, LsConnect, LsNewSocket, LsInv, LsTypeOK
    <3>2. QED
      BY <1>6, <2>2, <3>1 DEF LsListed, LsFlowEnds, LsInv, LsTypeOK, OneThingPerRun, Busy
  <2>3. QED
    BY <1>6, <2>1, <2>2 DEF LsListed
<1>7. ASSUME NEW f \in LsRuns, LsRetry(f) PROVE LsInv'
  BY <1>7, ConnectKeeps DEF LsRetry
<1>8. ASSUME NEW s \in LsSlots, LsOpened(s) PROVE LsInv'
  <2>1. /\ lsSocks' \in [LsSlots -> SocketOf]
        /\ lsSocks'[s].state = "open" /\ lsSocks'[s].by = lsSocks[s].by
        /\ \A r \in LsSlots \ {s} : lsSocks'[r] = lsSocks[r]
    BY <1>0, <1>8, StateChanges DEF LsOpened
  <2>2. lsTries' \in 0..LsMaxAttempts /\ lsAsked' \in [LsSlots -> LsSlots \cup {"lost", "none"}]
    BY <1>8, LsAssumption DEF LsOpened, LsInv, LsTypeOK
  <2>3. LsTypeOK'
    BY <1>8, <2>1, <2>2 DEF LsOpened, LsInv, LsTypeOK, SocketOf
  <2>4. OneThingPerRun'
    BY <1>8, <2>1 DEF LsOpened, LsInv, OneThingPerRun, Busy
  <2>5. QED
    BY <2>3, <2>4 DEF LsInv
<1>9. ASSUME NEW s \in LsSlots, LsAnswered(s) \/ LsTimedOut(s) PROVE LsInv'
  <2>1. lsAsked' \in [LsSlots -> LsSlots \cup {"lost", "none"}]
    BY <1>9 DEF LsAnswered, LsTimedOut, LsInv, LsTypeOK
  <2>2. lsStatus' \in {"idle", "connecting", "connected", "unavailable", "error"}
    BY <1>9 DEF LsAnswered, LsTimedOut
  <2>3. LsTypeOK'
    BY <1>9, <2>1, <2>2 DEF LsAnswered, LsTimedOut, LsInv, LsTypeOK
  <2>4. OneThingPerRun'
    BY <1>9 DEF LsAnswered, LsTimedOut, LsInv, OneThingPerRun, Busy
  <2>5. QED
    BY <2>3, <2>4 DEF LsInv
<1>10. ASSUME NEW s \in LsSlots, LsClosed(s) PROVE LsInv'
  <2>1. /\ lsSocks' \in [LsSlots -> SocketOf]
        /\ lsSocks'[s].state = "closed" /\ lsSocks'[s].by = lsSocks[s].by
        /\ \A r \in LsSlots \ {s} : lsSocks'[r] = lsSocks[r]
    BY <1>0, <1>10, StateChanges DEF LsClosed
  <2>2. /\ lsSocks[s].by \in 1..lsEffect /\ lsSocks[s].by \in LsRuns /\ Busy(s)
    BY <1>10, LsAssumption DEF LsClosed, LsInv, LsTypeOK, OneThingPerRun, Busy, LsRuns
  <2>3. /\ \/ UNCHANGED lsFlow
           \/ lsFlow' = [lsFlow EXCEPT ![lsSocks[s].by] = "retrying"]
        /\ lsTries' \in 0..LsMaxAttempts
    BY <1>10, LsAssumption DEF LsClosed, LsInv, LsTypeOK
  <2>4. LsTypeOK'
    <3>1. lsAsked' \in [LsSlots -> LsSlots \cup {"lost", "none"}]
      BY <1>10 DEF LsClosed, LsUnanswered, LsInv, LsTypeOK
    <3>2. QED
      BY <1>10, <2>1, <2>2, <2>3, <3>1 DEF LsClosed, LsInv, LsTypeOK, SocketOf
  <2>5. OneThingPerRun'
    BY <1>10, <2>1, <2>2, <2>3 DEF LsClosed, LsInv, LsTypeOK, OneThingPerRun, Busy
  <2>6. QED
    BY <2>4, <2>5 DEF LsInv
<1>11. CASE UNCHANGED lsVars
  BY <1>11 DEF lsVars, LsInv, LsTypeOK, OneThingPerRun, Busy
<1>12. QED
  BY <1>1, <1>2, <1>3, <1>4, <1>5, <1>6, <1>7, <1>8, <1>9, <1>10, <1>11 DEF LsNext

LEMMA LsInvariant == LsSpec => []LsInv
<1>1. LsInit => LsInv
  <2> SUFFICES ASSUME LsInit PROVE LsInv
    OBVIOUS
  <2>1. LsNoSocket \in SocketOf /\ LsNoSocket.state = "closed"
    BY LsAssumption DEF LsNoSocket, SocketOf
  <2>2. lsSocks \in [LsSlots -> SocketOf] /\ \A s \in LsSlots : ~Busy(s)
    BY <2>1 DEF LsInit, Busy
  <2>3. LsTypeOK
    <3>1. 0 \in 0..LsMaxEffects /\ 0 \in 0..LsMaxRestarts /\ 0 \in 0..LsMaxAttempts
      BY LsAssumption
    <3>2. QED
      BY <2>2, <3>1 DEF LsInit, LsTypeOK, SocketOf
  <2>4. OneThingPerRun
    BY <2>2 DEF LsInit, OneThingPerRun
  <2>5. QED
    BY <2>3, <2>4 DEF LsInv
<1>2. QED
  BY <1>1, LsStep, PTL DEF LsSpec

\* The variables of the language server and its editor keep their types.
THEOREM LanguageTypes == LsSpec => []LsTypeOK
BY LsInvariant, PTL DEF LsInv

\* Every run of the effect of useLspClient has one connection at most, for any number
\* of runs, sockets and attempts.
THEOREM RunsHaveOneConnection == LsSpec => []OneConnectionPerRun
<1>1. LsInv => OneConnectionPerRun
  <2> SUFFICES ASSUME LsInv, NEW f \in LsRuns
               PROVE  /\ Cardinality(LsBusy(f)) <= 1
                      /\ lsFlow[f] # "none" => LsBusy(f) = {}
    BY DEF OneConnectionPerRun
  <2>1. CASE LsBusy(f) = {}
    BY <2>1, FS_EmptySet
  <2>2. CASE LsBusy(f) # {}
    <3>1. PICK s : s \in LsBusy(f)
      BY <2>2
    <3>2. LsBusy(f) = {s}
      BY <3>1 DEF LsBusy, LsInv, OneThingPerRun, Busy
    <3>3. lsFlow[f] = "none"
      BY <3>1 DEF LsBusy, LsInv, OneThingPerRun, Busy
    <3>4. QED
      <4>1. Cardinality(LsBusy(f)) = 1
        BY <3>2, FS_Singleton
      <4>2. QED
        BY <3>3, <4>1
  <2>3. QED
    BY <2>1, <2>2
<1>2. QED
  BY <1>1, LsInvariant, PTL

-----------------------------------------------------------------------------
(***************************************************************************)
(* The feed of the task list.                                              *)
(***************************************************************************)
TfListOf == [TfTasks -> TfStatuses \cup {"none", "deleted"}]
ListMessage == [what : {"init"}, list : TfListOf]
EventMessage == [what : {"event"}, of : TfTasks, is : TfStatuses]
TfMessage == ListMessage \cup EventMessage
FeedState == {"closed", "connecting", "open", "closing"}
FeedOf == [state : FeedState, listed : BOOLEAN, queue : Seq(TfMessage)]

\* What is on the way on a socket is a list or an event.
TfInv == TfTypeOK /\ tfSocks \in [TfSlots -> FeedOf]

LEMMA ClosedFeed == TfClosed \in FeedOf /\ TfClosed.state = "closed"
BY EmptySeq DEF TfClosed, FeedOf, FeedState

\* A socket of which only the state changes.
LEMMA FeedStateChanges ==
  ASSUME tfSocks \in [TfSlots -> FeedOf], NEW s \in TfSlots, NEW x \in FeedState,
         tfSocks' = [tfSocks EXCEPT ![s].state = x]
  PROVE  /\ tfSocks' \in [TfSlots -> FeedOf]
         /\ tfSocks'[s].state = x
         /\ \A r \in TfSlots \ {s} : tfSocks'[r] = tfSocks[r]
<1> DEFINE d == [tfSocks[s] EXCEPT !.state = x]
<1>1. d \in FeedOf /\ d.state = x
  BY DEF FeedOf
<1>2. tfSocks' = [tfSocks EXCEPT ![s] = d]
  OBVIOUS
<1> HIDE DEF d
<1>3. QED
  BY <1>1, <1>2

\* An event goes out on the sockets that are open and changes nothing else of them.
LEMMA BroadcastKeeps ==
  ASSUME TfInv, NEW t \in TfTasks, NEW status \in TfStatuses, Broadcast(t, status)
  PROVE  /\ tfSocks' \in [TfSlots -> FeedOf]
         /\ \A s \in TfSlots : tfSocks'[s].state = tfSocks[s].state
<1> DEFINE m == [what |-> "event", of |-> t, is |-> status]
           sent(s) == [tfSocks[s] EXCEPT !.queue = Append(@, m)]
<1>1. m \in TfMessage
  BY DEF TfMessage, EventMessage
<1>2. ASSUME NEW s \in TfSlots
      PROVE  sent(s) \in FeedOf /\ sent(s).state = tfSocks[s].state
  <2>1. tfSocks[s] \in FeedOf /\ tfSocks[s].queue \in Seq(TfMessage)
    BY DEF TfInv, FeedOf
  <2> HIDE DEF m
  <2>2. Append(tfSocks[s].queue, m) \in Seq(TfMessage)
    BY <1>1, <2>1, AppendProperties
  <2> DEFINE q == Append(tfSocks[s].queue, m)
  <2>3. sent(s) = [tfSocks[s] EXCEPT !.queue = q]
    OBVIOUS
  <2> HIDE DEF q
  <2>4. q \in Seq(TfMessage)
    BY <2>2 DEF q
  <2>5. [tfSocks[s] EXCEPT !.queue = q] \in FeedOf
        /\ [tfSocks[s] EXCEPT !.queue = q].state = tfSocks[s].state
    BY <2>1, <2>4 DEF FeedOf
  <2>6. QED
    BY <2>3, <2>5
<1>3. \A s \in TfSlots : tfSocks'[s] \in {tfSocks[s], sent(s)}
  BY DEF Broadcast
<1>4. tfSocks' = [s \in TfSlots |-> tfSocks'[s]]
  BY DEF Broadcast
<1> HIDE DEF sent
<1>5. QED
  BY <1>2, <1>3, <1>4 DEF TfInv

\* moduleConnect: the socket it makes was closed, and is the one of moduleWs.
LEMMA ModuleConnectKeeps ==
  ASSUME TfInv, ModuleConnect
  PROVE  /\ tfSocks' \in [TfSlots -> FeedOf]
         /\ tfWs' \in TfSlots \cup {"none"} /\ (tfWs' # "none" => TfLive')
         /\ tfStay' \in BOOLEAN /\ tfOpening' \in BOOLEAN
<1>1. CASE UNCHANGED <<tfWs, tfStay, tfOpening, tfSocks>>
  BY <1>1 DEF TfInv, TfTypeOK, TfLive
<1>2. CASE ~UNCHANGED <<tfWs, tfStay, tfOpening, tfSocks>>
  <2>1. PICK s \in TfFree : /\ tfWs' = s /\ tfStay' = TRUE /\ tfOpening' = TRUE
                            /\ tfSocks' = [tfSocks EXCEPT ![s].state = "connecting"]
    BY <1>2 DEF ModuleConnect
  <2>2. s \in TfSlots
    BY DEF TfFree
  <2>3. tfSocks' \in [TfSlots -> FeedOf] /\ tfSocks'[s].state = "connecting"
    BY <2>1, <2>2, FeedStateChanges DEF TfInv, FeedState
  <2>4. QED
    BY <2>1, <2>2, <2>3 DEF TfLive
<1>3. QED
  BY <1>1, <1>2

\* A message, taken off its socket, changes rows to what the agent said of its tasks.
LEMMA ReceivedKeeps ==
  ASSUME TfInv, NEW s \in TfSlots, Received(s)
  PROVE  /\ tfSocks' \in [TfSlots -> FeedOf]
         /\ \A r \in TfSlots : tfSocks'[r].state = tfSocks[r].state
         /\ tfRows' \in [TfTasks -> SUBSET TfStatuses]
         /\ \A t \in tfDeleted : tfRows[t] = {} => tfRows'[t] = {}
<1> DEFINE m == Head(tfSocks[s].queue)
           q == Tail(tfSocks[s].queue)
<1>1. tfSocks[s] \in FeedOf /\ tfSocks[s].queue \in Seq(TfMessage) /\ tfSocks[s].queue # <<>>
  BY DEF TfInv, FeedOf, Received
<1>2. m \in TfMessage /\ q \in Seq(TfMessage)
  BY <1>1, HeadTailProperties
<1>3. /\ tfSocks' = [tfSocks EXCEPT ![s].queue = q]
      /\ \/ m.what = "init" /\ SetTasks(m.list)
         \/ m.what = "event" /\ UpdateTask(m.of, m.is)
  BY DEF Received
<1> HIDE DEF m, q
<1>4. /\ tfSocks' \in [TfSlots -> FeedOf]
      /\ \A r \in TfSlots : tfSocks'[r].state = tfSocks[r].state
  <2> DEFINE d == [tfSocks[s] EXCEPT !.queue = q]
  <2>1. d \in FeedOf /\ d.state = tfSocks[s].state
    BY <1>1, <1>2 DEF FeedOf
  <2>2. tfSocks' = [tfSocks EXCEPT ![s] = d]
    BY <1>3
  <2> HIDE DEF d
  <2>3. QED
    BY <2>1, <2>2 DEF TfInv
<1>5. tfRows \in [TfTasks -> SUBSET TfStatuses] /\ tfDeleted \subseteq TfTasks
  BY DEF TfInv, TfTypeOK
<1>6. CASE m.what = "init" /\ SetTasks(m.list)
  <2>1. m.list \in TfListOf
    BY <1>2, <1>6 DEF TfMessage, ListMessage, EventMessage
  <2>2. \A t \in TfTasks : m.list[t] \in TfStatuses \/ m.list[t] \in {"none", "deleted"}
    BY <2>1 DEF TfListOf
  <2>3. QED
    BY <1>4, <1>5, <1>6, <2>2 DEF SetTasks
<1>7. CASE m.what = "event" /\ UpdateTask(m.of, m.is)
  <2>1. m.is \in TfStatuses
    BY <1>2, <1>7 DEF TfMessage, ListMessage, EventMessage
  <2>2. QED
    BY <1>4, <1>5, <1>7, <2>1 DEF UpdateTask
<1>8. QED
  BY <1>3, <1>6, <1>7

\* Every step keeps the types, of the messages on the way too.
LEMMA TfStep == TfInv /\ [TfNext]_tfVars => TfInv'
<1> SUFFICES ASSUME TfInv, [TfNext]_tfVars PROVE TfInv'
  OBVIOUS
<1> USE DEF tfAgentVars, tfListVars, tfFeedVars
<1>0. tfSocks \in [TfSlots -> FeedOf] /\ TfTypeOK
  BY DEF TfInv
<1>a. ASSUME UNCHANGED <<tfFeedVars, tfAgentVars, tfCreate, tfDeleted>>,
             tfRows' \in [TfTasks -> SUBSET TfStatuses],
             tfSocks' \in [TfSlots -> FeedOf],
             \A s \in TfSlots : tfSocks'[s].state = tfSocks[s].state
      PROVE  TfInv'
  BY <1>0, <1>a DEF TfInv, TfTypeOK, TfLive
<1>b. ASSUME UNCHANGED <<tfFeedVars, tfCreate, tfRows, tfDeleted, tfSocks>>,
             tfTask' \in [TfTasks -> TfStatuses \cup {"none", "deleted"}],
             tfRunner' \in [TfTasks -> TfPlaces], tfCancel' \subseteq TfTasks
      PROVE  TfInv'
  BY <1>0, <1>b DEF TfInv, TfTypeOK, TfLive
<1>1. ASSUME NEW t \in TfTasks,
             TaskMade(t) \/ TaskDropped(t) \/ CancelSees(t) \/ CancelWrites(t)
      PROVE  TfInv'
  BY <1>0, <1>b, <1>1
  DEF TaskMade, TaskDropped, CancelSees, CancelWrites, TfTypeOK, TfStatuses
<1>2. ASSUME NEW t \in TfTasks, RunnerLooks(t) \/ RunnerStarts(t) \/ RunnerEnds(t)
      PROVE  TfInv'
  <2>1. tfTask[t] \in TfStatuses \cup {"none", "deleted"}
    BY <1>0 DEF TfTypeOK
  <2>2. PICK status \in TfStatuses \cup {"none", "deleted"}, places \in SUBSET TfPlaces :
          RunnerMoves(t, status, places)
    BY <1>2, <2>1 DEF RunnerLooks, RunnerStarts, RunnerEnds, TfPlaces, TfStatuses
  <2>3. /\ tfTask' \in [TfTasks -> TfStatuses \cup {"none", "deleted"}]
        /\ tfRunner' \in [TfTasks -> TfPlaces]
    BY <1>0, <2>2 DEF RunnerMoves, TfTypeOK
  <2>4. QED
    BY <1>0, <1>b, <1>2, <2>3 DEF RunnerLooks, RunnerStarts, RunnerEnds, TfTypeOK
<1>c. ASSUME NEW t \in TfTasks, RunnerTells(t) PROVE TfInv'
  <2>1. PICK status \in TfStatuses, place \in {"working", "done"} :
          RunnerMoves(t, tfTask[t], {place}) /\ Broadcast(t, status)
    BY <1>c DEF RunnerTells, TfStatuses
  <2>2. /\ tfSocks' \in [TfSlots -> FeedOf]
        /\ \A s \in TfSlots : tfSocks'[s].state = tfSocks[s].state
    BY <2>1, BroadcastKeeps
  <2>3. /\ tfTask' \in [TfTasks -> TfStatuses \cup {"none", "deleted"}]
        /\ tfRunner' \in [TfTasks -> TfPlaces]
    BY <1>0, <2>1 DEF RunnerMoves, TfTypeOK, TfPlaces
  <2>4. QED
    BY <1>0, <1>c, <2>2, <2>3 DEF RunnerTells, TfInv, TfTypeOK, TfLive
<1>3. ASSUME NEW t \in TfTasks, CreateAsked(t) \/ CreateAnswered(t) \/ DeleteTask(t)
      PROVE  TfInv'
  <2>1. tfRows' \in [TfTasks -> SUBSET TfStatuses]
    BY <1>0, <1>3 DEF CreateAsked, CreateAnswered, DeleteTask, TfTypeOK, TfStatuses
  <2>2. tfCreate' \in [TfTasks -> {"no", "asked", "answered"}] /\ tfDeleted' \subseteq TfTasks
    BY <1>0, <1>3 DEF CreateAsked, CreateAnswered, DeleteTask, TfTypeOK
  <2>3. QED
    BY <1>0, <1>3, <2>1, <2>2
    DEF CreateAsked, CreateAnswered, DeleteTask, TfInv, TfTypeOK, TfLive
<1>4. CASE Subscribe
  <2>1. tfSubs' \in 0..TfMaxSubs
    BY <1>0, <1>4, TfAssumption DEF Subscribe, TfTypeOK
  <2>2. QED
    BY <1>0, <1>4, <2>1, ModuleConnectKeeps DEF Subscribe, TfInv, TfTypeOK
<1>5. CASE Unsubscribe
  <2>1. tfSubs' \in 0..TfMaxSubs
    BY <1>0, <1>5, TfAssumption DEF Unsubscribe, TfTypeOK
  <2>2. tfLeaving' \in BOOLEAN
    BY <1>5 DEF Unsubscribe
  <2>3. QED
    BY <1>0, <1>5, <2>1, <2>2 DEF Unsubscribe, TfInv, TfTypeOK, TfLive
<1>6. CASE Disconnects
  <2>1. CASE UNCHANGED <<tfWs, tfStay, tfSocks>>
    BY <1>0, <1>6, <2>1 DEF Disconnects, TfInv, TfTypeOK, TfLive
  <2>2. CASE tfWs' = "none"
    <3> DEFINE d == [TfClosed EXCEPT !.state = "closing"]
    <3>1. d \in FeedOf
      BY ClosedFeed DEF FeedOf, FeedState
    <3>2. tfSocks' \in {tfSocks, [tfSocks EXCEPT ![tfWs] = d]}
      BY <1>6 DEF Disconnects
    <3> HIDE DEF d
    <3>3. tfSocks' \in [TfSlots -> FeedOf]
      BY <1>0, <3>1, <3>2
    <3>4. tfStay' \in BOOLEAN /\ tfComing' \in BOOLEAN /\ tfLeaving' \in BOOLEAN
      BY <1>0, <1>6 DEF Disconnects, TfTypeOK
    <3>5. QED
      BY <1>0, <1>6, <2>2, <3>3, <3>4 DEF Disconnects, TfInv, TfTypeOK
  <2>3. QED
    BY <1>6, <2>1, <2>2 DEF Disconnects
<1>7. CASE Reconnects
  <2>1. CASE ModuleConnect
    BY <1>0, <1>7, <2>1, ModuleConnectKeeps DEF Reconnects, TfInv, TfTypeOK
  <2>2. CASE UNCHANGED <<tfWs, tfStay, tfOpening, tfSocks>>
    BY <1>0, <1>7, <2>2 DEF Reconnects, TfInv, TfTypeOK, TfLive
  <2>3. QED
    BY <1>7, <2>1, <2>2 DEF Reconnects
<1>8. ASSUME NEW s \in TfSlots, FeedOpened(s) PROVE TfInv'
  <2>1. /\ tfSocks' \in [TfSlots -> FeedOf] /\ tfSocks'[s].state = "open"
        /\ \A r \in TfSlots \ {s} : tfSocks'[r] = tfSocks[r]
    BY <1>0, <1>8, FeedStateChanges DEF FeedOpened, FeedState
  <2>2. tfWs # "none" => TfLive'
    BY <1>0, <1>8, <2>1 DEF FeedOpened, TfTypeOK, TfLive
  <2>3. QED
    BY <1>0, <1>8, <2>1, <2>2 DEF FeedOpened, TfInv, TfTypeOK
<1>9. ASSUME NEW s \in TfSlots, FeedClosed(s) PROVE TfInv'
  <2>1. tfSocks' \in [TfSlots -> FeedOf]
    BY <1>0, <1>9, ClosedFeed DEF FeedClosed
  <2>2. tfComing' \in BOOLEAN
    BY <1>9 DEF FeedClosed
  <2>3. QED
    BY <1>0, <1>9, <2>1, <2>2 DEF FeedClosed, TfInv, TfTypeOK
<1>10. ASSUME NEW s \in TfSlots, ListSent(s) PROVE TfInv'
  <2> DEFINE m == [what |-> "init", list |-> tfTask]
             q == <<m>> \o tfSocks[s].queue
             d == [tfSocks[s] EXCEPT !.listed = TRUE, !.queue = q]
  <2>1. m \in TfMessage
    BY <1>0 DEF TfMessage, ListMessage, TfListOf, TfTypeOK
  <2>2. tfSocks' = [tfSocks EXCEPT ![s] = d]
    BY <1>10 DEF ListSent
  <2> HIDE DEF m
  <2>3. q \in Seq(TfMessage)
    <3>1. tfSocks[s].queue \in Seq(TfMessage) /\ <<m>> \in Seq(TfMessage)
      BY <1>0, <2>1 DEF FeedOf
    <3>2. QED
      BY <3>1, ConcatProperties
  <2> HIDE DEF q
  <2>4. d \in FeedOf /\ d.state = tfSocks[s].state
    BY <1>0, <2>3 DEF FeedOf
  <2> HIDE DEF d
  <2>5. QED
    BY <1>0, <1>a, <1>10, <2>2, <2>4 DEF ListSent, TfTypeOK
<1>11. ASSUME NEW s \in TfSlots, Received(s) PROVE TfInv'
  BY <1>a, <1>11, ReceivedKeeps DEF Received
<1>12. CASE UNCHANGED tfVars
  BY <1>0, <1>12 DEF tfVars, TfInv, TfTypeOK, TfLive
<1>13. QED
  BY <1>1, <1>2, <1>c, <1>3, <1>4, <1>5, <1>6, <1>7, <1>8, <1>9, <1>10, <1>11, <1>12
  DEF TfNext

LEMMA TfInitial == TfInit => TfInv
<1> SUFFICES ASSUME TfInit PROVE TfInv
  OBVIOUS
<1>1. tfSocks \in [TfSlots -> FeedOf]
  BY ClosedFeed DEF TfInit
<1>2. 0 \in 0..TfMaxSubs
  BY TfAssumption
<1>3. TfTypeOK
  BY <1>2 DEF TfInit, TfTypeOK, TfPlaces
<1>4. QED
  BY <1>1, <1>3 DEF TfInv

LEMMA TfInvariant == TfSpec => []TfInv
BY TfInitial, TfStep, PTL DEF TfSpec

\* The variables of the task list keep their types.
THEOREM FeedTypes == TfSpec => []TfTypeOK
BY TfInvariant, PTL DEF TfInv

\* Nothing under way on a socket shows a deleted task again, for any number of tasks,
\* sockets and components: only the answer to the request that made it can.
THEOREM DeletedTasksStayAway == TfSpec => DeletedComesBackByItsCreateOnly
<1> DEFINE Kept == \A t \in tfDeleted :
             tfRows[t] = {} /\ tfRows'[t] # {} => tfCreate'[t] # tfCreate[t]
<1>1. TfInv /\ [TfNext]_tfVars => [Kept]_tfVars
  <2> SUFFICES ASSUME TfInv, TfNext PROVE Kept
    OBVIOUS
  <2>1. /\ tfDeleted \subseteq TfTasks /\ tfRows \in [TfTasks -> SUBSET TfStatuses]
        /\ tfCreate \in [TfTasks -> {"no", "asked", "answered"}]
    BY DEF TfInv, TfTypeOK
  <2>2. ASSUME tfRows' = tfRows PROVE Kept
    BY <2>2
  <2>3. ASSUME NEW t \in TfTasks, CreateAnswered(t) PROVE Kept
    BY <2>1, <2>3 DEF CreateAnswered
  <2>4. ASSUME NEW t \in TfTasks, DeleteTask(t) PROVE Kept
    BY <2>1, <2>4 DEF DeleteTask
  <2>5. ASSUME NEW s \in TfSlots, Received(s) PROVE Kept
    BY <2>5, ReceivedKeeps
  <2>6. QED
    BY <2>2, <2>3, <2>4, <2>5
    DEF TfNext, TaskMade, TaskDropped, RunnerLooks, RunnerStarts, RunnerTells, RunnerEnds,
        CancelSees, CancelWrites, CreateAsked, Subscribe, Unsubscribe, Disconnects,
        Reconnects, FeedOpened, FeedClosed, ListSent, tfListVars, tfAgentVars, tfFeedVars
<1>2. QED
  BY <1>1, TfInvariant, PTL DEF TfSpec, DeletedComesBackByItsCreateOnly

\* What a message that would show a task as running says.
Claims(m, t) ==
  \/ m.what = "event" /\ m.of = t /\ m.is = "running"
  \/ m.what = "init" /\ m.list[t] = "running"
Promised(q, t) == \E i \in DOMAIN q : Corrects(q[i], t)
ClaimsCorrected(q, t) ==
  \A i \in DOMAIN q :
    Claims(q[i], t) => \E k \in DOMAIN q : k > i /\ Corrects(q[k], t)

LEMMA CorrectsClaimsNothing ==
  ASSUME NEW m, NEW t, Corrects(m, t)
  PROVE  ~Claims(m, t)
BY DEF Corrects, Claims

\* A message at the end of a queue.
LEMMA AppendedMessage ==
  ASSUME NEW t, NEW q \in Seq(TfMessage), NEW m \in TfMessage, ~Claims(m, t),
         ClaimsCorrected(q, t) \/ Corrects(m, t)
  PROVE  /\ ClaimsCorrected(Append(q, m), t)
         /\ Promised(q, t) \/ Corrects(m, t) => Promised(Append(q, m), t)
<1> DEFINE p == Append(q, m)
<1>1. /\ Len(q) \in Nat /\ DOMAIN q = 1..Len(q) /\ DOMAIN p = 1..(Len(q) + 1)
      /\ p[Len(q) + 1] = m /\ \A i \in 1..Len(q) : p[i] = q[i]
  BY AppendProperties, LenProperties
<1> HIDE DEF p
<1>2. QED
  BY <1>1 DEF p, ClaimsCorrected, Promised

\* A message before all others.
LEMMA PrependedMessage ==
  ASSUME NEW t, NEW q \in Seq(TfMessage), NEW m \in TfMessage, ~Claims(m, t),
         ClaimsCorrected(q, t)
  PROVE  /\ ClaimsCorrected(<<m>> \o q, t)
         /\ Promised(q, t) \/ Corrects(m, t) => Promised(<<m>> \o q, t)
<1> DEFINE p == <<m>> \o q
<1>1. /\ Len(q) \in Nat /\ DOMAIN q = 1..Len(q) /\ DOMAIN p = 1..(Len(q) + 1)
      /\ p[1] = m /\ \A i \in 1..Len(q) : p[i + 1] = q[i]
  <2>1. <<m>> \in Seq(TfMessage) /\ Len(<<m>>) = 1 /\ <<m>>[1] = m
    OBVIOUS
  <2>2. /\ p \in Seq(TfMessage) /\ Len(p) = 1 + Len(q)
        /\ \A i \in 1..Len(p) : p[i] = IF i <= 1 THEN <<m>>[i] ELSE q[i - 1]
    BY <2>1, ConcatProperties
  <2>3. Len(q) \in Nat /\ DOMAIN q = 1..Len(q) /\ DOMAIN p = 1..Len(p)
    BY <2>2, LenProperties
  <2> HIDE DEF p
  <2>4. QED
    BY <2>1, <2>2, <2>3
<1>2. \A i \in 2..(Len(q) + 1) : i - 1 \in 1..Len(q) /\ p[i] = q[i - 1]
  BY <1>1
<1> HIDE DEF p
<1>3. ClaimsCorrected(p, t)
  <2> SUFFICES ASSUME NEW i \in DOMAIN p, Claims(p[i], t)
               PROVE  \E k \in DOMAIN p : k > i /\ Corrects(p[k], t)
    BY DEF ClaimsCorrected
  <2>1. i \in 2..(Len(q) + 1)
    BY <1>1
  <2>2. PICK k \in DOMAIN q : k > i - 1 /\ Corrects(q[k], t)
    BY <1>1, <1>2, <2>1 DEF ClaimsCorrected
  <2>3. k + 1 \in DOMAIN p /\ k + 1 > i /\ p[k + 1] = q[k]
    BY <1>1, <2>1, <2>2
  <2>4. QED
    BY <2>2, <2>3
<1>4. Promised(q, t) \/ Corrects(m, t) => Promised(p, t)
  <2>1. ASSUME Promised(q, t) PROVE Promised(p, t)
    <3>1. PICK i \in DOMAIN q : Corrects(q[i], t)
      BY <2>1 DEF Promised
    <3>2. i + 1 \in DOMAIN p /\ p[i + 1] = q[i]
      BY <1>1, <3>1
    <3>3. QED
      BY <3>1, <3>2 DEF Promised
  <2>2. ASSUME Corrects(m, t) PROVE Promised(p, t)
    <3>1. 1 \in DOMAIN p
      BY <1>1
    <3>2. QED
      BY <1>1, <2>2, <3>1 DEF Promised
  <2>3. QED
    BY <2>1, <2>2
<1>5. QED
  BY <1>3, <1>4 DEF p

\* A message taken off its queue.
LEMMA TakenMessage ==
  ASSUME NEW t, NEW q \in Seq(TfMessage), q # <<>>, ClaimsCorrected(q, t)
  PROVE  /\ ClaimsCorrected(Tail(q), t)
         /\ Claims(Head(q), t) => Promised(Tail(q), t)
         /\ Promised(q, t) => Promised(Tail(q), t) \/ Corrects(Head(q), t)
<1> DEFINE p == Tail(q)
<1>1. /\ Len(q) \in Nat /\ Len(q) > 0 /\ DOMAIN q = 1..Len(q) /\ DOMAIN p = 1..(Len(q) - 1)
      /\ Head(q) = q[1] /\ \A i \in 1..(Len(q) - 1) : p[i] = q[i + 1]
  BY HeadTailProperties, LenProperties, EmptySeq
<1>2. \A i \in 2..Len(q) : i - 1 \in DOMAIN p /\ p[i - 1] = q[i]
  BY <1>1
<1> HIDE DEF p
<1>3. ClaimsCorrected(p, t)
  <2> SUFFICES ASSUME NEW i \in DOMAIN p, Claims(p[i], t)
               PROVE  \E k \in DOMAIN p : k > i /\ Corrects(p[k], t)
    BY DEF ClaimsCorrected
  <2>1. i + 1 \in DOMAIN q /\ q[i + 1] = p[i]
    BY <1>1
  <2>2. PICK k \in DOMAIN q : k > i + 1 /\ Corrects(q[k], t)
    BY <2>1 DEF ClaimsCorrected
  <2>3. k \in 2..Len(q) /\ k - 1 > i
    BY <1>1, <2>2
  <2>4. QED
    BY <1>2, <2>2, <2>3
<1>4. Claims(Head(q), t) => Promised(p, t)
  <2> SUFFICES ASSUME Claims(q[1], t) PROVE Promised(p, t)
    BY <1>1
  <2>1. PICK k \in DOMAIN q : k > 1 /\ Corrects(q[k], t)
    BY <1>1 DEF ClaimsCorrected
  <2>2. k \in 2..Len(q)
    BY <1>1, <2>1
  <2>3. QED
    BY <1>2, <2>1, <2>2 DEF Promised
<1>5. Promised(q, t) => Promised(p, t) \/ Corrects(Head(q), t)
  <2> SUFFICES ASSUME Promised(q, t) PROVE Promised(p, t) \/ Corrects(q[1], t)
    BY <1>1
  <2>1. PICK k \in DOMAIN q : Corrects(q[k], t)
    BY DEF Promised
  <2>2. k = 1 \/ k \in 2..Len(q)
    BY <1>1
  <2>3. QED
    BY <1>2, <2>1, <2>2 DEF Promised
<1>6. QED
  BY <1>3, <1>4, <1>5 DEF p

\* The invariant: a task whose runner is about to tell its end, or has told it, has no
\* row that says running; a socket that is not open has nothing on the way; and once
\* the end was told, on every open socket it comes after whatever says running.
DoneIsOver == \A t \in TfTasks : tfRunner[t] \in {"ending", "done"} => tfTask[t] # "running"
OthersAreEmpty ==
  \A s \in TfSlots : s \notin TfOpen => ~tfSocks[s].listed /\ tfSocks[s].queue = <<>>
ClaimsAreCorrected ==
  \A t \in TfTasks, s \in TfOpen :
    tfRunner[t] = "done" => ClaimsCorrected(tfSocks[s].queue, t)
EndIsDue(t) ==
  tfRunner[t] = "done" /\ "running" \in tfRows[t] /\ tfWs \in TfOpen =>
    \E s \in TfOpen : ~tfSocks[s].listed \/ Promised(tfSocks[s].queue, t)
EndInv ==
  /\ TfInv /\ DoneIsOver /\ OthersAreEmpty /\ ClaimsAreCorrected
  /\ \A t \in TfTasks : EndIsDue(t)

\* Steps of the agent that send nothing, and of the window that make nothing running.
LEMMA QuietStep ==
  ASSUME EndInv, UNCHANGED <<tfWs, tfSocks>>,
         \A t \in TfTasks : tfRunner'[t] = "done" => tfRunner[t] = "done",
         \A t \in TfTasks : tfRunner'[t] \in {"ending", "done"} => tfTask'[t] # "running",
         \A t \in TfTasks : "running" \in tfRows'[t] => "running" \in tfRows[t],
         TfInv'
  PROVE  EndInv'
<1>1. TfOpen' = TfOpen
  BY DEF TfOpen
<1>2. DoneIsOver' /\ OthersAreEmpty' /\ ClaimsAreCorrected'
  BY <1>1 DEF EndInv, DoneIsOver, OthersAreEmpty, ClaimsAreCorrected
<1>3. \A t \in TfTasks : EndIsDue(t)'
  BY <1>1 DEF EndInv, EndIsDue
<1>4. QED
  BY <1>2, <1>3 DEF EndInv

\* Steps of the feed that leave open sockets as they are, or end them.
LEMMA FeedStep ==
  ASSUME EndInv, UNCHANGED <<tfTask, tfRunner, tfRows>>,
         \A s \in TfSlots : tfSocks'[s].state = "open" => tfSocks'[s] = tfSocks[s],
         \A s \in TfSlots : tfSocks'[s].state # "open" =>
           ~tfSocks'[s].listed /\ tfSocks'[s].queue = <<>>,
         tfWs' \in TfOpen' => tfWs' = tfWs /\ TfOpen' = TfOpen,
         TfInv'
  PROVE  EndInv'
<1>1. TfOpen' \subseteq TfOpen /\ \A s \in TfOpen' : tfSocks'[s] = tfSocks[s]
  BY DEF TfOpen
<1>2. DoneIsOver' /\ OthersAreEmpty' /\ ClaimsAreCorrected'
  BY <1>1 DEF EndInv, DoneIsOver, OthersAreEmpty, ClaimsAreCorrected, TfOpen
<1>3. \A t \in TfTasks : EndIsDue(t)'
  BY <1>1 DEF EndInv, EndIsDue
<1>4. QED
  BY <1>2, <1>3 DEF EndInv

\* An event is put on the queues of all open sockets.
LEMMA BroadcastStep ==
  ASSUME EndInv, NEW t \in TfTasks, NEW status \in {"running", "ended"},
         Broadcast(t, status), UNCHANGED <<tfRows, tfWs>>,
         tfRunner[t] # "done",
         \A r \in TfTasks : r # t => tfRunner'[r] = tfRunner[r],
         tfRunner'[t] = IF status = "ended" THEN "done" ELSE "working",
         tfTask' = tfTask,
         status = "ended" => tfTask[t] # "running",
         TfInv'
  PROVE  EndInv'
<1> DEFINE m == [what |-> "event", of |-> t, is |-> status]
<1>1. m \in TfMessage
  BY DEF TfMessage, EventMessage, TfStatuses
<1>2. /\ \A r \in TfTasks : r # t => ~Claims(m, r)
      /\ status = "ended" => Corrects(m, t)
  BY DEF Claims, Corrects
<1>3. /\ \A s \in TfOpen : /\ tfSocks'[s].queue = Append(tfSocks[s].queue, m)
                           /\ tfSocks'[s].listed = tfSocks[s].listed
                           /\ tfSocks[s].queue \in Seq(TfMessage)
                           /\ tfSocks'[s].state = "open"
      /\ \A s \in TfSlots \ TfOpen : tfSocks'[s] = tfSocks[s]
  <2>1. \A s \in TfSlots : tfSocks[s] \in FeedOf
    BY DEF EndInv, TfInv
  <2> HIDE DEF m
  <2>2. tfSocks' = [s \in TfSlots |->
          IF s \notin TfOpen THEN tfSocks[s]
          ELSE [tfSocks[s] EXCEPT !.queue = Append(@, m)]]
    BY DEF Broadcast, m
  <2>3. QED
    BY <2>1, <2>2 DEF FeedOf, TfOpen
<1> HIDE DEF m
<1>4. TfOpen' = TfOpen
  BY <1>3 DEF TfOpen
<1>5. DoneIsOver' /\ OthersAreEmpty'
  BY <1>3, <1>4 DEF EndInv, DoneIsOver, OthersAreEmpty
<1>6. ClaimsAreCorrected'
  <2> SUFFICES ASSUME NEW r \in TfTasks, NEW s \in TfOpen, tfRunner'[r] = "done"
               PROVE  ClaimsCorrected(tfSocks'[s].queue, r)
    BY <1>4 DEF ClaimsAreCorrected
  <2>1. CASE r = t
    BY <1>1, <1>2, <1>3, <2>1, AppendedMessage, CorrectsClaimsNothing
  <2>2. CASE r # t
    <3>1. ClaimsCorrected(tfSocks[s].queue, r)
      BY <2>2 DEF EndInv, ClaimsAreCorrected
    <3>2. QED
      BY <1>1, <1>2, <1>3, <2>2, <3>1, AppendedMessage
  <2>3. QED
    BY <2>1, <2>2
<1>7. \A r \in TfTasks : EndIsDue(r)'
  <2> SUFFICES ASSUME NEW r \in TfTasks, tfRunner'[r] = "done", "running" \in tfRows[r],
                      tfWs \in TfOpen
               PROVE  \E s \in TfOpen : ~tfSocks'[s].listed \/ Promised(tfSocks'[s].queue, r)
    BY <1>4 DEF EndIsDue
  <2>1. CASE r = t
    <3>1. Promised(tfSocks'[tfWs].queue, t)
      BY <1>1, <1>2, <1>3, <2>1, AppendedMessage, CorrectsClaimsNothing
    <3>2. QED
      BY <2>1, <3>1
  <2>2. CASE r # t
    <3>1. PICK s \in TfOpen : ~tfSocks[s].listed \/ Promised(tfSocks[s].queue, r)
      BY <2>2 DEF EndInv, EndIsDue
    <3>2. ClaimsCorrected(tfSocks[s].queue, r)
      BY <2>2 DEF EndInv, ClaimsAreCorrected
    <3>3. QED
      BY <1>1, <1>2, <1>3, <2>2, <3>1, <3>2, AppendedMessage
  <2>3. QED
    BY <2>1, <2>2
<1>8. QED
  BY <1>5, <1>6, <1>7 DEF EndInv

\* The list says of a task that is done that it is over.
LEMMA ListStep ==
  ASSUME EndInv, NEW s \in TfSlots, ListSent(s), TfInv'
  PROVE  EndInv'
<1> DEFINE m == [what |-> "init", list |-> tfTask]
<1>1. m \in TfMessage
  BY DEF EndInv, TfInv, TfTypeOK, TfMessage, ListMessage, TfListOf
<1>2. \A t \in TfTasks : tfRunner[t] = "done" => ~Claims(m, t) /\ Corrects(m, t)
  BY DEF EndInv, DoneIsOver, Claims, Corrects
<1>3. /\ s \in TfOpen /\ tfSocks[s].queue \in Seq(TfMessage)
      /\ tfSocks'[s].queue = <<m>> \o tfSocks[s].queue /\ tfSocks'[s].state = "open"
      /\ \A r \in TfSlots \ {s} : tfSocks'[r] = tfSocks[r]
  <2>1. tfSocks[s] \in FeedOf /\ tfSocks \in [TfSlots -> FeedOf]
    BY DEF EndInv, TfInv
  <2> HIDE DEF m
  <2>2. tfSocks' = [tfSocks EXCEPT ![s].listed = TRUE, ![s].queue = <<m>> \o @]
    BY DEF ListSent, m
  <2>3. QED
    BY <2>1, <2>2 DEF FeedOf, TfOpen, ListSent
<1>4. UNCHANGED <<tfTask, tfRunner, tfRows, tfWs>>
  BY DEF ListSent, tfListVars, tfAgentVars, tfFeedVars
<1> HIDE DEF m
<1>5. TfOpen' = TfOpen
  BY <1>3 DEF TfOpen
<1>6. DoneIsOver' /\ OthersAreEmpty'
  BY <1>3, <1>4, <1>5 DEF EndInv, DoneIsOver, OthersAreEmpty
<1>7. ASSUME NEW t \in TfTasks, tfRunner[t] = "done"
      PROVE  ClaimsCorrected(tfSocks'[s].queue, t) /\ Promised(tfSocks'[s].queue, t)
  <2>1. ClaimsCorrected(tfSocks[s].queue, t)
    BY <1>3, <1>7 DEF EndInv, ClaimsAreCorrected
  <2>2. QED
    BY <1>1, <1>2, <1>3, <1>7, <2>1, PrependedMessage
<1>8. ClaimsAreCorrected'
  BY <1>3, <1>4, <1>5, <1>7 DEF EndInv, ClaimsAreCorrected, TfOpen
<1>9. \A t \in TfTasks : EndIsDue(t)'
  BY <1>3, <1>4, <1>5, <1>7 DEF EndIsDue
<1>10. QED
  BY <1>6, <1>8, <1>9 DEF EndInv

\* What a message shows as running is corrected by another behind it.
LEMMA ReceivedStep ==
  ASSUME EndInv, NEW s \in TfSlots, Received(s), TfInv'
  PROVE  EndInv'
<1> DEFINE q == tfSocks[s].queue
           m == Head(q)
<1>1. /\ s \in TfOpen /\ q \in Seq(TfMessage) /\ q # <<>>
      /\ tfSocks'[s].queue = Tail(q) /\ tfSocks'[s].state = "open"
      /\ \A r \in TfSlots \ {s} : tfSocks'[r] = tfSocks[r]
      /\ \A r \in TfSlots : tfSocks'[r].listed = tfSocks[r].listed
  <2>1. tfSocks[s] \in FeedOf /\ tfSocks \in [TfSlots -> FeedOf]
    BY DEF EndInv, TfInv
  <2>2. QED
    BY <2>1 DEF Received, FeedOf, TfOpen
<1>2. UNCHANGED <<tfTask, tfRunner, tfWs>>
  BY DEF Received, tfAgentVars, tfFeedVars
<1>3. m \in TfMessage
  BY <1>1, HeadTailProperties
<1>4. /\ tfRows \in [TfTasks -> SUBSET TfStatuses]
      /\ \/ m.what = "init" /\ SetTasks(m.list)
         \/ m.what = "event" /\ UpdateTask(m.of, m.is)
  BY DEF Received, EndInv, TfInv, TfTypeOK
<1> HIDE DEF m
<1>5. ASSUME NEW t \in TfTasks, "running" \in tfRows'[t]
      PROVE  Claims(m, t) \/ ("running" \in tfRows[t] /\ ~Corrects(m, t))
  <2>1. CASE m.what = "init" /\ SetTasks(m.list)
    BY <1>3, <1>5, <2>1 DEF SetTasks, Claims
  <2>2. CASE m.what = "event" /\ UpdateTask(m.of, m.is)
    BY <1>4, <1>5, <2>2 DEF UpdateTask, Claims, Corrects
  <2>3. QED
    BY <1>4, <2>1, <2>2
<1> HIDE DEF q
<1>6. TfOpen' = TfOpen
  BY <1>1 DEF TfOpen
<1>7. DoneIsOver' /\ OthersAreEmpty'
  BY <1>1, <1>2, <1>6 DEF EndInv, DoneIsOver, OthersAreEmpty
<1>8. \A t \in TfTasks : tfRunner[t] = "done" => ClaimsCorrected(q, t)
  BY <1>1 DEF EndInv, ClaimsAreCorrected, q
<1>9. ClaimsAreCorrected'
  BY <1>1, <1>2, <1>6, <1>8, TakenMessage DEF EndInv, ClaimsAreCorrected, TfOpen
<1>10. \A t \in TfTasks : EndIsDue(t)'
  <2> SUFFICES ASSUME NEW t \in TfTasks, tfRunner[t] = "done", "running" \in tfRows'[t],
                      tfWs \in TfOpen
               PROVE  \E r \in TfOpen : ~tfSocks'[r].listed \/ Promised(tfSocks'[r].queue, t)
    BY <1>2, <1>6 DEF EndIsDue
  <2>1. CASE Claims(m, t)
    <3>1. Promised(Tail(q), t)
      BY <1>1, <1>8, <2>1, TakenMessage DEF m
    <3>2. QED
      BY <1>1, <3>1
  <2>2. CASE "running" \in tfRows[t] /\ ~Corrects(m, t)
    <3>1. PICK r \in TfOpen : ~tfSocks[r].listed \/ Promised(tfSocks[r].queue, t)
      BY <2>2 DEF EndInv, EndIsDue
    <3>2. CASE r = s
      <4>1. ~tfSocks[s].listed \/ Promised(q, t)
        BY <3>1, <3>2 DEF q
      <4>2. Promised(q, t) => Promised(Tail(q), t)
        BY <1>1, <1>8, <2>2, TakenMessage DEF m
      <4>3. QED
        BY <1>1, <4>1, <4>2
    <3>3. CASE r # s
      <4>1. r \in TfSlots \ {s}
        BY <3>3 DEF TfOpen
      <4>2. QED
        BY <1>1, <3>1, <4>1
    <3>4. QED
      BY <3>2, <3>3
  <2>3. QED
    BY <1>5, <2>1, <2>2
<1>11. QED
  BY <1>7, <1>9, <1>10 DEF EndInv

LEMMA EndStep == EndInv /\ [TfNext]_tfVars => EndInv'
<1> SUFFICES ASSUME EndInv, [TfNext]_tfVars PROVE EndInv'
  OBVIOUS
<1> USE DEF tfAgentVars, tfListVars, tfFeedVars
<1>0. TfInv' /\ TfTypeOK /\ tfSocks \in [TfSlots -> FeedOf]
  BY TfStep DEF EndInv, TfInv
<1>1. ASSUME NEW t \in TfTasks,
             \/ TaskMade(t) \/ TaskDropped(t) \/ CancelSees(t) \/ CancelWrites(t)
             \/ RunnerLooks(t) \/ RunnerStarts(t) \/ RunnerEnds(t)
      PROVE  EndInv'
  <2>1. UNCHANGED <<tfWs, tfSocks, tfRows>>
    BY <1>1 DEF TaskMade, TaskDropped, CancelSees, CancelWrites, RunnerLooks, RunnerStarts, RunnerEnds
  <2>2. CASE TaskMade(t) \/ TaskDropped(t) \/ CancelSees(t) \/ CancelWrites(t)
    <3>1. tfRunner' = tfRunner
      BY <2>2 DEF TaskMade, TaskDropped, CancelSees, CancelWrites
    <3>2. \A r \in TfTasks : tfTask'[r] = "running" => tfTask[r] = "running"
      BY <1>0, <2>2 DEF TaskMade, TaskDropped, CancelSees, CancelWrites, TfTypeOK
    <3>3. QED
      BY <1>0, <2>1, <3>1, <3>2, QuietStep DEF EndInv, DoneIsOver
  <2>3. CASE RunnerLooks(t) \/ RunnerStarts(t) \/ RunnerEnds(t)
    <3>1. PICK status, place :
            /\ tfTask' = [tfTask EXCEPT ![t] = status]
            /\ tfRunner' = [tfRunner EXCEPT ![t] = place]
            /\ place # "done" /\ (place = "ending" => status = "ended")
      BY <2>3 DEF RunnerLooks, RunnerStarts, RunnerEnds, RunnerMoves
    <3>2. /\ \A r \in TfTasks : tfRunner'[r] = "done" => tfRunner[r] = "done"
          /\ \A r \in TfTasks : tfRunner'[r] \in {"ending", "done"} => tfTask'[r] # "running"
      BY <1>0, <3>1 DEF EndInv, DoneIsOver, TfTypeOK
    <3>3. QED
      BY <1>0, <2>1, <3>2, QuietStep
  <2>4. QED
    BY <1>1, <2>2, <2>3
<1>2. ASSUME NEW t \in TfTasks, RunnerTells(t) PROVE EndInv'
  <2>1. PICK status \in {"running", "ended"} :
          /\ Broadcast(t, status)
          /\ RunnerMoves(t, tfTask[t], {IF status = "ended" THEN "done" ELSE "working"})
          /\ tfRunner[t] # "done"
          /\ status = "ended" => tfRunner[t] = "ending"
    BY <1>2 DEF RunnerTells
  <2>2. /\ tfTask' = tfTask
        /\ \A r \in TfTasks : r # t => tfRunner'[r] = tfRunner[r]
        /\ tfRunner'[t] = IF status = "ended" THEN "done" ELSE "working"
    BY <1>0, <2>1 DEF RunnerMoves, TfTypeOK
  <2>3. status = "ended" => tfTask[t] # "running"
    BY <2>1 DEF EndInv, DoneIsOver
  <2>4. UNCHANGED <<tfRows, tfWs>>
    BY <1>2 DEF RunnerTells
  <2>5. QED
    BY <1>0, <2>1, <2>2, <2>3, <2>4, BroadcastStep
<1>3. ASSUME NEW t \in TfTasks, CreateAsked(t) \/ CreateAnswered(t) \/ DeleteTask(t)
      PROVE  EndInv'
  <2>1. \A r \in TfTasks : "running" \in tfRows'[r] => "running" \in tfRows[r]
    BY <1>0, <1>3 DEF CreateAsked, CreateAnswered, DeleteTask, TfTypeOK
  <2>2. UNCHANGED <<tfTask, tfRunner, tfWs, tfSocks>>
    BY <1>3 DEF CreateAsked, CreateAnswered, DeleteTask
  <2>3. QED
    BY <1>0, <2>1, <2>2, QuietStep DEF EndInv, DoneIsOver
<1>a. ASSUME ModuleConnect \/ UNCHANGED <<tfWs, tfSocks>>, UNCHANGED tfListVars PROVE EndInv'
  <2>1. CASE UNCHANGED <<tfWs, tfSocks>>
    BY <1>0, <1>a, <2>1, QuietStep DEF EndInv, DoneIsOver
  <2>2. CASE ~UNCHANGED <<tfWs, tfSocks>>
    <3>1. PICK s \in TfFree : /\ tfWs' = s
                              /\ tfSocks' = [tfSocks EXCEPT ![s].state = "connecting"]
      BY <1>a, <2>2 DEF ModuleConnect
    <3>2. /\ s \in TfSlots /\ s \notin TfOpen
          /\ tfSocks'[s].state = "connecting" /\ ~tfSocks'[s].listed /\ tfSocks'[s].queue = <<>>
          /\ \A r \in TfSlots \ {s} : tfSocks'[r] = tfSocks[r]
      BY <1>0, <3>1 DEF TfFree, TfOpen, EndInv, OthersAreEmpty, FeedOf
    <3>3. \A r \in TfSlots : tfSocks'[r].state # "open" => ~tfSocks'[r].listed /\ tfSocks'[r].queue = <<>>
      BY <3>2 DEF EndInv, OthersAreEmpty, TfOpen
    <3>4. /\ tfWs' \notin TfOpen'
          /\ \A r \in TfSlots : tfSocks'[r].state = "open" => tfSocks'[r] = tfSocks[r]
      BY <3>1, <3>2 DEF TfOpen
    <3>5. QED
      BY <1>0, <1>a, <3>3, <3>4, FeedStep
  <2>3. QED
    BY <2>1, <2>2
<1>4. CASE Subscribe \/ Unsubscribe \/ Reconnects
  BY <1>4, <1>a DEF Subscribe, Unsubscribe, Reconnects
<1>5. CASE Disconnects
  <2>1. CASE tfWs' = tfWs /\ tfSocks' = tfSocks
    BY <1>5, <1>a, <2>1 DEF Disconnects
  <2>2. CASE ~(tfWs' = tfWs /\ tfSocks' = tfSocks)
    <3>1. /\ tfWs' = "none" /\ "none" \notin TfSlots
          /\ \A r \in TfSlots : \/ tfSocks'[r] = tfSocks[r]
                                \/ tfSocks'[r] = [TfClosed EXCEPT !.state = "closing"]
      BY <1>0, <1>5, <2>2, TfAssumption DEF Disconnects
    <3>2. \A r \in TfSlots :
            /\ tfSocks'[r].state = "open" => tfSocks'[r] = tfSocks[r]
            /\ tfSocks'[r].state # "open" => ~tfSocks'[r].listed /\ tfSocks'[r].queue = <<>>
      BY <3>1 DEF TfClosed, EndInv, OthersAreEmpty, TfOpen
    <3>3. tfWs' \notin TfOpen'
      BY <3>1 DEF TfOpen
    <3>4. QED
      BY <1>0, <1>5, <3>2, <3>3, FeedStep DEF Disconnects
  <2>3. QED
    BY <2>1, <2>2
<1>6. ASSUME NEW s \in TfSlots, FeedOpened(s) PROVE EndInv'
  <2>1. /\ s \notin TfOpen /\ TfOpen' = TfOpen \cup {s}
        /\ ~tfSocks'[s].listed /\ tfSocks'[s].queue = <<>>
        /\ \A r \in TfSlots \ {s} : tfSocks'[r] = tfSocks[r]
    BY <1>0, <1>6 DEF FeedOpened, TfOpen, EndInv, OthersAreEmpty, FeedOf
  <2>2. UNCHANGED <<tfTask, tfRunner, tfRows, tfWs>>
    BY <1>6 DEF FeedOpened
  <2>3. \A t \in TfTasks : ClaimsCorrected(tfSocks'[s].queue, t)
    BY <2>1 DEF ClaimsCorrected
  <2>4. ClaimsAreCorrected'
    <3> SUFFICES ASSUME NEW t \in TfTasks, NEW r \in TfOpen', tfRunner[t] = "done"
                 PROVE  ClaimsCorrected(tfSocks'[r].queue, t)
      BY <2>2 DEF ClaimsAreCorrected
    <3>1. CASE r = s
      BY <2>3, <3>1
    <3>2. CASE r # s
      BY <2>1, <3>2 DEF EndInv, ClaimsAreCorrected, TfOpen
    <3>3. QED
      BY <3>1, <3>2
  <2>5. DoneIsOver' /\ OthersAreEmpty' /\ \A t \in TfTasks : EndIsDue(t)'
    BY <2>1, <2>2 DEF EndInv, DoneIsOver, OthersAreEmpty, EndIsDue
  <2>6. QED
    BY <1>0, <2>4, <2>5 DEF EndInv
<1>7. ASSUME NEW s \in TfSlots, FeedClosed(s) PROVE EndInv'
  <2>1. /\ tfWs' = "none" /\ "none" \notin TfSlots
        /\ \A r \in TfSlots : tfSocks'[r] = tfSocks[r] \/ tfSocks'[r] = TfClosed
    BY <1>0, <1>7, TfAssumption DEF FeedClosed
  <2>2. \A r \in TfSlots :
          /\ tfSocks'[r].state = "open" => tfSocks'[r] = tfSocks[r]
          /\ tfSocks'[r].state # "open" => ~tfSocks'[r].listed /\ tfSocks'[r].queue = <<>>
    BY <2>1 DEF TfClosed, EndInv, OthersAreEmpty, TfOpen
  <2>3. tfWs' \notin TfOpen'
    BY <2>1 DEF TfOpen
  <2>4. QED
    BY <1>0, <1>7, <2>2, <2>3, FeedStep DEF FeedClosed
<1>8. ASSUME NEW s \in TfSlots, ListSent(s) \/ Received(s) PROVE EndInv'
  BY <1>0, <1>8, ListStep, ReceivedStep
<1>9. CASE UNCHANGED tfVars
  BY <1>9, <1>a DEF tfVars
<1>10. QED
  BY <1>1, <1>2, <1>3, <1>4, <1>5, <1>6, <1>7, <1>8, <1>9 DEF TfNext

\* An end that was sent and is not shown is on its way, for any number of tasks,
\* sockets, components and messages.
THEOREM EndsAreOnTheirWay == TfSpec => []EndsAreShown
<1>1. TfInit => EndInv
  <2> SUFFICES ASSUME TfInit PROVE EndInv
    OBVIOUS
  <2>1. TfInv
    BY TfInitial
  <2>2. QED
    BY <2>1 DEF TfInit, EndInv, DoneIsOver, OthersAreEmpty, ClaimsAreCorrected, EndIsDue,
                TfOpen, TfClosed
<1>2. EndInv => EndsAreShown
  BY DEF EndInv, EndIsDue, EndsAreShown, Promised
<1>3. QED
  BY <1>1, <1>2, EndStep, PTL DEF TfSpec

-----------------------------------------------------------------------------
(***************************************************************************)
(* The saved workspaces.                                                   *)
(***************************************************************************)
\* What a deletion for good leaves behind: the row is in no list, and no call under
\* way can bring it back.  A deletion keeps its row out of
\* its own copy.
NobodyHasGone ==
  /\ \A w \in wkGone :
       /\ w \notin wkStored /\ w \notin wkPanel
       /\ \A p \in WkOps : /\ w \notin wkOps[p].copy
                           /\ ~(wkOps[p].kind = "add" /\ wkOps[p].id = w)
  /\ \A o \in WkOps : wkOps[o].kind # "none" => wkOps[o].id \in Workspaces
  /\ \A o \in WkOps :
       wkOps[o].kind = "delete" => /\ wkOps[o].place # "load"
                                   /\ wkOps[o].id \notin wkOps[o].copy

CallOf == [kind : {"none", "add", "update", "delete"}, id : Workspaces \cup {"none"},
           place : {"none", "load", "save", "ask"}, copy : SUBSET Workspaces,
           open : BOOLEAN, shown : BOOLEAN]

WkInv == WkTypeOK /\ NobodyHasGone

\* What the changes of a call leave alone.
LEMMA ShownFields ==
  ASSUME NEW c \in CallOf
  PROVE  LET d == [c EXCEPT !.shown = FALSE] IN
         /\ d \in CallOf
         /\ d.kind = c.kind /\ d.id = c.id /\ d.place = c.place /\ d.copy = c.copy
BY DEF CallOf

LEMMA PlaceFields ==
  ASSUME NEW c \in CallOf
  PROVE  LET d == [c EXCEPT !.place = "save"] IN
         /\ d \in CallOf
         /\ d.kind = c.kind /\ d.id = c.id /\ d.place = "save" /\ d.copy = c.copy
BY DEF CallOf

\* A call that begins has no copy of the list, and deletes nothing.
LEMMA WkBeginKeeps ==
  ASSUME NEW calls \in [WkOps -> CallOf], NEW what \in {"add", "update"},
         NEW w \in Workspaces, WkBegin(calls, what, w)
  PROVE  /\ wkOps' \in [WkOps -> CallOf]
         /\ \A o \in WkOps : \/ wkOps'[o] = calls[o]
                             \/ /\ wkOps'[o].kind = what /\ wkOps'[o].id = w
                                /\ wkOps'[o].place = "load" /\ wkOps'[o].copy = {}
<1>1. /\ WkCall(what, w) \in CallOf
      /\ WkCall(what, w).kind = what /\ WkCall(what, w).id = w
      /\ WkCall(what, w).place = "load" /\ WkCall(what, w).copy = {}
  BY DEF WkCall, WkIdle, CallOf
<1>2. PICK o \in WkOps : wkOps' = [calls EXCEPT ![o] = WkCall(what, w)]
  BY DEF WkBegin
<1>3. QED
  BY <1>1, <1>2

\* A call that ends keeps nothing; the others go on.
LEMMA WkEndKeeps ==
  ASSUME WkTypeOK, NEW o \in WkOps, WkEnd(o)
  PROVE  /\ wkOps' \in [WkOps -> CallOf]
         /\ \A p \in WkOps \ {o} : wkOps'[p] = wkOps[p]
         /\ wkOps'[o].kind = "none" /\ wkOps'[o].place = "none" /\ wkOps'[o].copy = {}
<1>1. WkIdle \in CallOf /\ WkIdle.kind = "none" /\ WkIdle.place = "none" /\ WkIdle.copy = {}
  BY DEF WkIdle, CallOf
<1>2. wkOps \in [WkOps -> CallOf]
  BY DEF WkTypeOK, CallOf
<1>3. QED
  BY <1>1, <1>2 DEF WkEnd

\* Every step keeps the types and what was deleted for good out of every list.
LEMMA WkStep == WkInv /\ [WkNext]_wkVars => WkInv'
<1> SUFFICES ASSUME WkInv, [WkNext]_wkVars PROVE WkInv'
  OBVIOUS
<1> USE DEF NobodyHasGone
<1>0. /\ wkOps \in [WkOps -> CallOf]
      /\ \A o \in WkOps : wkOps[o] \in CallOf
      /\ wkStored \subseteq Workspaces /\ wkPanel \subseteq Workspaces
      /\ wkOpen \subseteq Workspaces /\ wkGone \subseteq Workspaces
      /\ \A o \in WkOps : /\ wkOps[o].place = "ask" => wkOps[o].kind = "delete"
                          /\ wkOps[o].kind = "none" <=> wkOps[o].place = "none"
      /\ NobodyHasGone /\ WkTypeOK
  BY DEF WkInv, WkTypeOK, CallOf
<1>a. ASSUME /\ wkOps' \in [WkOps -> CallOf]
             /\ wkStored' \subseteq Workspaces /\ wkPanel' \subseteq Workspaces
             /\ wkOpen' \subseteq Workspaces /\ wkGone' \subseteq Workspaces
             /\ \A o \in WkOps : /\ wkOps'[o].place = "ask" => wkOps'[o].kind = "delete"
                                 /\ wkOps'[o].kind = "none" <=> wkOps'[o].place = "none"
             /\ NobodyHasGone'
      PROVE  WkInv'
  BY <1>a DEF WkInv, WkTypeOK, CallOf
<1>1. CASE PanelLoads
  <2>1. \A o \in WkOps : wkOps'[o] = [wkOps[o] EXCEPT !.shown = FALSE]
    BY <1>1 DEF PanelLoads
  <2>2. \A o \in WkOps : /\ wkOps'[o] \in CallOf
                         /\ wkOps'[o].kind = wkOps[o].kind /\ wkOps'[o].id = wkOps[o].id
                         /\ wkOps'[o].place = wkOps[o].place
                         /\ wkOps'[o].copy = wkOps[o].copy
    <3> SUFFICES ASSUME NEW o \in WkOps
                 PROVE  /\ wkOps'[o] \in CallOf
                        /\ wkOps'[o].kind = wkOps[o].kind /\ wkOps'[o].id = wkOps[o].id
                        /\ wkOps'[o].place = wkOps[o].place
                        /\ wkOps'[o].copy = wkOps[o].copy
      OBVIOUS
    <3> DEFINE d == [wkOps[o] EXCEPT !.shown = FALSE]
    <3>1. /\ d \in CallOf
          /\ d.kind = wkOps[o].kind /\ d.id = wkOps[o].id
          /\ d.place = wkOps[o].place /\ d.copy = wkOps[o].copy
      BY <1>0, ShownFields
    <3>2. wkOps'[o] = d
      BY <2>1
    <3> HIDE DEF d
    <3>3. QED
      BY <3>1, <3>2
  <2>3. wkOps' \in [WkOps -> CallOf]
    BY <1>1, <2>1, <2>2 DEF PanelLoads
  <2>4. QED
    BY <1>0, <1>a, <1>1, <2>2, <2>3 DEF PanelLoads
<1>2. ASSUME NEW w \in Workspaces, OpenAdds(w) PROVE WkInv'
  BY <1>0, <1>a, <1>2, WkBeginKeeps DEF OpenAdds
<1>3. ASSUME NEW w \in Workspaces, AutoSaves(w) PROVE WkInv'
  BY <1>0, <1>a, <1>3, WkBeginKeeps DEF AutoSaves
<1>4. ASSUME NEW w \in Workspaces, TabCloses(w) PROVE WkInv'
  BY <1>0, <1>a, <1>4, WkBeginKeeps DEF TabCloses, Unmounts
<1>5. ASSUME NEW o \in WkOps, NEW w \in Workspaces, DeleteAsks(o, w) PROVE WkInv'
  BY <1>0, <1>a, <1>5 DEF DeleteAsks, CallOf
<1>6. ASSUME NEW o \in WkOps, WkLoads(o) PROVE WkInv'
  <2>1. PICK list \in {wkStored, {}} :
          wkOps' = [wkOps EXCEPT ![o] = [wkOps[o] EXCEPT !.place = "save", !.copy = list]]
    BY <1>0, <1>6 DEF WkLoads
  <2>2. list \in SUBSET Workspaces
    BY <1>0
  <2>3. /\ wkOps' \in [WkOps -> CallOf]
        /\ wkOps'[o].kind = wkOps[o].kind /\ wkOps'[o].id = wkOps[o].id
        /\ wkOps'[o].place = "save" /\ wkOps'[o].copy = list
        /\ \A p \in WkOps \ {o} : wkOps'[p] = wkOps[p]
    <3> DEFINE d == [wkOps[o] EXCEPT !.place = "save", !.copy = list]
    <3>1. /\ d \in CallOf
          /\ d.kind = wkOps[o].kind /\ d.id = wkOps[o].id
          /\ d.place = "save" /\ d.copy = list
      BY <1>0, <2>2, ZenonT(40) DEF CallOf
    <3>2. wkOps' = [wkOps EXCEPT ![o] = d]
      BY <2>1
    <3> HIDE DEF d
    <3>3. QED
      BY <1>0, <3>1, <3>2
  <2>4. QED
    BY <1>0, <1>a, <1>6, <2>3 DEF WkLoads
<1>7. ASSUME NEW o \in WkOps, AddSaves(o) PROVE WkInv'
  BY <1>0, <1>a, <1>7, WkEndKeeps DEF AddSaves, CallOf
<1>8. ASSUME NEW o \in WkOps, UpdateSaves(o) PROVE WkInv'
  BY <1>0, <1>a, <1>8, WkEndKeeps DEF UpdateSaves, CallOf
<1>9. ASSUME NEW o \in WkOps, DeleteConfirmed(o) PROVE WkInv'
  <2> DEFINE calls == [wkOps EXCEPT ![o] = [wkOps[o] EXCEPT !.place = "save"]]
  <2>1. /\ calls \in [WkOps -> CallOf]
        /\ \A p \in WkOps \ {o} : calls[p] = wkOps[p]
        /\ calls[o].kind = wkOps[o].kind /\ calls[o].id = wkOps[o].id
        /\ calls[o].copy = wkOps[o].copy /\ calls[o].place = "save"
    BY <1>0, PlaceFields
  <2>2. /\ wkOps[o].place = "ask" /\ UNCHANGED <<wkStored, wkPanel, wkGone>>
        /\ \/ wkOps' = calls /\ UNCHANGED wkOpen
           \/ /\ wkOps[o].id \in wkOpen /\ wkOpen' = wkOpen \ {wkOps[o].id}
              /\ WkBegin(calls, "update", wkOps[o].id)
    BY <1>0, <1>9 DEF DeleteConfirmed, Unmounts
  <2> HIDE DEF calls
  <2>3. /\ wkOps' \in [WkOps -> CallOf]
        /\ \A p \in WkOps : \/ wkOps'[p] = calls[p]
                            \/ /\ wkOps'[p].kind = "update" /\ wkOps'[p].place = "load"
                               /\ wkOps'[p].id \in Workspaces /\ wkOps'[p].copy = {}
    BY <1>0, <2>1, <2>2, WkBeginKeeps
  <2>4. \A p \in WkOps : /\ wkOps'[p].place = "ask" => wkOps'[p].kind = "delete"
                         /\ wkOps'[p].kind = "none" <=> wkOps'[p].place = "none"
    BY <1>0, <2>1, <2>2, <2>3
  <2>5. NobodyHasGone'
    BY <1>0, <2>1, <2>2, <2>3
  <2>6. QED
    BY <1>0, <1>a, <2>2, <2>3, <2>4, <2>5
<1>10. ASSUME NEW o \in WkOps, DeleteSaves(o) PROVE WkInv'
  <2>1. /\ wkOps[o].kind = "delete" /\ wkOps[o].id \notin wkOps[o].copy
        /\ wkOps[o].copy \subseteq Workspaces /\ wkOps[o].id \in Workspaces \cup {"none"}
        /\ wkStored' = wkOps[o].copy /\ wkPanel' \in {wkPanel, wkOps[o].copy}
        /\ wkOpen' = wkOpen
    BY <1>0, <1>10 DEF DeleteSaves, CallOf
  <2>2. \/ wkGone' = wkGone
        \/ /\ wkGone' = wkGone \cup {wkOps[o].id} /\ wkOps[o].id \in Workspaces
           /\ NobodyHas(wkOps[o].id, wkPanel', o)
    BY <1>0, <1>10 DEF DeleteSaves
  <2>3. QED
    BY <1>0, <1>a, <1>10, <2>1, <2>2, WkEndKeeps DEF DeleteSaves, NobodyHas
<1>11. ASSUME NEW o \in WkOps, WkFails(o) PROVE WkInv'
  BY <1>0, <1>a, <1>11, WkEndKeeps DEF WkFails
<1>12. CASE UNCHANGED wkVars
  BY <1>0, <1>a, <1>12 DEF wkVars
<1>13. QED
  BY <1>1, <1>2, <1>3, <1>4, <1>5, <1>6, <1>7, <1>8, <1>9, <1>10, <1>11, <1>12 DEF WkNext

LEMMA WkInvariant == WkSpec => []WkInv
<1>1. WkInit => WkInv
  BY DEF WkInit, WkInv, WkTypeOK, NobodyHasGone, WkIdle
<1>2. QED
  BY <1>1, WkStep, PTL DEF WkSpec

\* The variables of the list of saved workspaces keep their types.
THEOREM WorkspaceTypes == WkSpec => []WkTypeOK
BY WkInvariant, PTL DEF WkInv

\* A workspace deleted for good stays deleted, for any number of workspaces and of
\* calls under way at once.
THEOREM GoneWorkspacesStayGone == WkSpec => []GoneStaysGone
<1>1. WkInv => GoneStaysGone
  BY DEF WkInv, NobodyHasGone, GoneStaysGone
<1>2. QED
  BY <1>1, WkInvariant, PTL

-----------------------------------------------------------------------------
(***************************************************************************)
(* The components side by side.                                            *)
(***************************************************************************)
\* A step of the whole is one of each component, or leaves it as it is.
LEMMA PartsStep ==
  [PartsNext]_partVars => /\ [Next]_vars /\ [LsNext]_lsVars
                          /\ [TfNext]_tfVars /\ [WkNext]_wkVars
BY DEF PartsNext, partVars

\* What runs side by side is, for each component, a behaviour of that component, so
\* that every theorem about one of them holds of the run that checks them together.
LEMMA PartsAreBehaviours == PartsSpec => Spec /\ LsSpec /\ TfSpec /\ WkSpec
<1>1. PartsInit => Init /\ LsInit /\ TfInit /\ WkInit
  BY DEF PartsInit
<1> QED
  BY <1>1, PartsStep, PTL DEF PartsSpec, Spec, LsSpec, TfSpec, WkSpec

\* The states of the handshakes, of the sockets of a language server, of the task list
\* and its feed, and of the saved workspaces are of their types.
THEOREM TypesAreCorrect == PartsSpec => []TypesOK
BY PartsAreBehaviours, TypeCorrect, LanguageTypes, FeedTypes, WorkspaceTypes, PTL DEF TypesOK
=============================================================================

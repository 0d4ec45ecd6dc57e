------------------------------ MODULE HostKeys ------------------------------
(***************************************************************************)
(* Which SSH server keys the agent trusts: the known_hosts file and its    *)
(* in-memory copies (ssh/host_keys.rs), the check a handshake makes of the *)
(* key it is presented (ssh/mod.rs), the prompts in which the user decides *)
(* (ssh/approvals.rs) and the revocation of a key (api.rs).                *)
(*                                                                         *)
(* Every connection attempt, and every revocation, loads a copy of the     *)
(* whole file of its own, changes one entry of the copy and writes the     *)
(* whole copy back.  A handshake may hold its copy for two minutes while   *)
(* the user looks at the prompt.  Saving truncates the file first and      *)
(* then writes it piece by piece; no lock keeps other threads from loading *)
(* or saving in between.                                                   *)
(***************************************************************************)
EXTENDS Naturals

CONSTANTS
  Handshakes,   \* connection attempts
  Unattended,   \* those made without the approval service
  Revocations,  \* requests that revoke the key of a host
  Hosts,        \* host:port
  Keys,         \* public keys servers present
  NoKey,        \* the file has no entry for the host
  MaxRestarts   \* restarts of the agent (bound)

ASSUME HandshakesAssumption ==
  /\ Unattended \subseteq Handshakes
  /\ Revocations \cap Handshakes = {}
ASSUME KeysAssumption == Hosts # {} /\ NoKey \notin Keys
ASSUME RestartsAssumption == MaxRestarts \in Nat

VARIABLES
  file,       \* the keys in known_hosts
  pc,         \* where each handshake and each revocation stands
  known,      \* HostKeyStore.known_keys of each
  target,     \* the host it is about
  presented,  \* the key the server presented to a handshake
  pending,    \* HostKeyApprovalService.pending: whose prompt the user can see
  sending,    \* decisions taken off pending, not yet sent
  answer,     \* what arrived in the oneshot of a prompt
  vouched,    \* ghost: keys somebody decided to trust for a host
  revoked,    \* ghost: keys revoked, and not decided to be trusted since or just then
  mixed,      \* ghost: two saves of the file have overlapped
  restarts    \* restarts so far

storeVars == <<file, known>>
aboutVars == <<target, presented>>
promptVars == <<pending, sending, answer>>
ghostVars == <<vouched, revoked, mixed>>
vars == <<pc, storeVars, aboutVars, promptVars, ghostVars, restarts>>

-----------------------------------------------------------------------------
Savers == Handshakes \cup Revocations
Store == [Hosts -> Keys \cup {NoKey}]
Empty == [host \in Hosts |-> NoKey]
Ended == {"admitted", "refused", "done", "lost"}
Place == Ended \cup {"off", "connecting", "await", "settle", "truncate", "write"}

Init ==
  /\ file = Empty
  /\ pc = [s \in Savers |-> "off"]
  /\ known = [s \in Savers |-> Empty]
  /\ target = [s \in Savers |-> CHOOSE host \in Hosts : TRUE]
  /\ presented = [h \in Handshakes |-> NoKey]
  /\ pending = {}
  /\ sending = {}
  /\ answer = [h \in Handshakes |-> "none"]
  /\ vouched = {}
  /\ revoked = {}
  /\ mixed = FALSE
  /\ restarts = 0

GoTo(s, place) == pc' = [pc EXCEPT ![s] = place]

\* Somebody decides that key belongs to host.
Vouch(host, key) ==
  /\ vouched' = vouched \cup {<<host, key>>}
  /\ revoked' = revoked \ {<<host, key>>}
  /\ UNCHANGED mixed

Writers == {s \in Savers : pc[s] = "write"}

\* What the file may hold right now.  While one saver writes, it is a part of that
\* saver's copy.  Two that overlap write their pieces at the same offsets: lines
\* get lost, and the host of one can end up before the key of the other.
OnDisk ==
  IF Writers = {} THEN {file}
  ELSE {copy \in Store : \A host \in Hosts :
          \/ copy[host] = NoKey
          \/ \E from \in Hosts :
               /\ from = host \/ mixed
               /\ copy[host] \in {file[from]} \cup {known[s][from] : s \in Writers}}

-----------------------------------------------------------------------------
(* The handshake.                                                           *)

\* load_default_store, before the server is even dialled.
Connect(h, host, key) ==
  /\ pc[h] = "off"
  /\ GoTo(h, "connecting")
  /\ \E copy \in OnDisk : known' = [known EXCEPT ![h] = copy]
  /\ target' = [target EXCEPT ![h] = host]
  /\ presented' = [presented EXCEPT ![h] = key]
  /\ UNCHANGED <<file, promptVars, ghostVars, restarts>>

\* Unreachable, or not through with it within 15 s.
ConnectFails(h) ==
  /\ pc[h] = "connecting"
  /\ GoTo(h, "refused")
  /\ UNCHANGED <<storeVars, aboutVars, promptVars, ghostVars, restarts>>

\* Mutant of CheckServerKey: without the approval service any key passes.
CheckIgnoresChangeMutant(h) ==
  LET trusted == known[h][target[h]] IN
  /\ pc[h] = "connecting"
  /\ \/ /\ trusted = presented[h] \/ h \in Unattended
        /\ GoTo(h, "admitted")
        /\ UNCHANGED pending
     \/ /\ trusted # presented[h] /\ h \notin Unattended
        /\ pending' = pending \cup {h}
        /\ GoTo(h, "await")
  /\ UNCHANGED <<storeVars, aboutVars, sending, answer, ghostVars, restarts>>

\* The copy loaded before decides.  A known key passes.  Without the approval
\* service a first key is trusted silently and a changed one refused (SFTP does
\* the same in verify_or_store); with it either one is put to the user.
CheckServerKey(h) ==
  LET trusted == known[h][target[h]] IN
  /\ pc[h] = "connecting"
  /\ \/ /\ trusted = presented[h]
        /\ GoTo(h, "admitted")
        /\ UNCHANGED <<known, pending, ghostVars>>
     \/ /\ trusted = NoKey
        /\ h \in Unattended
        /\ known' = [known EXCEPT ![h][target[h]] = presented[h]]
        /\ Vouch(target[h], presented[h])
        /\ GoTo(h, "truncate")
        /\ UNCHANGED pending
     \/ /\ trusted \notin {NoKey, presented[h]}
        /\ h \in Unattended
        /\ GoTo(h, "refused")
        /\ UNCHANGED <<known, pending, ghostVars>>
     \/ /\ trusted # presented[h]
        /\ h \notin Unattended
        /\ pending' = pending \cup {h}
        /\ GoTo(h, "await")
        /\ UNCHANGED <<known, ghostVars>>
  /\ UNCHANGED <<file, aboutVars, sending, answer, restarts>>

\* Mutant of AwaitEnds: no timeout.
AwaitForeverMutant(h) ==
  /\ pc[h] = "await"
  /\ answer[h] # "none"
  /\ GoTo(h, "settle")
  /\ UNCHANGED <<storeVars, aboutVars, promptVars, ghostVars, restarts>>

\* The wait ends with the answer, or after 120 s without one.  A caller that has
\* given up long before changes nothing: russh runs the handshake in a task of
\* its own.
AwaitEnds(h) ==
  /\ pc[h] = "await"
  /\ answer' = [answer EXCEPT ![h] = IF @ = "none" THEN "reject" ELSE @]
  /\ GoTo(h, "settle")
  /\ UNCHANGED <<storeVars, aboutVars, pending, sending, ghostVars, restarts>>

\* The prompt is taken off whatever the outcome; an approved key enters the
\* copy that was loaded before the prompt.
SettlePrompt(h) ==
  /\ pc[h] = "settle"
  /\ pending' = pending \ {h}
  /\ \/ /\ answer[h] = "approve"
        /\ known' = [known EXCEPT ![h][target[h]] = presented[h]]
        /\ GoTo(h, "truncate")
     \/ /\ answer[h] = "reject"
        /\ GoTo(h, "refused")
        /\ UNCHANGED known
  /\ UNCHANGED <<file, aboutVars, sending, answer, ghostVars, restarts>>

-----------------------------------------------------------------------------
(* save_to_file.                                                            *)

\* File::create empties the file ...
Truncate(s) ==
  /\ pc[s] = "truncate"
  /\ file' = Empty
  /\ mixed' = (mixed \/ Writers # {})
  /\ GoTo(s, "write")
  /\ UNCHANGED <<known, aboutVars, promptVars, vouched, revoked, restarts>>

\* Keys that a handshake with their very host is just being allowed to save.
Deciding == {<<target[h], presented[h]>> :
               h \in {i \in Handshakes : pc[i] \in {"await", "settle", "truncate", "write"}}}

Saved(s) == IF s \in Handshakes THEN "admitted" ELSE "done"

\* ... and the whole copy is written from its start.
Write(s) ==
  /\ pc[s] = "write"
  /\ IF mixed THEN file' \in OnDisk ELSE file' = known[s]
  /\ revoked' = IF s \in Revocations
                THEN revoked \cup (({target[s]} \X Keys) \ Deciding)
                ELSE revoked
  /\ GoTo(s, Saved(s))
  /\ UNCHANGED <<known, aboutVars, promptVars, vouched, mixed, restarts>>

\* The file cannot be created, or the disk is full before everything is written.
SaveFails(s) ==
  /\ \/ pc[s] = "truncate" /\ UNCHANGED file
     \/ pc[s] = "write" /\ file' \in OnDisk
  /\ GoTo(s, "refused")
  /\ UNCHANGED <<known, aboutVars, promptVars, ghostVars, restarts>>

-----------------------------------------------------------------------------
(* The user.                                                                *)

\* approve / reject: the prompt leaves the map (the caller is told "done") ...
TakePrompt(h, decision) ==
  /\ h \in pending
  /\ pending' = pending \ {h}
  /\ sending' = sending \cup {<<h, decision>>}
  /\ \/ decision = "approve" /\ Vouch(target[h], presented[h])
     \/ decision = "reject" /\ UNCHANGED ghostVars
  /\ UNCHANGED <<pc, storeVars, aboutVars, answer, restarts>>

\* ... and then the decision is sent, perhaps to a wait that is over.
SendAnswer(h, decision) ==
  /\ <<h, decision>> \in sending
  /\ sending' = sending \ {<<h, decision>>}
  /\ answer' = IF pc[h] = "await" THEN [answer EXCEPT ![h] = decision] ELSE answer
  /\ UNCHANGED <<pc, storeVars, aboutVars, pending, ghostVars, restarts>>

\* DELETE /host-keys/:host/:port works on a fresh copy; an unknown host is a 404.
Revoke(r, host) ==
  /\ pc[r] = "off"
  /\ target' = [target EXCEPT ![r] = host]
  /\ \E copy \in OnDisk :
       /\ known' = [known EXCEPT ![r] = [copy EXCEPT ![host] = NoKey]]
       /\ GoTo(r, IF copy[host] = NoKey THEN "refused" ELSE "truncate")
  /\ UNCHANGED <<file, presented, promptVars, ghostVars, restarts>>

\* The agent ends, perhaps inside save_to_file, and starts again.
Restart ==
  /\ restarts < MaxRestarts
  /\ restarts' = restarts + 1
  /\ pc' = [s \in Savers |-> IF pc[s] = "off" THEN "off"
                             ELSE IF pc[s] \in Ended THEN pc[s] ELSE "lost"]
  /\ file' \in OnDisk
  /\ pending' = {}
  /\ sending' = {}
  /\ UNCHANGED <<known, aboutVars, answer, ghostVars>>

-----------------------------------------------------------------------------
SaveStep(s) == Truncate(s) \/ Write(s) \/ SaveFails(s)

HandshakeStep(h) ==
  \/ ConnectFails(h) \/ CheckServerKey(h) \/ AwaitEnds(h) \/ SettlePrompt(h)
  \/ SaveStep(h)

Next ==
  \/ \E h \in Handshakes, host \in Hosts, key \in Keys : Connect(h, host, key)
  \/ \E h \in Handshakes : HandshakeStep(h)
  \/ \E h \in pending, decision \in {"approve", "reject"} : TakePrompt(h, decision)
  \/ \E m \in sending : SendAnswer(m[1], m[2])
  \/ \E r \in Revocations, host \in Hosts : Revoke(r, host)
  \/ \E r \in Revocations : SaveStep(r)
  \/ Restart

Spec == Init /\ [][Next]_vars

\* Connecting and the prompt have timeouts, saving is local work.  The user
\* need not answer, and the agent may be restarted.
KeysFairness == \A h \in Handshakes : WF_vars(HandshakeStep(h))

FairSpec == Spec /\ KeysFairness

-----------------------------------------------------------------------------
(* Properties.                                                              *)

\* Every variable keeps its type.
TypeOK ==
  /\ file \in Store
  /\ pc \in [Savers -> Place]
  /\ known \in [Savers -> Store]
  /\ target \in [Savers -> Hosts]
  /\ presented \in [Handshakes -> Keys \cup {NoKey}]
  /\ pending \subseteq Handshakes
  /\ sending \subseteq Handshakes \X {"approve", "reject"}
  /\ answer \in [Handshakes -> {"none", "approve", "reject"}]
  /\ vouched \subseteq Hosts \X Keys
  /\ revoked \subseteq Hosts \X Keys
  /\ mixed \in BOOLEAN
  /\ restarts \in Nat
  /\ \A h \in Handshakes : pc[h] # "off" => presented[h] \in Keys

\* A key that was once decided to be trusted for the host: by the user, or by a
\* first contact without prompts.  After overlapping saves, for some host.
VouchedFor(host, key) ==
  \E for \in Hosts : (for = host \/ mixed) /\ <<for, key>> \in vouched

\* However copies overtake each other, a save breaks off or a decision comes late,
\* no other key is ever found in known_hosts.
StoredKeysAreVouchedFor ==
  \A host \in Hosts : file[host] # NoKey => VouchedFor(host, file[host])

\* A connection is let through only with such a key: not with one the user
\* rejected or left unanswered.
AdmittedKeysAreVouchedFor ==
  \A h \in Handshakes :
    pc[h] = "admitted" => VouchedFor(target[h], presented[h])

\* Only keys somebody decided to trust are ever stored, or let through.
KeysAreVouchedFor == StoredKeysAreVouchedFor /\ AdmittedKeysAreVouchedFor

\* A prompt on the screen is a question some handshake is waiting for.
PromptsHaveAWaiter == \A h \in pending : pc[h] \in {"await", "settle"}

\* Every attempt comes to an end, whether or not the user answers.
HandshakesEnd == \A h \in Handshakes : pc[h] = "connecting" ~> pc[h] \in Ended

\* api.rs:9538-9539: after a revocation, "On the next connection to that
\* host:port the user will get a fresh TOFU prompt": the key does not come back
\* by itself, not even if no two saves ever overlap.
RevokedKeysStayRevoked ==
  ~mixed => \A host \in Hosts :
              file[host] # NoKey => <<host, file[host]>> \notin revoked
=============================================================================

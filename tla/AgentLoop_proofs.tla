---------------------------- MODULE AgentLoop_proofs ----------------------------
(***************************************************************************)
(* The agent loop for any number of loops, tools in an answer and length of *)
(* conversation: the panel is of the loop that waits, no run_command runs   *)
(* that was not approved on it, a stopped loop calls none, and cutting the  *)
(* conversation parts no results from their call.                           *)
(***************************************************************************)
EXTENDS AgentLoop, FiniteSetTheorems, SequenceTheorems, WellFoundedInduction, TLAPS

AgRecord == [at : AgPlaces, level : AgLevels, tools : ToolCalls \cup {<<>>}, approved : BOOLEAN]

(***************************************************************************)
(* Tools.                                                                  *)
(***************************************************************************)
LEMMA ToolCallsAre ==
  ASSUME NEW tools
  PROVE  tools \in ToolCalls <=> \E n \in 1..MaxTools : tools \in [1..n -> ToolKinds]
BY DEF ToolCalls

\* No tool is of one of the kinds K.
NoneOf(tools, K) == \A i \in DOMAIN tools : tools[i] \notin K

\* What is left after the first tool.
LEMMA TailOfTools ==
  ASSUME NEW tools \in ToolCalls
  PROVE  /\ Tail(tools) \in ToolCalls \cup {<<>>}
         /\ \A K : NoneOf(tools, K) => NoneOf(Tail(tools), K)
<1> DEFINE rest == Tail(tools)
<1>1. PICK n \in 1..MaxTools : tools \in [1..n -> ToolKinds]
  BY ToolCallsAre
<1>2. n \in Nat \ {0} /\ n <= MaxTools /\ MaxTools \in Nat
  BY <1>1, AgAssumption
<1>3. tools \in Seq(ToolKinds) /\ Len(tools) = n /\ DOMAIN tools = 1..n
  BY <1>1, <1>2
<1>4. /\ rest \in Seq(ToolKinds) /\ Len(rest) = n - 1
      /\ \A i \in 1..(n - 1) : rest[i] = tools[i + 1]
  BY <1>2, <1>3
<1> HIDE DEF rest
<1>5. DOMAIN rest = 1..(n - 1) /\ rest \in [1..(n - 1) -> ToolKinds]
  BY <1>4, LenProperties
<1>6. rest \in ToolCalls \cup {<<>>}
  <2>1. CASE n = 1
    BY <1>4, <2>1, EmptySeq
  <2>2. CASE n # 1
    <3>1. n - 1 \in 1..MaxTools
      BY <1>2, <2>2
    <3> QED
      BY <1>5, <3>1, ToolCallsAre
  <2> QED
    BY <2>1, <2>2
<1>7. ASSUME NEW K, NoneOf(tools, K), NEW i \in DOMAIN rest
      PROVE  rest[i] \notin K
  <2>1. i \in 1..(n - 1) /\ i + 1 \in 1..n
    BY <1>2, <1>5, <1>7
  <2> QED
    BY <1>3, <1>4, <1>7, <2>1 DEF NoneOf
<1> QED
  BY <1>6, <1>7 DEF rest, NoneOf

LEMMA LeastOf ==
  ASSUME NEW T, T \subseteq Nat, T # {}
  PROVE  \E m \in T : \A k \in T : m <= k
<1>1. PICK m \in T : \A k \in T : ~(<<k, m>> \in OpToRel(<, Nat))
  BY WFMin, NatLessThanWellFounded, Zenon
<1>2. \A k \in T : ~(k < m)
  BY <1>1, Zenon DEF OpToRel
<1> QED
  BY <1>2

\* What is left without the refused commands begins with another tool.
LEMMA OthersOfTools ==
  ASSUME NEW tools \in ToolCalls \cup {<<>>}
  PROVE  /\ AgOthers(tools) \in ToolCalls \cup {<<>>}
         /\ AgOthers(tools) # <<>> => Head(AgOthers(tools)) \notin CommandKinds
<1> DEFINE others == {i \in DOMAIN tools : tools[i] \notin CommandKinds}
<1>1. CASE others = {}
  BY <1>1 DEF AgOthers
<1>2. CASE others # {}
  <2>1. tools \in ToolCalls
    BY <1>2
  <2>2. PICK n \in 1..MaxTools : tools \in [1..n -> ToolKinds]
    BY <2>1, ToolCallsAre
  <2>3. n \in Nat /\ MaxTools \in Nat /\ others \subseteq 1..n /\ 1..n \subseteq Nat
    BY <2>2, AgAssumption
  <2>4. tools \in Seq(ToolKinds) /\ Len(tools) = n
    BY <2>2, <2>3
  <2> DEFINE first == CHOOSE i \in others : \A k \in others : i <= k
             left == SubSeq(tools, first, n)
  <2>5. first \in others
    <3>1. \E m \in others : \A k \in others : m <= k
      BY <1>2, <2>3, LeastOf
    <3> HIDE DEF others
    <3> QED
      BY <3>1
  <2>6. AgOthers(tools) = left
    BY <1>2, <2>4 DEF AgOthers
  <2>7. first \in 1..n /\ tools[first] \notin CommandKinds
    BY <2>3, <2>5
  <2> HIDE DEF first, others
  <2>8. /\ left \in Seq(ToolKinds) /\ Len(left) = n - first + 1
        /\ left[1] = tools[first]
    BY <2>3, <2>4, <2>7
  <2> HIDE DEF left
  <2>9. left \in [1..(n - first + 1) -> ToolKinds] /\ n - first + 1 \in 1..MaxTools
    BY <2>2, <2>3, <2>7, <2>8, LenProperties
  <2>10. left \in ToolCalls
    BY <2>9, ToolCallsAre
  <2>11. Head(left) = left[1]
    BY <2>8
  <2> QED
    BY <2>6, <2>7, <2>8, <2>10, <2>11
<1> QED
  BY <1>1, <1>2

\* Where no list of commands begins, none goes on.
LEMMA NoListNoMore ==
  ASSUME NEW tools \in Answers, ~HasKind(tools, {"batch"})
  PROVE  NoneOf(tools, {"batch", "more"})
<1>1. PICK n \in 1..MaxTools : tools \in [1..n -> ToolKinds]
  BY ToolCallsAre DEF Answers
<1>2. n \in Nat
  BY <1>1, AgAssumption
<1> DEFINE T == {i \in 1..n : tools[i] = "more"}
<1>3. SUFFICES ASSUME T # {} PROVE FALSE
  BY <1>1 DEF NoneOf, HasKind
<1>4. PICK m \in T : \A k \in T : m <= k
  <2>1. T \subseteq Nat
    BY <1>2
  <2> HIDE DEF T
  <2> QED
    BY <1>3, <2>1, LeastOf
<1>5. m > 1 /\ tools[m - 1] \in {"batch", "more"} /\ m - 1 \in 1..n
  BY <1>1, <1>2, <1>4 DEF Answers
<1>6. tools[m - 1] = "more"
  BY <1>1, <1>5 DEF HasKind
<1>7. m - 1 \in T
  BY <1>5, <1>6
<1>8. m <= m - 1 /\ m \in Nat
  BY <1>2, <1>4, <1>7
<1> QED
  BY <1>8

\* Among tools none of which is of the kinds K is none to begin with.
LEMMA NoneOfHead ==
  ASSUME NEW tools \in ToolCalls, NEW K, NoneOf(tools, K)
  PROVE  Head(tools) \notin K /\ Head(tools) \in ToolKinds
<1>1. PICK n \in 1..MaxTools : tools \in [1..n -> ToolKinds]
  BY ToolCallsAre
<1>2. n \in Nat \ {0} /\ 1 \in DOMAIN tools
  BY <1>1, AgAssumption
<1>3. tools \in Seq(ToolKinds) /\ Len(tools) = n
  BY <1>1, <1>2
<1> QED
  BY <1>2, <1>3 DEF NoneOf

(***************************************************************************)
(* The cut of the conversation.                                            *)
(***************************************************************************)
Follow(talk) == \A i \in DOMAIN talk : talk[i] = "results" => i > 1 /\ talk[i - 1] = "use"

LEMMA KeepFromIs ==
  ASSUME NEW talk \in Seq(Messages), Len(talk) > MaxMessages
  PROVE  /\ KeepFrom(talk) \in (Len(talk) - MaxMessages + 1)..Len(talk)
         /\ talk[KeepFrom(talk)] # "results" \/ KeepFrom(talk) = Len(talk)
         /\ \A j \in (Len(talk) - MaxMessages + 1)..(KeepFrom(talk) - 1) : talk[j] = "results"
<1> DEFINE first == Len(talk) - MaxMessages + 1
           T == {i \in first..Len(talk) : talk[i] # "results" \/ i = Len(talk)}
<1>1. first \in Nat \ {0} /\ Len(talk) \in Nat /\ first <= Len(talk)
  BY AgAssumption
<1>2. T \subseteq Nat /\ Len(talk) \in T
  BY <1>1
<1>3. PICK m \in T : \A k \in T : m <= k
  BY <1>2, LeastOf
<1>4. m \in first..Len(talk) /\ (talk[m] # "results" \/ m = Len(talk))
  BY <1>3
<1>5. \A j \in first..(m - 1) : talk[j] = "results"
  <2>1. SUFFICES ASSUME NEW j \in first..(m - 1), talk[j] # "results" PROVE FALSE
    OBVIOUS
  <2>2. j \in T /\ j < m
    BY <1>1, <1>4, <2>1
  <2> QED
    BY <1>1, <1>3, <1>4, <2>2
<1> QED
  BY <1>4, <1>5 DEF KeepFrom

LEMMA TruncatedType ==
  ASSUME NEW talk \in Seq(Messages)
  PROVE  Truncated(talk) \in Seq(Messages)
<1>1. CASE Len(talk) <= MaxMessages
  BY <1>1 DEF Truncated
<1>2. CASE ~(Len(talk) <= MaxMessages)
  <2>1. Len(talk) > MaxMessages /\ Len(talk) \in Nat
    BY <1>2, AgAssumption
  <2>2. KeepFrom(talk) \in 1..Len(talk)
    BY <2>1, KeepFromIs, AgAssumption
  <2> QED
    BY <1>2, <2>1, <2>2 DEF Truncated
<1> QED
  BY <1>1, <1>2

\* Two messages or more are kept, so the cut never falls between a call and its
\* results: were the first message kept results, it would be the last of all, and
\* its call before it would have been cut as results.
LEMMA TruncatedFollow ==
  ASSUME NEW talk \in Seq(Messages), Follow(talk), MaxMessages > 1
  PROVE  Follow(Truncated(talk))
<1>1. CASE Len(talk) <= MaxMessages
  BY <1>1 DEF Truncated
<1>2. CASE ~(Len(talk) <= MaxMessages)
  <2> DEFINE k == KeepFrom(talk)
             cut == SubSeq(talk, k, Len(talk))
  <2>0. DOMAIN talk = 1..Len(talk)
    OBVIOUS
  <2>1. Len(talk) > MaxMessages /\ Len(talk) \in Nat /\ MaxMessages \in Nat
    BY <1>2, AgAssumption
  <2>2. /\ k \in (Len(talk) - MaxMessages + 1)..Len(talk) /\ k \in 1..Len(talk)
        /\ talk[k] # "results" \/ k = Len(talk)
        /\ \A j \in (Len(talk) - MaxMessages + 1)..(k - 1) : talk[j] = "results"
    BY <2>1, KeepFromIs
  <2> HIDE DEF k
  <2>3. talk[k] # "results"
    <3>1. SUFFICES ASSUME talk[k] = "results" PROVE FALSE
      OBVIOUS
    <3>2. k = Len(talk) /\ talk[k - 1] = "use"
      BY <2>0, <2>1, <2>2, <3>1 DEF Follow
    <3>3. k - 1 \in (Len(talk) - MaxMessages + 1)..(k - 1)
      BY <2>1, <2>2, <3>2
    <3> QED
      BY <2>2, <3>2, <3>3
  <2>4. /\ DOMAIN cut = 1..(Len(talk) - k + 1)
        /\ \A i \in 1..(Len(talk) - k + 1) : cut[i] = talk[k + i - 1]
    BY <2>1, <2>2
  <2>5. Follow(cut)
    <3>1. SUFFICES ASSUME NEW i \in 1..(Len(talk) - k + 1), cut[i] = "results"
                   PROVE  i > 1 /\ cut[i - 1] = "use"
      BY <2>4 DEF Follow
    <3>2. talk[k + i - 1] = "results" /\ k + i - 1 \in 1..Len(talk)
      BY <2>1, <2>2, <2>4, <3>1
    <3>3. i # 1
      BY <2>2, <2>3, <3>2
    <3>4. talk[(k + i - 1) - 1] = "use"
      BY <2>0, <3>2 DEF Follow
    <3>5. i - 1 \in 1..(Len(talk) - k + 1)
      BY <2>1, <2>2, <3>1, <3>3
    <3> QED
      BY <2>1, <2>2, <2>4, <3>1, <3>3, <3>4, <3>5
  <2> QED
    BY <1>2, <2>5 DEF Truncated, k
<1> QED
  BY <1>1, <1>2

LEMMA AppendFollow ==
  ASSUME NEW talk \in Seq(Messages), Follow(talk), NEW m \in Messages,
         m = "results" => Len(talk) > 0 /\ talk[Len(talk)] = "use"
  PROVE  Follow(Append(talk, m)) /\ Append(talk, m) \in Seq(Messages)
<1>1. /\ Len(talk) \in Nat /\ DOMAIN talk = 1..Len(talk)
      /\ DOMAIN Append(talk, m) = 1..(Len(talk) + 1)
      /\ Append(talk, m)[Len(talk) + 1] = m
      /\ \A i \in 1..Len(talk) : Append(talk, m)[i] = talk[i]
  OBVIOUS
<1>2. SUFFICES ASSUME NEW i \in 1..(Len(talk) + 1), Append(talk, m)[i] = "results"
               PROVE  i > 1 /\ Append(talk, m)[i - 1] = "use"
  BY <1>1 DEF Follow
<1>3. CASE i = Len(talk) + 1
  <2>1. m = "results"
    BY <1>1, <1>2, <1>3
  <2>2. Len(talk) > 0 /\ talk[Len(talk)] = "use" /\ Len(talk) \in 1..Len(talk)
    BY <1>1, <2>1
  <2> QED
    BY <1>1, <1>3, <2>2
<1>4. CASE i # Len(talk) + 1
  <2>1. i \in 1..Len(talk) /\ talk[i] = "results"
    BY <1>1, <1>2, <1>4
  <2>2. i > 1 /\ talk[i - 1] = "use"
    BY <1>1, <2>1 DEF Follow
  <2> QED
    BY <1>1, <2>1, <2>2
<1> QED
  BY <1>3, <1>4
(***************************************************************************)
(* The state of the loops.                                                 *)
(***************************************************************************)
AgStates == Busy \cup {"idle", "waiting_approval", "error"}
NoTools == {"off", "api", "aborted"}
LoopsOK ==
  /\ agLoop \in [Loops -> AgRecord]
  /\ \A l \in Loops : agLoop[l].tools = <<>> <=> agLoop[l].at \in NoTools

\* Only loop l changes.
LEMMA OneLoopSet ==
  ASSUME LoopsOK, NEW l \in Loops, NEW r \in AgRecord, r.tools = <<>> <=> r.at \in NoTools,
         agLoop' = [agLoop EXCEPT ![l] = r]
  PROVE  LoopsOK' /\ agLoop'[l] = r /\ \A k \in Loops \ {l} : agLoop'[k] = agLoop[k]
BY DEF LoopsOK

\* The records the loop goes through.
LEMMA RecordsAre ==
  ASSUME NEW at \in AgPlaces, NEW level \in AgLevels,
         NEW tools \in ToolCalls \cup {<<>>}, NEW approved \in BOOLEAN
  PROVE  [at |-> at, level |-> level, tools |-> tools, approved |-> approved] \in AgRecord
BY DEF AgRecord

LEMMA OffIs == AgOff \in AgRecord /\ AgOff.tools = <<>> /\ AgOff.at = "off"
BY DEF AgOff, AgRecord, AgPlaces, AgLevels

LEMMA HistoriesAre ==
  ASSUME NEW talk \in Histories
  PROVE  talk \in Seq(Messages) /\ \A i \in DOMAIN talk : talk[i] # "results"
<1>1. PICK n \in 0..MaxMessages : talk \in [1..n -> {"text"}]
  BY DEF Histories
<1>2. n \in Nat
  BY <1>1, AgAssumption
<1> QED
  BY <1>1, <1>2 DEF Messages

LEMMA ToolsAreSome == <<>> \notin ToolCalls
<1>1. SUFFICES ASSUME <<>> \in ToolCalls PROVE FALSE
  OBVIOUS
<1>2. PICK n \in 1..MaxTools : <<>> \in [1..n -> ToolKinds]
  BY <1>1, ToolCallsAre
<1>3. DOMAIN <<>> = 1..n /\ n >= 1
  BY <1>2, AgAssumption
<1> QED
  BY <1>3

(***************************************************************************)
(* What holds of the state beside its types.                               *)
(***************************************************************************)
Lists == {"batch", "more"}
\* The tools a loop has, by where it is: what waits for the user holds no list of
\* commands, what was granted was approved, a loop that is not on safe-auto runs no
\* command or approved ones, and after a refusal none comes next.
WaitingHaveNoLists ==
  \A l \in Loops : agLoop[l].at \in {"approval", "granted"} => NoneOf(agLoop[l].tools, Lists)
GrantedWereApproved == \A l \in Loops : agLoop[l].at = "granted" => agLoop[l].approved
ToolsWereApproved ==
  \A l \in Loops : agLoop[l].at = "tools" /\ agLoop[l].level # "safe-auto" =>
    \/ NoneOf(agLoop[l].tools, CommandKinds)
    \/ agLoop[l].approved /\ NoneOf(agLoop[l].tools, Lists)
RestRunsNoCommand ==
  \A l \in Loops : agLoop[l].at = "rest" => Head(agLoop[l].tools) \notin CommandKinds

InRound == {"approval", "granted", "refused", "tools", "rest"}
OnlyOne == ~agMixed => \A l, k \in Alive : l = k
CallIsLast ==
  ~agMixed => \A l \in Loops :
    agLoop[l].at \in InRound => Len(agTalk) > 0 /\ agTalk[Len(agTalk)] = "use"
TalkFollows == ~agMixed /\ MaxMessages > 1 => Follow(agTalk)

Commands ==
  /\ PanelIsOfTheWaiting /\ WaitingHaveNoLists /\ GrantedWereApproved
  /\ ToolsWereApproved /\ RestRunsNoCommand
Talk == OnlyOne /\ CallIsLast /\ TalkFollows
AgInv == AgTypeOK /\ Commands /\ Talk

(***************************************************************************)
(* Types.                                                                  *)
(***************************************************************************)
\* The variables beside the loops.
RestOK ==
  /\ agState \in AgStates /\ agLevel \in AgLevels
  /\ agStop \in BOOLEAN /\ agMixed \in BOOLEAN
  /\ agAbort \in Loops \cup {"none"} /\ agPending \in Loops \cup {"none"}
  /\ agResolver \in Loops \cup {"none"} /\ agHalted \in Loops \cup {"none"}
  /\ agTalk \in Seq(Messages)

LEMMA AgTypeParts == AgTypeOK <=> LoopsOK /\ RestOK
BY DEF AgTypeOK, LoopsOK, RestOK, AgStates, NoTools, AgRecord

LEMMA EndsType ==
  ASSUME AgTypeOK, NEW l \in Loops, NEW state, Ends(l, state)
  PROVE  /\ LoopsOK' /\ agLoop' = [agLoop EXCEPT ![l] = AgOff]
         /\ agStop' \in BOOLEAN /\ agAbort' \in Loops \cup {"none"}
         /\ agHalted' \in Loops \cup {"none"} /\ agState' = state
<1>1. LoopsOK'
  BY AgTypeParts, OffIs, OneLoopSet DEF Ends, NoTools
<1> QED
  BY <1>1, AgTypeParts DEF Ends, Left, RestOK

LEMMA RoundType ==
  ASSUME AgTypeOK, NEW l \in Loops, NEW talk \in Seq(Messages), NEW level \in AgLevels,
         NEW state \in AgStates, Round(l, talk, level, state)
  PROVE  /\ LoopsOK' /\ agStop' \in BOOLEAN /\ agState' \in AgStates
         /\ agHalted' \in Loops \cup {"none"} /\ agTalk' \in Seq(Messages)
         /\ agTalk' \in {talk, Truncated(talk)}
         /\ agLoop'[l].at \in {"off", "api"}
         /\ \A k \in Loops \ {l} : agLoop'[k] = agLoop[k]
<1>1. CASE agStop
  <2>1. Ends(l, state) /\ agTalk' = talk
    BY <1>1 DEF Round
  <2>2. LoopsOK' /\ agStop' \in BOOLEAN /\ agHalted' \in Loops \cup {"none"} /\ agState' = state
    BY <2>1, EndsType
  <2>3. agLoop'[l].at = "off" /\ \A k \in Loops \ {l} : agLoop'[k] = agLoop[k]
    BY <2>1, AgTypeParts, OffIs, OneLoopSet DEF Ends, NoTools
  <2> QED
    BY <2>1, <2>2, <2>3
<1>2. CASE ~agStop
  <2> DEFINE r == [AgOff EXCEPT !.at = "api", !.level = level]
  <2>1. /\ agLoop' = [agLoop EXCEPT ![l] = r]
        /\ agState' = "thinking" /\ agTalk' = Truncated(talk)
        /\ UNCHANGED <<agStop, agHalted>>
    BY <1>2 DEF Round
  <2>2. r \in AgRecord /\ r.tools = <<>> /\ r.at = "api"
    BY DEF AgOff, AgRecord, AgPlaces
  <2> HIDE DEF r
  <2>3. LoopsOK' /\ agLoop'[l] = r /\ \A k \in Loops \ {l} : agLoop'[k] = agLoop[k]
    BY <2>1, <2>2, AgTypeParts, OneLoopSet DEF NoTools
  <2> QED
    BY <2>1, <2>2, <2>3, AgTypeParts, TruncatedType DEF RestOK, AgStates, Busy
<1> QED
  BY <1>1, <1>2

LEMMA EndRoundType ==
  ASSUME AgTypeOK, NEW l \in Loops, EndRound(l)
  PROVE  /\ LoopsOK' /\ agStop' \in BOOLEAN /\ agState' \in AgStates
         /\ agHalted' \in Loops \cup {"none"} /\ agTalk' \in Seq(Messages)
         /\ agPending' = "none" /\ agLoop'[l].at \in {"off", "api"}
         /\ \A k \in Loops \ {l} : agLoop'[k] = agLoop[k]
<1>1. /\ Append(agTalk, "results") \in Seq(Messages) /\ agLoop[l].level \in AgLevels
      /\ agState \in AgStates
  BY AgTypeParts DEF RestOK, LoopsOK, AgRecord, Messages
<1> QED
  BY <1>1, RoundType DEF EndRound

LEMMA AgInitType == AgInit => AgTypeOK
<1> SUFFICES ASSUME AgInit PROVE AgTypeOK
  OBVIOUS
<1>1. agLoop \in [Loops -> AgRecord] /\ \A l \in Loops : agLoop[l] = AgOff
  BY OffIs DEF AgInit
<1>2. LoopsOK
  BY <1>1, OffIs DEF LoopsOK, NoTools
<1>3. <<>> \in Seq(Messages)
  OBVIOUS
<1>4. RestOK
  BY <1>3 DEF AgInit, RestOK, AgStates, Busy, AgLevels
<1> QED
  BY <1>2, <1>4, AgTypeParts

LEMMA TypeStep == AgTypeOK /\ PanelIsOfTheWaiting /\ [AgNext]_agVars => AgTypeOK'
<1> SUFFICES ASSUME AgTypeOK, PanelIsOfTheWaiting, [AgNext]_agVars PROVE LoopsOK' /\ RestOK'
  BY AgTypeParts, PTL
<1>0. LoopsOK /\ RestOK /\ PanelIsOfTheWaiting
  BY AgTypeParts
<1>1. ASSUME NEW l \in Loops, AgSend(l) PROVE LoopsOK' /\ RestOK'
  <2>1. Append(agTalk, "text") \in Seq(Messages) /\ agLevel \in AgLevels /\ agState \in AgStates
    BY <1>0 DEF RestOK, Messages
  <2>2. CASE agStop
    BY <1>0, <1>1, <2>1, <2>2 DEF AgSend, LoopsOK, RestOK
  <2>3. CASE ~agStop
    <3>1. Round(l, Append(agTalk, "text"), agLevel, agState) /\ agAbort' = l
      BY <1>1, <2>3 DEF AgSend
    <3>2. /\ LoopsOK' /\ agStop' \in BOOLEAN /\ agState' \in AgStates
          /\ agHalted' \in Loops \cup {"none"} /\ agTalk' \in Seq(Messages)
      BY <2>1, <3>1, RoundType
    <3>3. agMixed' \in BOOLEAN /\ UNCHANGED <<agLevel, agPending, agResolver>>
      BY <1>0, <1>1 DEF AgSend, RestOK
    <3> QED
      BY <1>0, <3>1, <3>2, <3>3 DEF RestOK
  <2> QED
    BY <2>2, <2>3
<1>2. ASSUME NEW level \in AgLevels, SetLevel(level) PROVE LoopsOK' /\ RestOK'
  BY <1>0, <1>2 DEF SetLevel, LoopsOK, RestOK
<1>3. ASSUME NEW answer \in {"granted", "refused"}, NEW state \in AgStates, Decide(answer, state)
      PROVE  LoopsOK' /\ RestOK'
  <2> DEFINE r == [agLoop[agResolver] EXCEPT !.at = answer,
                     !.approved = (answer = "granted" /\ agPending = agResolver)]
  <2>1. agResolver \in Loops /\ agLoop' = [agLoop EXCEPT ![agResolver] = r]
    BY <1>0, <1>3 DEF Decide, RestOK, LoopsOK
  <2>2. r \in AgRecord /\ (r.tools = <<>> <=> r.at \in NoTools)
    BY <1>0, <1>3, <2>1 DEF LoopsOK, AgRecord, AgPlaces, NoTools, PanelIsOfTheWaiting, Decide
  <2> HIDE DEF r
  <2>3. LoopsOK'
    BY <1>0, <2>1, <2>2, OneLoopSet
  <2> QED
    BY <1>0, <1>3, <2>3 DEF Decide, RestOK
<1>4. CASE Approve \/ Reject
  BY <1>0, <1>3, <1>4 DEF Approve, Reject, RestOK, AgStates
<1>5. CASE AgStopPressed
  <2>1. \A l \in Loops : /\ agLoop[l] \in AgRecord
                         /\ agLoop[l].tools = <<>> <=> agLoop[l].at \in NoTools
                         /\ l = agResolver => agLoop[l].at = "approval"
    BY <1>0, AgAssumption DEF LoopsOK, PanelIsOfTheWaiting, RestOK
  <2>2. LoopsOK'
    <3>1. ASSUME NEW l \in Loops
          PROVE  agLoop'[l] \in AgRecord /\ (agLoop'[l].tools = <<>> <=> agLoop'[l].at \in NoTools)
      <4>1. CASE l = agResolver
        BY <1>0, <1>5, <2>1, <4>1 DEF AgStopPressed, AgRecord, AgPlaces, NoTools
      <4>2. CASE l # agResolver /\ l = agAbort /\ agLoop[l].at = "api"
        BY <1>0, <1>5, <2>1, <4>2 DEF AgStopPressed, AgRecord, AgPlaces, NoTools
      <4>3. CASE l # agResolver /\ ~(l = agAbort /\ agLoop[l].at = "api")
        BY <1>0, <1>5, <2>1, <4>3 DEF AgStopPressed
      <4> QED
        BY <4>1, <4>2, <4>3
    <3>2. agLoop' = [l \in Loops |-> agLoop'[l]]
      BY <1>5 DEF AgStopPressed
    <3> QED
      BY <3>1, <3>2 DEF LoopsOK
  <2>3. agHalted' \in Loops \cup {"none"}
    <3>1. Cardinality(Alive) = 1 => Alive # {}
      BY FS_EmptySet
    <3> QED
      BY <1>5, <3>1 DEF AgStopPressed, Alive
  <2> QED
    BY <1>0, <1>5, <2>2, <2>3 DEF AgStopPressed, RestOK, AgStates
<1>6. CASE AgClear \/ AgContinue
  <2>1. <<>> \in Seq(Messages)
    OBVIOUS
  <2>2. agLoop' = agLoop /\ agTalk' \in Seq(Messages)
    BY <1>6, <2>1, HistoriesAre DEF AgClear, AgContinue
  <2> QED
    BY <1>0, <1>6, <2>2 DEF AgClear, AgContinue, LoopsOK, RestOK, AgStates
<1>7. ASSUME NEW l \in Loops, Answered(l) PROVE LoopsOK' /\ RestOK'
  <2>1. agTalk' \in Seq(Messages)
    BY <1>0, <1>7 DEF Answered, RestOK, Messages
  <2> QED
    BY <1>0, <1>7, <2>1, EndsType DEF Answered, RestOK, AgStates
<1>8. ASSUME NEW l \in Loops, ToolsCalled(l) PROVE LoopsOK' /\ RestOK'
  <2>1. agTalk' \in Seq(Messages) /\ UNCHANGED <<agLevel, agMixed>>
    BY <1>0, <1>8 DEF ToolsCalled, RestOK, Messages
  <2>2. PICK tools \in ToolCalls : Asked(l, tools) \/ Executes(l, tools) \/ NothingToShow(l)
    BY <1>8 DEF ToolsCalled, Answers
  <2>3. ASSUME NEW at \in {"approval", "tools"},
               agLoop' = [agLoop EXCEPT ![l].at = at, ![l].tools = tools]
        PROVE  LoopsOK'
    <3> DEFINE r == [agLoop[l] EXCEPT !.at = at, !.tools = tools]
    <3>1. agLoop' = [agLoop EXCEPT ![l] = r]
      BY <1>0, <2>3 DEF LoopsOK
    <3>2. r \in AgRecord /\ (r.tools = <<>> <=> r.at \in NoTools)
      BY <1>0, ToolsAreSome DEF LoopsOK, AgRecord, AgPlaces, NoTools
    <3> HIDE DEF r
    <3> QED
      BY <1>0, <3>1, <3>2, OneLoopSet
  <2>4. CASE Asked(l, tools)
    BY <1>0, <2>1, <2>3, <2>4 DEF Asked, RestOK, AgStates
  <2>5. CASE Executes(l, tools)
    BY <1>0, <2>1, <2>3, <2>5 DEF Executes, RestOK, AgStates, Busy
  <2>6. CASE NothingToShow(l)
    BY <1>0, <2>1, <2>6, EndsType DEF NothingToShow, RestOK, AgStates
  <2> QED
    BY <2>2, <2>4, <2>5, <2>6
<1>9. ASSUME NEW l \in Loops, ApiFails(l) PROVE LoopsOK' /\ RestOK'
  BY <1>0, <1>9, EndsType DEF ApiFails, RestOK, AgStates
<1>10. ASSUME NEW l \in Loops, agLoop[l].tools # <<>>, NEW at \in {"tools", "rest"},
              NEW tools \in ToolCalls,
              agLoop' = [agLoop EXCEPT ![l].at = at, ![l].tools = tools]
       PROVE  LoopsOK'
  <2> DEFINE r == [agLoop[l] EXCEPT !.at = at, !.tools = tools]
  <2>1. agLoop' = [agLoop EXCEPT ![l] = r]
    BY <1>0, <1>10 DEF LoopsOK
  <2>2. r \in AgRecord /\ (r.tools = <<>> <=> r.at \in NoTools)
    BY <1>0, <1>10, ToolsAreSome DEF LoopsOK, AgRecord, AgPlaces, NoTools
  <2> HIDE DEF r
  <2> QED
    BY <1>0, <2>1, <2>2, OneLoopSet
<1>11. ASSUME NEW l \in Loops, EndRound(l),
              agAbort' = (IF agStop THEN "none" ELSE agAbort),
              UNCHANGED <<agLevel, agResolver, agMixed>>
       PROVE  LoopsOK' /\ RestOK'
  <2>1. agAbort' \in Loops \cup {"none"}
    BY <1>0, <1>11 DEF RestOK
  <2> QED
    BY <1>0, <1>11, <2>1, EndRoundType DEF RestOK
<1>12. ASSUME NEW l \in Loops, ToolEnds(l) PROVE LoopsOK' /\ RestOK'
  <2>1. agLoop[l].tools \in ToolCalls /\ agLoop[l].at \in {"tools", "rest"}
    BY <1>0, <1>12 DEF ToolEnds, LoopsOK, AgRecord, NoTools
  <2>2. CASE Rest(l) = <<>>
    BY <1>11, <1>12, <2>2 DEF ToolEnds
  <2>3. CASE Rest(l) # <<>>
    <3>1. Rest(l) \in ToolCalls
      <4>1. Tail(agLoop[l].tools) \in ToolCalls \cup {<<>>}
        BY <2>1, TailOfTools
      <4>2. AgOthers(Tail(agLoop[l].tools)) \in ToolCalls \cup {<<>>}
        BY <4>1, OthersOfTools
      <4> QED
        BY <2>3, <4>1, <4>2 DEF Rest
    <3>2. /\ agLoop' = [agLoop EXCEPT ![l].tools = Rest(l)]
          /\ UNCHANGED <<agState, agStop, agAbort, agPending, agTalk, agHalted, agLevel, agResolver, agMixed>>
      BY <1>12, <2>3 DEF ToolEnds
    <3>3. agLoop' = [agLoop EXCEPT ![l].at = agLoop[l].at, ![l].tools = Rest(l)]
      BY <1>0, <3>2 DEF LoopsOK, AgRecord
    <3>4. LoopsOK'
      BY <1>10, <2>1, <3>1, <3>3, ToolsAreSome
    <3> QED
      BY <1>0, <3>2, <3>4 DEF RestOK
  <2> QED
    BY <2>2, <2>3
<1>13. ASSUME NEW l \in Loops, ToolThrows(l) PROVE LoopsOK' /\ RestOK'
  BY <1>0, <1>13, EndsType DEF ToolThrows, RestOK, AgStates
<1>14. ASSUME NEW l \in Loops, Resume(l) PROVE LoopsOK' /\ RestOK'
  <2>1. agLoop[l].tools \in ToolCalls /\ agLoop[l].at \in {"granted", "refused"}
    BY <1>0, <1>14 DEF Resume, LoopsOK, AgRecord, NoTools
  <2>2. CASE /\ agLoop' = [agLoop EXCEPT ![l].at = "tools"] /\ agState' = "executing"
             /\ UNCHANGED <<agLevel, agStop, agAbort, agPending, agResolver, agTalk, agHalted, agMixed>>
    <3>1. agLoop' = [agLoop EXCEPT ![l].at = "tools", ![l].tools = agLoop[l].tools]
      BY <1>0, <2>2 DEF LoopsOK, AgRecord
    <3>2. LoopsOK'
      BY <1>10, <2>1, <3>1, ToolsAreSome
    <3> QED
      BY <1>0, <2>2, <3>2 DEF RestOK, AgStates, Busy
  <2>3. CASE /\ EndRound(l) /\ agAbort' = (IF agStop THEN "none" ELSE agAbort)
             /\ UNCHANGED <<agLevel, agResolver, agMixed>>
    BY <1>11, <2>3
  <2>4. CASE /\ AgOthers(agLoop[l].tools) # <<>>
             /\ agLoop' = [agLoop EXCEPT ![l].at = "rest", ![l].tools = AgOthers(@)]
             /\ UNCHANGED <<agState, agStop, agAbort, agPending, agTalk, agHalted>>
             /\ UNCHANGED <<agLevel, agResolver, agMixed>>
    <3>1. AgOthers(agLoop[l].tools) \in ToolCalls
      BY <2>1, <2>4, OthersOfTools
    <3>2. agLoop' = [agLoop EXCEPT ![l].at = "rest", ![l].tools = AgOthers(agLoop[l].tools)]
      BY <1>0, <2>4 DEF LoopsOK, AgRecord
    <3>3. LoopsOK'
      BY <1>10, <2>1, <3>1, <3>2, ToolsAreSome
    <3> QED
      BY <1>0, <2>4, <3>3 DEF RestOK
  <2> QED
    BY <1>14, <2>2, <2>3, <2>4 DEF Resume
<1>15. CASE UNCHANGED agVars
  BY <1>0, <1>15 DEF agVars, LoopsOK, RestOK
<1> QED
  BY <1>1, <1>2, <1>4, <1>5, <1>6, <1>7, <1>8, <1>9, <1>12, <1>13, <1>14, <1>15
     DEF AgNext, UserStep, LoopStep

(***************************************************************************)
(* The panel and the commands.                                             *)
(***************************************************************************)
\* A loop that does not wait for an approval moves to a place where it runs no
\* command, and at most clears the panel.
LEMMA QuietMove ==
  ASSUME Commands, AgTypeOK, NEW l \in Loops, agLoop[l].at # "approval",
         \A k \in Loops \ {l} : agLoop'[k] = agLoop[k],
         agLoop'[l].at \notin {"approval", "granted", "tools"},
         agLoop'[l].at = "rest" => Head(agLoop'[l].tools) \notin CommandKinds,
         agResolver' = agResolver, agPending' \in {agPending, "none"}
  PROVE  Commands'
<1>1. agResolver \in Loops \cup {"none"} /\ "none" \notin Loops
  BY AgTypeParts, AgAssumption DEF RestOK
<1>2. PanelIsOfTheWaiting'
  BY <1>1 DEF Commands, PanelIsOfTheWaiting
<1>3. /\ WaitingHaveNoLists' /\ GrantedWereApproved'
      /\ ToolsWereApproved' /\ RestRunsNoCommand'
  BY DEF Commands, WaitingHaveNoLists, GrantedWereApproved, ToolsWereApproved, RestRunsNoCommand
<1> QED
  BY <1>2, <1>3 DEF Commands

\* The property the runs check.
LEMMA CommandsShown == AgTypeOK /\ Commands => CommandsWereShown
<1> SUFFICES ASSUME AgTypeOK, Commands, NEW l \in Loops, agLoop[l].level # "safe-auto",
                    Running(l, CommandKinds)
             PROVE  agLoop[l].approved /\ Running(l, {"command"})
  BY DEF CommandsWereShown
<1>1. agLoop[l].at = "tools"
  BY DEF Running, Commands, RestRunsNoCommand
<1>2. agLoop[l].tools \in ToolCalls
  BY <1>1, AgTypeParts DEF LoopsOK, AgRecord, NoTools
<1>3. ~NoneOf(agLoop[l].tools, CommandKinds)
  BY <1>2, NoneOfHead DEF Running
<1>4. agLoop[l].approved /\ NoneOf(agLoop[l].tools, Lists)
  BY <1>1, <1>3 DEF Commands, ToolsWereApproved
<1>5. Head(agLoop[l].tools) \notin Lists
  BY <1>2, <1>4, NoneOfHead
<1> QED
  BY <1>1, <1>4, <1>5 DEF Running, Lists, CommandKinds

LEMMA EndsMove ==
  ASSUME AgTypeOK, NEW l \in Loops, NEW state, Ends(l, state)
  PROVE  agLoop'[l].at = "off" /\ \A k \in Loops \ {l} : agLoop'[k] = agLoop[k]
BY AgTypeParts, OffIs, OneLoopSet DEF Ends, NoTools

LEMMA CommandsInit == AgInit => Commands
BY DEF AgInit, Commands, PanelIsOfTheWaiting, WaitingHaveNoLists, GrantedWereApproved,
       ToolsWereApproved, RestRunsNoCommand, AgOff

LEMMA CommandsStep == AgTypeOK /\ Commands /\ [AgNext]_agVars => Commands'
<1> SUFFICES ASSUME AgTypeOK, Commands, [AgNext]_agVars PROVE Commands'
  OBVIOUS
<1>0. /\ LoopsOK /\ RestOK /\ "none" \notin Loops
      /\ PanelIsOfTheWaiting /\ WaitingHaveNoLists /\ GrantedWereApproved
      /\ ToolsWereApproved /\ RestRunsNoCommand
  BY AgTypeParts, AgAssumption DEF Commands
\* No loop moves and the panel is as it was or cleared.
<1>c. ASSUME agLoop' = agLoop, agResolver' = agResolver, agPending' \in {agPending, "none"}
      PROVE  Commands'
  BY <1>0, <1>c
     DEF Commands, PanelIsOfTheWaiting, WaitingHaveNoLists, GrantedWereApproved,
         ToolsWereApproved, RestRunsNoCommand
<1>1. ASSUME NEW l \in Loops, AgSend(l) PROVE Commands'
  <2>1. CASE agStop
    BY <1>c, <1>1, <2>1 DEF AgSend
  <2>2. CASE ~agStop
    <3>1. Append(agTalk, "text") \in Seq(Messages) /\ agLevel \in AgLevels /\ agState \in AgStates
      BY <1>0 DEF RestOK, Messages
    <3>2. /\ Round(l, Append(agTalk, "text"), agLevel, agState)
          /\ agLoop[l].at = "off" /\ UNCHANGED <<agPending, agResolver>>
      BY <1>1, <2>2 DEF AgSend
    <3>3. agLoop'[l].at \in {"off", "api"} /\ \A k \in Loops \ {l} : agLoop'[k] = agLoop[k]
      BY <3>1, <3>2, RoundType
    <3> QED
      BY <3>2, <3>3, QuietMove
  <2> QED
    BY <2>1, <2>2
<1>2. CASE AgClear \/ AgContinue \/ UNCHANGED agVars \/ \E level \in AgLevels : SetLevel(level)
  BY <1>c, <1>2 DEF AgClear, AgContinue, SetLevel, agVars
<1>3. ASSUME NEW answer \in {"granted", "refused"}, NEW state, Decide(answer, state) PROVE Commands'
  <2>1. /\ agPending = agResolver /\ agResolver \in Loops
        /\ agPending' = "none" /\ agResolver' = "none"
    BY <1>0, <1>3 DEF Decide, PanelIsOfTheWaiting, RestOK
  <2>2. /\ agLoop'[agResolver].at = answer
        /\ agLoop'[agResolver].tools = agLoop[agResolver].tools
        /\ answer = "granted" => agLoop'[agResolver].approved
        /\ \A k \in Loops \ {agResolver} : agLoop'[k] = agLoop[k]
    BY <1>0, <1>3, <2>1 DEF Decide, LoopsOK, AgRecord
  <2>3. agLoop[agResolver].at = "approval"
    BY <1>0, <2>1 DEF PanelIsOfTheWaiting
  <2>4. PanelIsOfTheWaiting'
    BY <2>1 DEF PanelIsOfTheWaiting
  <2>5. /\ WaitingHaveNoLists' /\ GrantedWereApproved'
        /\ ToolsWereApproved' /\ RestRunsNoCommand'
    BY <1>0, <1>3, <2>1, <2>2, <2>3
       DEF WaitingHaveNoLists, GrantedWereApproved, ToolsWereApproved, RestRunsNoCommand
  <2> QED
    BY <2>4, <2>5 DEF Commands
<1>4. CASE Approve \/ Reject
  BY <1>3, <1>4 DEF Approve, Reject
<1>5. CASE AgStopPressed
  <2>1. agPending' = "none" /\ agResolver' = "none"
    BY <1>5 DEF AgStopPressed
  <2>2. ASSUME NEW l \in Loops
        PROVE  agLoop'[l].at \in {"refused", "aborted"} \/ agLoop'[l] = agLoop[l]
    BY <1>0, <1>5, <2>2 DEF AgStopPressed, LoopsOK, AgRecord
  <2> QED
    BY <1>0, <2>1, <2>2
       DEF Commands, PanelIsOfTheWaiting, WaitingHaveNoLists, GrantedWereApproved,
           ToolsWereApproved, RestRunsNoCommand
<1>6. ASSUME NEW l \in Loops, Answered(l) \/ ApiFails(l) \/ ToolThrows(l) PROVE Commands'
  <2>1. PICK state : Ends(l, state)
    BY <1>6 DEF Answered, ApiFails, ToolThrows
  <2>2. agLoop[l].at # "approval" /\ UNCHANGED <<agPending, agResolver>>
    BY <1>6 DEF Answered, ApiFails, ToolThrows
  <2> QED
    BY <2>1, <2>2, EndsMove, QuietMove
<1>7. ASSUME NEW l \in Loops, ToolsCalled(l) PROVE Commands'
  <2>1. agLoop[l].at = "api"
    BY <1>7 DEF ToolsCalled
  <2>2. PICK tools \in ToolCalls :
          \/ agLoop[l].level = "safe-auto" /\ Executes(l, tools)
          \/ NoneOf(tools, CommandKinds) /\ Executes(l, tools)
          \/ NothingToShow(l)
          \/ ~HasKind(tools, {"batch"}) /\ Asked(l, tools) /\ tools \in Answers
    BY <1>7 DEF ToolsCalled, Answers, HasKind, NoneOf
  <2>3. CASE ~HasKind(tools, {"batch"}) /\ Asked(l, tools) /\ tools \in Answers
    <3>1. /\ agLoop'[l].at = "approval" /\ agPending' = l /\ agResolver' = l
          /\ agLoop'[l].tools = tools
          /\ \A k \in Loops \ {l} : agLoop'[k] = agLoop[k]
      BY <1>0, <2>3 DEF Asked, LoopsOK, AgRecord
    <3>2. NoneOf(tools, Lists)
      BY <2>3, NoListNoMore DEF Lists
    <3>3. PanelIsOfTheWaiting'
      BY <3>1 DEF PanelIsOfTheWaiting
    <3>4. /\ WaitingHaveNoLists' /\ GrantedWereApproved'
          /\ ToolsWereApproved' /\ RestRunsNoCommand'
      BY <1>0, <3>1, <3>2
         DEF WaitingHaveNoLists, GrantedWereApproved, ToolsWereApproved, RestRunsNoCommand
    <3> QED
      BY <3>3, <3>4 DEF Commands
  <2>4. CASE Executes(l, tools)
    <3>1. /\ agLoop'[l].at = "tools" /\ agLoop'[l].level = agLoop[l].level /\ agLoop'[l].tools = tools
          /\ \A k \in Loops \ {l} : agLoop'[k] = agLoop[k]
          /\ UNCHANGED <<agPending, agResolver>>
      BY <1>0, <2>4 DEF Executes, LoopsOK, AgRecord
    <3>2. CASE agLoop[l].level = "safe-auto" \/ NoneOf(tools, CommandKinds)
      <4>1. PanelIsOfTheWaiting'
        BY <1>0, <2>1, <3>1 DEF PanelIsOfTheWaiting, RestOK
      <4>2. /\ WaitingHaveNoLists' /\ GrantedWereApproved'
            /\ ToolsWereApproved' /\ RestRunsNoCommand'
        BY <1>0, <3>1, <3>2
           DEF WaitingHaveNoLists, GrantedWereApproved, ToolsWereApproved, RestRunsNoCommand
      <4> QED
        BY <4>1, <4>2 DEF Commands
    <3>3. CASE ~(agLoop[l].level = "safe-auto" \/ NoneOf(tools, CommandKinds))
      <4>1. NothingToShow(l) \/ Asked(l, tools)
        BY <2>2, <3>3
      <4>2. agLoop'[l].at \in {"off", "approval"}
        BY <1>0, <4>1, EndsMove DEF NothingToShow, Asked, LoopsOK, AgRecord
      <4> QED
        BY <3>1, <4>2
    <3> QED
      BY <3>2, <3>3
  <2>5. CASE NothingToShow(l)
    BY <2>1, <2>5, EndsMove, QuietMove DEF NothingToShow
  <2> QED
    BY <2>2, <2>3, <2>4, <2>5
<1>8. ASSUME NEW l \in Loops, EndRound(l), agResolver' = agResolver, agLoop[l].at # "approval"
      PROVE  Commands'
  BY <1>8, EndRoundType, QuietMove
<1>9. ASSUME NEW l \in Loops, ToolEnds(l) PROVE Commands'
  <2>1. agLoop[l].at \in {"tools", "rest"} /\ agLoop[l].tools \in ToolCalls /\ agResolver' = agResolver
    BY <1>0, <1>9 DEF ToolEnds, LoopsOK, AgRecord, NoTools
  <2>2. CASE Rest(l) = <<>>
    BY <1>8, <1>9, <2>1, <2>2 DEF ToolEnds
  <2>3. CASE Rest(l) # <<>>
    <3>1. /\ agLoop' = [agLoop EXCEPT ![l].tools = Rest(l)] /\ agPending' = agPending
      BY <1>9, <2>3 DEF ToolEnds
    <3>2. /\ agLoop'[l].at = agLoop[l].at /\ agLoop'[l].level = agLoop[l].level
          /\ agLoop'[l].approved = agLoop[l].approved /\ agLoop'[l].tools = Rest(l)
          /\ \A k \in Loops \ {l} : agLoop'[k] = agLoop[k]
      BY <1>0, <3>1 DEF LoopsOK, AgRecord
    <3>3. CASE agLoop[l].at = "rest"
      <4>1. Head(Rest(l)) \notin CommandKinds
        BY <2>1, <2>3, <3>3, TailOfTools, OthersOfTools DEF Rest
      <4> QED
        BY <3>1, <3>2, <3>3, <4>1, <2>1, QuietMove
    <3>4. CASE agLoop[l].at = "tools"
      <4>1. Rest(l) = Tail(agLoop[l].tools)
        BY <2>3, <3>4 DEF Rest
      <4>2. \A K : NoneOf(agLoop[l].tools, K) => NoneOf(Rest(l), K)
        BY <2>1, <4>1, TailOfTools
      <4>3. PanelIsOfTheWaiting'
        BY <1>0, <2>1, <3>1, <3>2, <3>4 DEF PanelIsOfTheWaiting
      <4>4. ToolsWereApproved'
        BY <1>0, <3>2, <3>4, <4>2 DEF ToolsWereApproved
      <4>5. WaitingHaveNoLists' /\ GrantedWereApproved' /\ RestRunsNoCommand'
        BY <1>0, <3>2, <3>4 DEF WaitingHaveNoLists, GrantedWereApproved, RestRunsNoCommand
      <4> QED
        BY <4>3, <4>4, <4>5 DEF Commands
    <3> QED
      BY <2>1, <3>3, <3>4
  <2> QED
    BY <2>2, <2>3
<1>10. ASSUME NEW l \in Loops, Resume(l) PROVE Commands'
  <2>1. agLoop[l].at \in {"granted", "refused"} /\ agResolver' = agResolver
    BY <1>10 DEF Resume
  <2>2. CASE /\ agLoop[l].at = "granted" /\ agLoop' = [agLoop EXCEPT ![l].at = "tools"]
             /\ UNCHANGED <<agPending, agResolver>>
    <3>1. /\ agLoop'[l].at = "tools" /\ agLoop'[l].approved = agLoop[l].approved
          /\ agLoop'[l].tools = agLoop[l].tools
          /\ \A k \in Loops \ {l} : agLoop'[k] = agLoop[k]
      BY <1>0, <2>2 DEF LoopsOK, AgRecord
    <3>2. PanelIsOfTheWaiting'
      BY <1>0, <2>1, <2>2, <3>1 DEF PanelIsOfTheWaiting
    <3>3. /\ WaitingHaveNoLists' /\ GrantedWereApproved'
          /\ ToolsWereApproved' /\ RestRunsNoCommand'
      BY <1>0, <2>2, <3>1
         DEF WaitingHaveNoLists, GrantedWereApproved, ToolsWereApproved, RestRunsNoCommand
    <3> QED
      BY <3>2, <3>3 DEF Commands
  <2>3. CASE EndRound(l)
    BY <1>8, <2>1, <2>3
  <2>4. CASE /\ AgOthers(agLoop[l].tools) # <<>>
             /\ agLoop' = [agLoop EXCEPT ![l].at = "rest", ![l].tools = AgOthers(@)]
             /\ agPending' = agPending
    <3>1. /\ agLoop'[l].at = "rest" /\ agLoop'[l].tools = AgOthers(agLoop[l].tools)
          /\ \A k \in Loops \ {l} : agLoop'[k] = agLoop[k]
      BY <1>0, <2>4 DEF LoopsOK, AgRecord
    <3>2. agLoop[l].tools \in ToolCalls \cup {<<>>}
      BY <1>0 DEF LoopsOK, AgRecord
    <3>3. Head(AgOthers(agLoop[l].tools)) \notin CommandKinds
      BY <2>4, <3>2, OthersOfTools
    <3> QED
      BY <2>1, <2>4, <3>1, <3>3, QuietMove
  <2> QED
    BY <1>10, <2>2, <2>3, <2>4 DEF Resume
<1> QED
  BY <1>1, <1>2, <1>4, <1>5, <1>6, <1>7, <1>9, <1>10 DEF AgNext, UserStep, LoopStep


(***************************************************************************)
(* The conversation.                                                       *)
(***************************************************************************)
\* Loops that were off stay off, and a loop that is in a round was in it before:
\* with the conversation as it was, nothing is disturbed.
LEMMA SameTalk ==
  ASSUME AgTypeOK, Talk, agTalk' = agTalk, agMixed' = agMixed,
         \A l \in Loops : agLoop[l].at = "off" => agLoop'[l].at = "off",
         \A l \in Loops : agLoop'[l].at \in InRound => agLoop[l].at \in InRound
  PROVE  Talk'
BY DEF Talk, OnlyOne, CallIsLast, TalkFollows, Alive

\* The only loop leaves its round, with one message more.
LEMMA RoundTalk ==
  ASSUME AgTypeOK, NEW l \in Loops, NEW m \in Messages, agMixed' = agMixed,
         OnlyOne, TalkFollows, ~agMixed => \A k \in Alive : k = l,
         ~agMixed /\ m = "results" => Len(agTalk) > 0 /\ agTalk[Len(agTalk)] = "use",
         agTalk' \in {Append(agTalk, m), Truncated(Append(agTalk, m))},
         agLoop'[l].at \notin InRound,
         \A k \in Loops \ {l} : agLoop'[k] = agLoop[k]
  PROVE  Talk'
<1> SUFFICES ASSUME ~agMixed PROVE Talk'
  BY DEF Talk, OnlyOne, CallIsLast, TalkFollows
<1>1. \A k \in Loops \ {l} : agLoop[k].at = "off"
  BY DEF Alive
<1>2. OnlyOne' /\ CallIsLast'
  BY <1>1 DEF OnlyOne, CallIsLast, Alive, InRound
<1>3. agTalk \in Seq(Messages)
  BY AgTypeParts DEF RestOK
<1>4. ASSUME MaxMessages > 1 PROVE Follow(agTalk')
  <2>1. Follow(agTalk)
    BY <1>4 DEF TalkFollows
  <2>2. Follow(Append(agTalk, m)) /\ Append(agTalk, m) \in Seq(Messages)
    BY <1>3, <2>1, AppendFollow
  <2> QED
    BY <1>4, <2>2, TruncatedFollow
<1>5. TalkFollows'
  BY <1>4 DEF TalkFollows, Follow
<1> QED
  BY <1>2, <1>5 DEF Talk

LEMMA TalkInit == AgInit => Talk
<1> SUFFICES ASSUME AgInit PROVE Talk
  OBVIOUS
<1>1. \A l \in Loops : agLoop[l].at = "off"
  BY DEF AgInit, AgOff
<1>2. Follow(<<>>)
  BY DEF Follow
<1> QED
  BY <1>1, <1>2 DEF AgInit, Talk, OnlyOne, CallIsLast, TalkFollows, Alive, InRound

LEMMA TalkStep == AgTypeOK /\ PanelIsOfTheWaiting /\ Talk /\ [AgNext]_agVars => Talk'
<1> SUFFICES ASSUME AgTypeOK, PanelIsOfTheWaiting, Talk, [AgNext]_agVars PROVE Talk'
  OBVIOUS
<1>0. /\ LoopsOK /\ RestOK /\ PanelIsOfTheWaiting /\ OnlyOne /\ CallIsLast /\ TalkFollows
      /\ agTalk \in Seq(Messages)
  BY AgTypeParts DEF Talk, RestOK
<1>a. ASSUME NEW l \in Loops, agLoop[l].at # "off", ~agMixed PROVE \A k \in Alive : k = l
  BY <1>0, <1>a DEF OnlyOne, Alive
<1>1. ASSUME NEW l \in Loops, AgSend(l) PROVE Talk'
  <2>1. CASE agMixed'
    BY <2>1 DEF Talk, OnlyOne, CallIsLast, TalkFollows
  <2>2. CASE ~agMixed'
    <3>1. Alive = {} /\ agMixed' = agMixed /\ ~agMixed
      BY <1>0, <1>1, <2>2 DEF AgSend, RestOK
    <3>2. CASE agStop
      <4>1. agTalk' = Append(agTalk, "text") /\ agLoop' = agLoop
        BY <1>1, <3>2 DEF AgSend
      <4>2. agLoop[l].at = "off"
        BY <1>1 DEF AgSend
      <4> QED
        BY <1>0, <3>1, <4>1, <4>2, RoundTalk DEF Messages, InRound
    <3>3. CASE ~agStop
      <4>1. Append(agTalk, "text") \in Seq(Messages) /\ agLevel \in AgLevels /\ agState \in AgStates
        BY <1>0 DEF RestOK, Messages
      <4>2. Round(l, Append(agTalk, "text"), agLevel, agState)
        BY <1>1, <3>3 DEF AgSend
      <4>3. /\ agTalk' \in {Append(agTalk, "text"), Truncated(Append(agTalk, "text"))}
            /\ agLoop'[l].at \in {"off", "api"}
            /\ \A k \in Loops \ {l} : agLoop'[k] = agLoop[k]
        BY <4>1, <4>2, RoundType
      <4> QED
        BY <1>0, <3>1, <4>3, RoundTalk DEF Messages, InRound
    <3> QED
      BY <3>2, <3>3
  <2> QED
    BY <2>1, <2>2
<1>2. CASE UNCHANGED agVars \/ \E level \in AgLevels : SetLevel(level)
  BY <1>2, SameTalk DEF agVars, SetLevel
<1>3. CASE Approve \/ Reject
  <2>1. PICK answer \in {"granted", "refused"}, state \in AgStates : Decide(answer, state)
    BY <1>0, <1>3 DEF Approve, Reject, RestOK, AgStates
  <2>2. /\ agResolver \in Loops /\ agLoop[agResolver].at = "approval"
        /\ agTalk' = agTalk /\ agMixed' = agMixed
    BY <1>0, <2>1 DEF Decide, PanelIsOfTheWaiting, RestOK
  <2>3. agLoop'[agResolver].at = answer /\ \A k \in Loops \ {agResolver} : agLoop'[k] = agLoop[k]
    BY <1>0, <2>1, <2>2 DEF Decide, LoopsOK, AgRecord
  <2> QED
    BY <2>2, <2>3, SameTalk DEF InRound
<1>4. CASE AgStopPressed
  <2>1. agTalk' = agTalk /\ agMixed' = agMixed
    BY <1>4 DEF AgStopPressed
  <2>2. agResolver \in Loops => agLoop[agResolver].at = "approval"
    BY <1>0, AgAssumption DEF PanelIsOfTheWaiting
  <2>3. ASSUME NEW l \in Loops
        PROVE  /\ agLoop[l].at = "off" => agLoop'[l].at = "off"
               /\ agLoop'[l].at \in InRound => agLoop[l].at \in InRound
    <3>1. CASE l = agResolver
      BY <2>2, <3>1 DEF InRound
    <3>2. CASE l # agResolver
      BY <1>0, <1>4, <3>2 DEF AgStopPressed, LoopsOK, AgRecord, InRound
    <3> QED
      BY <3>1, <3>2
  <2> QED
    BY <2>1, <2>3, SameTalk
<1>5. CASE AgClear \/ AgContinue
  <2>1. agLoop' = agLoop /\ (~agMixed' => Alive = {})
    BY <1>5 DEF AgClear, AgContinue
  <2>2. Follow(agTalk')
    BY <1>5, HistoriesAre DEF AgClear, AgContinue, Follow
  <2> QED
    BY <2>1, <2>2 DEF Talk, OnlyOne, CallIsLast, TalkFollows, Alive, InRound, Follow
<1>6. ASSUME NEW l \in Loops, Answered(l) \/ ApiFails(l) \/ ToolThrows(l) PROVE Talk'
  <2>1. PICK state : Ends(l, state)
    BY <1>6 DEF Answered, ApiFails, ToolThrows
  <2>2. agLoop[l].at # "off" /\ agMixed' = agMixed
    BY <1>6 DEF Answered, ApiFails, ToolThrows
  <2>3. agLoop'[l].at = "off" /\ \A k \in Loops \ {l} : agLoop'[k] = agLoop[k]
    BY <2>1, EndsMove
  <2>4. agTalk' = agTalk \/ agTalk' = Append(agTalk, "text")
    BY <1>6 DEF Answered, ApiFails, ToolThrows
  <2>5. CASE agTalk' = agTalk
    BY <2>2, <2>3, <2>5, SameTalk DEF InRound
  <2>6. CASE agTalk' = Append(agTalk, "text")
    BY <1>0, <1>a, <2>2, <2>3, <2>6, RoundTalk DEF Messages, InRound
  <2> QED
    BY <2>4, <2>5, <2>6
<1>7. ASSUME NEW l \in Loops, ToolsCalled(l) PROVE Talk'
  <2> SUFFICES ASSUME ~agMixed PROVE Talk'
    BY <1>7 DEF ToolsCalled, Talk, OnlyOne, CallIsLast, TalkFollows
  <2>1. agLoop[l].at = "api" /\ agTalk' = Append(agTalk, "use") /\ agMixed' = agMixed
    BY <1>7 DEF ToolsCalled
  <2>2. \A k \in Loops \ {l} : agLoop'[k] = agLoop[k]
    <3>1. PICK tools : Asked(l, tools) \/ Executes(l, tools) \/ NothingToShow(l)
      BY <1>7 DEF ToolsCalled
    <3>2. CASE Asked(l, tools) \/ Executes(l, tools)
      BY <1>0, <3>2 DEF Asked, Executes, LoopsOK
    <3> QED
      BY <3>1, <3>2, EndsMove DEF NothingToShow
  <2>3. \A k \in Loops \ {l} : agLoop[k].at = "off"
    BY <1>a, <2>1 DEF Alive
  <2>4. Len(agTalk') > 0 /\ agTalk'[Len(agTalk')] = "use"
    BY <1>0, <2>1
  <2>5. OnlyOne' /\ CallIsLast'
    BY <2>2, <2>3, <2>4 DEF OnlyOne, CallIsLast, Alive, InRound
  <2>6. ASSUME MaxMessages > 1 PROVE Follow(agTalk')
    BY <1>0, <2>1, <2>6, AppendFollow DEF TalkFollows, Messages
  <2>7. TalkFollows'
    BY <2>6 DEF TalkFollows, Follow
  <2> QED
    BY <2>5, <2>7 DEF Talk
<1>8. ASSUME NEW l \in Loops, EndRound(l), agLoop[l].at \in InRound, agMixed' = agMixed PROVE Talk'
  <2>1. /\ Append(agTalk, "results") \in Seq(Messages) /\ agLoop[l].level \in AgLevels
        /\ agState \in AgStates
    BY <1>0 DEF RestOK, LoopsOK, AgRecord, Messages
  <2>2. /\ agTalk' \in {Append(agTalk, "results"), Truncated(Append(agTalk, "results"))}
        /\ agLoop'[l].at \in {"off", "api"}
        /\ \A k \in Loops \ {l} : agLoop'[k] = agLoop[k]
    BY <1>8, <2>1, RoundType DEF EndRound
  <2>3. agLoop[l].at # "off" /\ (~agMixed => Len(agTalk) > 0 /\ agTalk[Len(agTalk)] = "use")
    BY <1>0, <1>8 DEF CallIsLast, InRound
  <2> QED
    BY <1>0, <1>a, <1>8, <2>2, <2>3, RoundTalk DEF Messages, InRound
<1>9. ASSUME NEW l \in Loops, ToolEnds(l) PROVE Talk'
  <2>1. agLoop[l].at \in {"tools", "rest"} /\ agMixed' = agMixed
    BY <1>9 DEF ToolEnds
  <2>2. CASE Rest(l) = <<>>
    BY <1>8, <1>9, <2>1, <2>2 DEF ToolEnds, InRound
  <2>3. CASE Rest(l) # <<>>
    <3>1. agLoop' = [agLoop EXCEPT ![l].tools = Rest(l)] /\ agTalk' = agTalk
      BY <1>9, <2>3 DEF ToolEnds
    <3>2. agLoop'[l].at = agLoop[l].at /\ \A k \in Loops \ {l} : agLoop'[k] = agLoop[k]
      BY <1>0, <3>1 DEF LoopsOK, AgRecord
    <3> QED
      BY <2>1, <3>1, <3>2, SameTalk DEF InRound
  <2> QED
    BY <2>2, <2>3
<1>10. ASSUME NEW l \in Loops, Resume(l) PROVE Talk'
  <2>1. agLoop[l].at \in {"granted", "refused"} /\ agMixed' = agMixed
    BY <1>10 DEF Resume
  <2>2. CASE EndRound(l)
    BY <1>8, <2>1, <2>2 DEF InRound
  <2>3. CASE /\ \/ agLoop' = [agLoop EXCEPT ![l].at = "tools"]
                \/ agLoop' = [agLoop EXCEPT ![l].at = "rest", ![l].tools = AgOthers(@)]
             /\ agTalk' = agTalk
    <3>1. agLoop'[l].at \in {"tools", "rest"} /\ \A k \in Loops \ {l} : agLoop'[k] = agLoop[k]
      BY <1>0, <2>3 DEF LoopsOK, AgRecord
    <3> QED
      BY <2>1, <2>3, <3>1, SameTalk DEF InRound
  <2> QED
    BY <1>10, <2>2, <2>3 DEF Resume
<1> QED
  BY <1>1, <1>2, <1>3, <1>4, <1>5, <1>6, <1>7, <1>9, <1>10 DEF AgNext, UserStep, LoopStep

(***************************************************************************)
(* A stopped loop.                                                         *)
(***************************************************************************)
\* A loop that Stop found alone stays alone, with the flag set and nobody to ask,
\* until it ends or a message is sent.
HaltedIsAlone ==
  \A l \in Loops : agHalted = l =>
    /\ agStop /\ agAbort = "none" /\ agResolver = "none"
    /\ agLoop[l].at # "off" /\ \A k \in Loops \ {l} : agLoop[k].at = "off"
HaltInv == HaltedIsAlone

\* The step StoppedLoopsRunNoCommand allows.
StartsNoCommand ==
  \A l \in Loops :
    agHalted = l /\ agHalted' = l /\ agLoop'[l] # agLoop[l] /\ agLoop'[l].tools # <<>>
      => Head(agLoop'[l].tools) \notin {"command", "batch"}
HaltKept == HaltInv' /\ StartsNoCommand

\* No loop is stopped after the step.
LEMMA NoneHalted ==
  ASSUME agHalted' \notin Loops
  PROVE  HaltKept
BY DEF HaltInv, HaltKept, HaltedIsAlone, StartsNoCommand

LEMMA EndsHalt ==
  ASSUME AgTypeOK, HaltInv, NEW l \in Loops, NEW state, agLoop[l].at # "off", Ends(l, state)
  PROVE  HaltKept
<1>1. agHalted' = "none" /\ "none" \notin Loops
  BY AgTypeParts, AgAssumption DEF Ends, Left, HaltInv, HaltedIsAlone, RestOK
<1> QED
  BY <1>1, NoneHalted

LEMMA EndRoundHalt ==
  ASSUME AgTypeOK, HaltInv, NEW l \in Loops, agLoop[l].at # "off", EndRound(l)
  PROVE  HaltKept
<1>1. CASE agStop
  BY <1>1, EndsHalt DEF EndRound, Round
<1>2. CASE ~agStop
  <2>1. agHalted' \notin Loops
    BY <1>2 DEF EndRound, Round, HaltInv, HaltedIsAlone
  <2> QED
    BY <2>1, NoneHalted
<1> QED
  BY <1>1, <1>2

LEMMA HaltInit == AgInit => HaltInv
BY AgAssumption DEF AgInit, HaltInv, HaltedIsAlone, AgOff

LEMMA HaltStep == AgTypeOK /\ PanelIsOfTheWaiting /\ HaltInv /\ [AgNext]_agVars => HaltKept
<1> SUFFICES ASSUME AgTypeOK, PanelIsOfTheWaiting, HaltInv, [AgNext]_agVars PROVE HaltKept
  OBVIOUS
<1>0. /\ LoopsOK /\ RestOK /\ "none" \notin Loops /\ IsFiniteSet(Loops)
      /\ HaltedIsAlone
  BY AgTypeParts, AgAssumption DEF HaltInv
<1>1. ASSUME NEW l \in Loops, AgSend(l) PROVE HaltKept
  <2>1. agHalted' \notin Loops
    BY <1>0, <1>1 DEF AgSend
  <2> QED
    BY <2>1, NoneHalted
<1>2. CASE AgClear \/ AgContinue \/ UNCHANGED agVars \/ \E level \in AgLevels : SetLevel(level)
  <2>1. UNCHANGED <<agLoop, agStop, agAbort, agResolver, agHalted>>
    BY <1>2 DEF AgClear, AgContinue, SetLevel, agVars
  <2> QED
    BY <1>0, <2>1 DEF HaltKept, HaltInv, HaltedIsAlone, StartsNoCommand
<1>3. ASSUME NEW answer \in {"granted", "refused"}, NEW state, Decide(answer, state) PROVE HaltKept
  <2>1. agHalted' \notin Loops
    BY <1>0, <1>3 DEF Decide, RestOK, HaltedIsAlone
  <2> QED
    BY <2>1, NoneHalted
<1>4. CASE Approve \/ Reject
  BY <1>3, <1>4 DEF Approve, Reject
<1>5. CASE AgStopPressed
  <2>1. /\ agStop' /\ agAbort' = "none" /\ agResolver' = "none"
        /\ agHalted' = IF Cardinality(Alive) = 1 THEN CHOOSE l \in Alive : TRUE ELSE "none"
    BY <1>5 DEF AgStopPressed
  <2>2. ASSUME NEW l \in Loops
        PROVE  /\ agLoop'[l].at \in {"refused", "aborted"} \/ agLoop'[l] = agLoop[l]
               /\ agLoop'[l].at = "off" <=> agLoop[l].at = "off"
               /\ agHalted = l => agLoop'[l] = agLoop[l]
    BY <1>0, <1>5, <2>2
       DEF AgStopPressed, LoopsOK, AgRecord, PanelIsOfTheWaiting, HaltedIsAlone
  <2>3. StartsNoCommand
    BY <2>2 DEF StartsNoCommand
  <2>4. ASSUME NEW l \in Loops, agHalted' = l
        PROVE  agLoop[l].at # "off" /\ \A k \in Loops \ {l} : agLoop[k].at = "off"
    <3>1. Cardinality(Alive) = 1 /\ IsFiniteSet(Alive)
      BY <1>0, <2>1, <2>4, FS_Subset DEF Alive
    <3>2. PICK x : Alive = {x}
      BY <3>1, FS_Singleton
    <3>3. l = x
      BY <2>1, <2>4, <3>1, <3>2
    <3> QED
      BY <3>2, <3>3 DEF Alive
  <2> QED
    BY <2>1, <2>2, <2>3, <2>4 DEF HaltKept, HaltInv, HaltedIsAlone
<1>6. ASSUME NEW l \in Loops, Answered(l) \/ ApiFails(l) \/ ToolThrows(l) PROVE HaltKept
  <2>1. PICK state : Ends(l, state)
    BY <1>6 DEF Answered, ApiFails, ToolThrows
  <2>2. agLoop[l].at # "off"
    BY <1>6 DEF Answered, ApiFails, ToolThrows
  <2> QED
    BY <2>1, <2>2, EndsHalt
<1>7. ASSUME NEW l \in Loops, ToolsCalled(l) PROVE HaltKept
  <2>1. PICK tools : Asked(l, tools) \/ Executes(l, tools) \/ NothingToShow(l)
    BY <1>7 DEF ToolsCalled
  <2>2. CASE NothingToShow(l)
    BY <1>7, <2>2, EndsHalt DEF NothingToShow, ToolsCalled
  <2>3. CASE Asked(l, tools) \/ Executes(l, tools)
    <3>1. agHalted' \notin Loops
      BY <1>0, <1>7, <2>3 DEF ToolsCalled, Asked, Executes, HaltedIsAlone
    <3> QED
      BY <3>1, NoneHalted
  <2> QED
    BY <2>1, <2>2, <2>3
\* The loop goes on with tools that begin with no call of run_command.
<1>8. ASSUME NEW l \in Loops, Head(agLoop'[l].tools) \notin {"command", "batch"},
             agLoop'[l].at # "off",
             agLoop[l].at # "off", \A k \in Loops \ {l} : agLoop'[k] = agLoop[k],
             UNCHANGED <<agStop, agAbort, agResolver, agHalted>>
      PROVE  HaltKept
  <2>1. HaltedIsAlone'
    BY <1>0, <1>8 DEF HaltedIsAlone
  <2>2. StartsNoCommand
    BY <1>8 DEF StartsNoCommand
  <2> QED
    BY <2>1, <2>2 DEF HaltKept, HaltInv
<1>9. ASSUME NEW l \in Loops, ToolEnds(l) PROVE HaltKept
  <2>1. agLoop[l].at \in {"tools", "rest"} /\ agLoop[l].tools \in ToolCalls
    BY <1>0, <1>9 DEF ToolEnds, LoopsOK, AgRecord, NoTools
  <2>2. CASE Rest(l) = <<>>
    BY <1>9, <2>1, <2>2, EndRoundHalt DEF ToolEnds
  <2>3. CASE Rest(l) # <<>>
    <3>1. /\ agLoop' = [agLoop EXCEPT ![l].tools = Rest(l)]
          /\ UNCHANGED <<agStop, agAbort, agResolver, agHalted>>
      <4>1. UNCHANGED agAbort
        BY <1>9, <2>3 DEF ToolEnds
      <4> QED
        BY <1>9, <2>3, <4>1 DEF ToolEnds
    <3>2. /\ agLoop'[l].at = agLoop[l].at /\ agLoop'[l].tools = Rest(l)
          /\ \A k \in Loops \ {l} : agLoop'[k] = agLoop[k]
      BY <1>0, <3>1 DEF LoopsOK, AgRecord
    <3>3. CASE agLoop[l].at = "rest"
      <4>1. Head(Rest(l)) \notin CommandKinds
        BY <2>1, <2>3, <3>3, TailOfTools, OthersOfTools DEF Rest
      <4> QED
        BY <1>8, <2>1, <3>1, <3>2, <4>1 DEF CommandKinds
    <3>4. CASE agLoop[l].at = "tools" /\ agStop
      <4>1. Head(Rest(l)) = "more"
        BY <2>3, <3>4 DEF Rest
      <4> QED
        BY <1>8, <2>1, <3>1, <3>2, <4>1
    <3>5. CASE agLoop[l].at = "tools" /\ ~agStop
      <4>1. agHalted' \notin Loops
        BY <1>0, <3>1, <3>5 DEF HaltedIsAlone
      <4> QED
        BY <4>1, NoneHalted
    <3> QED
      BY <2>1, <3>3, <3>4, <3>5
  <2> QED
    BY <2>2, <2>3
<1>10. ASSUME NEW l \in Loops, Resume(l) PROVE HaltKept
  <2>1. agLoop[l].at \in {"granted", "refused"} /\ agLoop[l].tools \in ToolCalls
    BY <1>0, <1>10 DEF Resume, LoopsOK, AgRecord, NoTools
  <2>2. CASE /\ ~agStop /\ agLoop' = [agLoop EXCEPT ![l].at = "tools"]
             /\ UNCHANGED agHalted
    <3>1. agHalted' \notin Loops
      BY <1>0, <2>2 DEF HaltedIsAlone
    <3> QED
      BY <3>1, NoneHalted
  <2>3. CASE EndRound(l)
    BY <2>1, <2>3, EndRoundHalt
  <2>4. CASE /\ AgOthers(agLoop[l].tools) # <<>>
             /\ agLoop' = [agLoop EXCEPT ![l].at = "rest", ![l].tools = AgOthers(@)]
             /\ UNCHANGED <<agStop, agAbort, agResolver, agHalted>>
    <3>1. Head(AgOthers(agLoop[l].tools)) \notin CommandKinds
      BY <2>1, <2>4, OthersOfTools
    <3>2. /\ agLoop'[l].at = "rest" /\ agLoop'[l].tools = AgOthers(agLoop[l].tools)
          /\ \A k \in Loops \ {l} : agLoop'[k] = agLoop[k]
      BY <1>0, <2>4 DEF LoopsOK, AgRecord
    <3> QED
      BY <1>8, <2>1, <2>4, <3>1, <3>2 DEF CommandKinds
  <2> QED
    BY <1>10, <2>2, <2>3, <2>4 DEF Resume
<1> QED
  BY <1>1, <1>2, <1>4, <1>5, <1>6, <1>7, <1>9, <1>10 DEF AgNext, UserStep, LoopStep

(***************************************************************************)
(* The theorems.                                                           *)
(***************************************************************************)
LEMMA AgInvariant == AgSpec => []AgInv
<1>1. AgInit => AgInv
  BY AgInitType, CommandsInit, TalkInit DEF AgInv
<1>2. AgInv /\ [AgNext]_agVars => AgInv'
  BY TypeStep, CommandsStep, TalkStep DEF AgInv, Commands
<1> QED
  BY <1>1, <1>2, PTL DEF AgSpec

\* The state of the hook keeps its types: a loop has tools exactly while it asks
\* for them, runs them or has been refused them.
THEOREM AgentType == AgSpec => []AgTypeOK
<1>1. AgInv => AgTypeOK
  BY DEF AgInv
<1> QED
  BY <1>1, AgInvariant, PTL

\* The commands on the panel are those of the loop that its buttons wake, for any
\* number of loops that overlap.
THEOREM AgentPanel == AgSpec => []PanelIsOfTheWaiting
<1>1. AgInv => PanelIsOfTheWaiting
  BY DEF AgInv, Commands
<1> QED
  BY <1>1, AgInvariant, PTL

\* A loop that was not started with safe-auto runs a run_command only after it was
\* approved on the panel, and no list of commands, for any number of loops and tools.
\* (The other tools that reach a device are not asked for, at any level.)
THEOREM AgentCommandsWereShown == AgSpec => []CommandsWereShown
<1>1. AgInv => CommandsWereShown
  BY CommandsShown DEF AgInv
<1> QED
  BY <1>1, AgInvariant, PTL

\* No cut of the conversation, at any limit above one message, parts results from
\* the call before them.
THEOREM AgentResultsFollow == AgSpec => []ResultsFollowTheirCall
<1>1. AgInv => ResultsFollowTheirCall
  BY DEF AgInv, Talk, TalkFollows, Follow, ResultsFollowTheirCall
<1> QED
  BY <1>1, AgInvariant, PTL

\* A loop that Stop found alone calls run_command no more, wherever it was: in a
\* request, at an approval, between two tools or after a refusal.  (The rest of a list
\* of commands that is under way still runs, and the other tools after a refusal.)
THEOREM AgentStopsCommands == AgSpec => StoppedLoopsRunNoCommand
<1>1. AgInit => HaltInv
  BY HaltInit
<1>2. AgInv /\ HaltInv /\ [AgNext]_agVars => HaltInv' /\ [StartsNoCommand]_agVars
  BY HaltStep DEF AgInv, Commands, HaltKept
<1>3. AgSpec => [][StartsNoCommand]_agVars
  BY <1>1, <1>2, AgInvariant, PTL DEF AgSpec
<1> QED
  BY <1>3 DEF StoppedLoopsRunNoCommand, StartsNoCommand
=================================================================================

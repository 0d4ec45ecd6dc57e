------------------------------ MODULE AgentLoop ------------------------------
(***************************************************************************)
(* The AI agent of the chat panel (useAIAgent): sendMessage starts a loop   *)
(* that asks the model, has its commands approved, runs the tools and asks  *)
(* again.  Loops share the refs and the state of the hook: the stop flag,   *)
(* the abort controller, the resolver of the approval, the pending commands *)
(* and the conversation.  Everything between two awaits of a loop is one    *)
(* step; the buttons of the panel may be pressed at any await.              *)
(***************************************************************************)
EXTENDS Integers, Sequences, FiniteSets

CONSTANTS Loops,         \* loops that may be under way at once (bound)
          MaxTools,      \* bound: steps of the tools the model calls in one answer
          MaxMessages    \* the setting ai.maxConversationMessages

ASSUME AgAssumption ==
  /\ IsFiniteSet(Loops) /\ "none" \notin Loops
  /\ {MaxTools, MaxMessages} \subseteq Nat \ {0}

VARIABLES agState,     \* agentState
          agLevel,     \* autonomyLevel: "manual" or "safe-auto"
          agLoop,      \* each loop: where it awaits, the level it was started with,
                       \* the tools still to run, the first of them running
          agStop,      \* stopRequestedRef
          agAbort,     \* the loop whose controller is in abortControllerRef
          agPending,   \* the loop whose commands are on the panel
          agResolver,  \* the loop approvalResolverRef would wake
          agTalk,      \* conversationRef, by the kind of the messages
          agHalted,    \* ghost: the only loop there was when Stop was pressed, until
                       \* it ends or a message is sent
          agMixed      \* ghost: loops have overlapped or the chat was replaced under one

agVars == <<agState, agLevel, agLoop, agStop, agAbort, agPending, agResolver,
            agTalk, agHalted, agMixed>>

AgLevels == {"manual", "safe-auto"}
\* The tools by the steps they are awaited in: a run_command with its command; one
\* with a list of commands, and each command of the list after the first; any other
\* tool, among them those that reach a device by themselves (ai_ssh_execute,
\* discover_neighbors, the file tools).
CommandKinds == {"command", "batch", "more"}
ToolKinds == CommandKinds \cup {"device"}
ToolCalls == UNION {[1..n -> ToolKinds] : n \in 1..MaxTools}
Answers == {tools \in ToolCalls :
              \A i \in DOMAIN tools :
                tools[i] = "more" => i > 1 /\ tools[i - 1] \in {"batch", "more"}}
HasKind(tools, kinds) == \E i \in DOMAIN tools : tools[i] \in kinds
Messages == {"text", "use", "results"}
Histories == UNION {[1..n -> {"text"}] : n \in 0..MaxMessages}
AgPlaces == {"off", "api", "aborted", "approval", "granted", "refused", "tools", "rest"}
AgOff == [at |-> "off", level |-> "manual", tools |-> <<>>, approved |-> FALSE]
Busy == {"thinking", "executing"}
Alive == {l \in Loops : agLoop[l].at # "off"}

AgInit ==
  /\ agState = "idle" /\ agLevel = "safe-auto"
  /\ agLoop = [l \in Loops |-> AgOff]
  /\ agStop = FALSE /\ agAbort = "none"
  /\ agPending = "none" /\ agResolver = "none"
  /\ agTalk = <<>>
  /\ agHalted = "none" /\ agMixed = FALSE

(***************************************************************************)
(* The head of a round: leave when a stop was requested, else cut the       *)
(* conversation to MaxMessages, not between a call of tools and its results, *)
(* and ask the model.                                                       *)
(***************************************************************************)
\* Mutant of KeepFrom: the last MaxMessages, wherever that cuts.
KeepLastMutant(talk) == Len(talk) - MaxMessages + 1

\* The first message to keep: results are skipped, but never the last message.
KeepFrom(talk) ==
  LET first == Len(talk) - MaxMessages + 1 IN
    CHOOSE i \in first..Len(talk) :
      /\ talk[i] # "results" \/ i = Len(talk)
      /\ \A j \in first..(i - 1) : talk[j] = "results"

Truncated(talk) ==
  IF Len(talk) <= MaxMessages THEN talk ELSE SubSeq(talk, KeepFrom(talk), Len(talk))

Left(halted, l) == IF halted = l THEN "none" ELSE halted

\* The cleanup after the loop: the flag and the controller of whoever set them.
Ends(l, state) ==
  /\ agLoop' = [agLoop EXCEPT ![l] = AgOff]
  /\ agStop' = FALSE /\ agAbort' = "none"
  /\ agState' = state
  /\ agHalted' = Left(agHalted, l)

Round(l, talk, level, state) ==
  IF agStop
  THEN Ends(l, state) /\ agTalk' = talk
  ELSE /\ agLoop' = [agLoop EXCEPT ![l] = [AgOff EXCEPT !.at = "api", !.level = level]]
       /\ agState' = "thinking"
       /\ agTalk' = Truncated(talk)
       /\ UNCHANGED <<agStop, agHalted>>

(***************************************************************************)
(* The user.                                                               *)
(***************************************************************************)
\* sendMessage, which only a thinking or executing agent refuses.
AgSend(l) ==
  /\ agState \notin Busy /\ agLoop[l].at = "off"
  /\ LET talk == Append(agTalk, "text") IN
       IF agStop
       THEN /\ agStop' = FALSE /\ agAbort' = "none" /\ agTalk' = talk
            /\ UNCHANGED <<agLoop, agState>>
       ELSE /\ Round(l, talk, agLevel, agState) /\ agAbort' = l
  /\ agHalted' = "none"
  /\ agMixed' = (agMixed \/ Alive # {})
  /\ UNCHANGED <<agLevel, agPending, agResolver>>

\* The mode of the panel brings its default level; loops keep theirs.
SetLevel(level) ==
  /\ agState \notin Busy /\ agLevel # level
  /\ agLevel' = level
  /\ UNCHANGED <<agState, agLoop, agStop, agAbort, agPending, agResolver, agTalk, agHalted, agMixed>>

\* The two buttons of the panel, which is there while commands are pending.
Decide(answer, state) ==
  /\ agPending # "none" /\ agResolver # "none"
  /\ agLoop' = [agLoop EXCEPT ![agResolver].at = answer,
                               ![agResolver].approved =
                                  (answer = "granted" /\ agPending = agResolver)]
  /\ agResolver' = "none" /\ agPending' = "none"
  /\ agState' = state
  /\ UNCHANGED <<agLevel, agStop, agAbort, agTalk, agHalted, agMixed>>

Approve == Decide("granted", agState)
Reject == Decide("refused", "idle")

\* Stop, which is there while the agent is shown as busy: the flag is set, the
\* request aborted whose controller is known, a waiting loop refused.
AgStopPressed ==
  /\ agState \in Busy
  /\ agLoop' = [l \in Loops |->
       IF l = agResolver THEN [agLoop[l] EXCEPT !.at = "refused"]
       ELSE IF l = agAbort /\ agLoop[l].at = "api" THEN [agLoop[l] EXCEPT !.at = "aborted"]
       ELSE agLoop[l]]
  /\ agStop' = TRUE /\ agAbort' = "none"
  /\ agResolver' = "none" /\ agPending' = "none"
  /\ agState' = "idle"
  /\ agHalted' = IF Cardinality(Alive) = 1 THEN CHOOSE l \in Alive : TRUE ELSE "none"
  /\ UNCHANGED <<agLevel, agTalk, agMixed>>

\* New chat.
AgClear ==
  /\ agTalk' = <<>> /\ agPending' = "none" /\ agState' = "idle"
  /\ agMixed' = (Alive # {})
  /\ UNCHANGED <<agLevel, agLoop, agStop, agAbort, agResolver, agHalted>>

\* The panel is handed other messages: their texts replace the conversation, whoever
\* works on it.  (A last message of the user's is then sent: AgSend.)
AgContinue ==
  /\ agTalk' \in Histories
  /\ agMixed' = (Alive # {})
  /\ UNCHANGED <<agState, agLevel, agLoop, agStop, agAbort, agPending, agResolver, agHalted>>

(***************************************************************************)
(* The loop.                                                               *)
(***************************************************************************)
\* The model ends its turn.
Answered(l) ==
  /\ agLoop[l].at = "api"
  /\ agTalk' = IF agStop THEN agTalk ELSE Append(agTalk, "text")
  /\ Ends(l, "idle")
  /\ UNCHANGED <<agLevel, agPending, agResolver, agMixed>>

\* waitForApproval: the commands go on the panel and the loop waits; the resolver
\* of a loop that waits already is replaced.
Asked(l, tools) ==
  /\ agLoop' = [agLoop EXCEPT ![l].at = "approval", ![l].tools = tools]
  /\ agState' = "waiting_approval"
  /\ agPending' = l /\ agResolver' = l
  /\ UNCHANGED <<agStop, agAbort, agHalted>>

Executes(l, tools) ==
  /\ agLoop' = [agLoop EXCEPT ![l].at = "tools", ![l].tools = tools]
  /\ agState' = "executing"
  /\ UNCHANGED <<agStop, agAbort, agPending, agResolver, agHalted>>

\* A list of commands has no command to show: its validation throws.
NothingToShow(l) == Ends(l, "error") /\ UNCHANGED <<agPending, agResolver>>

\* Mutant of ToolsCalled: only the first tool decides whether the user is asked.
AskForFirstMutant(l) ==
  /\ agLoop[l].at = "api" /\ ~agStop
  /\ agTalk' = Append(agTalk, "use")
  /\ \E tools \in Answers :
       IF agLoop[l].level = "safe-auto" \/ tools[1] \notin CommandKinds THEN Executes(l, tools)
       ELSE IF HasKind(tools, {"batch"}) THEN NothingToShow(l)
       ELSE Asked(l, tools)
  /\ UNCHANGED <<agLevel, agMixed>>

\* It calls tools; a loop whose level is not safe-auto puts the run_commands among
\* them on the panel and waits.  No other tool is asked for.
ToolsCalled(l) ==
  /\ agLoop[l].at = "api" /\ ~agStop
  /\ agTalk' = Append(agTalk, "use")
  /\ \E tools \in Answers :
       IF agLoop[l].level = "safe-auto" \/ ~HasKind(tools, CommandKinds) THEN Executes(l, tools)
       ELSE IF HasKind(tools, {"batch"}) THEN NothingToShow(l)
       ELSE Asked(l, tools)
  /\ UNCHANGED <<agLevel, agMixed>>

\* Mutant of ApiFails: the request that Stop aborted never settles.
AbortedHangsMutant(l) ==
  /\ agLoop[l].at = "api" /\ Ends(l, "error")
  /\ UNCHANGED <<agLevel, agPending, agResolver, agTalk, agMixed>>

\* The request fails.  An aborted fetch ends the loop quietly; axios reports an
\* error of another name, which is shown as any other.
ApiFails(l) ==
  /\ \/ agLoop[l].at = "api" /\ Ends(l, "error")
     \/ agLoop[l].at = "aborted" /\ \E state \in {"idle", "error"} : Ends(l, state)
  /\ UNCHANGED <<agLevel, agPending, agResolver, agTalk, agMixed>>

\* The results go into the conversation and the panel is cleared.
EndRound(l) ==
  /\ Round(l, Append(agTalk, "results"), agLoop[l].level, agState)
  /\ agPending' = "none"

\* What is left without the commands, which were refused.
AgOthers(tools) ==
  LET others == {i \in DOMAIN tools : tools[i] \notin CommandKinds} IN
    IF others = {} THEN <<>>
    ELSE SubSeq(tools, CHOOSE i \in others : \A k \in others : i <= k, Len(tools))

\* Mutant of Rest: a stop between two tools goes unnoticed.
RestDeafMutant(l) ==
  LET left == Tail(agLoop[l].tools) IN
    IF agLoop[l].at = "rest" THEN AgOthers(left) ELSE left

\* What is left when a step of the tools has ended.  A stop is looked at between two
\* tools, not between the commands of a list, and not after a refusal.
Rest(l) ==
  LET left == Tail(agLoop[l].tools)
      inList == left # <<>> /\ Head(left) = "more" IN
    IF agLoop[l].at = "rest" THEN AgOthers(left)
    ELSE IF agStop /\ ~inList THEN <<>>
    ELSE left

ToolEnds(l) ==
  /\ agLoop[l].at \in {"tools", "rest"}
  /\ IF Rest(l) = <<>>
     THEN EndRound(l) /\ agAbort' = IF agStop THEN "none" ELSE agAbort
     ELSE /\ agLoop' = [agLoop EXCEPT ![l].tools = Rest(l)]
          /\ UNCHANGED <<agState, agStop, agAbort, agPending, agTalk, agHalted>>
  /\ UNCHANGED <<agLevel, agResolver, agMixed>>

ToolThrows(l) ==
  /\ agLoop[l].at \in {"tools", "rest"}
  /\ Ends(l, "error")
  /\ UNCHANGED <<agLevel, agPending, agResolver, agTalk, agMixed>>

\* A loop whose promise is settled resumes before anything else happens.
Resume(l) ==
  \/ /\ agLoop[l].at = "granted" /\ ~agStop
     /\ agLoop' = [agLoop EXCEPT ![l].at = "tools"]
     /\ agState' = "executing"
     /\ UNCHANGED <<agLevel, agStop, agAbort, agPending, agResolver, agTalk, agHalted, agMixed>>
  \/ /\ agLoop[l].at = "refused" \/ (agLoop[l].at = "granted" /\ agStop)
     /\ IF AgOthers(agLoop[l].tools) = <<>>
        THEN EndRound(l) /\ agAbort' = IF agStop THEN "none" ELSE agAbort
        ELSE /\ agLoop' = [agLoop EXCEPT ![l].at = "rest", ![l].tools = AgOthers(@)]
             /\ UNCHANGED <<agState, agStop, agAbort, agPending, agTalk, agHalted>>
     /\ UNCHANGED <<agLevel, agResolver, agMixed>>

Settled == \A l \in Loops : agLoop[l].at \notin {"granted", "refused"}
LoopStep(l) ==
  \/ Settled /\ (Answered(l) \/ ToolsCalled(l) \/ ApiFails(l) \/ ToolEnds(l) \/ ToolThrows(l))
  \/ Resume(l)
UserStep ==
  /\ Settled
  /\ \/ (\E l \in Loops : AgSend(l)) \/ (\E level \in AgLevels : SetLevel(level))
     \/ Approve \/ Reject \/ AgStopPressed \/ AgClear \/ AgContinue

AgNext == UserStep \/ \E l \in Loops : LoopStep(l)
AgSpec == AgInit /\ [][AgNext]_agVars

\* Requests to the model and tools end by themselves; the user need not answer.
AgFairness == \A l \in Loops : WF_agVars(LoopStep(l))
FairAgSpec == AgSpec /\ AgFairness

----------------------------------------------------------------------------
\* Type invariant.
AgTypeOK ==
  /\ agState \in Busy \cup {"idle", "waiting_approval", "error"}
  /\ agLevel \in AgLevels
  /\ agLoop \in [Loops -> [at : AgPlaces, level : AgLevels, tools : ToolCalls \cup {<<>>}, approved : BOOLEAN]]
  /\ \A l \in Loops : agLoop[l].tools = <<>> <=> agLoop[l].at \in {"off", "api", "aborted"}
  /\ agStop \in BOOLEAN /\ agMixed \in BOOLEAN
  /\ agAbort \in Loops \cup {"none"} /\ agPending \in Loops \cup {"none"}
  /\ agResolver \in Loops \cup {"none"} /\ agHalted \in Loops \cup {"none"}
  /\ agTalk \in Seq(Messages)

\* What the panel shows is what the buttons decide on: the commands of the loop
\* that waits for them, however loops overlap, stop and clear the panel.
PanelIsOfTheWaiting ==
  /\ agPending # "none" => agResolver = agPending
  /\ agResolver # "none" => agLoop[agResolver].at = "approval"

Running(l, kinds) ==
  agLoop[l].at \in {"tools", "rest"} /\ Head(agLoop[l].tools) \in kinds

\* A loop that was not started with safe-auto runs a run_command only after the user
\* approved it while it was on the panel, and no list of commands: for these two forms
\* of one tool, and whatever stops, refusals and other loops come between.  (Not so
\* the tools that reach a device by themselves: they are not asked for at any level.)
CommandsWereShown ==
  \A l \in Loops :
    agLoop[l].level # "safe-auto" /\ Running(l, CommandKinds) =>
      agLoop[l].approved /\ Running(l, {"command"})

\* A stopped loop calls no further run_command, wherever the stop has caught it.  (Of
\* a loop that was alone, and until a message is sent: its loop resets the flag.)  A
\* list of commands that is under way goes on to its end, and after a refusal the
\* tools that are no run_command are still called, those that reach a device too.
StoppedLoopsRunNoCommand ==
  [][\A l \in Loops :
       agHalted = l /\ agHalted' = l /\ agLoop'[l] # agLoop[l] /\ agLoop'[l].tools # <<>>
         => Head(agLoop'[l].tools) \notin {"command", "batch"}]_agVars

\* And it ends.
StoppedLoopsEnd == (agHalted # "none") ~> (agHalted = "none")

\* "every tool_result in a user message references a tool_use_id from the immediately
\* preceding assistant message": no conversation sent to the model holds results
\* whose call was cut off, unless loops overlapped, the chat was cleared or its
\* messages were replaced under a loop, or the setting keeps a single message.
ResultsFollowTheirCall ==
  ~agMixed /\ MaxMessages > 1 => \A i \in DOMAIN agTalk : agTalk[i] = "results" => i > 1 /\ agTalk[i - 1] = "use"
=============================================================================

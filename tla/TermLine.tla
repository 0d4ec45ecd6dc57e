------------------------------ MODULE TermLine ------------------------------
(***************************************************************************)
(* The command line of a terminal and the question asked before a risky     *)
(* command: the line the device holds, the copy of it that the terminal     *)
(* keeps from the keys it sees, the dialog, and every other way in which    *)
(* text and Enter reach the device.  Text is a sequence of tokens; a text   *)
(* is risky when one of the patterns of the safety engine matches in it.    *)
(* The setting commandSafety.enabled is on.                                *)
(***************************************************************************)
EXTENDS Integers, Sequences

CONSTANT MaxLine       \* bound: tokens on a line

ASSUME TlAssumption == MaxLine \in Nat \ {0}

Tokens == {"plain", "risk", "capture"}    \* "capture": |> docs/<path>
TlLines == UNION {[1..n -> Tokens] : n \in 0..MaxLine}
NoDialog == <<>>

VARIABLES tlOpen,     \* the WebSocket is open
          tlLine,     \* external: the line as the device has it
          tlBuf,      \* commandLineBufferRef
          tlDialog,   \* pendingSafetyAnalysis: the command it shows
          tlDelayed,  \* the command a capture sends 50 ms after it has cleared the line
          tlSource,   \* ghost: what the line and the copy took since they were last empty
                      \* together, or a suggestion was put on an empty line: "keys" only,
                      \* keys and a dialog that was "cancelled", or something "other"
          tlRan       \* ghost: the last line the device ran: who sent its Enter, was it
                      \* risky, what it was made of, is it the one the dialog showed

tlVars == <<tlOpen, tlLine, tlBuf, tlDialog, tlDelayed, tlSource, tlRan>>

Risky(text) == \E i \in DOMAIN text : text[i] = "risk"
DropLast(text) == SubSeq(text, 1, Len(text) - 1)

\* parseCaptureSyntax: what stands before the first "|> docs/", if anything does.
CapturesIn(text) == {i \in 2..Len(text) : text[i] = "capture"}
CaptureOf(text) ==
  {SubSeq(text, 1, i - 1) : i \in {k \in CapturesIn(text) : \A j \in CapturesIn(text) : k <= j}}

TlInit ==
  /\ tlOpen = TRUE
  /\ tlLine = <<>> /\ tlBuf = <<>> /\ tlDialog = NoDialog /\ tlDelayed = <<>>
  /\ tlSource = "keys"
  /\ tlRan = [by |-> "none", risky |-> FALSE, source |-> "other", asShown |-> TRUE]

Sources == {"keys", "cancelled", "other"}

Put(line, buf, source) ==
  /\ tlLine' = line /\ tlBuf' = buf
  /\ tlSource' = IF line = <<>> /\ buf = <<>> THEN "keys" ELSE source

Ran(by, line, source, shown) ==
  tlRan' = [by |-> by, risky |-> Risky(line), source |-> source, asShown |-> line = shown]

\* A text sent to the line is all there is on an empty one.
Suggested == IF tlLine = <<>> THEN "keys" ELSE "other"

(***************************************************************************)
(* onData: what the user types.  The dialog keeps the keys to itself.      *)
(***************************************************************************)
Typing == tlOpen /\ tlDialog = NoDialog

KeyTyped ==
  /\ Typing /\ Len(tlLine) < MaxLine /\ Len(tlBuf) < MaxLine
  /\ \E k \in Tokens : Put(Append(tlLine, k), Append(tlBuf, k), tlSource)
  /\ UNCHANGED <<tlOpen, tlDialog, tlDelayed, tlRan>>

\* Mutant of Backspace: the copy is cleared.
BackspaceForgetsMutant ==
  /\ Typing
  /\ Put(DropLast(tlLine), <<>>, tlSource)
  /\ UNCHANGED <<tlOpen, tlDialog, tlDelayed, tlRan>>

Backspace ==
  /\ Typing
  /\ Put(DropLast(tlLine), DropLast(tlBuf), tlSource)
  /\ UNCHANGED <<tlOpen, tlDialog, tlDelayed, tlRan>>

CtrlC ==
  /\ Typing
  /\ Put(<<>>, <<>>, "keys")
  /\ UNCHANGED <<tlOpen, tlDialog, tlDelayed, tlRan>>

\* Arrows, Tab, Ctrl-U and the like change the line on the device only.
OtherKey ==
  /\ Typing
  /\ \E line \in TlLines : Put(line, tlBuf, "other")
  /\ UNCHANGED <<tlOpen, tlDialog, tlDelayed, tlRan>>

\* Enter: a capture clears the line and sends its command later, a risky copy
\* opens the dialog and nothing is sent, anything else is run.
EnterCaptures ==
  /\ Typing /\ tlDelayed = <<>>
  /\ tlDelayed' \in CaptureOf(tlBuf)
  /\ Put(<<>>, <<>>, "keys")
  /\ UNCHANGED <<tlOpen, tlDialog, tlRan>>

\* Mutant of EnterAsks: the dialog opens for any command.
EnterAlwaysAsksMutant ==
  /\ Typing /\ CapturesIn(tlBuf) = {} /\ tlBuf # <<>>
  /\ tlDialog' = tlBuf
  /\ UNCHANGED <<tlOpen, tlLine, tlBuf, tlDelayed, tlSource, tlRan>>

EnterAsks ==
  /\ Typing /\ CapturesIn(tlBuf) = {} /\ Risky(tlBuf)
  /\ tlDialog' = tlBuf
  /\ UNCHANGED <<tlOpen, tlLine, tlBuf, tlDelayed, tlSource, tlRan>>

EnterRuns ==
  /\ Typing /\ CapturesIn(tlBuf) = {} /\ ~Risky(tlBuf)
  /\ Ran("enter", tlLine, tlSource, tlLine)
  /\ Put(<<>>, <<>>, "keys")
  /\ UNCHANGED <<tlOpen, tlDialog, tlDelayed>>

CaptureSent ==
  /\ tlDelayed # <<>>
  /\ Ran("capture", tlLine \o tlDelayed, "other", tlDelayed)
  /\ Put(<<>>, tlBuf, "other")
  /\ tlDelayed' = <<>>
  /\ UNCHANGED <<tlOpen, tlDialog>>

(***************************************************************************)
(* Text from elsewhere.                                                    *)
(***************************************************************************)
\* A paste, an accepted completion, the keys of a terminal that broadcasts.
Unseen ==
  /\ tlOpen /\ Len(tlLine) < MaxLine
  /\ \E k \in Tokens : Put(Append(tlLine, k), tlBuf, "other")
  /\ UNCHANGED <<tlOpen, tlDialog, tlDelayed, tlRan>>

\* The Enter of a broadcast, of a mapped key, of a command of the context menu.
UnseenEnter ==
  /\ tlOpen
  /\ Ran("elsewhere", tlLine, "other", tlLine)
  /\ Put(<<>>, tlBuf, "other")
  /\ UNCHANGED <<tlOpen, tlDialog, tlDelayed>>

\* A suggested next command goes after what is on the line and into the copy alone.
NextStep ==
  /\ Typing /\ Len(tlLine) < MaxLine
  /\ \E k \in {"plain", "risk"} : Put(Append(tlLine, k), <<k>>, Suggested)
  /\ UNCHANGED <<tlOpen, tlDialog, tlDelayed, tlRan>>

(***************************************************************************)
(* The dialog.                                                             *)
(***************************************************************************)
\* The command is sent, with its Enter, after the text that is on the line.
Proceed ==
  /\ tlDialog # NoDialog /\ tlDialog' = NoDialog
  /\ IF tlOpen THEN Ran("proceed", tlLine \o tlDialog, "other", tlDialog) /\ Put(<<>>, <<>>, "keys")
     ELSE UNCHANGED <<tlLine, tlBuf, tlSource, tlRan>>
  /\ UNCHANGED <<tlOpen, tlDelayed>>

\* Only the copy is cleared: the keys stay on the line of the device.
CancelDialog ==
  /\ tlDialog # NoDialog /\ tlDialog' = NoDialog
  /\ Put(tlLine, <<>>, IF tlSource = "other" THEN "other" ELSE "cancelled")
  /\ UNCHANGED <<tlOpen, tlDelayed, tlRan>>

UseAlternative ==
  /\ tlDialog # NoDialog /\ tlDialog' = NoDialog
  /\ IF tlOpen THEN Len(tlLine) < MaxLine /\ Put(Append(tlLine, "plain"), <<"plain">>, Suggested)
     ELSE Put(tlLine, <<>>, "other")
  /\ UNCHANGED <<tlOpen, tlDelayed, tlRan>>

\* The connection is lost, and with it the line, and made again.
LineLost ==
  /\ tlOpen /\ tlOpen' = FALSE
  /\ Put(<<>>, tlBuf, "other") /\ tlDelayed' = <<>>
  /\ UNCHANGED <<tlDialog, tlRan>>

LineBack ==
  /\ ~tlOpen /\ tlOpen' = TRUE
  /\ UNCHANGED <<tlLine, tlBuf, tlDialog, tlDelayed, tlSource, tlRan>>

TlNext ==
  \/ KeyTyped \/ Backspace \/ CtrlC \/ OtherKey
  \/ EnterCaptures \/ EnterAsks \/ EnterRuns \/ CaptureSent
  \/ Unseen \/ UnseenEnter \/ NextStep
  \/ Proceed \/ CancelDialog \/ UseAlternative \/ LineLost \/ LineBack

TlSpec == TlInit /\ [][TlNext]_tlVars

----------------------------------------------------------------------------
\* Type invariant.
TlTypeOK ==
  /\ tlOpen \in BOOLEAN /\ tlSource \in Sources
  /\ tlLine \in Seq(Tokens) /\ tlBuf \in Seq(Tokens)
  /\ tlDialog \in Seq(Tokens) /\ tlDelayed \in Seq(Tokens)
  /\ Len(tlLine) <= MaxLine /\ Len(tlBuf) <= MaxLine
  /\ tlDialog # NoDialog => Risky(tlDialog) /\ CapturesIn(tlDialog) = {}
  /\ tlRan \in [by : {"none", "enter", "proceed", "capture", "elsewhere"},
                risky : BOOLEAN, source : Sources, asShown : BOOLEAN]

\* A line that keys alone have made, or a suggestion and keys, and that is risky never
\* runs on its Enter without the question, whatever was pasted, captured, broadcast
\* or lost with a connection before the line and the copy were empty.  (A capture
\* sends its command without the question, and a line whose dialog was cancelled runs
\* without it on the next Enter: the copy is empty by then, and the line is not.)
TypedRisksAreAsked == tlRan.by = "enter" /\ tlRan.risky => tlRan.source # "keys"

\* "Send the command that was pending": what runs after "Proceed" is the command
\* the dialog showed.
ConfirmedCommandRuns == tlRan.by = "proceed" => tlRan.asShown
=============================================================================

--------------------------- MODULE WorkspaceStore ---------------------------
(***************************************************************************)
(* The list of saved workspaces, one value behind /settings/workspaces.    *)
(* Opening a workspace, the auto-save of its tab, the save when the tab    *)
(* goes and a deletion in the sidebar each load or remember the list,      *)
(* change a row and write the whole list back; nothing keeps them apart.   *)
(* Of a row only its id is kept here.                                      *)
(***************************************************************************)
CONSTANTS Workspaces,    \* ids
          WkOps          \* bound: calls under way at once

VARIABLES wkStored,    \* the list in the settings
          wkPanel,     \* savedWorkspaces of the sidebar
          wkOpen,      \* workspaces that have a tab
          wkOps,       \* what each call does, to which row, where it stands, its
                       \* copy of the list, and whether the panel it is of is shown
          wkGone       \* ghost: deleted for good, see GoneStaysGone

wkVars == <<wkStored, wkPanel, wkOpen, wkOps, wkGone>>

WkIdle == [kind |-> "none", id |-> "none", place |-> "none", copy |-> {},
           open |-> FALSE, shown |-> FALSE]
WkCall(what, w) == [WkIdle EXCEPT !.kind = what, !.id = w, !.place = "load"]

WkInit ==
  /\ wkStored = {}
  /\ wkPanel = {} /\ wkOpen = {} /\ wkGone = {}
  /\ wkOps = [o \in WkOps |-> WkIdle]

WkBegin(calls, what, w) ==
  \E o \in WkOps :
    calls[o] = WkIdle /\ wkOps' = [calls EXCEPT ![o] = WkCall(what, w)]
WkEnd(o) == wkOps' = [wkOps EXCEPT ![o] = WkIdle]

\* The sidebar shows the panel anew, and that loads the list, once.
PanelLoads ==
  /\ wkPanel' = wkStored
  /\ wkOps' = [o \in WkOps |-> [wkOps[o] EXCEPT !.shown = FALSE]]
  /\ \A o \in WkOps : wkOps[o].place # "ask"
  /\ UNCHANGED <<wkStored, wkOpen, wkGone>>

\* openWorkspaceTab of a workspace without a tab: the row is added first.
OpenAdds(w) ==
  /\ w \notin wkOpen
  /\ WkBegin(wkOps, "add", w)
  /\ wkGone' = wkGone \ {w}
  /\ UNCHANGED <<wkStored, wkPanel, wkOpen>>

\* Something changes in an open workspace, and a second passes.
AutoSaves(w) ==
  /\ w \in wkOpen
  /\ WkBegin(wkOps, "update", w)
  /\ UNCHANGED <<wkStored, wkPanel, wkOpen, wkGone>>

\* The tab goes, and its unmount saves.
Unmounts(calls, w) == wkOpen' = wkOpen \ {w} /\ WkBegin(calls, "update", w)

TabCloses(w) ==
  /\ w \in wkOpen
  /\ Unmounts(wkOps, w)
  /\ UNCHANGED <<wkStored, wkPanel, wkGone>>

\* loadSavedWorkspaces: the list, or an empty one if the request fails.
WkLoads(o) ==
  /\ wkOps[o].place = "load"
  /\ \E list \in {wkStored, {}} :
       wkOps' = [wkOps EXCEPT ![o].place = "save", ![o].copy = list]
  /\ UNCHANGED <<wkStored, wkPanel, wkOpen, wkGone>>

\* addSavedWorkspace: the row is written unless the copy has it.  Then the tab opens.
AddSaves(o) ==
  /\ wkOps[o].kind = "add" /\ wkOps[o].place = "save"
  /\ wkStored' = IF wkOps[o].id \in wkOps[o].copy THEN wkStored
                 ELSE wkOps[o].copy \cup {wkOps[o].id}
  /\ wkOpen' = wkOpen \cup {wkOps[o].id}
  /\ WkEnd(o)
  /\ UNCHANGED <<wkPanel, wkGone>>

\* Mutant of UpdateSaves: a missing row is added, as it once was.
UpdatePushesMutant(o) ==
  /\ wkOps[o].kind = "update" /\ wkOps[o].place = "save"
  /\ wkStored' = wkOps[o].copy \cup {wkOps[o].id}
  /\ WkEnd(o)
  /\ UNCHANGED <<wkPanel, wkOpen, wkGone>>

\* updateSavedWorkspace: the copy is written back if it has the row.
UpdateSaves(o) ==
  /\ wkOps[o].kind = "update" /\ wkOps[o].place = "save"
  /\ wkStored' = IF wkOps[o].id \in wkOps[o].copy THEN wkOps[o].copy ELSE wkStored
  /\ WkEnd(o)
  /\ UNCHANGED <<wkPanel, wkOpen, wkGone>>

\* deleteWorkspace shows its dialog, over the list and the tabs of that moment.
DeleteAsks(o, w) ==
  /\ w \in wkPanel /\ wkOps[o] = WkIdle
  /\ \A p \in WkOps : wkOps[p].place # "ask"
  /\ wkOps' = [wkOps EXCEPT ![o] =
       [kind |-> "delete", id |-> w, place |-> "ask", copy |-> wkPanel \ {w},
        open |-> w \in wkOpen, shown |-> TRUE]]
  /\ UNCHANGED <<wkStored, wkPanel, wkOpen, wkGone>>

\* The user confirms: a tab that was open then goes first.
DeleteConfirmed(o) ==
  LET calls == [wkOps EXCEPT ![o].place = "save"] IN
  /\ wkOps[o].place = "ask"
  /\ \/ wkOps[o].open /\ wkOps[o].id \in wkOpen /\ Unmounts(calls, wkOps[o].id)
     \/ /\ ~wkOps[o].open \/ wkOps[o].id \notin wkOpen
        /\ wkOps' = calls /\ UNCHANGED wkOpen
  /\ UNCHANGED <<wkStored, wkPanel, wkGone>>

\* The row is in no call that could write it back, and in no list that could.
NobodyHas(w, panel, o) ==
  /\ w \notin panel
  /\ \A p \in WkOps \ {o} : /\ w \notin wkOps[p].copy
                            /\ ~(wkOps[p].kind = "add" /\ wkOps[p].id = w)

\* The list of that moment is written, and shown by the panel if it is still there.
DeleteSaves(o) ==
  /\ wkOps[o].kind = "delete" /\ wkOps[o].place = "save"
  /\ wkStored' = wkOps[o].copy
  /\ wkPanel' = IF wkOps[o].shown THEN wkOps[o].copy ELSE wkPanel
  /\ wkGone' = IF NobodyHas(wkOps[o].id, wkPanel', o) THEN wkGone \cup {wkOps[o].id}
               ELSE wkGone
  /\ WkEnd(o)
  /\ UNCHANGED <<wkOpen>>

\* The user cancels, or a request that saves fails: the call ends, an add too,
\* and what it was about stays as it is.
WkFails(o) ==
  /\ wkOps[o].place \in {"ask", "save"}
  /\ WkEnd(o)
  /\ UNCHANGED <<wkStored, wkPanel, wkOpen, wkGone>>

WkNext ==
  \/ PanelLoads
  \/ \E w \in Workspaces :
       \/ OpenAdds(w) \/ AutoSaves(w) \/ TabCloses(w)
       \/ \E o \in WkOps : DeleteAsks(o, w)
  \/ \E o \in WkOps :
       WkLoads(o) \/ AddSaves(o) \/ UpdateSaves(o) \/ DeleteConfirmed(o)
       \/ DeleteSaves(o) \/ WkFails(o)

WkSpec == WkInit /\ [][WkNext]_wkVars

----------------------------------------------------------------------------
(* Properties.                                                              *)

\* Type invariant; only a deletion waits for an answer.
WkTypeOK ==
  /\ wkStored \subseteq Workspaces /\ wkPanel \subseteq Workspaces
  /\ wkOpen \subseteq Workspaces /\ wkGone \subseteq Workspaces
  /\ wkOps \in [WkOps ->
       [kind : {"none", "add", "update", "delete"}, id : Workspaces \cup {"none"},
        place : {"none", "load", "save", "ask"}, copy : SUBSET Workspaces,
        open : BOOLEAN, shown : BOOLEAN]]
  /\ \A o \in WkOps : /\ wkOps[o].place = "ask" => wkOps[o].kind = "delete"
                      /\ wkOps[o].kind = "none" <=> wkOps[o].place = "none"

\* A workspace that was deleted while no call under way and no panel still held its
\* row stays deleted until the user opens it again: neither the auto-save nor the
\* unmount of its tab, whenever they come, bring it back.
GoneStaysGone == wkGone \cap wkStored = {}
=============================================================================

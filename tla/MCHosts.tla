------------------------------- MODULE MCHosts -------------------------------
(***************************************************************************)
(* What several connections or calls share, side by side: the known_hosts  *)
(* file of the handshakes, the language server of an editor with its       *)
(* sockets, the list of AI tasks with its feed, and the list of saved      *)
(* workspaces.  They share no state, so that a behaviour of this module is *)
(* one of a single component; the others keep their initial state.         *)
(***************************************************************************)
EXTENDS HostKeys, LangServer, TaskFeed, WorkspaceStore

VARIABLE part     \* whose behaviour this is

partVars == <<part, vars, lsVars, tfVars, wkVars>>

PartsInit ==
  /\ part \in {"hosts", "server", "feed", "workspaces"}
  /\ Init /\ LsInit /\ TfInit /\ WkInit

\* Hosts and keys are interchangeable: the host and the key of the one handshake
\* with prompts stand for any others.
OneOfThem ==
  \A h \in Handshakes \ Unattended :
    pc'[h] # "off" => /\ target'[h] = CHOOSE host \in Hosts : TRUE
                      /\ presented'[h] = CHOOSE key \in Keys : TRUE

PartsNext ==
  \/ part = "hosts" /\ Next /\ OneOfThem /\ UNCHANGED <<part, lsVars, tfVars, wkVars>>
  \/ part = "server" /\ LsNext /\ UNCHANGED <<part, vars, tfVars, wkVars>>
  \/ part = "feed" /\ TfNext /\ UNCHANGED <<part, vars, lsVars, wkVars>>
  \/ part = "workspaces" /\ WkNext /\ UNCHANGED <<part, vars, lsVars, tfVars>>

\* A component that takes no step has no fair step enabled in its initial state.
PartsSpec ==
  PartsInit /\ [][PartsNext]_partVars /\ KeysFairness /\ LsFairness

\* Type invariant: that of every component.
TypesOK == TypeOK /\ LsTypeOK /\ TfTypeOK /\ WkTypeOK
=============================================================================

------------------------------ MODULE MCClients ------------------------------
(***************************************************************************)
(* The components that keep a connection to a server and what hangs on it, *)
(* side by side: the exec pool of the agent and those of the frontend.     *)
(* They share no state, so that a behaviour of this module is one of a     *)
(* single component; the others keep their initial state.                  *)
(***************************************************************************)
EXTENDS ExecPool, AuthSession, TermConn, EnterpriseSSH, JumpTerminal, AgentLoop, TermLine

VARIABLE part     \* whose behaviour this is

partVars == <<part, poolVars, auVars, tcVars, esVars, jtVars, agVars, tlVars>>

PartsInit ==
  /\ part \in {"pool", "auth", "terminal", "enterprise", "jumpbox", "agent", "line"}
  /\ PoolInit /\ AuthInit /\ TcInit /\ EsInit /\ JtInit /\ AgInit /\ TlInit

\* The pool stops when every call has been served; nothing else does.
PoolServed == (\A c \in Calls : at[c] \in {"done", "gone"}) /\ UNCHANGED poolVars

PartsNext ==
  \/ /\ part = "pool" /\ (PoolNext \/ PoolServed)
     /\ UNCHANGED <<part, auVars, tcVars, esVars, jtVars, agVars, tlVars>>
  \/ /\ part = "auth" /\ AuthNext
     /\ UNCHANGED <<part, poolVars, tcVars, esVars, jtVars, agVars, tlVars>>
  \/ /\ part = "terminal" /\ TcNext
     /\ UNCHANGED <<part, poolVars, auVars, esVars, jtVars, agVars, tlVars>>
  \/ /\ part = "enterprise" /\ EsNext
     /\ UNCHANGED <<part, poolVars, auVars, tcVars, jtVars, agVars, tlVars>>
  \/ /\ part = "jumpbox" /\ JtNext
     /\ UNCHANGED <<part, poolVars, auVars, tcVars, esVars, agVars, tlVars>>
  \/ /\ part = "agent" /\ AgNext
     /\ UNCHANGED <<part, poolVars, auVars, tcVars, esVars, jtVars, tlVars>>
  \/ /\ part = "line" /\ TlNext
     /\ UNCHANGED <<part, poolVars, auVars, tcVars, esVars, jtVars, agVars>>

\* A component that takes no step has no fair step enabled in its initial state.
PartsSpec ==
  /\ PartsInit /\ [][PartsNext]_partVars
  /\ PoolFairness /\ AuthFairness /\ EsFairness /\ AgFairness

\* Type invariant: that of every component.
TypesOK ==
  /\ PoolTypeOK /\ AuthTypeOK /\ TcTypeOK /\ EsTypeOK /\ JtTypeOK /\ AgTypeOK /\ TlTypeOK
=============================================================================

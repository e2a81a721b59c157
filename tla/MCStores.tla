------------------------------ MODULE MCStores ------------------------------
\* Two stores that protect what they write by a lock directory, one for each behaviour:
\* RecordStore and Workspace.  The one that a behaviour is not about stays as it is.
EXTENDS RecordStore

CONSTANTS Holder, MortalHolder, Worker, Session, MaxClaim   \* of Workspace

VARIABLES subject, tree, branch, directory, claim, claimLock, at

workspace == <<tree, branch, directory, claim, claimLock, at>>

W == INSTANCE Workspace WITH Proc <- Holder, Mortal <- MortalHolder, MaxRevision <- MaxClaim, lock <- claimLock

ASSUME WorkspaceAssumed == W!WorkspaceAssumption

StoresInit == subject \in {"records", "workspace"} /\ StoreInit /\ W!Init

StoresNext ==
  \/ subject = "records" /\ StoreNext /\ UNCHANGED <<subject, workspace>>
  \/ subject = "workspace" /\ W!Next /\ UNCHANGED <<subject, svars>>

\* As in RecordStore's FairSpec.
StoresSpec ==
  /\ StoresInit /\ [][StoresNext]_<<svars, subject, workspace>>
  /\ \A p \in Proc : WF_svars(subject = "records" /\ Step(p))

-----------------------------------------------------------------------------
\* Workspace: its inductive invariant; claims are on complete workspaces only; the lock,
\* check and write protocol implements the claim contract.
WorkspaceIInv == W!IInv
ClaimedIsComplete == W!ClaimedIsComplete
ImplementsClaim == W!ImplementsClaim
=============================================================================

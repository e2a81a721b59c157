----------------------------- MODULE Workspace -----------------------------
(***************************************************************************)
(* repo_workflow/workspace_cli.py, workspace_store.py and                   *)
(* workspace_worktree.py: one workspace, created by provisioning a worktree *)
(* on a new branch, starting the issue there and writing its directory, and *)
(* claimed, released, resumed and closed under the claim lock.  Processes   *)
(* do both at the same time, may fail, and may be killed at any step.       *)
(***************************************************************************)
EXTENDS Integers

CONSTANTS
  Proc,         \* processes
  Mortal,       \* the processes that may be killed
  Worker,       \* worker identities (RWF_WORKER_ID)
  Session,      \* session identities (RWF_SESSION_ID)
  None,         \* Python's None
  MaxRevision   \* bound: no command is issued at a later claim revision

VARIABLES
  tree,         \* the worktree: "none", "clean", or "dirty" with local changes
  branch,       \* the work branch exists
  directory,    \* the files in the workspace's directory, or "none"
  claim,        \* the claim record, NoClaim while there is none
  lock,         \* the claim's lock directory exists
  at            \* at[p]: where process p is and what it remembers

data == <<tree, branch, directory, claim, lock>>
vars == <<data, at>>

Claims == INSTANCE WorkspaceClaim

\* What an instance of this module has to assume.
WorkspaceAssumption == Mortal \subseteq Proc /\ None \notin Worker \cup Session

Statuses == {"available", "claimed", "blocked", "closed"}

\* held: the claim revision the command has read; status, worker and session:
\* what it wants to write.
Idle == [pc |-> "idle", held |-> -1, status |-> "available", worker |-> None,
         session |-> None]

Local == [pc : {"idle", "start", "mkdir", "describe", "claim", "withdraw", "retire",
                "unbranch", "created", "lock", "check", "write", "unlock"},
          held : Nat \cup {-1}, status : Statuses,
          worker : Worker \cup {None}, session : Session \cup {None}]

Init ==
  /\ tree = "none" /\ branch = FALSE
  /\ directory = "none" /\ claim = Claims!NoClaim /\ lock = FALSE
  /\ at = [p \in Proc |-> Idle]

pc(p) == at[p].pc
Goto(p, from, to) == pc(p) = from /\ at' = [at EXCEPT ![p] = [@ EXCEPT !.pc = to]]
Return(p, from) == pc(p) = from /\ at' = [at EXCEPT ![p] = Idle]

----------------------------------------------------------------------------
(***************************************************************************)
(* rwf workspace create                                                     *)
(***************************************************************************)

\* WorktreeBackend.provision refuses an existing path or branch.  If git fails to add
\* the worktree, what it made of worktree and branch is removed: nothing has happened.
Provision(p) ==
  /\ Goto(p, "idle", "start")
  /\ tree = "none" /\ ~branch
  /\ tree' = "clean" /\ branch' = TRUE
  /\ UNCHANGED <<directory, claim, lock>>

\* create_parent_identity and start_issue commit what they write.
StartIssue(p) == Goto(p, "start", "mkdir") /\ UNCHANGED data

\* Or they raise: before start_issue has written a record, ...
StartRefused(p) == Goto(p, "start", "retire") /\ UNCHANGED data

\* ... or when its transaction record is in the worktree and not committed.
StartFails(p) ==
  /\ Goto(p, "start", "retire")
  /\ tree' = "dirty"
  /\ UNCHANGED <<branch, directory, claim, lock>>

\* WorkspaceStore.create: the directory, ...
MakeDirectory(p) ==
  /\ Goto(p, "mkdir", "describe")
  /\ directory = "none"
  /\ directory' = "empty"
  /\ UNCHANGED <<tree, branch, claim, lock>>

DirectoryExists(p) ==
  /\ Goto(p, "mkdir", "retire")
  /\ directory # "none"
  /\ UNCHANGED data

\* Mutant: claim.json is written first.
DescribeClaimFirst(p) ==
  /\ Goto(p, "describe", "claim")
  /\ claim' = Claims!Available
  /\ UNCHANGED <<tree, branch, directory, lock>>

\* ... workspace.json, ...
Describe(p) ==
  /\ Goto(p, "describe", "claim")
  /\ directory' = "described"
  /\ UNCHANGED <<tree, branch, claim, lock>>

\* ... and claim.json; until then either may fail.
OfferClaim(p) ==
  /\ Goto(p, "claim", "created")
  /\ claim' = Claims!Available
  /\ UNCHANGED <<tree, branch, directory, lock>>

CreateFails(p) ==
  /\ Goto(p, pc(p), "withdraw")
  /\ pc(p) \in {"describe", "claim"}
  /\ UNCHANGED data

Withdraw(p) ==
  /\ Goto(p, "withdraw", "retire")
  /\ directory' = "none"
  /\ UNCHANGED <<tree, branch, claim, lock>>

\* The command undoes the provisioning: retire() refuses a worktree with
\* local changes, and then nothing more is undone.
Retire(p) ==
  /\ Goto(p, "retire", "unbranch")
  /\ tree = "clean"
  /\ tree' = "none"
  /\ UNCHANGED <<branch, directory, claim, lock>>

RetireRefused(p) ==
  /\ Return(p, "retire")
  /\ tree = "dirty"
  /\ UNCHANGED data

DeleteBranch(p) ==
  /\ Return(p, "unbranch")
  /\ branch' = FALSE
  /\ UNCHANGED <<tree, directory, claim, lock>>

ReportCreated(p) == Return(p, "created") /\ UNCHANGED data

----------------------------------------------------------------------------
(***************************************************************************)
(* rwf workspace claim, release, resume and close                           *)
(***************************************************************************)

\* The command reads the claim; only an owned one can be resumed.  The store
\* can also block a claim.
ReadClaim(p, status, worker, session) ==
  /\ pc(p) = "idle"
  /\ claim # Claims!NoClaim /\ claim.revision <= MaxRevision
  /\ at' = [at EXCEPT ![p] = [pc |-> "lock", held |-> claim.revision, status |-> status,
                              worker |-> worker, session |-> session]]
  /\ UNCHANGED data

\* Mutant: an existing lock directory is as good as a new one.
AcquireLockExistOk(p) ==
  /\ Goto(p, "lock", "check")
  /\ lock' = TRUE
  /\ UNCHANGED <<tree, branch, directory, claim>>

AcquireLock(p) ==
  /\ Goto(p, "lock", "check")
  /\ ~lock
  /\ lock' = TRUE
  /\ UNCHANGED <<tree, branch, directory, claim>>

\* Five seconds have passed.
LockBusy(p) ==
  /\ Return(p, "lock")
  /\ lock
  /\ UNCHANGED data

\* Mutant: whoever knows the revision may change the claim.
AdmittedAnyone(p) ==
  claim.revision = at[p].held /\ at[p].status \in Claims!Legal(claim.status)

\* update_claim reads the claim again under the lock.
Admitted(p) == Claims!Admits(claim, at[p].held, at[p].status, at[p].worker)

Admit(p) ==
  /\ Goto(p, "check", "write")
  /\ Admitted(p)
  /\ UNCHANGED data

Refuse(p) ==
  /\ Goto(p, "check", "unlock")
  /\ ~Admitted(p)
  /\ UNCHANGED data

WriteClaim(p) ==
  /\ Goto(p, "write", "unlock")
  /\ claim' = Claims!Updated(claim, at[p].status, at[p].worker, at[p].session)
  /\ UNCHANGED <<tree, branch, directory, lock>>

WriteFails(p) == Goto(p, "write", "unlock") /\ UNCHANGED data

ReleaseLock(p) ==
  /\ Return(p, "unlock")
  /\ lock' = FALSE
  /\ UNCHANGED <<tree, branch, directory, claim>>

----------------------------------------------------------------------------
\* Between provisioning and return a process creates the workspace.
Creating(p) == pc(p) \in {"start", "mkdir", "describe", "claim", "withdraw", "retire",
                          "unbranch"}

\* The user removes with git what a killed or refused creation left behind.
CleanUp ==
  /\ claim = Claims!NoClaim /\ \A p \in Proc : ~Creating(p)
  /\ tree' = "none" /\ branch' = FALSE
  /\ UNCHANGED <<directory, claim, lock, at>>

Crash(p) ==
  /\ p \in Mortal
  /\ pc(p) # "idle"
  /\ at' = [at EXCEPT ![p] = Idle]
  /\ UNCHANGED data

Step(p) ==
  \/ StartIssue(p) \/ StartRefused(p) \/ StartFails(p)
  \/ MakeDirectory(p) \/ DirectoryExists(p) \/ Describe(p) \/ OfferClaim(p)
  \/ CreateFails(p) \/ Withdraw(p) \/ Retire(p) \/ RetireRefused(p) \/ DeleteBranch(p)
  \/ ReportCreated(p)
  \/ AcquireLock(p) \/ LockBusy(p) \/ Admit(p) \/ Refuse(p)
  \/ WriteClaim(p) \/ WriteFails(p) \/ ReleaseLock(p)

Next ==
  \/ \E p \in Proc :
       \/ Provision(p)
       \/ \E status \in Statuses, worker \in Worker, session \in Session \cup {None} :
            ReadClaim(p, status, worker, session)
       \/ Step(p)
       \/ Crash(p)
  \/ CleanUp

Spec == Init /\ [][Next]_vars

----------------------------------------------------------------------------
(***************************************************************************)
(* Properties                                                               *)
(***************************************************************************)

Complete == tree # "none" /\ branch /\ directory = "described" /\ claim # Claims!NoClaim
Nothing == tree = "none" /\ ~branch /\ directory = "none" /\ claim = Claims!NoClaim

TypeOK ==
  /\ tree \in {"none", "clean", "dirty"} /\ branch \in BOOLEAN
  /\ directory \in {"none", "empty", "described"}
  /\ claim \in Claims!Claim \cup {Claims!NoClaim} /\ lock \in BOOLEAN
  /\ at \in [Proc -> Local]
  /\ \A p \in Proc : pc(p) \in {"lock", "check", "write", "unlock"} => at[p].worker \in Worker

\* Nobody can claim a workspace that is not all there, or that its creator
\* will still undo: neither two creators nor a killed one leave a claim
\* without its branch, worktree and description.
ClaimedIsComplete == claim # Claims!NoClaim => Complete

\* The lock, check and write protocol implements the claim contract: one
\* revision at a time, legal transitions, and an owned claim is changed by
\* its owner only, whatever other workers do at the same time.
ImplementsClaim == Claims!Spec

\* WORKSPACE_MODEL.md: a workspace mutation ends in complete success or with
\* the prior state preserved.
AllOrNothing == (\A p \in Proc : pc(p) = "idle") => Complete \/ Nothing

----------------------------------------------------------------------------
(***************************************************************************)
(* The inductive invariant                                                  *)
(***************************************************************************)

OneCreator ==
  /\ \A p, q \in Proc : Creating(p) /\ Creating(q) => p = q
  /\ \A p \in Proc : Creating(p) => branch /\ claim = Claims!NoClaim
  /\ \A p \in Proc : Creating(p) /\ pc(p) # "unbranch" => tree # "none"
  /\ \A p \in Proc : pc(p) = "claim" => directory = "described"

\* The lock is held by one process; the claim it admitted is in place when
\* it writes.
LockExclusion ==
  /\ \A p \in Proc : pc(p) \in {"check", "write", "unlock"} => lock
  /\ \A p, q \in Proc :
       pc(p) \in {"check", "write", "unlock"} /\ pc(q) \in {"check", "write", "unlock"} =>
         p = q
  /\ \A p \in Proc : pc(p) = "write" => Admitted(p)
  /\ \A p \in Proc : pc(p) \in {"lock", "check", "write", "unlock"} =>
       claim # Claims!NoClaim

IInv == TypeOK /\ OneCreator /\ LockExclusion /\ ClaimedIsComplete
=============================================================================

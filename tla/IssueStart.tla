----------------------------- MODULE IssueStart -----------------------------
(***************************************************************************)
(* repo_workflow/issue_start.py: start_issue for one issue, with what it    *)
(* materializes: the canonical version, the work branch and its parent      *)
(* identity commit, the lifecycle record, the worktree's current work, and  *)
(* the commit of the files it owns.  Processes start the issue at the same  *)
(* time, in the same session or in others, and may be killed anywhere, also *)
(* inside the record store, where they leave their lock directory; the      *)
(* command is issued again.  Preparing a transaction is one step here, and  *)
(* so are validation and decision each: Transaction has them in detail.     *)
(***************************************************************************)
EXTENDS Integers, FiniteSets

CONSTANTS
  Proc,         \* processes
  Mortal,       \* the processes that may be killed
  Session,      \* session identities; with the issue they name a transaction
  None,         \* no session
  Versions,     \* what the canonical version may be in the beginning
  Inherited,    \* the lifecycle and the work branch there may be from before
  MaxRelation,  \* bound on the changes of the relationship graph
  MaxTip,       \* bound on the moves of the parent branch
  MaxLocked     \* bound on the lock directories that killed processes leave

VARIABLES
  version,      \* the canonical version in the worktree: stable, or the
                \* development version of this issue ("mine") or another's
  outputs,      \* "dirty": the version files changed and are not committed
  branch,       \* the work branch: "none", "bare", or "marked" by its
                \* parent identity commit
  head,         \* the branch checked out: "parent" or "work"
  tip,          \* the parent branch's tip
  relation,     \* the revision of the relationship graph
  found,        \* the lifecycle and the branch of the beginning (unchanged)
  life,         \* the lifecycle record: revision (-1: none), state, relation
  work,         \* the current-work record: revision (-1: none) and the
                \* lifecycle and relationship revisions it refers to
  txn,          \* txn[s]: the transaction record of session s
  locked,       \* the store's lock directories that killed processes left
  at            \* at[p]: where process p is and what it remembers

world == <<version, outputs, branch, head, tip, relation, found, life, work>>
vars == <<world, txn, locked, at>>

ASSUME BoundsAssumption == {MaxRelation, MaxTip, MaxLocked} \subseteq Nat
ASSUME VersionsAssumption == Versions \subseteq {"stable", "mine", "other"}
ASSUME ProcAssumption == Mortal \subseteq Proc /\ None \notin Session

Revision == Nat \cup {-1}

\* closed: in review, accepted or completed.
Life == [revision : Revision, state : {"not_started", "active", "aborted", "closed"},
         relation : Nat]
Work == [revision : Revision, lifecycle : Revision, relation : Nat]
NoLife == [revision |-> -1, state |-> "not_started", relation |-> 0]
NoWork == [revision |-> -1, lifecycle |-> -1, relation |-> 0]

Startable == {"not_started", "aborted"}

\* An issue nobody has worked on.
Fresh == [life |-> NoLife, branch |-> "none"]

ASSUME InheritedAssumption ==
  /\ Fresh \in Inherited /\ Inherited \subseteq [life : Life, branch : {"none", "marked"}]
  /\ \A i \in Inherited : i.life.revision = -1 => i.life = NoLife

\* What the store locks: prepare() as a whole, and each record.
Locks == {"coordinator", "lifecycle", "work"} \cup Session

\* The read set: what start_issue observed of every domain.  A record keeps
\* it, but nobody looks at it again once the transaction is decided.
Reads == [relation : Nat, life : Revision, work : Revision,
          version : {"stable", "mine", "other"}, tip : Nat]
Observed == [relation |-> relation, life |-> life.revision, work |-> work.revision,
             version |-> version, tip |-> tip]
NoReads == [relation |-> 0, life |-> -1, work |-> -1, version |-> "stable", tip |-> 0]

TxnRecord == [status : {"absent", "prepared", "committed", "aborted"}, reads : Reads]

\* session: whose transaction; relation: the relationships it starts the issue
\* with; declared: the version files belong to the files this call will commit;
\* seen: the read set to prepare, or of the record that is validated; held: the
\* revision of the record it is about to replace.
Idle == [pc |-> "idle", session |-> None, relation |-> 0, declared |-> FALSE, held |-> -1,
         seen |-> NoReads]

Local == [pc : {"idle", "prepare", "load", "validate", "decide", "version", "branch",
                "checkout", "identity", "lifecycle", "transition", "current",
                "project", "record", "done"},
          session : Session \cup {None}, relation : Nat, declared : BOOLEAN, held : Revision,
          seen : Reads]

Init ==
  /\ version \in Versions /\ outputs = "clean"
  /\ found \in Inherited /\ life = found.life /\ branch = found.branch
  /\ head = "parent" /\ tip = 0 /\ relation = 0 /\ work = NoWork /\ locked = {}
  /\ txn = [s \in Session |-> [status |-> "absent", reads |-> NoReads]]
  /\ at = [p \in Proc |-> Idle]

pc(p) == at[p].pc
Status(p) == txn[at[p].session].status
\* Go on, holding what was just read.
Hold(p, from, to, revision, reads) ==
  pc(p) = from /\ at' = [at EXCEPT ![p] = [@ EXCEPT !.pc = to, !.held = revision, !.seen = reads]]
Goto(p, from, to) == Hold(p, from, to, -1, NoReads)
\* An exception, or the return to the caller.
Return(p, from) == pc(p) = from /\ at' = [at EXCEPT ![p] = Idle]

\* A process is killed while it holds these locks.
KilledWith(p, locks) ==
  /\ p \in Mortal /\ locks \cap locked = {} /\ Cardinality(locked \cup locks) <= MaxLocked
  /\ locked' = locked \cup locks
  /\ at' = [at EXCEPT ![p] = Idle]

\* A write under locks is done: they are released, or the process is killed
\* before they are.
Written(p, from, to, locks) ==
  /\ pc(p) = from /\ locks \cap locked = {}
  /\ \/ Goto(p, from, to) /\ UNCHANGED locked
     \/ KilledWith(p, locks)

----------------------------------------------------------------------------
(***************************************************************************)
(* Preparing and deciding                                                   *)
(***************************************************************************)

\* start_issue reads every domain; a version that will change must have clean
\* files, and a branch that exists must name its parent.
Begin(p, s) ==
  /\ pc(p) = "idle"
  /\ version = "stable" => outputs = "clean"
  /\ branch # "bare"
  /\ at' = [at EXCEPT ![p] = [Idle EXCEPT !.pc = "prepare", !.session = s,
                                          !.relation = relation,
                                          !.declared = (version = "stable"),
                                          !.seen = Observed]]
  /\ UNCHANGED <<world, txn, locked>>

Prepare(p) ==
  /\ Written(p, "prepare", "load", {"coordinator", at[p].session})
  /\ Status(p) = "absent"
  /\ \A s \in Session : txn[s].status # "prepared"
  /\ txn' = [txn EXCEPT ![at[p].session] = [status |-> "prepared", reads |-> at[p].seen]]
  /\ UNCHANGED world

\* prepare() failed: go on with the session's own transaction.
Resume(p) ==
  /\ Goto(p, "prepare", "load")
  /\ Status(p) \in {"prepared", "committed"}
  /\ UNCHANGED <<world, txn, locked>>

PrepareFails(p) ==
  /\ Return(p, "prepare")
  /\ \/ Status(p) = "aborted"
     \/ /\ Status(p) = "absent"
        /\ \/ \E s \in Session : txn[s].status = "prepared"
           \/ {"coordinator", at[p].session} \cap locked # {}
  /\ UNCHANGED <<world, txn, locked>>

\* Mutant: commit() materializes what is only prepared.
LoadPreparedForward(p) ==
  /\ Goto(p, "load", "version")
  /\ Status(p) = "prepared"
  /\ UNCHANGED <<world, txn, locked>>

\* commit() reads the record.
LoadPrepared(p) ==
  /\ Hold(p, "load", "validate", -1, txn[at[p].session].reads)
  /\ Status(p) = "prepared"
  /\ UNCHANGED <<world, txn, locked>>

LoadCommitted(p) ==
  /\ Goto(p, "load", "version")
  /\ Status(p) = "committed"
  /\ UNCHANGED <<world, txn, locked>>

LoadAborted(p) ==
  /\ Return(p, "load")
  /\ Status(p) = "aborted"
  /\ UNCHANGED <<world, txn, locked>>

\* _validate_reads.
Validate(p) ==
  /\ Goto(p, "validate", "decide")
  /\ at[p].seen = Observed
  /\ UNCHANGED <<world, txn, locked>>

\* A stale read set: the record is replaced by an aborted one, unless it was
\* decided meanwhile or its lock stays busy.
ValidateFails(p) ==
  /\ at[p].session \notin locked
  /\ \/ Return(p, "validate") /\ UNCHANGED locked
     \/ pc(p) = "validate" /\ KilledWith(p, {at[p].session})
  /\ at[p].seen # Observed
  /\ Status(p) = "prepared"
  /\ txn' = [txn EXCEPT ![at[p].session] = [status |-> "aborted", reads |-> NoReads]]
  /\ UNCHANGED world

AbortFails(p) ==
  /\ Return(p, "validate")
  /\ at[p].seen # Observed
  /\ Status(p) # "prepared" \/ at[p].session \in locked
  /\ UNCHANGED <<world, txn, locked>>

Commit(p) ==
  /\ Written(p, "decide", "version", {at[p].session})
  /\ Status(p) = "prepared"
  /\ txn' = [txn EXCEPT ![at[p].session] = [status |-> "committed", reads |-> NoReads]]
  /\ UNCHANGED world

CommitFails(p) ==
  /\ Return(p, "decide")
  /\ Status(p) # "prepared" \/ at[p].session \in locked
  /\ UNCHANGED <<world, txn, locked>>

----------------------------------------------------------------------------
(***************************************************************************)
(* _materialize()                                                           *)
(***************************************************************************)

\* The version adapter makes a stable version this issue's.
AssignVersion(p) ==
  /\ Goto(p, "version", "branch")
  /\ version = "stable"
  /\ version' = "mine" /\ outputs' = "dirty"
  /\ UNCHANGED <<branch, head, tip, relation, found, life, work, txn, locked>>

\* Mutant: any development version is taken for this issue's.
VersionAssignedAny(p) ==
  /\ Goto(p, "version", "branch")
  /\ version \in {"mine", "other"}
  /\ UNCHANGED <<world, txn, locked>>

\* Mutant: only a stable version can become this issue's.
VersionAssignedNever(p) ==
  /\ Return(p, "version")
  /\ version = "mine"
  /\ UNCHANGED <<world, txn, locked>>

VersionAssigned(p) ==
  /\ Goto(p, "version", "branch")
  /\ version = "mine"
  /\ UNCHANGED <<world, txn, locked>>

VersionForeign(p) ==
  /\ Return(p, "version")
  /\ version = "other"
  /\ UNCHANGED <<world, txn, locked>>

CreateBranch(p) ==
  /\ Goto(p, "branch", "checkout")
  /\ branch = "none"
  /\ branch' = "bare"
  /\ UNCHANGED <<version, outputs, head, tip, relation, found, life, work, txn, locked>>

\* Mutant: an existing branch is taken as it is.
UseBranchAsIs(p) ==
  /\ Goto(p, "branch", "lifecycle")
  /\ branch # "none"
  /\ head' = "work"
  /\ UNCHANGED <<version, outputs, branch, tip, relation, found, life, work, txn, locked>>

\* An existing branch must name its parent; it is checked out.
UseBranch(p) ==
  /\ Goto(p, "branch", "lifecycle")
  /\ branch = "marked"
  /\ head' = "work"
  /\ UNCHANGED <<version, outputs, branch, tip, relation, found, life, work, txn, locked>>

BranchUnmarked(p) ==
  /\ Return(p, "branch")
  /\ branch = "bare"
  /\ UNCHANGED <<world, txn, locked>>

Checkout(p) ==
  /\ Goto(p, "checkout", "identity")
  /\ head' = "work"
  /\ UNCHANGED <<version, outputs, branch, tip, relation, found, life, work, txn, locked>>

\* create_parent_identity: an empty commit names the parent.
MarkBranch(p) ==
  /\ Goto(p, "identity", "lifecycle")
  /\ branch' = "marked"
  /\ UNCHANGED <<version, outputs, head, tip, relation, found, life, work, txn, locked>>

\* Mutant: an active lifecycle is started again.
ReadStartableAlways(p) ==
  /\ Hold(p, "lifecycle", "transition", life.revision, NoReads)
  /\ UNCHANGED <<world, txn, locked>>

\* The lifecycle that is read is to be started or entered again, has been
\* started already, or is beyond that: an error.
ReadStartable(p) ==
  /\ Hold(p, "lifecycle", "transition", life.revision, NoReads)
  /\ life.state \in Startable
  /\ UNCHANGED <<world, txn, locked>>

ReadActive(p) ==
  /\ Goto(p, "lifecycle", "current")
  /\ life.state = "active"
  /\ life.relation = at[p].relation
  /\ UNCHANGED <<world, txn, locked>>

ReadRefused(p) ==
  /\ Return(p, "lifecycle")
  /\ \/ life.state = "closed"
     \/ life.state = "active" /\ life.relation # at[p].relation
  /\ UNCHANGED <<world, txn, locked>>

\* LifecycleStore.transition (start or re-enter), a compare-and-swap
\* (Lifecycle).
StartLifecycle(p) ==
  /\ Written(p, "transition", "current", {"lifecycle"})
  /\ life.revision = at[p].held
  /\ life' = [revision |-> life.revision + 1, state |-> "active",
              relation |-> at[p].relation]
  /\ UNCHANGED <<version, outputs, branch, head, tip, relation, found, work, txn>>

StartFails(p) ==
  /\ Return(p, "transition")
  /\ life.revision # at[p].held \/ "lifecycle" \in locked
  /\ UNCHANGED <<world, txn, locked>>

\* The current work refers to the started lifecycle, or will.
WorkProjected(p) ==
  /\ Goto(p, "current", "record")
  /\ work.lifecycle = life.revision /\ work.relation = at[p].relation
  /\ UNCHANGED <<world, txn, locked>>

ReadWork(p) ==
  /\ Hold(p, "current", "project", work.revision, NoReads)
  /\ ~(work.lifecycle = life.revision /\ work.relation = at[p].relation)
  /\ UNCHANGED <<world, txn, locked>>

\* CurrentWorkStore.project_start, a compare-and-swap.  The lifecycle that
\* this call read or wrote is in place: no start changes an active one.
ProjectWork(p) ==
  /\ Written(p, "project", "record", {"work"})
  /\ work.revision = at[p].held
  /\ work' = [revision |-> work.revision + 1, lifecycle |-> life.revision,
              relation |-> at[p].relation]
  /\ UNCHANGED <<version, outputs, branch, head, tip, relation, found, life, txn>>

ProjectFails(p) ==
  /\ Return(p, "project")
  /\ work.revision # at[p].held \/ "work" \in locked
  /\ UNCHANGED <<world, txn, locked>>

\* commit_owned_files: the lifecycle and transaction records, and the version
\* files if this call saw the version stable.
RecordFiles(p) ==
  /\ Goto(p, "record", "done")
  /\ outputs' = IF at[p].declared THEN "clean" ELSE outputs
  /\ UNCHANGED <<version, branch, head, tip, relation, found, life, work, txn, locked>>

\* start_issue returns its result.
Report(p) == Return(p, "done") /\ UNCHANGED <<world, txn, locked>>

----------------------------------------------------------------------------
\* The relationship graph is registered anew; the parent branch moves.
ChangeRelations ==
  /\ relation < MaxRelation
  /\ relation' = relation + 1
  /\ UNCHANGED <<version, outputs, branch, head, tip, found, life, work, txn, locked, at>>

MoveParent ==
  /\ tip < MaxTip
  /\ tip' = tip + 1
  /\ UNCHANGED <<version, outputs, branch, head, relation, found, life, work, txn, locked, at>>

Crash(p) ==
  /\ p \in Mortal
  /\ pc(p) # "idle"
  /\ at' = [at EXCEPT ![p] = Idle]
  /\ UNCHANGED <<world, txn, locked>>

\* Killed under a lock, before the record is replaced.
CrashHolding(p) ==
  /\ \/ pc(p) = "prepare" /\ KilledWith(p, {"coordinator"})
     \/ pc(p) = "prepare" /\ KilledWith(p, {"coordinator", at[p].session})
     \/ pc(p) \in {"validate", "decide"} /\ KilledWith(p, {at[p].session})
     \/ pc(p) = "transition" /\ KilledWith(p, {"lifecycle"})
     \/ pc(p) = "project" /\ KilledWith(p, {"work"})
  /\ pc(p) = "validate" => at[p].seen # Observed
  /\ UNCHANGED <<world, txn>>

Step(p) ==
  \/ Prepare(p) \/ Resume(p) \/ PrepareFails(p)
  \/ LoadPrepared(p) \/ LoadCommitted(p) \/ LoadAborted(p)
  \/ Validate(p) \/ ValidateFails(p) \/ AbortFails(p)
  \/ Commit(p) \/ CommitFails(p)
  \/ AssignVersion(p) \/ VersionAssigned(p) \/ VersionForeign(p)
  \/ CreateBranch(p) \/ UseBranch(p) \/ BranchUnmarked(p) \/ Checkout(p) \/ MarkBranch(p)
  \/ ReadStartable(p) \/ ReadActive(p) \/ ReadRefused(p)
  \/ StartLifecycle(p) \/ StartFails(p)
  \/ WorkProjected(p) \/ ReadWork(p) \/ ProjectWork(p) \/ ProjectFails(p)
  \/ RecordFiles(p) \/ Report(p)

Next ==
  \/ \E p \in Proc :
       \/ \E s \in Session : Begin(p, s)
       \/ Step(p)
       \/ Crash(p)
       \/ CrashHolding(p)
  \/ ChangeRelations
  \/ MoveParent

Spec == Init /\ [][Next]_vars

\* Calls of the processes that are not killed run on, and with each of them
\* somebody starts the issue in every session again and again.
FairSpec ==
  /\ Spec
  /\ \A p \in Proc \ Mortal : WF_vars(Step(p)) /\ \A s \in Session : SF_vars(Begin(p, s))

----------------------------------------------------------------------------
(***************************************************************************)
(* Properties                                                               *)
(***************************************************************************)

TypeOK ==
  /\ version \in {"stable", "mine", "other"} /\ outputs \in {"clean", "dirty"}
  /\ branch \in {"none", "bare", "marked"} /\ head \in {"parent", "work"}
  /\ tip \in Nat /\ relation \in Nat /\ found \in Inherited
  /\ life \in Life /\ work \in Work /\ locked \subseteq Locks
  /\ txn \in [Session -> TxnRecord] /\ at \in [Proc -> Local]
  /\ \A p \in Proc : pc(p) # "idle" => at[p].session \in Session

\* Whatever interleaves and whoever is killed, a start becomes visible in
\* order: nothing changes before some session's decision, the lifecycle is
\* started on a marked branch with the issue's version, and the current work,
\* by which other commands find the issue, comes last.
EffectsInOrder ==
  /\ (branch # found.branch \/ outputs = "dirty" \/ life # found.life \/ work # NoWork) =>
       \E s \in Session : txn[s].status = "committed"
  /\ branch # found.branch => version = "mine"
  /\ life # found.life => branch = "marked" /\ head = "work"
  /\ work # NoWork => life.state = "active" /\ work.lifecycle = life.revision

\* STATE_RECOVERY.md: repeating a recovery does not advance durable
\* revisions: however many calls in however many sessions replay the start,
\* a lifecycle that is to be started or entered again is written once, any
\* other never, and the current work once.
ReplayIsQuiet ==
  /\ \/ life = found.life
     \/ found.life.state \in Startable /\ life.revision = found.life.revision + 1
  /\ work.revision <= 0

\* A call that reports success leaves the issue started and this worktree's
\* current work on it.
ReportedIsStarted ==
  \A p \in Proc : pc(p) = "done" =>
    /\ version = "mine" /\ branch = "marked" /\ head = "work"
    /\ life.state = "active"
    /\ work.lifecycle = life.revision /\ work.relation = life.relation

\* STATE_RECOVERY.md: a committed transaction is replayed until every record
\* reflects it.
CommittedFinishes ==
  \A s \in Session :
    txn[s].status = "committed" ~> life.state = "active" /\ work.lifecycle = life.revision

\* STATE_RECOVERY.md's promise, where no killed process has left a lock.
UnlockedFinishes == CommittedFinishes \/ <>[](locked # {})

\* What the code leaves in the way of a repeated start: another issue's
\* version, a branch without identity, a lifecycle that is in review or
\* beyond, or was started when the relationship graph was another one, and
\* the lock of a record still to be written whose holder was killed.
Obstructed ==
  \/ version = "other" \/ branch = "bare" \/ life.state = "closed"
  \/ life.state = "active" /\ life.relation # relation
  \/ life.state \in Startable /\ "lifecycle" \in locked
  \/ work = NoWork /\ "work" \in locked

\* A committed start is finished by whoever issues it again, unless one of
\* these stays in its way for ever; locks of the transactions do not.
FinishesUnlessObstructed == CommittedFinishes \/ <>[]Obstructed

----------------------------------------------------------------------------
(***************************************************************************)
(* The inductive invariant                                                  *)
(***************************************************************************)

\* The lifecycle is written by the start only, the current work after it.
RecordsAgree ==
  /\ \/ life = found.life
     \/ /\ found.life.state \in Startable /\ life.state = "active"
        /\ life.revision = found.life.revision + 1
  /\ work.revision = 0 => life.state = "active" /\ work.lifecycle = life.revision
                                               /\ work.relation = life.relation
  /\ work.revision = -1 => work = NoWork
  /\ work.revision \in {-1, 0}

\* What a process in _materialize knows: its transaction is committed, and
\* the effects before its next one are there.
Materializing(p) ==
  /\ pc(p) \notin {"idle", "prepare", "load", "validate", "decide"} =>
       Status(p) = "committed"
  /\ pc(p) \notin {"idle", "prepare", "load", "validate", "decide", "version"} =>
       version = "mine"
  /\ pc(p) \in {"checkout", "identity"} => branch # "none"
  /\ pc(p) = "identity" => head = "work"
  /\ pc(p) \in {"lifecycle", "transition", "current", "project", "record", "done"} =>
       branch = "marked" /\ head = "work"
  /\ pc(p) \in {"current", "project", "record", "done"} =>
       life.state = "active" /\ life.relation = at[p].relation
  /\ pc(p) = "transition" =>
       found.life.state \in Startable /\ at[p].held = found.life.revision
  /\ pc(p) = "project" => at[p].held = -1
  /\ pc(p) \in {"record", "done"} => work.revision = 0

IInv == TypeOK /\ RecordsAgree /\ EffectsInOrder /\ \A p \in Proc : Materializing(p)
=============================================================================

---------------------------- MODULE Transaction ----------------------------
(***************************************************************************)
(* repo_workflow/transaction.py: SemanticTransactionCoordinator, the        *)
(* write-ahead protocol for a change of several records, driven the way     *)
(* start_issue in repo_workflow/issue_start.py drives it: observe the read  *)
(* set, prepare, go on with an existing transaction when prepare fails,     *)
(* validate, commit, materialize.  A transaction record is one key of the   *)
(* record store, so writing it is a compare-and-swap (CasRegister); its     *)
(* read set and its decision are looked at and changed in separate steps.   *)
(* Processes may be killed at every step.  A killed process leaves behind   *)
(* the lock directories it holds, the coordinator's or a record's: no later *)
(* process removes them, and each that needs one raises after its timeout.  *)
(***************************************************************************)
EXTENDS Integers

CONSTANTS
  Txn,          \* transaction identities
  Member,       \* records a transaction reads or writes: (domain, key)
  ReadSet,      \* ReadSet[t]: the members t reads
  WriteSet,     \* WriteSet[t]: the members t writes
  Proc,         \* processes
  Mortal,       \* the processes that may be killed
  Outside,      \* members other operations write without a transaction
  None,         \* no transaction
  MaxOutside    \* bound on the revisions such writes make

\* prepare() refuses an empty read set or write set.
ASSUME SetsAssumption ==
  /\ ReadSet \in [Txn -> SUBSET Member \ {{}}]
  /\ WriteSet \in [Txn -> SUBSET Member \ {{}}]
ASSUME BoundAssumption == MaxOutside \in Nat /\ None \notin Txn
ASSUME MortalAssumption == Mortal \subseteq Proc /\ Outside \subseteq Member

VARIABLES
  txn,          \* txn[t]: the record of transaction t
  current,      \* current[m]: the revision in place of member m
  applied,      \* applied[t]: the members t's materialization has written
  coordinator,  \* the coordinator's lock directory exists
  blocked,      \* the records nobody can write: a killed process left their lock
                \* directory, or what their write needs is not in place
  at            \* at[p]: where process p is and what it remembers

data == <<txn, current, applied, coordinator, blocked>>
vars == <<txn, current, applied, coordinator, blocked, at>>

Observation == [Member -> Nat]
Unobserved == [m \in Member |-> 0]

\* revision -1: no record.
TxnRecord == [status : {"absent", "prepared", "committed", "aborted"},
              revision : Nat \cup {-1}, reads : Observation]

\* pc: the next step; job: the transaction worked on; seen: the revisions
\* observed before prepare; held: the revision of the transaction record that
\* was read; left: the read members not revalidated yet.
Idle == [pc |-> "idle", job |-> None, seen |-> Unobserved, held |-> -1, left |-> {}]

Local == [pc : {"idle", "lock", "scan", "create", "resume", "load", "validate",
                "revalidate", "abort", "apply", "dead"},
          job : Txn \cup {None}, seen : Observation,
          held : Nat \cup {-1}, left : SUBSET Member]

Init ==
  /\ txn = [t \in Txn |-> [status |-> "absent", revision |-> -1, reads |-> Unobserved]]
  /\ current = Unobserved
  /\ applied = [t \in Txn |-> {}]
  /\ coordinator = FALSE
  /\ blocked = {}
  /\ at = [p \in Proc |-> Idle]

Status(t) == txn[t].status
pc(p) == at[p].pc
Job(p) == at[p].job

Goto(p, from, to) == pc(p) = from /\ at' = [at EXCEPT ![p].pc = to]
\* ... and forget what was observed or read on the way.
Forget(p, from, to) ==
  pc(p) = from /\ at' = [at EXCEPT ![p] = [Idle EXCEPT !.pc = to, !.job = Job(p)]]
Return(p, from) == pc(p) = from /\ at' = [at EXCEPT ![p] = Idle]

Killed(p) == p \in Mortal /\ at' = [at EXCEPT ![p] = [Idle EXCEPT !.pc = "dead"]]

\* The end of a write of record r: its lock directory is removed, by finally,
\* and the process goes on; or the process is killed before it is.
Released(r) == r \notin blocked /\ blocked' = blocked
Abandoned(p, r) == r \notin blocked /\ blocked' = blocked \cup {r} /\ Killed(p)

\* _sets_conflict: one writes what the other reads or writes.
Conflict(t, u) ==
  \/ WriteSet[t] \cap (ReadSet[u] \cup WriteSet[u]) # {}
  \/ WriteSet[u] \cap ReadSet[t] # {}

----------------------------------------------------------------------------
(***************************************************************************)
(* prepare()                                                                *)
(***************************************************************************)

\* The client observes the members it will read and calls prepare().
Begin(p, t) ==
  /\ pc(p) = "idle"
  /\ at' = [at EXCEPT ![p] = [Idle EXCEPT !.pc = "lock", !.job = t, !.seen = current]]
  /\ UNCHANGED data

\* _acquire_lock on the coordinator's lock directory.
LockCoordinator(p) ==
  /\ Goto(p, "lock", "scan")
  /\ ~coordinator
  /\ coordinator' = TRUE
  /\ UNCHANGED <<txn, current, applied, blocked>>

CoordinatorBusy(p) ==
  /\ Forget(p, "lock", "resume")
  /\ coordinator
  /\ UNCHANGED data

\* Mutant: the scan compares write sets only.
PreparedWriteConflict(t) ==
  \E u \in Txn \ {t} : Status(u) = "prepared" /\ WriteSet[t] \cap WriteSet[u] # {}

\* _ensure_no_prepared_conflict: every other transaction that is prepared
\* must have nothing to do with this one.
PreparedConflict(t) ==
  \E u \in Txn \ {t} : Status(u) = "prepared" /\ Conflict(t, u)

\* Mutant: the lock is released between the scan and the creation.
ScanPassesUnlocks(p) ==
  /\ Goto(p, "scan", "create")
  /\ ~PreparedConflict(Job(p))
  /\ coordinator' = FALSE
  /\ UNCHANGED <<txn, current, applied, blocked>>

ScanPasses(p) ==
  /\ Goto(p, "scan", "create")
  /\ ~PreparedConflict(Job(p))
  /\ UNCHANGED data

ScanFails(p) ==
  /\ Forget(p, "scan", "resume")
  /\ PreparedConflict(Job(p))
  /\ coordinator' = FALSE
  /\ UNCHANGED <<txn, current, applied, blocked>>

\* The record is created at revision 0 and both locks released; killed, the
\* process leaves both.
CreateRecord(p) ==
  /\ pc(p) = "create"
  /\ Status(Job(p)) = "absent"
  /\ txn' = [txn EXCEPT ![Job(p)] =
               [status |-> "prepared", revision |-> 0, reads |-> at[p].seen]]
  /\ \/ Forget(p, "create", "load") /\ coordinator' = FALSE /\ Released(Job(p))
     \/ Abandoned(p, Job(p)) /\ UNCHANGED coordinator
  /\ UNCHANGED <<current, applied>>

\* create() raises: there is a record, or its lock stays busy.
CreateRaises(p) ==
  /\ Forget(p, "create", "resume")
  /\ Status(Job(p)) # "absent" \/ Job(p) \in blocked
  /\ coordinator' = FALSE
  /\ UNCHANGED <<txn, current, applied, blocked>>

\* prepare() failed: start_issue goes on only with a transaction of the same
\* identity that is prepared or committed.
Resume(p) ==
  /\ Forget(p, "resume", "load")
  /\ Status(Job(p)) \in {"prepared", "committed"}
  /\ UNCHANGED data

StartFails(p) ==
  /\ Return(p, "resume")
  /\ Status(Job(p)) \in {"absent", "aborted"}
  /\ UNCHANGED data

----------------------------------------------------------------------------
(***************************************************************************)
(* commit(), abort() and recover()                                          *)
(***************************************************************************)

\* What a process remembers of the record of t it has just read.
Reading(t, next, reads) ==
  [Idle EXCEPT !.pc = next, !.job = t, !.held = txn[t].revision, !.left = reads]

\* commit() reads the record: a prepared transaction is revalidated, a
\* committed one is materialized again, an aborted one is an error.
LoadPrepared(p) ==
  /\ pc(p) = "load"
  /\ Status(Job(p)) = "prepared"
  /\ at' = [at EXCEPT ![p] = Reading(Job(p), "validate", ReadSet[Job(p)])]
  /\ UNCHANGED data

\* Mutant: a committed transaction is taken to be done.
LoadCommittedDone(p) ==
  /\ Return(p, "load")
  /\ Status(Job(p)) = "committed"
  /\ UNCHANGED data

LoadCommitted(p) ==
  /\ pc(p) = "load"
  /\ Status(Job(p)) = "committed"
  /\ at' = [at EXCEPT ![p] = Reading(Job(p), "apply", {})]
  /\ UNCHANGED data

LoadAborted(p) ==
  /\ Return(p, "load")
  /\ Status(Job(p)) = "aborted"
  /\ UNCHANGED data

\* The validate callback reads the members one after the other.
ReadCurrent(p, m) ==
  /\ pc(p) \in {"validate", "revalidate"}
  /\ m \in at[p].left
  /\ current[m] = txn[Job(p)].reads[m]
  /\ at' = [at EXCEPT ![p].left = @ \ {m}]
  /\ UNCHANGED data

ReadStale(p, m) ==
  /\ pc(p) \in {"validate", "revalidate"}
  /\ m \in at[p].left
  /\ current[m] # txn[Job(p)].reads[m]
  /\ at' = [at EXCEPT ![p].pc = "abort", ![p].left = {}]
  /\ UNCHANGED data

\* Replacing the record is a compare-and-swap on the revision that was read.
Decide(t, status) ==
  txn' = [txn EXCEPT ![t] = [status |-> status, revision |-> @.revision + 1,
                              reads |-> @.reads]]

\* Mutant: the record is overwritten whatever its revision.
UnmovedUnchecked(p) == txn[Job(p)].revision >= at[p].held

Unmoved(p) == txn[Job(p)].revision = at[p].held

CommitRecord(p) ==
  /\ pc(p) = "validate"
  /\ at[p].left = {}
  /\ Unmoved(p)
  /\ Decide(Job(p), "committed")
  /\ \/ Forget(p, "validate", "apply") /\ Released(Job(p))
     \/ Abandoned(p, Job(p))
  /\ UNCHANGED <<current, applied, coordinator>>

AbortRecord(p) ==
  /\ pc(p) = "abort"
  /\ Unmoved(p)
  /\ Decide(Job(p), "aborted")
  /\ \/ Return(p, "abort") /\ Released(Job(p))
     \/ Abandoned(p, Job(p))
  /\ UNCHANGED <<current, applied, coordinator>>

\* The compare-and-swap was lost to another process, or the record's lock
\* stays busy: an error.
CommitRaises(p) ==
  /\ Return(p, "validate")
  /\ at[p].left = {}
  /\ ~Unmoved(p) \/ Job(p) \in blocked
  /\ UNCHANGED data

AbortRaises(p) ==
  /\ Return(p, "abort")
  /\ ~Unmoved(p) \/ Job(p) \in blocked
  /\ UNCHANGED data

\* The members a process in the materialize callback has to write yet.
Missing(t) == WriteSet[t] \ applied[t]

\* The callback writes the members that are not in place yet.
Materialize(p, m) ==
  /\ pc(p) = "apply"
  /\ m \in Missing(Job(p))
  /\ current' = [current EXCEPT ![m] = @ + 1]
  /\ applied' = [applied EXCEPT ![Job(p)] = @ \cup {m}]
  /\ \/ UNCHANGED at /\ Released(m)
     \/ Abandoned(p, m)
  /\ UNCHANGED <<txn, coordinator>>

MaterializeEnds(p) ==
  /\ Return(p, "apply")
  /\ Missing(Job(p)) = {}
  /\ UNCHANGED data

\* The callback raises at a member it cannot write.
MaterializeRaises(p) ==
  /\ Return(p, "apply")
  /\ Missing(Job(p)) \cap blocked # {}
  /\ UNCHANGED data

\* abort() of a prepared transaction; of any other it changes nothing.
AbortCall(p, t) ==
  /\ pc(p) = "idle"
  /\ Status(t) = "prepared"
  /\ at' = [at EXCEPT ![p] = Reading(t, "abort", {})]
  /\ UNCHANGED data

\* recover(): a committed transaction is materialized; a prepared one is
\* revalidated and stays prepared when nothing is stale.
RecoverCommitted(p, t) ==
  /\ pc(p) = "idle"
  /\ Status(t) = "committed"
  /\ at' = [at EXCEPT ![p] = Reading(t, "apply", {})]
  /\ UNCHANGED data

\* Mutant: recovery rolls a prepared transaction forward.
RecoverForward(p, t) ==
  /\ pc(p) = "idle"
  /\ Status(t) = "prepared"
  /\ at' = [at EXCEPT ![p] = Reading(t, "apply", {})]
  /\ UNCHANGED data

RecoverPrepared(p, t) ==
  /\ pc(p) = "idle"
  /\ Status(t) = "prepared"
  /\ at' = [at EXCEPT ![p] = Reading(t, "revalidate", ReadSet[t])]
  /\ UNCHANGED data

RecoverEnds(p) ==
  /\ Return(p, "revalidate")
  /\ at[p].left = {}
  /\ UNCHANGED data

----------------------------------------------------------------------------
\* An operation outside the coordinator writes a member, or makes it
\* unwritable: killed while it holds its lock, or in the middle of what the
\* member's write relies on.
OutsideWrite(m) ==
  /\ m \in Outside \ blocked
  /\ current[m] < MaxOutside
  /\ current' = [current EXCEPT ![m] = @ + 1]
  /\ UNCHANGED <<txn, applied, coordinator, blocked, at>>

Obstruct(m) ==
  /\ m \in Outside
  /\ blocked' = blocked \cup {m}
  /\ UNCHANGED <<txn, current, applied, coordinator, at>>

\* Somebody removes the lock directory, or repairs what was missing.
Repair(r) ==
  /\ r \in blocked
  /\ blocked' = blocked \ {r}
  /\ UNCHANGED <<txn, current, applied, coordinator, at>>

\* A process is killed between writes, or under a lock before it writes.
Crash(p) ==
  /\ pc(p) # "dead"
  /\ Killed(p)
  /\ UNCHANGED data

CrashHolding(p, r) ==
  /\ \/ pc(p) \in {"create", "abort"} /\ r = Job(p)
     \/ pc(p) = "validate" /\ at[p].left = {} /\ r = Job(p)
     \/ pc(p) = "apply" /\ r \in Missing(Job(p))
  /\ Abandoned(p, r)
  /\ UNCHANGED <<txn, current, applied, coordinator>>

\* The steps of a call in progress.
Step(p) ==
  \/ LockCoordinator(p) \/ CoordinatorBusy(p) \/ ScanPasses(p) \/ ScanFails(p)
  \/ CreateRecord(p) \/ CreateRaises(p) \/ Resume(p) \/ StartFails(p)
  \/ LoadPrepared(p) \/ LoadCommitted(p) \/ LoadAborted(p)
  \/ \E m \in Member : ReadCurrent(p, m) \/ ReadStale(p, m) \/ Materialize(p, m)
  \/ CommitRecord(p) \/ AbortRecord(p) \/ CommitRaises(p) \/ AbortRaises(p)
  \/ MaterializeEnds(p) \/ MaterializeRaises(p) \/ RecoverEnds(p)

Next ==
  \/ \E p \in Proc :
       \/ \E t \in Txn : Begin(p, t) \/ AbortCall(p, t) \/ RecoverCommitted(p, t)
                       \/ RecoverPrepared(p, t)
       \/ Step(p)
       \/ Crash(p)
       \/ \E r \in Txn \cup Member : CrashHolding(p, r)
  \/ \E m \in Member : OutsideWrite(m) \/ Obstruct(m)
  \/ \E r \in Txn \cup Member : Repair(r)

Spec == Init /\ [][Next]_vars

\* Commands of the processes that are not killed run to their end, and
\* somebody issues the command for every transaction again and again.
FairSpec ==
  /\ Spec
  /\ \A p \in Proc \ Mortal :
       /\ WF_vars(Step(p))
       /\ \A t \in Txn : SF_vars(Begin(p, t))

----------------------------------------------------------------------------
(***************************************************************************)
(* Properties                                                               *)
(***************************************************************************)

TypeOK ==
  /\ txn \in [Txn -> TxnRecord]
  /\ current \in Observation
  /\ applied \in [Txn -> SUBSET Member]
  /\ coordinator \in BOOLEAN
  /\ blocked \subseteq Txn \cup Member
  /\ at \in [Proc -> Local]
  /\ \A p \in Proc : pc(p) \notin {"idle", "dead"} => Job(p) \in Txn

\* No two prepared transactions touch each other's records: what prepare()'s
\* scan under the coordinator lock is for.
NoConflictingPrepared ==
  \A t, u \in Txn :
    t # u /\ Status(t) = "prepared" /\ Status(u) = "prepared" => ~Conflict(t, u)

\* Nothing of a transaction is materialized unless it is committed, whoever
\* resumed or recovered it.
OnlyCommittedApplied ==
  \A t \in Txn : applied[t] # {} => Status(t) = "committed"

\* commit() and abort() decide a transaction once: competing processes never
\* turn one decision into another, and a decided transaction never returns.
DecidedOnce ==
  [][\A t \in Txn :
       Status(t) \in {"committed", "aborted"} => txn'[t] = txn[t]]_vars

\* A committed transaction is materialized completely in the end, whoever is
\* killed in between, when its command is issued again: nothing stands in its
\* way but a record it has still to write and cannot.
CommittedIsMaterialized ==
  \A t \in Txn :
    Status(t) = "committed" ~> (Missing(t) = {} \/ Missing(t) \cap blocked # {})

\* STATE_CONCURRENCY.md: the implementation must verify that every input of
\* the read set is still current before it exposes the successor.
CommitReadsCurrent ==
  [][\A t \in Txn :
       Status(t) # "committed" /\ Status(t)' = "committed" =>
         \A m \in ReadSet[t] : current[m] = txn[t].reads[m]]_vars

----------------------------------------------------------------------------
(***************************************************************************)
(* The inductive invariant                                                  *)
(***************************************************************************)

\* The coordinator lock is held by one live process, while it scans and
\* creates.
CoordinatorExclusion ==
  /\ \A p \in Proc : pc(p) \in {"scan", "create"} => coordinator
  /\ \A p, q \in Proc :
       p # q /\ pc(p) \in {"scan", "create"} => pc(q) \notin {"scan", "create"}

\* A scan that passed stays true until the record is created.
ScanStaysTrue ==
  \A p \in Proc : pc(p) = "create" => ~PreparedConflict(Job(p))

\* Only prepared records have revision 0; a decision is revision 1.
RevisionIsStatus ==
  \A t \in Txn : txn[t].revision = CASE Status(t) = "absent"   -> -1
                                      [] Status(t) = "prepared" -> 0
                                      [] OTHER                  -> 1

\* Who is about to decide a transaction read it when it was prepared, and
\* who materializes one knows it is committed.
DecidersReadPrepared ==
  /\ \A p \in Proc : pc(p) \in {"validate", "revalidate", "abort"} => at[p].held = 0
  /\ \A p \in Proc : pc(p) = "apply" => Status(Job(p)) = "committed"

IInv == TypeOK /\ CoordinatorExclusion /\ ScanStaysTrue /\ RevisionIsStatus
             /\ DecidersReadPrepared /\ NoConflictingPrepared /\ OnlyCommittedApplied
=============================================================================

---------------------------- MODULE RecordStore ----------------------------
(***************************************************************************)
(* repo_workflow/state_store.py: JsonRecordStore, the versioned JSON record *)
(* files every durable part of the engine is written through.  Processes    *)
(* share a directory.  create() and replace() take a lock directory with    *)
(* mkdir, look at the record, write a temporary file, rename it over the    *)
(* record and remove the lock directory; read() takes no lock.  A process   *)
(* may be killed between any two of these steps, and then its lock          *)
(* directory stays.                                                         *)
(***************************************************************************)
EXTENDS RecordTypes

CONSTANT
  Mortal        \* the processes that may be killed

ASSUME MortalAssumption == Mortal \subseteq Proc

VARIABLES
  disk,         \* disk[k]: the record file of key k, or Missing
  lock,         \* lock[k]: the lock directory of key k exists
  pc,           \* pc[p]: where process p is
  call,         \* call[p]: the arguments of p's current or last call
  temp,         \* temp[p]: the content of p's temporary file, or Missing
  result        \* result[p]: what p's last call returned or raised

svars == <<disk, lock, pc, call, temp, result>>

\* The steps inside the try block, whose finally clause removes the lock.
Locked == {"check", "stage", "publish", "release"}
Busy == Locked \cup {"acquire"}

StoreInit ==
  /\ disk = [k \in Key |-> Missing]
  /\ lock = [k \in Key |-> FALSE]
  /\ pc = [p \in Proc |-> "idle"]
  /\ call = [p \in Proc |-> NoRequest]
  /\ temp = [p \in Proc |-> Missing]
  /\ result = [p \in Proc |-> Unanswered]

Goto(p, from, to) == pc[p] = from /\ pc' = [pc EXCEPT ![p] = to]

\* A client reads the record without a lock and calls replace() with the
\* revision it saw, or create() when there was no record.
Call(p, k, v) ==
  /\ Goto(p, "idle", "acquire")
  /\ disk[k].revision < MaxRevision
  /\ call' = [call EXCEPT ![p] = [key |-> k, value |-> v,
                                  expected |-> disk[k].revision]]
  /\ result' = [result EXCEPT ![p] = Unanswered]
  /\ UNCHANGED <<disk, lock, temp>>

\* Mutant: mkdir(exist_ok=True).
AcquireLockExistOk(p) ==
  /\ Goto(p, "acquire", "check")
  /\ lock' = [lock EXCEPT ![call[p].key] = TRUE]
  /\ UNCHANGED <<disk, call, temp, result>>

\* mkdir of the lock directory succeeds.
AcquireLock(p) ==
  /\ Goto(p, "acquire", "check")
  /\ ~lock[call[p].key]
  /\ lock' = [lock EXCEPT ![call[p].key] = TRUE]
  /\ UNCHANGED <<disk, call, temp, result>>

\* Mutants: at the deadline the lock is taken to be stale and ignored; or
\* there is no deadline.
LockBusyIgnored(p) ==
  /\ Goto(p, "acquire", "check")
  /\ lock[call[p].key]
  /\ UNCHANGED <<disk, lock, call, temp, result>>

LockBusyWaits(p) ==
  /\ pc[p] = "acquire"
  /\ lock[call[p].key]
  /\ UNCHANGED svars

\* mkdir has failed until the deadline: the error leaves before the try
\* block, so no lock is removed.
LockBusy(p) ==
  /\ Goto(p, "acquire", "idle")
  /\ lock[call[p].key]
  /\ result' = [result EXCEPT ![p].outcome = "failed"]
  /\ UNCHANGED <<disk, lock, call, temp>>

\* Mutant: replace() only asks whether a record is there.
ExpectedPresence(p) ==
  (disk[call[p].key] = Missing) <=> (call[p].expected = -1)

\* create(): the path must not exist; replace(): the revision must be the
\* expected one.
Expected(p) == disk[call[p].key].revision = call[p].expected

Admit(p) ==
  /\ Goto(p, "check", "stage")
  /\ Expected(p)
  /\ UNCHANGED <<disk, lock, call, temp, result>>

Refuse(p) ==
  /\ Goto(p, "check", "release")
  /\ ~Expected(p)
  /\ result' = [result EXCEPT ![p].outcome = "conflict"]
  /\ UNCHANGED <<disk, lock, call, temp>>

\* _write_json_atomic: the record is written to a temporary file and synced.
Stage(p) ==
  /\ Goto(p, "stage", "publish")
  /\ temp' = [temp EXCEPT ![p] = Successor(p, call[p])]
  /\ UNCHANGED <<disk, lock, call, result>>

\* os.replace renames the temporary file over the record.
Publish(p) ==
  /\ Goto(p, "publish", "release")
  /\ disk' = [disk EXCEPT ![call[p].key] = temp[p]]
  /\ temp' = [temp EXCEPT ![p] = Missing]
  /\ result' = [result EXCEPT ![p] = [outcome |-> "written", record |-> temp[p]]]
  /\ UNCHANGED <<lock, call>>

\* Mutants: the error is swallowed and the record returned; or the lock is
\* removed after the write instead of in a finally clause.
WriteFailsSilently(p) ==
  /\ Goto(p, "publish", "release")
  /\ temp' = [temp EXCEPT ![p] = Missing]
  /\ result' = [result EXCEPT ![p] = [outcome |-> "written", record |-> temp[p]]]
  /\ UNCHANGED <<disk, lock, call>>

WriteFailsLocked(p) ==
  /\ \/ Goto(p, "stage", "idle")
     \/ Goto(p, "publish", "idle")
  /\ temp' = [temp EXCEPT ![p] = Missing]
  /\ result' = [result EXCEPT ![p].outcome = "failed"]
  /\ UNCHANGED <<disk, lock, call>>

\* Writing or renaming raises: the temporary file is unlinked.
WriteFails(p) ==
  /\ \/ Goto(p, "stage", "release")
     \/ Goto(p, "publish", "release")
  /\ temp' = [temp EXCEPT ![p] = Missing]
  /\ result' = [result EXCEPT ![p].outcome = "failed"]
  /\ UNCHANGED <<disk, lock, call>>

\* The finally clause; a lock directory that is gone is not an error.
ReleaseLock(p) ==
  /\ Goto(p, "release", "idle")
  /\ lock' = [lock EXCEPT ![call[p].key] = FALSE]
  /\ UNCHANGED <<disk, call, temp, result>>

\* The process is killed: no finally clause runs.
Crash(p) ==
  /\ p \in Mortal
  /\ pc[p] # "dead"
  /\ pc' = [pc EXCEPT ![p] = "dead"]
  /\ UNCHANGED <<disk, lock, call, temp, result>>

\* The steps of a call in progress.
Step(p) ==
  \/ AcquireLock(p) \/ LockBusy(p) \/ Admit(p) \/ Refuse(p) \/ Stage(p)
  \/ Publish(p) \/ WriteFails(p) \/ ReleaseLock(p)

StoreNext ==
  \E p \in Proc :
    \/ \E k \in Key, v \in Value : Call(p, k, v)
    \/ Step(p)
    \/ Crash(p)

----------------------------------------------------------------------------

\* Types of the variables.
TypeOK ==
  /\ disk \in [Key -> Record]
  /\ lock \in [Key -> BOOLEAN]
  /\ pc \in [Proc -> Busy \cup {"idle", "dead"}]
  /\ call \in [Proc -> Request]
  /\ temp \in [Proc -> Record]
  /\ result \in [Proc -> [outcome : {"none", "written", "conflict", "failed"},
                           record : Record]]
  /\ \A p \in Proc : pc[p] \in Busy => call[p].key \in Key

Spec == StoreInit /\ [][StoreNext]_svars

\* The commands of the tool run to their end when nothing kills them.
FairSpec == Spec /\ \A p \in Proc : WF_svars(Step(p))

----------------------------------------------------------------------------
(***************************************************************************)
(* The inductive invariant.                                                 *)
(***************************************************************************)

\* At most one live process is between mkdir and rmdir of a key's lock
\* directory (_acquire_lock, _release_lock), and the directory is there.
LockExclusion ==
  /\ \A p \in Proc : pc[p] \in Locked => lock[call[p].key]
  /\ \A p, q \in Proc :
       p # q /\ pc[p] \in Locked /\ pc[q] \in Locked => call[p].key # call[q].key

\* A writer past the revision check still faces the record it checked when
\* it renames its file over it: the check under the lock is not stale.
AdmittedIsCurrent ==
  \A p \in Proc : pc[p] \in {"stage", "publish"} => Expected(p)

\* What is about to be renamed is the successor of the checked record.
StagedIsSuccessor ==
  \A p \in Proc : pc[p] = "publish" => temp[p] = Successor(p, call[p])

\* A call that has not been answered has no outcome.
UnansweredWhileBusy ==
  \A p \in Proc :
    pc[p] \in {"acquire", "check", "stage", "publish"} => result[p] = Unanswered

\* A record some call returned as written is not newer than the one in place.
WrittenNotNewer ==
  \A p \in Proc :
    result[p].outcome = "written" =>
      /\ call[p].key \in Key
      /\ result[p].record.revision <= disk[call[p].key].revision

IInv == TypeOK /\ LockExclusion /\ AdmittedIsCurrent /\ StagedIsSuccessor
             /\ UnansweredWhileBusy /\ WrittenNotNewer

----------------------------------------------------------------------------
(***************************************************************************)
(* Properties.                                                              *)
(***************************************************************************)

\* The rename in _write_json_atomic advances a record by exactly one
\* revision, names the revision it replaced as its predecessor, and never
\* takes a record away, whatever the interleaving and whoever is killed.
RevisionChain ==
  [][\A k \in Key :
       disk'[k] # disk[k] =>
         /\ disk'[k].revision = disk[k].revision + 1
         /\ disk'[k].previous = disk[k].revision]_svars

\* Of the calls create() and replace() that returned, no two were told they
\* made the same revision of the same record.
OneWinnerPerRevision ==
  \A p, q \in Proc :
    p # q /\ result[p].outcome = "written" /\ result[q].outcome = "written"
      /\ call[p].key = call[q].key
      => result[p].record.revision # result[q].record.revision

\* A process that is not killed removes its lock directory again, whatever
\* fails while it holds it.
LockReleased ==
  \A p \in Proc \ Mortal, k \in Key : pc[p] \in Locked /\ call[p].key = k ~> ~lock[k]

\* A live process's call always returns: a lock that stays held ends in
\* "record lock is busy" and never in waiting forever.
CallReturns == \A p \in Proc : pc[p] \in Busy ~> pc[p] \in {"idle", "dead"}

\* The store implements the compare-and-swap register: the rename is the
\* moment at which a request takes effect.
Phase(p) == CASE pc[p] \in {"acquire", "check", "stage", "publish"} -> "called"
              [] pc[p] = "dead" -> "dead"
              [] OTHER -> "idle"

Cas == INSTANCE CasRegister WITH
         register <- disk, phase <- [p \in Proc |-> Phase(p)],
         request <- call, reply <- result

ImplementsCasRegister == Cas!CasSpec
=============================================================================

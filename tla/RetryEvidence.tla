--------------------------- MODULE RetryEvidence ---------------------------
(***************************************************************************)
(* retry_evidence.py: verifying a candidate a second time needs a clean     *)
(* worktree, but the evidence log of the first time lies in it.  The log    *)
(* is hidden behind what HEAD has of it while the verification runs, and    *)
(* put back afterwards.  A journal in the git directory holds the original  *)
(* meanwhile, so that the next call can put it back after a kill.           *)
(***************************************************************************)
CONSTANTS
  Rec,            \* observations a test run appends to the log
  Proc,           \* commands that verify again (verify_consumer_retry)
  Mortal,         \* those that may be killed
  None,           \* nobody holds the lock
  RecordAnytime   \* are observations appended while a verification runs?

RetryAssumption ==
  Mortal \subseteq Proc /\ None \notin Proc /\ RecordAnytime \in BOOLEAN

VARIABLES
  log,       \* the evidence log in the worktree
  head,      \* what HEAD has of it
  dirty,     \* does the worktree hold other changes (or conflict copies)?
  journal,   \* the recovery journal: empty, or the original and its stand-in
  lock,      \* the process that holds the SQLite lock
  at,        \* per process: the step, what it remembers
  recorded   \* history: every observation ever appended

vars == <<log, head, dirty, journal, lock, at, recorded>>

File(records) == [kind |-> "file", holds |-> records]
Absent == [kind |-> "absent", holds |-> {}]
\* Bytes or a mode that are no evidence; a link or directory in the log's
\* place; a parent directory that has become a link.
Foreign(kind) == [kind |-> kind, holds |-> {}]
Kinds == {"file", "absent", "altered", "substituted", "linked"}
Log == [kind : Kinds, holds : SUBSET Rec]

NoJournal == [present |-> FALSE, original |-> Absent, expected |-> Absent]
Journal(original, expected) ==
  [present |-> TRUE, original |-> original, expected |-> expected]

\* failed: an error will be raised; touched: history, the verification left
\* the log or the worktree changed.
Idle == [pc |-> "idle", original |-> Absent, expected |-> Absent,
         failed |-> FALSE, touched |-> FALSE]

pc(p) == at[p].pc
Go(p, to) == at' = [at EXCEPT ![p].pc = to]
Fail(p, to) == at' = [at EXCEPT ![p].pc = to, ![p].failed = TRUE]

Init ==
  /\ log \in {Absent, Foreign("altered")} \cup {File(r) : r \in SUBSET Rec \ {{}}}
  /\ head \in {Absent, Foreign("altered")} \cup {File(r) : r \in SUBSET log.holds \ {{}}}
  /\ recorded = log.holds
  /\ dirty \in BOOLEAN
  /\ journal = NoJournal /\ lock = None /\ at = [p \in Proc |-> Idle]

-----------------------------------------------------------------------------
\* isolate_retry_evidence and _isolation_lock: one context at a time; who
\* finds the lock taken raises and has changed nothing.
EnterContext(p) ==
  /\ pc(p) = "idle" /\ lock = None
  /\ lock' = p /\ at' = [at EXCEPT ![p] = [Idle EXCEPT !.pc = "recover"]]
  /\ UNCHANGED <<log, head, dirty, journal, recorded>>

LeaveContext(p) ==
  /\ pc(p) = "leave"
  /\ lock' = None /\ at' = [at EXCEPT ![p] = Idle]
  /\ UNCHANGED <<log, head, dirty, journal, recorded>>

-----------------------------------------------------------------------------
\* _recover_journal, what a killed process has left.

\* Mutant: whatever lies there is taken for what the killed process has put.
StillHiddenAssumed == TRUE

\* The log is as the killed process has hidden it.
StillHidden == log = journal.expected

NothingToRecover(p) ==
  /\ pc(p) = "recover" /\ ~journal.present
  /\ Go(p, "look") /\ UNCHANGED <<log, head, dirty, journal, lock, recorded>>

RecoverRestored(p) ==
  /\ pc(p) = "recover" /\ journal.present /\ log = journal.original
  /\ journal' = NoJournal /\ Go(p, "look")
  /\ UNCHANGED <<log, head, dirty, lock, recorded>>

\* Hidden: the original is written beside the log, renamed over it, and only
\* then the journal is removed.
RecoverHidden(p) ==
  /\ pc(p) = "recover" /\ journal.present /\ log # journal.original /\ StillHidden
  /\ Go(p, "recovering") /\ UNCHANGED <<log, head, dirty, journal, lock, recorded>>

RecoverReplace(p) ==
  /\ pc(p) = "recovering" /\ log' = journal.original
  /\ Go(p, "recovered") /\ UNCHANGED <<head, dirty, journal, lock, recorded>>

RecoverFails(p) ==
  /\ pc(p) = "recovering"
  /\ Fail(p, "leave") /\ UNCHANGED <<log, head, dirty, journal, lock, recorded>>

RecoverUnlink(p) ==
  /\ pc(p) = "recovered" /\ journal' = NoJournal
  /\ Go(p, "look") /\ UNCHANGED <<log, head, dirty, lock, recorded>>

\* Neither: somebody has changed the log; the journal stays, the call raises.
RecoverConflict(p) ==
  /\ pc(p) = "recover" /\ journal.present /\ log # journal.original /\ ~StillHidden
  /\ Fail(p, "leave") /\ UNCHANGED <<log, head, dirty, journal, lock, recorded>>

-----------------------------------------------------------------------------
\* _isolate_retry_evidence_locked, up to the yield.

\* Without a log nothing needs hiding, and nothing is checked afterwards.
LookAbsent(p) ==
  /\ pc(p) = "look" /\ log = Absent
  /\ Go(p, "operate") /\ UNCHANGED <<log, head, dirty, journal, lock, recorded>>

LookRefuses(p) ==
  /\ pc(p) = "look" /\ log.kind \notin {"absent", "file"}
  /\ Fail(p, "drop") /\ UNCHANGED <<log, head, dirty, journal, lock, recorded>>

\* The log is read, then git is asked for other changes and for HEAD's log,
\* then the log must still be what was read.
ReadLog(p) ==
  /\ pc(p) = "look" /\ log.kind = "file"
  /\ at' = [at EXCEPT ![p].pc = "inspect", ![p].original = log]
  /\ UNCHANGED <<log, head, dirty, journal, lock, recorded>>

InspectPasses(p) ==
  /\ pc(p) = "inspect" /\ ~dirty /\ head.kind \in {"absent", "file"}
  /\ log = at[p].original
  /\ at' = [at EXCEPT ![p].pc = "journal", ![p].expected = head]
  /\ UNCHANGED <<log, head, dirty, journal, lock, recorded>>

InspectRefuses(p) ==
  /\ pc(p) = "inspect"
  /\ dirty \/ head.kind \notin {"absent", "file"} \/ log # at[p].original
  /\ Fail(p, "drop") /\ UNCHANGED <<log, head, dirty, journal, lock, recorded>>

WriteJournal(p) ==
  /\ pc(p) = "journal" /\ ~journal.present
  /\ journal' = Journal(at[p].original, at[p].expected)
  /\ Go(p, "hide") /\ UNCHANGED <<log, head, dirty, lock, recorded>>

WriteJournalFails(p) ==
  /\ pc(p) = "journal"
  /\ Fail(p, "drop") /\ UNCHANGED <<log, head, dirty, journal, lock, recorded>>

\* unlink, or _replace_bytes with the committed bytes; an error leads to the
\* restoration, except that of parents found moved before.
Hide(p) ==
  /\ pc(p) = "hide" /\ log' = at[p].expected
  /\ Go(p, "preflight") /\ UNCHANGED <<head, dirty, journal, lock, recorded>>

HideFails(p) ==
  /\ pc(p) = "hide"
  /\ Fail(p, "drop") \/ Fail(p, "restore")
  /\ UNCHANGED <<log, head, dirty, journal, lock, recorded>>

Clean == ~dirty /\ log = head

PreflightPasses(p) ==
  /\ pc(p) = "preflight" /\ Clean
  /\ Go(p, "operate") /\ UNCHANGED <<log, head, dirty, journal, lock, recorded>>

PreflightRefuses(p) ==
  /\ pc(p) = "preflight" /\ ~Clean
  /\ Fail(p, "restore") /\ UNCHANGED <<log, head, dirty, journal, lock, recorded>>

-----------------------------------------------------------------------------
\* The verification: verify_consumer_retry runs verify_local, whose test
\* commands may write what they like, over the stand-in too.

OperateAlters(p) ==
  /\ pc(p) = "operate" /\ log.holds \subseteq at[p].expected.holds
  /\ log' \in {Absent} \cup {Foreign(k) : k \in {"altered", "substituted", "linked"}}
  /\ UNCHANGED <<head, dirty, journal, lock, at, recorded>>

OperateDirties(p) ==
  /\ pc(p) = "operate" /\ dirty' = TRUE
  /\ UNCHANGED <<log, head, journal, lock, at, recorded>>

\* Only a log that was hidden is restored and compared.
Hidden(p) == at[p].original.kind = "file"

OperateEnds(p) ==
  /\ pc(p) = "operate"
  /\ at' = [at EXCEPT ![p].pc = IF Hidden(p) THEN "restore" ELSE "drop",
                     ![p].touched = log # at[p].expected \/ dirty]
  /\ UNCHANGED <<log, head, dirty, journal, lock, recorded>>

\* It raises: verify_local has reset and cleaned the worktree before.
OperateRaises(p) ==
  /\ pc(p) = "operate" /\ log' = head /\ dirty' = FALSE
  /\ Fail(p, IF Hidden(p) THEN "restore" ELSE "drop")
  /\ UNCHANGED <<head, journal, lock, recorded>>

-----------------------------------------------------------------------------
\* The restoration.

\* _recover_parents and the quarantine: what was put in the place of the log
\* or of a parent is moved aside, into the worktree.
SetAside(p) ==
  /\ pc(p) = "restore" /\ log.kind \in {"substituted", "linked"}
  /\ log' = Absent /\ dirty' = TRUE
  /\ Fail(p, "compare") /\ UNCHANGED <<head, journal, lock, recorded>>

NothingAside(p) ==
  /\ pc(p) = "restore" /\ log.kind \notin {"substituted", "linked"}
  /\ Go(p, "compare") /\ UNCHANGED <<log, head, dirty, journal, lock, recorded>>

\* Mutant: only the log is compared.
UnexpectedLog(p) == log # at[p].expected

\* The call fails when the log is not the stand-in or the worktree not clean;
\* a changed log is kept as a copy beside it.
Unexpected(p) == log # at[p].expected \/ dirty

CompareUntouched(p) ==
  /\ pc(p) = "compare" /\ ~Unexpected(p)
  /\ Go(p, "replace") /\ UNCHANGED <<log, head, dirty, journal, lock, recorded>>

CompareTouched(p) ==
  /\ pc(p) = "compare" /\ Unexpected(p)
  /\ dirty' = (dirty \/ log \notin {at[p].expected, Absent})
  /\ Fail(p, "replace") /\ UNCHANGED <<log, head, journal, lock, recorded>>

Replace(p) ==
  /\ pc(p) = "replace" /\ log' = at[p].original
  /\ Go(p, "drop") /\ UNCHANGED <<head, dirty, journal, lock, recorded>>

ReplaceFails(p) ==
  /\ pc(p) = "replace"
  /\ Fail(p, "drop") /\ UNCHANGED <<log, head, dirty, journal, lock, recorded>>

\* _remove_recovered_journal_if_restored: only a log that is the original
\* again makes the journal superfluous.
Superfluous == journal.present /\ log = journal.original

DropJournal(p) ==
  /\ pc(p) = "drop"
  /\ journal' = IF Superfluous THEN NoJournal ELSE journal
  /\ Go(p, "leave") /\ UNCHANGED <<log, head, dirty, lock, recorded>>

-----------------------------------------------------------------------------
\* Killed: SQLite lets the lock go; a temporary file of _replace_bytes stays
\* in the worktree.
Crash(p) ==
  /\ p \in Mortal /\ pc(p) # "idle"
  /\ lock' = None /\ at' = [at EXCEPT ![p] = Idle]
  /\ dirty' = (dirty \/ pc(p) \in {"recovering", "hide", "replace"})
  /\ UNCHANGED <<log, head, journal, recorded>>

\* test_cli.py appends an observation of another test run to the log.
RecordObservation(r) ==
  /\ RecordAnytime \/ lock = None
  /\ r \notin recorded /\ log.kind \in {"absent", "file"}
  /\ log' = File(log.holds \cup {r}) /\ recorded' = recorded \cup {r}
  /\ UNCHANGED <<head, dirty, journal, lock, at>>

\* Somebody commits or removes the conflict copies and other changes.
TidyUp ==
  /\ lock = None /\ dirty /\ dirty' = FALSE
  /\ UNCHANGED <<log, head, journal, lock, at, recorded>>

Recover(p) ==
  \/ NothingToRecover(p) \/ RecoverRestored(p) \/ RecoverHidden(p)
  \/ RecoverReplace(p) \/ RecoverFails(p) \/ RecoverUnlink(p) \/ RecoverConflict(p)

Isolate(p) ==
  \/ LookAbsent(p) \/ LookRefuses(p) \/ ReadLog(p) \/ InspectPasses(p) \/ InspectRefuses(p)
  \/ WriteJournal(p) \/ WriteJournalFails(p) \/ Hide(p) \/ HideFails(p)
  \/ PreflightPasses(p) \/ PreflightRefuses(p)

Operate(p) == OperateAlters(p) \/ OperateDirties(p) \/ OperateEnds(p) \/ OperateRaises(p)

Restore(p) ==
  \/ SetAside(p) \/ NothingAside(p) \/ CompareUntouched(p) \/ CompareTouched(p)
  \/ Replace(p) \/ ReplaceFails(p) \/ DropJournal(p)

Step(p) == EnterContext(p) \/ Recover(p) \/ Isolate(p) \/ Operate(p) \/ Restore(p) \/ LeaveContext(p)

Next ==
  \/ \E p \in Proc : Step(p) \/ Crash(p)
  \/ \E r \in Rec : RecordObservation(r)
  \/ TidyUp

Spec == Init /\ [][Next]_vars

-----------------------------------------------------------------------------
PCs == {"idle", "recover", "recovering", "recovered", "look", "inspect", "journal", "hide",
        "preflight", "operate", "restore", "compare", "replace", "drop", "leave"}

Local == [pc : PCs, original : Log, expected : Log, failed : BOOLEAN, touched : BOOLEAN]

TypeOK ==
  /\ log \in Log /\ head \in Log /\ dirty \in BOOLEAN /\ lock \in Proc \cup {None}
  /\ recorded \subseteq Rec
  /\ journal \in [present : BOOLEAN, original : Log, expected : Log]
  /\ at \in [Proc -> Local]

\* No observation is lost: whatever was appended to the log is in the log or
\* in the journal, whoever is killed and whatever a verification writes.
EvidenceKept == recorded \subseteq log.holds \cup journal.original.holds

\* A verification that hid the log and reports success has changed neither
\* the stand-in nor the worktree.
SuccessMeansUntouched ==
  \A p \in Proc : pc(p) = "leave" /\ ~at[p].failed /\ Hidden(p) => ~at[p].touched

-----------------------------------------------------------------------------
(***************************************************************************)
(* The inductive invariant, for observations that are recorded between      *)
(* verifications (RecordAnytime = FALSE).                                   *)
(***************************************************************************)

\* Who is in a context holds the lock, so there is one.
ContextHeld == \A p \in Proc : pc(p) # "idle" => lock = p

\* What stands in for the log holds no more than was recorded, and while it
\* stands in the journal's original has everything.
JournalCovers ==
  /\ ~journal.present => journal = NoJournal
  /\ head.holds \subseteq recorded /\ journal.expected.holds \subseteq recorded
  /\ journal.present /\ StillHidden => recorded \subseteq journal.original.holds

Protected == {"hide", "preflight", "operate", "restore", "compare", "replace"}

\* What a process knows at its steps: nothing is in the journal before it
\* writes it; from then on the journal holds all it has read.
Knows(p) ==
  /\ pc(p) \in {"look", "inspect", "journal"} => ~journal.present
  /\ pc(p) \in {"recover", "recovering", "recovered", "look"} => ~Hidden(p)
  /\ pc(p) = "journal" => at[p].expected = head
  /\ pc(p) = "recovering" => journal.present /\ StillHidden
  /\ pc(p) = "recovered" => log = journal.original
  /\ pc(p) \in {"journal", "hide"} => log = at[p].original
  /\ pc(p) \in (Protected \cup {"inspect", "journal"}) \ {"operate"} => Hidden(p)
  /\ pc(p) \in Protected /\ Hidden(p) =>
       /\ journal = Journal(at[p].original, at[p].expected)
       /\ recorded \subseteq at[p].original.holds
  /\ pc(p) = "operate" /\ ~Hidden(p) => recorded = {}

\* The comparison still sees what the verification has left.
Sees(p) ==
  /\ pc(p) \in {"restore", "compare"} /\ ~at[p].failed =>
       at[p].touched = Unexpected(p)
  /\ pc(p) \in {"replace", "drop", "leave"} /\ ~at[p].failed /\ Hidden(p) =>
       ~at[p].touched

IInv ==
  /\ TypeOK /\ ContextHeld /\ JournalCovers /\ EvidenceKept
  /\ \A p \in Proc : Knows(p) /\ Sees(p)
=============================================================================

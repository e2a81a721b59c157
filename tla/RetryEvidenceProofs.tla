------------------------ MODULE RetryEvidenceProofs ------------------------
(***************************************************************************)
(* Proofs about RetryEvidence: no observation is lost, and success means    *)
(* that the verification left what it found.                                *)
(***************************************************************************)
EXTENDS RetryEvidence, TLAPS

\* The values a log, a journal and a new process can have.
LEMMA FileTypes ==
  /\ Absent \in Log /\ \A k \in Kinds : Foreign(k) \in Log
  /\ \A r \in SUBSET Rec : File(r) \in Log
  /\ NoJournal \in [present : BOOLEAN, original : Log, expected : Log]
  /\ \A a, b \in Log : Journal(a, b) \in [present : BOOLEAN, original : Log, expected : Log]
  /\ Idle \in Local
BY DEF Absent, Log, Kinds, Foreign, File, NoJournal, Journal, Idle, Local, PCs

\* The initial states satisfy the invariant: nobody is in a context, and all
\* that was recorded is in the log.
LEMMA InitIInv == Init => IInv
<1> SUFFICES ASSUME Init PROVE IInv
  OBVIOUS
<1>1. log \in Log /\ head \in Log /\ head.holds \subseteq log.holds
  BY DEF Init, Log, Kinds, Absent, Foreign, File
<1>2. TypeOK
  BY <1>1, FileTypes DEF TypeOK, Init, Local, Log
<1>3. \A p \in Proc : at[p] = Idle
  BY DEF Init
<1>4. ContextHeld /\ JournalCovers /\ EvidenceKept
  BY <1>1, <1>3 DEF Init, ContextHeld, JournalCovers, EvidenceKept, NoJournal, Absent, pc, Idle
<1>5. \A p \in Proc : Knows(p) /\ Sees(p)
  BY <1>3 DEF Knows, Sees, pc, Idle, Protected
<1> QED
  BY <1>2, <1>4, <1>5 DEF IInv

\* Where a step may leave the process that takes it.
LEMMA MoveType ==
  ASSUME TypeOK, NEW p \in Proc, NEW to \in PCs
  PROVE  /\ [at EXCEPT ![p].pc = to] \in [Proc -> Local]
         /\ [at EXCEPT ![p].pc = to, ![p].failed = TRUE] \in [Proc -> Local]
         /\ \A b \in BOOLEAN : [at EXCEPT ![p].pc = to, ![p].touched = b] \in [Proc -> Local]
         /\ \A f \in Log : /\ [at EXCEPT ![p].pc = to, ![p].original = f] \in [Proc -> Local]
                           /\ [at EXCEPT ![p].pc = to, ![p].expected = f] \in [Proc -> Local]
         /\ [at EXCEPT ![p] = Idle] \in [Proc -> Local]
         /\ [at EXCEPT ![p] = [Idle EXCEPT !.pc = to]] \in [Proc -> Local]
<1> USE DEF TypeOK, Local
<1>1. at[p] \in Local /\ at \in [Proc -> Local]
  OBVIOUS
<1>2. [at EXCEPT ![p].pc = to] \in [Proc -> Local]
  BY <1>1
<1>3. [at EXCEPT ![p].pc = to, ![p].failed = TRUE] \in [Proc -> Local]
  BY <1>1
<1>4. \A b \in BOOLEAN : [at EXCEPT ![p].pc = to, ![p].touched = b] \in [Proc -> Local]
  BY <1>1
<1>5. \A f \in Log : [at EXCEPT ![p].pc = to, ![p].original = f] \in [Proc -> Local]
  BY <1>1
<1>6. \A f \in Log : [at EXCEPT ![p].pc = to, ![p].expected = f] \in [Proc -> Local]
  BY <1>1
<1>7. [at EXCEPT ![p] = Idle] \in [Proc -> Local]
  BY <1>1, FileTypes
<1>8. [at EXCEPT ![p] = [Idle EXCEPT !.pc = to]] \in [Proc -> Local]
  BY <1>1, FileTypes
<1> QED
  BY <1>2, <1>3, <1>4, <1>5, <1>6, <1>7, <1>8

LEMMA TypeStep ==
  ASSUME RetryAssumption, TypeOK, [Next]_vars
  PROVE  TypeOK'
<1>1. ASSUME NEW p \in Proc, Step(p) \/ Crash(p)
      PROVE  at' \in [Proc -> Local]
  <2>1. ASSUME NEW to \in PCs, Go(p, to) \/ Fail(p, to)
        PROVE  at' \in [Proc -> Local]
    <3>1. /\ [at EXCEPT ![p].pc = to] \in [Proc -> Local]
          /\ [at EXCEPT ![p].pc = to, ![p].failed = TRUE] \in [Proc -> Local]
      BY MoveType
    <3> QED
      BY <2>1, <3>1 DEF Go, Fail
  <2>2. CASE EnterContext(p) \/ LeaveContext(p) \/ Crash(p)
    <3>1. "recover" \in PCs
      BY DEF PCs
    <3>2. /\ [at EXCEPT ![p] = Idle] \in [Proc -> Local]
          /\ [at EXCEPT ![p] = [Idle EXCEPT !.pc = "recover"]] \in [Proc -> Local]
      BY <3>1, MoveType
    <3> QED
      BY <2>2, <3>2 DEF EnterContext, LeaveContext, Crash
  <2>3. CASE Recover(p)
    BY <2>1, <2>3 DEF PCs, Recover, NothingToRecover, RecoverRestored, RecoverHidden,
       RecoverReplace, RecoverFails, RecoverUnlink, RecoverConflict
  <2>4. CASE ReadLog(p)
    <3>1. "inspect" \in PCs
      BY DEF PCs
    <3> QED
      BY <2>4, <3>1, MoveType DEF ReadLog, TypeOK
  <2>5. CASE InspectPasses(p)
    <3>1. "journal" \in PCs
      BY DEF PCs
    <3> QED
      BY <2>5, <3>1, MoveType DEF InspectPasses, TypeOK
  <2>6. CASE Isolate(p) /\ ~ReadLog(p) /\ ~InspectPasses(p)
    BY <2>1, <2>6 DEF PCs, Isolate, LookAbsent, LookRefuses, InspectRefuses, WriteJournal,
       WriteJournalFails, Hide, HideFails, PreflightPasses, PreflightRefuses
  <2>7. CASE OperateEnds(p)
    <3>1. "restore" \in PCs /\ "drop" \in PCs
      BY DEF PCs
    <3>2. (log # at[p].expected \/ dirty) \in BOOLEAN
      BY DEF TypeOK
    <3>3. \A b \in BOOLEAN : /\ [at EXCEPT ![p].pc = "restore", ![p].touched = b] \in [Proc -> Local]
                            /\ [at EXCEPT ![p].pc = "drop", ![p].touched = b] \in [Proc -> Local]
      BY <3>1, MoveType
    <3> QED
      BY <2>7, <3>2, <3>3 DEF OperateEnds
  <2>8. CASE OperateRaises(p)
    BY <2>1, <2>8 DEF PCs, OperateRaises
  <2>9. CASE OperateAlters(p) \/ OperateDirties(p)
    BY <2>9 DEF OperateAlters, OperateDirties, TypeOK
  <2>10. CASE Restore(p)
    BY <2>1, <2>10 DEF PCs, Restore, SetAside, NothingAside, CompareUntouched, CompareTouched,
       Replace, ReplaceFails, DropJournal
  <2> QED
    BY <1>1, <2>2, <2>3, <2>4, <2>5, <2>6, <2>7, <2>8, <2>9, <2>10 DEF Step, Operate
<1>2. ASSUME NEW p \in Proc, Step(p) \/ Crash(p)
      PROVE  /\ log' \in Log /\ head' \in Log /\ dirty' \in BOOLEAN /\ lock' \in Proc \cup {None}
             /\ recorded' \subseteq Rec
             /\ journal' \in [present : BOOLEAN, original : Log, expected : Log]
  <2>1. /\ at[p] \in Local
        /\ log \in Log /\ head \in Log /\ dirty \in BOOLEAN /\ lock \in Proc \cup {None}
        /\ recorded \subseteq Rec
        /\ journal \in [present : BOOLEAN, original : Log, expected : Log]
    BY DEF TypeOK
  <2>2. CASE EnterContext(p) \/ LeaveContext(p) \/ Crash(p)
    BY <2>1, <2>2 DEF EnterContext, LeaveContext, Crash
  <2>3. CASE Recover(p)
    BY <2>1, <2>3, FileTypes DEF Recover, NothingToRecover, RecoverRestored, RecoverHidden,
       RecoverReplace, RecoverFails, RecoverUnlink, RecoverConflict
  <2>4. CASE Isolate(p)
    BY <2>1, <2>4, FileTypes DEF Local, Isolate, LookAbsent, LookRefuses, ReadLog, InspectPasses,
       InspectRefuses, WriteJournal, WriteJournalFails, Hide, HideFails, PreflightPasses,
       PreflightRefuses
  <2>5. CASE Operate(p)
    BY <2>1, <2>5, FileTypes DEF Kinds, Operate, OperateAlters, OperateDirties, OperateEnds,
       OperateRaises
  <2>6. CASE Restore(p)
    BY <2>1, <2>6, FileTypes DEF Local, Restore, SetAside, NothingAside, CompareUntouched,
       CompareTouched, Replace, ReplaceFails, DropJournal
  <2> QED
    BY <1>2, <2>2, <2>3, <2>4, <2>5, <2>6 DEF Step
<1>3. ASSUME NEW r \in Rec, RecordObservation(r)
      PROVE  TypeOK'
  BY <1>3, FileTypes DEF RecordObservation, TypeOK, Log
<1>4. CASE TidyUp \/ UNCHANGED vars
  BY <1>4 DEF TidyUp, vars, TypeOK
<1> QED
  BY <1>1, <1>2, <1>3, <1>4 DEF Next, TypeOK

\* Who takes a step is alone in a context, so the others know nothing that it
\* could disturb.
Held(p) == pc(p) # "idle" => lock = p

LEMMA OwnStep ==
  ASSUME IInv, TypeOK', NEW p \in Proc, pc(p) # "idle" \/ lock = None,
         \A q \in Proc \ {p} : at'[q] = at[q],
         JournalCovers', EvidenceKept', Knows(p)', Sees(p)', Held(p)', RetryAssumption
  PROVE  IInv'
<1>1. \A q \in Proc \ {p} : pc(q) = "idle" /\ pc(q)' = "idle"
  BY DEF IInv, ContextHeld, RetryAssumption, pc
<1>2. \A q \in Proc \ {p} : Knows(q)' /\ Sees(q)'
  BY <1>1 DEF Knows, Sees, Protected
<1>3. ContextHeld'
  BY <1>1 DEF ContextHeld, Held
<1> QED
  BY <1>2, <1>3 DEF IInv

\* Every action of a process keeps the invariant.
LEMMA ProcessStep ==
  ASSUME RetryAssumption, ~RecordAnytime, IInv, TypeOK', NEW p \in Proc, Step(p) \/ Crash(p)
  PROVE  IInv'
<1> USE DEF pc, Go, Fail, Idle, Absent, Foreign, File, NoJournal, Journal, StillHidden, Hidden,
            Unexpected, Superfluous, Clean, Protected
<1>0. /\ TypeOK /\ JournalCovers /\ EvidenceKept /\ Knows(p) /\ Sees(p) /\ Held(p)
      /\ at \in [Proc -> Local] /\ at[p] \in Local
  BY DEF IInv, ContextHeld, Held, TypeOK
<1>s. SUFFICES /\ pc(p) # "idle" \/ lock = None
               /\ \A q \in Proc \ {p} : at'[q] = at[q]
               /\ JournalCovers' /\ EvidenceKept' /\ Knows(p)' /\ Sees(p)' /\ Held(p)'
  BY OwnStep
<1>1. CASE EnterContext(p)
  BY <1>0, <1>1 DEF EnterContext, JournalCovers, EvidenceKept, Knows, Sees, Held, Local,
     TypeOK, Log
<1>2. CASE NothingToRecover(p)
  BY <1>0, <1>2 DEF NothingToRecover, JournalCovers, EvidenceKept, Knows, Sees, Held, Local,
     TypeOK, Log
<1>3. CASE RecoverRestored(p)
  BY <1>0, <1>3 DEF RecoverRestored, JournalCovers, EvidenceKept, Knows, Sees, Held, Local,
     TypeOK, Log
<1>4. CASE RecoverHidden(p)
  BY <1>0, <1>4 DEF RecoverHidden, JournalCovers, EvidenceKept, Knows, Sees, Held, Local,
     TypeOK, Log
<1>5. CASE RecoverReplace(p)
  BY <1>0, <1>5 DEF RecoverReplace, JournalCovers, EvidenceKept, Knows, Sees, Held, Local,
     TypeOK, Log
<1>6. CASE RecoverFails(p)
  BY <1>0, <1>6 DEF RecoverFails, JournalCovers, EvidenceKept, Knows, Sees, Held, Local,
     TypeOK, Log
<1>7. CASE RecoverUnlink(p)
  BY <1>0, <1>7 DEF RecoverUnlink, JournalCovers, EvidenceKept, Knows, Sees, Held, Local,
     TypeOK, Log
<1>8. CASE RecoverConflict(p)
  BY <1>0, <1>8 DEF RecoverConflict, JournalCovers, EvidenceKept, Knows, Sees, Held, Local,
     TypeOK, Log
<1>9. CASE LookAbsent(p)
  <2>1. recorded = {}
    BY <1>0, <1>9 DEF LookAbsent, JournalCovers, EvidenceKept, Knows
  <2> QED
    BY <1>0, <1>9, <2>1 DEF LookAbsent, JournalCovers, EvidenceKept, Knows, Sees, Held, Local
<1>10. CASE LookRefuses(p)
  BY <1>0, <1>10 DEF LookRefuses, JournalCovers, EvidenceKept, Knows, Sees, Held, Local,
     TypeOK, Log
<1>11. CASE ReadLog(p)
  BY <1>0, <1>11 DEF ReadLog, JournalCovers, EvidenceKept, Knows, Sees, Held, Local,
     TypeOK, Log
<1>12. CASE InspectPasses(p)
  BY <1>0, <1>12 DEF InspectPasses, JournalCovers, EvidenceKept, Knows, Sees, Held, Local,
     TypeOK, Log
<1>13. CASE InspectRefuses(p)
  BY <1>0, <1>13 DEF InspectRefuses, JournalCovers, EvidenceKept, Knows, Sees, Held, Local,
     TypeOK, Log
<1>14. CASE WriteJournal(p)
  <2>1. /\ journal = NoJournal /\ log = at[p].original /\ Hidden(p)
        /\ recorded \subseteq at[p].original.holds
    BY <1>0, <1>14 DEF WriteJournal, JournalCovers, EvidenceKept, Knows
  <2>2. at[p].expected.holds \subseteq recorded
    BY <1>0, <1>14 DEF WriteJournal, JournalCovers, Knows
  <2> QED
    BY <1>0, <1>14, <2>1, <2>2 DEF WriteJournal, JournalCovers, EvidenceKept, Knows, Sees, Held, Local
<1>15. CASE WriteJournalFails(p)
  BY <1>0, <1>15 DEF WriteJournalFails, JournalCovers, EvidenceKept, Knows, Sees, Held, Local,
     TypeOK, Log
<1>16. CASE Hide(p)
  BY <1>0, <1>16 DEF Hide, JournalCovers, EvidenceKept, Knows, Sees, Held, Local,
     TypeOK, Log
<1>17. CASE HideFails(p)
  BY <1>0, <1>17 DEF HideFails, JournalCovers, EvidenceKept, Knows, Sees, Held, Local,
     TypeOK, Log
<1>18. CASE PreflightPasses(p)
  BY <1>0, <1>18 DEF PreflightPasses, JournalCovers, EvidenceKept, Knows, Sees, Held, Local,
     TypeOK, Log
<1>19. CASE PreflightRefuses(p)
  BY <1>0, <1>19 DEF PreflightRefuses, JournalCovers, EvidenceKept, Knows, Sees, Held, Local,
     TypeOK, Log
<1>20. CASE OperateAlters(p)
  BY <1>0, <1>20 DEF OperateAlters, JournalCovers, EvidenceKept, Knows, Sees, Held, Local,
     TypeOK, Log
<1>21. CASE OperateDirties(p)
  BY <1>0, <1>21 DEF OperateDirties, JournalCovers, EvidenceKept, Knows, Sees, Held, Local,
     TypeOK, Log
<1>22. CASE OperateEnds(p)
  BY <1>0, <1>22 DEF OperateEnds, JournalCovers, EvidenceKept, Knows, Sees, Held, Local
<1>23. CASE OperateRaises(p)
  BY <1>0, <1>23 DEF OperateRaises, JournalCovers, EvidenceKept, Knows, Sees, Held, Local
<1>24. CASE SetAside(p)
  BY <1>0, <1>24 DEF SetAside, JournalCovers, EvidenceKept, Knows, Sees, Held, Local,
     TypeOK, Log
<1>25. CASE NothingAside(p)
  BY <1>0, <1>25 DEF NothingAside, JournalCovers, EvidenceKept, Knows, Sees, Held, Local,
     TypeOK, Log
<1>26. CASE CompareUntouched(p)
  BY <1>0, <1>26 DEF CompareUntouched, JournalCovers, EvidenceKept, Knows, Sees, Held, Local,
     TypeOK, Log
<1>27. CASE CompareTouched(p)
  BY <1>0, <1>27 DEF CompareTouched, JournalCovers, EvidenceKept, Knows, Sees, Held, Local,
     TypeOK, Log
<1>28. CASE Replace(p)
  BY <1>0, <1>28 DEF Replace, JournalCovers, EvidenceKept, Knows, Sees, Held, Local,
     TypeOK, Log
<1>29. CASE ReplaceFails(p)
  BY <1>0, <1>29 DEF ReplaceFails, JournalCovers, EvidenceKept, Knows, Sees, Held, Local,
     TypeOK, Log
<1>30. CASE DropJournal(p)
  BY <1>0, <1>30 DEF DropJournal, JournalCovers, EvidenceKept, Knows, Sees, Held, Local,
     TypeOK, Log
<1>31. CASE LeaveContext(p)
  BY <1>0, <1>31 DEF LeaveContext, JournalCovers, EvidenceKept, Knows, Sees, Held, Local,
     TypeOK, Log
<1>32. CASE Crash(p)
  BY <1>0, <1>32 DEF Crash, JournalCovers, EvidenceKept, Knows, Sees, Held, Local,
     TypeOK, Log
<1> QED
  BY <1>1, <1>2, <1>3, <1>4, <1>5, <1>6, <1>7, <1>8, <1>9, <1>10, <1>11, <1>12, <1>13, <1>14, <1>15, <1>16, <1>17, <1>18, <1>19, <1>20, <1>21, <1>22, <1>23, <1>24, <1>25, <1>26, <1>27, <1>28, <1>29, <1>30, <1>31, <1>32
  DEF Step, Recover, Isolate, Operate, Restore

\* What is recorded between verifications is in the log, which then is not
\* the stand-in.
LEMMA RecordStep ==
  ASSUME RetryAssumption, ~RecordAnytime, IInv, TypeOK', NEW r \in Rec, RecordObservation(r)
  PROVE  IInv'
<1>1. lock = None /\ \A p \in Proc : pc(p) = "idle" /\ pc(p)' = "idle"
  BY DEF RecordObservation, IInv, ContextHeld, RetryAssumption, pc
<1>2. ContextHeld' /\ \A p \in Proc : Knows(p)' /\ Sees(p)'
  BY <1>1 DEF ContextHeld, Knows, Sees, Protected
<1>3. log' # journal.expected
  BY DEF RecordObservation, IInv, JournalCovers, File
<1>4. JournalCovers' /\ EvidenceKept'
  BY <1>3 DEF RecordObservation, IInv, JournalCovers, EvidenceKept, StillHidden, File
<1> QED
  BY <1>2, <1>4 DEF IInv

LEMMA TidyStep ==
  ASSUME RetryAssumption, IInv, TypeOK', TidyUp \/ UNCHANGED vars
  PROVE  IInv'
<1>1. CASE TidyUp
  <2>1. \A p \in Proc : pc(p) = "idle" /\ pc(p)' = "idle"
    BY <1>1 DEF TidyUp, IInv, ContextHeld, RetryAssumption, pc
  <2> QED
    BY <1>1, <2>1 DEF TidyUp, IInv, ContextHeld, JournalCovers, EvidenceKept, StillHidden,
       Knows, Sees, Protected
<1>2. CASE UNCHANGED vars
  BY <1>2 DEF vars, IInv, ContextHeld, JournalCovers, EvidenceKept, StillHidden,
     Knows, Sees, Hidden, Unexpected, pc
<1> QED
  BY <1>1, <1>2

LEMMA StepIInv ==
  ASSUME RetryAssumption, ~RecordAnytime, IInv, [Next]_vars
  PROVE  IInv'
<1>1. TypeOK'
  BY TypeStep DEF IInv
<1> QED
  BY <1>1, ProcessStep, RecordStep, TidyStep DEF Next

\* The inductive invariant holds for any processes and observations, whoever
\* is killed and whatever a verification writes.
THEOREM Invariance ==
  ASSUME RetryAssumption, ~RecordAnytime PROVE Spec => []IInv
<1>1. IInv /\ [Next]_vars => IInv'
  BY StepIInv
<1> QED
  BY <1>1, InitIInv, PTL DEF Spec

\* No observation is lost: a kill between any two steps leaves each in the log
\* or in the journal.
THEOREM Kept ==
  ASSUME RetryAssumption, ~RecordAnytime PROVE Spec => []EvidenceKept
<1>1. IInv => EvidenceKept
  BY DEF IInv
<1> QED
  BY <1>1, Invariance, PTL

\* Success means that the verification left the stand-in and the worktree as
\* it had found them.
THEOREM Untouched ==
  ASSUME RetryAssumption, ~RecordAnytime PROVE Spec => []SuccessMeansUntouched
<1>1. IInv => SuccessMeansUntouched
  BY DEF IInv, Sees, SuccessMeansUntouched
<1> QED
  BY <1>1, Invariance, PTL
=============================================================================

------------------------ MODULE IssueDeliveryProofs ------------------------
(***************************************************************************)
(* Proofs about IssueStart for every set of processes and sessions,        *)
(* whichever of the processes are killed; about Delivery for every team,   *)
(* and HostedStage for every set of stages; and about the composition, with*)
(* what RetryEvidenceProofs and RemoteCommandProofs show.                  *)
(***************************************************************************)
EXTENDS IssueDelivery, Sequences, WellFoundedInduction, TLAPS

----------------------------------------------------------------------------
(***************************************************************************)
(* IssueStart                                                               *)
(***************************************************************************)

LEMMA NoReadsType == NoReads \in Reads
BY DEF NoReads, Reads, Revision

LEMMA IdleType == Idle \in Local /\ Idle.pc = "idle"
BY NoReadsType DEF Idle, Local, Revision

LEMMA ObservedType == ASSUME TypeOK PROVE Observed \in Reads
BY DEF TypeOK, Observed, Reads, Life, Work

LEMMA InitIInv == ASSUME Init PROVE IInv
<1>1. version \in {"stable", "mine", "other"}
  BY VersionsAssumption DEF Init
<1>2. work \in Work /\ found \in Inherited /\ life \in Life
  BY InheritedAssumption DEF Init, NoWork, Work, Revision
<1>3. \A p \in Proc : at[p] = Idle
  BY DEF Init
<1>4. TypeOK
  BY <1>1, <1>2, <1>3, IdleType, NoReadsType, InheritedAssumption DEF Init, TypeOK, TxnRecord, pc
<1>5. RecordsAgree /\ EffectsInOrder
  BY DEF Init, RecordsAgree, EffectsInOrder, NoWork
<1>6. \A p \in Proc : Materializing(p)
  BY <1>3, IdleType DEF pc, Materializing
<1> QED
  BY <1>4, <1>5, <1>6 DEF IInv

PCs == {"idle", "prepare", "load", "validate", "decide", "version", "branch", "checkout",
        "identity", "lifecycle", "transition", "current", "project", "record", "done"}

\* The types of the processes.
LocalType ==
  /\ at \in [Proc -> Local]
  /\ \A p \in Proc : pc(p) # "idle" => at[p].session \in Session

\* A process that is idle again, and one that goes on with what it has read,
\* keep the types.
LEMMA EndType ==
  ASSUME TypeOK, NEW p \in Proc, at' = [at EXCEPT ![p] = Idle]
  PROVE  LocalType'
<1>1. at' \in [Proc -> Local] /\ at'[p].pc = "idle" /\ \A q \in Proc \ {p} : at'[q] = at[q]
  BY IdleType DEF TypeOK
<1> QED
  BY <1>1 DEF TypeOK, LocalType, pc

LEMMA ReturnType ==
  ASSUME TypeOK, NEW p \in Proc, NEW from, Return(p, from)
  PROVE  LocalType'
BY EndType DEF Return

LEMMA KilledType ==
  ASSUME TypeOK, NEW p \in Proc, NEW locks \in SUBSET Locks, KilledWith(p, locks)
  PROVE  LocalType' /\ locked' \subseteq Locks
BY EndType DEF KilledWith, TypeOK

LEMMA HoldType ==
  ASSUME TypeOK, NEW p \in Proc, NEW from, NEW to \in PCs, NEW revision \in Revision,
         NEW reads \in Reads, from # "idle", Hold(p, from, to, revision, reads)
  PROVE  LocalType'
<1> DEFINE m == [at[p] EXCEPT !.pc = to, !.held = revision, !.seen = reads]
<1>1. at[p] \in Local /\ at[p].session \in Session /\ at' = [at EXCEPT ![p] = m]
  BY DEF TypeOK, Hold, pc
<1>2. m \in Local /\ m.session \in Session
  BY <1>1 DEF Local, PCs
<1> HIDE DEF m
<1>3. at' \in [Proc -> Local] /\ at'[p] = m /\ \A q \in Proc \ {p} : at'[q] = at[q]
  BY <1>1, <1>2 DEF TypeOK
<1> QED
  BY <1>2, <1>3 DEF TypeOK, LocalType, pc

LEMMA GotoType ==
  ASSUME TypeOK, NEW p \in Proc, NEW from, NEW to \in PCs, from # "idle", Goto(p, from, to)
  PROVE  LocalType'
BY HoldType, NoReadsType DEF Goto, Revision

LEMMA WrittenType ==
  ASSUME TypeOK, NEW p \in Proc, NEW from, NEW to \in PCs, NEW locks \in SUBSET Locks,
         from # "idle", Written(p, from, to, locks)
  PROVE  LocalType' /\ locked' \subseteq Locks
BY GotoType, KilledType DEF Written, TypeOK

\* The types of everything but the processes and the locks.
DataType ==
  /\ version \in {"stable", "mine", "other"} /\ outputs \in {"clean", "dirty"}
  /\ branch \in {"none", "bare", "marked"} /\ head \in {"parent", "work"}
  /\ tip \in Nat /\ relation \in Nat /\ life \in Life /\ work \in Work
  /\ found \in Inherited
  /\ txn \in [Session -> TxnRecord]

\* Every step keeps the types of the data.
LEMMA DataStep ==
  ASSUME IInv, [Next]_vars
  PROVE  DataType'
<1> USE DEF IInv, TypeOK, DataType, TxnRecord, Local, Life, Work, Revision, world, pc, Status, Goto, Hold,
           Return, Written
<1>1. CASE UNCHANGED vars
  BY <1>1 DEF vars, world
<1>2. ASSUME NEW p \in Proc, NEW s \in Session, Begin(p, s) PROVE DataType'
  BY <1>2 DEF Begin
<1>3. ASSUME NEW p \in Proc, Prepare(p) PROVE DataType'
  BY <1>3 DEF Prepare
<1>4. ASSUME NEW p \in Proc, Resume(p) PROVE DataType'
  BY <1>4 DEF Resume
<1>5. ASSUME NEW p \in Proc, PrepareFails(p) PROVE DataType'
  BY <1>5 DEF PrepareFails
<1>6. ASSUME NEW p \in Proc, LoadPrepared(p) PROVE DataType'
  BY <1>6 DEF LoadPrepared
<1>7. ASSUME NEW p \in Proc, LoadCommitted(p) PROVE DataType'
  BY <1>7 DEF LoadCommitted
<1>8. ASSUME NEW p \in Proc, LoadAborted(p) PROVE DataType'
  BY <1>8 DEF LoadAborted
<1>9. ASSUME NEW p \in Proc, Validate(p) PROVE DataType'
  BY <1>9 DEF Validate
<1>10. ASSUME NEW p \in Proc, ValidateFails(p) PROVE DataType'
  BY <1>10, NoReadsType DEF ValidateFails
<1>11. ASSUME NEW p \in Proc, AbortFails(p) PROVE DataType'
  BY <1>11 DEF AbortFails
<1>12. ASSUME NEW p \in Proc, Commit(p) PROVE DataType'
  BY <1>12, NoReadsType DEF Commit
<1>13. ASSUME NEW p \in Proc, CommitFails(p) PROVE DataType'
  BY <1>13 DEF CommitFails
<1>14. ASSUME NEW p \in Proc, AssignVersion(p) PROVE DataType'
  BY <1>14 DEF AssignVersion
<1>15. ASSUME NEW p \in Proc, VersionAssigned(p) PROVE DataType'
  BY <1>15 DEF VersionAssigned
<1>16. ASSUME NEW p \in Proc, VersionForeign(p) PROVE DataType'
  BY <1>16 DEF VersionForeign
<1>17. ASSUME NEW p \in Proc, CreateBranch(p) PROVE DataType'
  BY <1>17 DEF CreateBranch
<1>18. ASSUME NEW p \in Proc, UseBranch(p) PROVE DataType'
  BY <1>18 DEF UseBranch
<1>19. ASSUME NEW p \in Proc, BranchUnmarked(p) PROVE DataType'
  BY <1>19 DEF BranchUnmarked
<1>20. ASSUME NEW p \in Proc, Checkout(p) PROVE DataType'
  BY <1>20 DEF Checkout
<1>21. ASSUME NEW p \in Proc, MarkBranch(p) PROVE DataType'
  BY <1>21 DEF MarkBranch
<1>22. ASSUME NEW p \in Proc, ReadStartable(p) PROVE DataType'
  BY <1>22 DEF ReadStartable
<1>23. ASSUME NEW p \in Proc, ReadActive(p) PROVE DataType'
  BY <1>23 DEF ReadActive
<1>24. ASSUME NEW p \in Proc, ReadRefused(p) PROVE DataType'
  BY <1>24 DEF ReadRefused
<1>25. ASSUME NEW p \in Proc, StartLifecycle(p) PROVE DataType'
  BY <1>25 DEF StartLifecycle
<1>26. ASSUME NEW p \in Proc, StartFails(p) PROVE DataType'
  BY <1>26 DEF StartFails
<1>27. ASSUME NEW p \in Proc, WorkProjected(p) PROVE DataType'
  BY <1>27 DEF WorkProjected
<1>28. ASSUME NEW p \in Proc, ReadWork(p) PROVE DataType'
  BY <1>28 DEF ReadWork
<1>29. ASSUME NEW p \in Proc, ProjectWork(p) PROVE DataType'
  BY <1>29 DEF ProjectWork
<1>30. ASSUME NEW p \in Proc, ProjectFails(p) PROVE DataType'
  BY <1>30 DEF ProjectFails
<1>31. ASSUME NEW p \in Proc, RecordFiles(p) PROVE DataType'
  BY <1>31 DEF RecordFiles
<1>32. ASSUME NEW p \in Proc, Report(p) PROVE DataType'
  BY <1>32 DEF Report
<1>33. ASSUME NEW p \in Proc, Crash(p) PROVE DataType'
  BY <1>33 DEF Crash
<1>34. ASSUME NEW p \in Proc, CrashHolding(p) PROVE DataType'
  BY <1>34 DEF CrashHolding
<1>35. ASSUME ChangeRelations PROVE DataType'
  BY <1>35 DEF ChangeRelations
<1>36. ASSUME MoveParent PROVE DataType'
  BY <1>36 DEF MoveParent
<1> QED
  BY <1>1, <1>2, <1>3, <1>4, <1>5, <1>6, <1>7, <1>8, <1>9, <1>10,
     <1>11, <1>12, <1>13, <1>14, <1>15, <1>16, <1>17, <1>18, <1>19, <1>20,
     <1>21, <1>22, <1>23, <1>24, <1>25, <1>26, <1>27, <1>28, <1>29, <1>30,
     <1>31, <1>32, <1>33, <1>34, <1>35, <1>36
  DEF Next, Step

\* Every step keeps the types of the processes and of the locks.
LEMMA LocalStep ==
  ASSUME IInv, [Next]_vars
  PROVE  (LocalType /\ locked \subseteq Locks)'
<1> USE DEF PCs
<1>t. TypeOK /\ locked \subseteq Locks
  BY DEF IInv, TypeOK
<1>1. CASE UNCHANGED vars
  BY <1>1, <1>t DEF vars, TypeOK, LocalType, pc
<1>2. ASSUME NEW p \in Proc, NEW s \in Session, Begin(p, s) PROVE (LocalType /\ locked \subseteq Locks)'
  <2> DEFINE m == [Idle EXCEPT !.pc = "prepare", !.session = s, !.relation = relation,
                              !.declared = (version = "stable"), !.seen = Observed]
  <2>1. m \in Local /\ m.session \in Session
    BY <1>t, IdleType, ObservedType DEF Local, TypeOK
  <2>2. at' = [at EXCEPT ![p] = m] /\ locked' = locked
    BY <1>2, <1>t DEF Begin
  <2> HIDE DEF m
  <2>3. at' \in [Proc -> Local] /\ at'[p] = m /\ \A q \in Proc \ {p} : at'[q] = at[q]
    BY <2>1, <2>2, <1>t DEF TypeOK
  <2> QED
    BY <2>1, <2>2, <2>3, <1>t DEF TypeOK, LocalType, pc
<1>3. ASSUME NEW p \in Proc, Prepare(p) PROVE (LocalType /\ locked \subseteq Locks)'
  <2>1. {"coordinator", at[p].session} \subseteq Locks
    BY <1>3, <1>t DEF Prepare, Written, TypeOK, Locks, pc
  <2>2. PICK locks \in SUBSET Locks : Written(p, "prepare", "load", locks)
    BY <1>3, <1>t, <2>1 DEF Prepare
  <2> QED
    BY <2>2, <1>t, WrittenType
<1>4. ASSUME NEW p \in Proc, Resume(p) PROVE (LocalType /\ locked \subseteq Locks)'
  BY <1>4, <1>t, GotoType DEF Resume, world
<1>5. ASSUME NEW p \in Proc, PrepareFails(p) PROVE (LocalType /\ locked \subseteq Locks)'
  BY <1>5, <1>t, ReturnType DEF PrepareFails, world
<1>6. ASSUME NEW p \in Proc, LoadPrepared(p) PROVE (LocalType /\ locked \subseteq Locks)'
  <2>1. at[p].session \in Session
    BY <1>6, <1>t DEF LoadPrepared, Hold, TypeOK, pc
  <2>2. txn[at[p].session].reads \in Reads
    BY <2>1, <1>t DEF TypeOK, TxnRecord
  <2> QED
    BY <1>6, <1>t, <2>2, HoldType DEF LoadPrepared, Revision
<1>7. ASSUME NEW p \in Proc, LoadCommitted(p) PROVE (LocalType /\ locked \subseteq Locks)'
  BY <1>7, <1>t, GotoType DEF LoadCommitted, world
<1>8. ASSUME NEW p \in Proc, LoadAborted(p) PROVE (LocalType /\ locked \subseteq Locks)'
  BY <1>8, <1>t, ReturnType DEF LoadAborted, world
<1>9. ASSUME NEW p \in Proc, Validate(p) PROVE (LocalType /\ locked \subseteq Locks)'
  BY <1>9, <1>t, GotoType DEF Validate, world
<1>10. ASSUME NEW p \in Proc, ValidateFails(p) PROVE (LocalType /\ locked \subseteq Locks)'
  <2>1. {at[p].session} \subseteq Locks
    BY <1>10, <1>t DEF ValidateFails, Return, TypeOK, Locks, pc
  <2> QED
    BY <1>10, <1>t, <2>1, ReturnType, KilledType DEF ValidateFails
<1>11. ASSUME NEW p \in Proc, AbortFails(p) PROVE (LocalType /\ locked \subseteq Locks)'
  BY <1>11, <1>t, ReturnType DEF AbortFails, world
<1>12. ASSUME NEW p \in Proc, Commit(p) PROVE (LocalType /\ locked \subseteq Locks)'
  <2>1. {at[p].session} \subseteq Locks
    BY <1>12, <1>t DEF Commit, Written, TypeOK, Locks, pc
  <2>2. PICK locks \in SUBSET Locks : Written(p, "decide", "version", locks)
    BY <1>12, <1>t, <2>1 DEF Commit
  <2> QED
    BY <2>2, <1>t, WrittenType
<1>13. ASSUME NEW p \in Proc, CommitFails(p) PROVE (LocalType /\ locked \subseteq Locks)'
  BY <1>13, <1>t, ReturnType DEF CommitFails, world
<1>14. ASSUME NEW p \in Proc, AssignVersion(p) PROVE (LocalType /\ locked \subseteq Locks)'
  BY <1>14, <1>t, GotoType DEF AssignVersion, world
<1>15. ASSUME NEW p \in Proc, VersionAssigned(p) PROVE (LocalType /\ locked \subseteq Locks)'
  BY <1>15, <1>t, GotoType DEF VersionAssigned, world
<1>16. ASSUME NEW p \in Proc, VersionForeign(p) PROVE (LocalType /\ locked \subseteq Locks)'
  BY <1>16, <1>t, ReturnType DEF VersionForeign, world
<1>17. ASSUME NEW p \in Proc, CreateBranch(p) PROVE (LocalType /\ locked \subseteq Locks)'
  BY <1>17, <1>t, GotoType DEF CreateBranch, world
<1>18. ASSUME NEW p \in Proc, UseBranch(p) PROVE (LocalType /\ locked \subseteq Locks)'
  BY <1>18, <1>t, GotoType DEF UseBranch, world
<1>19. ASSUME NEW p \in Proc, BranchUnmarked(p) PROVE (LocalType /\ locked \subseteq Locks)'
  BY <1>19, <1>t, ReturnType DEF BranchUnmarked, world
<1>20. ASSUME NEW p \in Proc, Checkout(p) PROVE (LocalType /\ locked \subseteq Locks)'
  BY <1>20, <1>t, GotoType DEF Checkout, world
<1>21. ASSUME NEW p \in Proc, MarkBranch(p) PROVE (LocalType /\ locked \subseteq Locks)'
  BY <1>21, <1>t, GotoType DEF MarkBranch, world
<1>22. ASSUME NEW p \in Proc, ReadStartable(p) PROVE (LocalType /\ locked \subseteq Locks)'
  <2>1. life.revision \in Revision
    BY <1>t DEF TypeOK, Life, Work
  <2> QED
    BY <1>22, <1>t, <2>1, HoldType, NoReadsType DEF ReadStartable
<1>23. ASSUME NEW p \in Proc, ReadActive(p) PROVE (LocalType /\ locked \subseteq Locks)'
  BY <1>23, <1>t, GotoType DEF ReadActive, world
<1>24. ASSUME NEW p \in Proc, ReadRefused(p) PROVE (LocalType /\ locked \subseteq Locks)'
  BY <1>24, <1>t, ReturnType DEF ReadRefused, world
<1>25. ASSUME NEW p \in Proc, StartLifecycle(p) PROVE (LocalType /\ locked \subseteq Locks)'
  BY <1>25, <1>t, WrittenType DEF StartLifecycle, Locks
<1>26. ASSUME NEW p \in Proc, StartFails(p) PROVE (LocalType /\ locked \subseteq Locks)'
  BY <1>26, <1>t, ReturnType DEF StartFails, world
<1>27. ASSUME NEW p \in Proc, WorkProjected(p) PROVE (LocalType /\ locked \subseteq Locks)'
  BY <1>27, <1>t, GotoType DEF WorkProjected, world
<1>28. ASSUME NEW p \in Proc, ReadWork(p) PROVE (LocalType /\ locked \subseteq Locks)'
  <2>1. work.revision \in Revision
    BY <1>t DEF TypeOK, Life, Work
  <2> QED
    BY <1>28, <1>t, <2>1, HoldType, NoReadsType DEF ReadWork
<1>29. ASSUME NEW p \in Proc, ProjectWork(p) PROVE (LocalType /\ locked \subseteq Locks)'
  BY <1>29, <1>t, WrittenType DEF ProjectWork, Locks
<1>30. ASSUME NEW p \in Proc, ProjectFails(p) PROVE (LocalType /\ locked \subseteq Locks)'
  BY <1>30, <1>t, ReturnType DEF ProjectFails, world
<1>31. ASSUME NEW p \in Proc, RecordFiles(p) PROVE (LocalType /\ locked \subseteq Locks)'
  BY <1>31, <1>t, GotoType DEF RecordFiles, world
<1>32. ASSUME NEW p \in Proc, Report(p) PROVE (LocalType /\ locked \subseteq Locks)'
  BY <1>32, <1>t, ReturnType DEF Report, world
<1>33. ASSUME NEW p \in Proc, Crash(p) PROVE (LocalType /\ locked \subseteq Locks)'
  BY <1>33, <1>t, EndType DEF Crash
<1>34. ASSUME NEW p \in Proc, CrashHolding(p) PROVE (LocalType /\ locked \subseteq Locks)'
  <2>1. pc(p) # "idle" /\ at[p].session \in Session
    BY <1>34, <1>t DEF CrashHolding, TypeOK
  <2>2. /\ {"coordinator"} \subseteq Locks /\ {"coordinator", at[p].session} \subseteq Locks
        /\ {at[p].session} \subseteq Locks /\ {"lifecycle"} \subseteq Locks /\ {"work"} \subseteq Locks
    BY <2>1, <1>t DEF Locks
  <2> QED
    BY <1>34, <1>t, <2>2, KilledType DEF CrashHolding
<1>35. ASSUME ChangeRelations PROVE (LocalType /\ locked \subseteq Locks)'
  BY <1>35, <1>t DEF ChangeRelations, TypeOK, LocalType, pc
<1>36. ASSUME MoveParent PROVE (LocalType /\ locked \subseteq Locks)'
  BY <1>36, <1>t DEF MoveParent, TypeOK, LocalType, pc
<1> QED
  BY <1>1, <1>2, <1>3, <1>4, <1>5, <1>6, <1>7, <1>8, <1>9, <1>10,
     <1>11, <1>12, <1>13, <1>14, <1>15, <1>16, <1>17, <1>18, <1>19, <1>20,
     <1>21, <1>22, <1>23, <1>24, <1>25, <1>26, <1>27, <1>28, <1>29, <1>30,
     <1>31, <1>32, <1>33, <1>34, <1>35, <1>36
  DEF Next, Step

\* Every step keeps the types.
LEMMA TypeStep == ASSUME IInv, [Next]_vars PROVE TypeOK'
BY DataStep, LocalStep DEF DataType, LocalType, TypeOK

\* Every step keeps the two records in agreement.
LEMMA RecordsStep ==
  ASSUME IInv, [Next]_vars
  PROVE  RecordsAgree'
<1> USE DEF IInv, TypeOK, RecordsAgree, Materializing, Life, Work, Revision, world, pc, Status, Goto, Hold,
           Return, Written
<1>1. CASE UNCHANGED vars
  BY <1>1 DEF vars
<1>2. ASSUME NEW p \in Proc, NEW s \in Session, Begin(p, s) PROVE RecordsAgree'
  BY <1>2 DEF Begin
<1>3. ASSUME NEW p \in Proc, Prepare(p) PROVE RecordsAgree'
  <2>1. CASE Goto(p, "prepare", "load") /\ UNCHANGED locked
    BY <1>3, <2>1 DEF Prepare
  <2>2. CASE KilledWith(p, {"coordinator", at[p].session})
    BY <1>3, <2>2 DEF Prepare
  <2> QED
    BY <1>3, <2>1, <2>2 DEF Prepare
<1>4. ASSUME NEW p \in Proc, Resume(p) PROVE RecordsAgree'
  BY <1>4 DEF Resume
<1>5. ASSUME NEW p \in Proc, PrepareFails(p) PROVE RecordsAgree'
  BY <1>5 DEF PrepareFails
<1>6. ASSUME NEW p \in Proc, LoadPrepared(p) PROVE RecordsAgree'
  BY <1>6 DEF LoadPrepared
<1>7. ASSUME NEW p \in Proc, LoadCommitted(p) PROVE RecordsAgree'
  BY <1>7 DEF LoadCommitted
<1>8. ASSUME NEW p \in Proc, LoadAborted(p) PROVE RecordsAgree'
  BY <1>8 DEF LoadAborted
<1>9. ASSUME NEW p \in Proc, Validate(p) PROVE RecordsAgree'
  BY <1>9 DEF Validate
<1>10. ASSUME NEW p \in Proc, ValidateFails(p) PROVE RecordsAgree'
  BY <1>10 DEF ValidateFails
<1>11. ASSUME NEW p \in Proc, AbortFails(p) PROVE RecordsAgree'
  BY <1>11 DEF AbortFails
<1>12. ASSUME NEW p \in Proc, Commit(p) PROVE RecordsAgree'
  <2>1. CASE Goto(p, "decide", "version") /\ UNCHANGED locked
    BY <1>12, <2>1 DEF Commit
  <2>2. CASE KilledWith(p, {at[p].session})
    BY <1>12, <2>2 DEF Commit
  <2> QED
    BY <1>12, <2>1, <2>2 DEF Commit
<1>13. ASSUME NEW p \in Proc, CommitFails(p) PROVE RecordsAgree'
  BY <1>13 DEF CommitFails
<1>14. ASSUME NEW p \in Proc, AssignVersion(p) PROVE RecordsAgree'
  BY <1>14 DEF AssignVersion
<1>15. ASSUME NEW p \in Proc, VersionAssigned(p) PROVE RecordsAgree'
  BY <1>15 DEF VersionAssigned
<1>16. ASSUME NEW p \in Proc, VersionForeign(p) PROVE RecordsAgree'
  BY <1>16 DEF VersionForeign
<1>17. ASSUME NEW p \in Proc, CreateBranch(p) PROVE RecordsAgree'
  BY <1>17 DEF CreateBranch
<1>18. ASSUME NEW p \in Proc, UseBranch(p) PROVE RecordsAgree'
  BY <1>18 DEF UseBranch
<1>19. ASSUME NEW p \in Proc, BranchUnmarked(p) PROVE RecordsAgree'
  BY <1>19 DEF BranchUnmarked
<1>20. ASSUME NEW p \in Proc, Checkout(p) PROVE RecordsAgree'
  BY <1>20 DEF Checkout
<1>21. ASSUME NEW p \in Proc, MarkBranch(p) PROVE RecordsAgree'
  BY <1>21 DEF MarkBranch
<1>22. ASSUME NEW p \in Proc, ReadStartable(p) PROVE RecordsAgree'
  BY <1>22 DEF ReadStartable
<1>23. ASSUME NEW p \in Proc, ReadActive(p) PROVE RecordsAgree'
  BY <1>23 DEF ReadActive
<1>24. ASSUME NEW p \in Proc, ReadRefused(p) PROVE RecordsAgree'
  BY <1>24 DEF ReadRefused
<1>25. ASSUME NEW p \in Proc, StartLifecycle(p) PROVE RecordsAgree'
  <2>1. pc(p) = "transition"
    BY <1>25 DEF StartLifecycle, Written
  <2>2. /\ life = found.life /\ life.state \in Startable /\ life.revision \in Int
        /\ branch = "marked" /\ head = "work" /\ Status(p) = "committed" /\ version = "mine"
    BY <1>25, <2>1, InheritedAssumption DEF StartLifecycle
  <2>3. work = NoWork /\ life.state # "active"
    BY <2>2 DEF Startable
  <2>4. CASE Goto(p, "transition", "current") /\ UNCHANGED locked
    BY <1>25, <2>1, <2>2, <2>3, <2>4 DEF StartLifecycle, NoWork, Startable
  <2>5. CASE KilledWith(p, {"lifecycle"})
    BY <1>25, <2>1, <2>2, <2>3, <2>5 DEF StartLifecycle, NoWork, Startable
  <2> QED
    BY <1>25, <2>4, <2>5 DEF StartLifecycle
<1>26. ASSUME NEW p \in Proc, StartFails(p) PROVE RecordsAgree'
  BY <1>26 DEF StartFails
<1>27. ASSUME NEW p \in Proc, WorkProjected(p) PROVE RecordsAgree'
  BY <1>27 DEF WorkProjected
<1>28. ASSUME NEW p \in Proc, ReadWork(p) PROVE RecordsAgree'
  BY <1>28 DEF ReadWork
<1>29. ASSUME NEW p \in Proc, ProjectWork(p) PROVE RecordsAgree'
  <2>1. CASE Goto(p, "project", "record") /\ UNCHANGED locked
    BY <1>29, <2>1 DEF ProjectWork
  <2>2. CASE KilledWith(p, {"work"})
    BY <1>29, <2>2 DEF ProjectWork
  <2> QED
    BY <1>29, <2>1, <2>2 DEF ProjectWork
<1>30. ASSUME NEW p \in Proc, ProjectFails(p) PROVE RecordsAgree'
  BY <1>30 DEF ProjectFails
<1>31. ASSUME NEW p \in Proc, RecordFiles(p) PROVE RecordsAgree'
  BY <1>31 DEF RecordFiles
<1>32. ASSUME NEW p \in Proc, Report(p) PROVE RecordsAgree'
  BY <1>32 DEF Report
<1>33. ASSUME NEW p \in Proc, Crash(p) PROVE RecordsAgree'
  BY <1>33 DEF Crash
<1>34. ASSUME NEW p \in Proc, CrashHolding(p) PROVE RecordsAgree'
  BY <1>34 DEF CrashHolding
<1>35. ASSUME ChangeRelations PROVE RecordsAgree'
  BY <1>35 DEF ChangeRelations
<1>36. ASSUME MoveParent PROVE RecordsAgree'
  BY <1>36 DEF MoveParent
<1> QED
  BY <1>1, <1>2, <1>3, <1>4, <1>5, <1>6, <1>7, <1>8, <1>9, <1>10,
     <1>11, <1>12, <1>13, <1>14, <1>15, <1>16, <1>17, <1>18, <1>19, <1>20,
     <1>21, <1>22, <1>23, <1>24, <1>25, <1>26, <1>27, <1>28, <1>29, <1>30,
     <1>31, <1>32, <1>33, <1>34, <1>35, <1>36
  DEF Next, Step

\* Every step keeps the effects in order.
LEMMA OrderStep ==
  ASSUME IInv, [Next]_vars
  PROVE  EffectsInOrder'
<1> USE DEF IInv, TypeOK, RecordsAgree, EffectsInOrder, Materializing, Life, Revision, world, pc, Status,
           Goto, Hold, Return, Written
<1>1. CASE UNCHANGED vars
  BY <1>1 DEF vars
<1>2. ASSUME NEW p \in Proc, NEW s \in Session, Begin(p, s) PROVE EffectsInOrder'
  BY <1>2 DEF Begin
<1>3. ASSUME NEW p \in Proc, Prepare(p) PROVE EffectsInOrder'
  <2>1. CASE Goto(p, "prepare", "load") /\ UNCHANGED locked
    BY <1>3, <2>1 DEF Prepare
  <2>2. CASE KilledWith(p, {"coordinator", at[p].session})
    BY <1>3, <2>2 DEF Prepare
  <2> QED
    BY <1>3, <2>1, <2>2 DEF Prepare
<1>4. ASSUME NEW p \in Proc, Resume(p) PROVE EffectsInOrder'
  BY <1>4 DEF Resume
<1>5. ASSUME NEW p \in Proc, PrepareFails(p) PROVE EffectsInOrder'
  BY <1>5 DEF PrepareFails
<1>6. ASSUME NEW p \in Proc, LoadPrepared(p) PROVE EffectsInOrder'
  BY <1>6 DEF LoadPrepared
<1>7. ASSUME NEW p \in Proc, LoadCommitted(p) PROVE EffectsInOrder'
  BY <1>7 DEF LoadCommitted
<1>8. ASSUME NEW p \in Proc, LoadAborted(p) PROVE EffectsInOrder'
  BY <1>8 DEF LoadAborted
<1>9. ASSUME NEW p \in Proc, Validate(p) PROVE EffectsInOrder'
  BY <1>9 DEF Validate
<1>10. ASSUME NEW p \in Proc, ValidateFails(p) PROVE EffectsInOrder'
  BY <1>10 DEF ValidateFails
<1>11. ASSUME NEW p \in Proc, AbortFails(p) PROVE EffectsInOrder'
  BY <1>11 DEF AbortFails
<1>12. ASSUME NEW p \in Proc, Commit(p) PROVE EffectsInOrder'
  <2>1. CASE Goto(p, "decide", "version") /\ UNCHANGED locked
    BY <1>12, <2>1 DEF Commit
  <2>2. CASE KilledWith(p, {at[p].session})
    BY <1>12, <2>2 DEF Commit
  <2> QED
    BY <1>12, <2>1, <2>2 DEF Commit
<1>13. ASSUME NEW p \in Proc, CommitFails(p) PROVE EffectsInOrder'
  BY <1>13 DEF CommitFails
<1>14. ASSUME NEW p \in Proc, AssignVersion(p) PROVE EffectsInOrder'
  BY <1>14 DEF AssignVersion
<1>15. ASSUME NEW p \in Proc, VersionAssigned(p) PROVE EffectsInOrder'
  BY <1>15 DEF VersionAssigned
<1>16. ASSUME NEW p \in Proc, VersionForeign(p) PROVE EffectsInOrder'
  BY <1>16 DEF VersionForeign
<1>17. ASSUME NEW p \in Proc, CreateBranch(p) PROVE EffectsInOrder'
  BY <1>17 DEF CreateBranch
<1>18. ASSUME NEW p \in Proc, UseBranch(p) PROVE EffectsInOrder'
  BY <1>18 DEF UseBranch
<1>19. ASSUME NEW p \in Proc, BranchUnmarked(p) PROVE EffectsInOrder'
  BY <1>19 DEF BranchUnmarked
<1>20. ASSUME NEW p \in Proc, Checkout(p) PROVE EffectsInOrder'
  BY <1>20 DEF Checkout
<1>21. ASSUME NEW p \in Proc, MarkBranch(p) PROVE EffectsInOrder'
  BY <1>21 DEF MarkBranch
<1>22. ASSUME NEW p \in Proc, ReadStartable(p) PROVE EffectsInOrder'
  BY <1>22 DEF ReadStartable
<1>23. ASSUME NEW p \in Proc, ReadActive(p) PROVE EffectsInOrder'
  BY <1>23 DEF ReadActive
<1>24. ASSUME NEW p \in Proc, ReadRefused(p) PROVE EffectsInOrder'
  BY <1>24 DEF ReadRefused
<1>25. ASSUME NEW p \in Proc, StartLifecycle(p) PROVE EffectsInOrder'
  <2>1. pc(p) = "transition"
    BY <1>25 DEF StartLifecycle, Written
  <2>2. /\ life = found.life /\ life.state \in Startable /\ life.revision \in Int
        /\ branch = "marked" /\ head = "work" /\ Status(p) = "committed" /\ version = "mine"
    BY <1>25, <2>1, InheritedAssumption DEF StartLifecycle
  <2>3. work = NoWork /\ life.state # "active"
    BY <2>2 DEF Startable
  <2>4. CASE Goto(p, "transition", "current") /\ UNCHANGED locked
    BY <1>25, <2>1, <2>2, <2>3, <2>4 DEF StartLifecycle, NoWork, Startable
  <2>5. CASE KilledWith(p, {"lifecycle"})
    BY <1>25, <2>1, <2>2, <2>3, <2>5 DEF StartLifecycle, NoWork, Startable
  <2> QED
    BY <1>25, <2>4, <2>5 DEF StartLifecycle
<1>26. ASSUME NEW p \in Proc, StartFails(p) PROVE EffectsInOrder'
  BY <1>26 DEF StartFails
<1>27. ASSUME NEW p \in Proc, WorkProjected(p) PROVE EffectsInOrder'
  BY <1>27 DEF WorkProjected
<1>28. ASSUME NEW p \in Proc, ReadWork(p) PROVE EffectsInOrder'
  BY <1>28 DEF ReadWork
<1>29. ASSUME NEW p \in Proc, ProjectWork(p) PROVE EffectsInOrder'
  <2>1. CASE Goto(p, "project", "record") /\ UNCHANGED locked
    BY <1>29, <2>1 DEF ProjectWork
  <2>2. CASE KilledWith(p, {"work"})
    BY <1>29, <2>2 DEF ProjectWork
  <2> QED
    BY <1>29, <2>1, <2>2 DEF ProjectWork
<1>30. ASSUME NEW p \in Proc, ProjectFails(p) PROVE EffectsInOrder'
  BY <1>30 DEF ProjectFails
<1>31. ASSUME NEW p \in Proc, RecordFiles(p) PROVE EffectsInOrder'
  BY <1>31 DEF RecordFiles
<1>32. ASSUME NEW p \in Proc, Report(p) PROVE EffectsInOrder'
  BY <1>32 DEF Report
<1>33. ASSUME NEW p \in Proc, Crash(p) PROVE EffectsInOrder'
  BY <1>33 DEF Crash
<1>34. ASSUME NEW p \in Proc, CrashHolding(p) PROVE EffectsInOrder'
  BY <1>34 DEF CrashHolding
<1>35. ASSUME ChangeRelations PROVE EffectsInOrder'
  BY <1>35 DEF ChangeRelations
<1>36. ASSUME MoveParent PROVE EffectsInOrder'
  BY <1>36 DEF MoveParent
<1> QED
  BY <1>1, <1>2, <1>3, <1>4, <1>5, <1>6, <1>7, <1>8, <1>9, <1>10,
     <1>11, <1>12, <1>13, <1>14, <1>15, <1>16, <1>17, <1>18, <1>19, <1>20,
     <1>21, <1>22, <1>23, <1>24, <1>25, <1>26, <1>27, <1>28, <1>29, <1>30,
     <1>31, <1>32, <1>33, <1>34, <1>35, <1>36
  DEF Next, Step

\* Every step leaves what each process q knows true.
LEMMA MaterializingStep ==
  ASSUME IInv, [Next]_vars, NEW q \in Proc
  PROVE  Materializing(q)'
<1> USE DEF IInv, TypeOK, RecordsAgree, EffectsInOrder, Materializing, Idle, Life, Work, Revision, world, pc,
           Status, Goto, Hold, Return, Written, KilledWith
<1>1. CASE UNCHANGED vars
  BY <1>1 DEF vars
<1>2. ASSUME NEW p \in Proc, NEW s \in Session, Begin(p, s) PROVE Materializing(q)'
  BY <1>2 DEF Begin
<1>3. ASSUME NEW p \in Proc, Prepare(p) PROVE Materializing(q)'
  <2>1. CASE Goto(p, "prepare", "load") /\ UNCHANGED locked
    BY <1>3, <2>1 DEF Prepare
  <2>2. CASE KilledWith(p, {"coordinator", at[p].session})
    BY <1>3, <2>2 DEF Prepare
  <2> QED
    BY <1>3, <2>1, <2>2 DEF Prepare
<1>4. ASSUME NEW p \in Proc, Resume(p) PROVE Materializing(q)'
  BY <1>4 DEF Resume
<1>5. ASSUME NEW p \in Proc, PrepareFails(p) PROVE Materializing(q)'
  BY <1>5 DEF PrepareFails
<1>6. ASSUME NEW p \in Proc, LoadPrepared(p) PROVE Materializing(q)'
  BY <1>6 DEF LoadPrepared
<1>7. ASSUME NEW p \in Proc, LoadCommitted(p) PROVE Materializing(q)'
  BY <1>7 DEF LoadCommitted
<1>8. ASSUME NEW p \in Proc, LoadAborted(p) PROVE Materializing(q)'
  BY <1>8 DEF LoadAborted
<1>9. ASSUME NEW p \in Proc, Validate(p) PROVE Materializing(q)'
  BY <1>9 DEF Validate
<1>10. ASSUME NEW p \in Proc, ValidateFails(p) PROVE Materializing(q)'
  BY <1>10 DEF ValidateFails
<1>11. ASSUME NEW p \in Proc, AbortFails(p) PROVE Materializing(q)'
  BY <1>11 DEF AbortFails
<1>12. ASSUME NEW p \in Proc, Commit(p) PROVE Materializing(q)'
  <2>1. CASE Goto(p, "decide", "version") /\ UNCHANGED locked
    BY <1>12, <2>1 DEF Commit
  <2>2. CASE KilledWith(p, {at[p].session})
    BY <1>12, <2>2 DEF Commit
  <2> QED
    BY <1>12, <2>1, <2>2 DEF Commit
<1>13. ASSUME NEW p \in Proc, CommitFails(p) PROVE Materializing(q)'
  BY <1>13 DEF CommitFails
<1>14. ASSUME NEW p \in Proc, AssignVersion(p) PROVE Materializing(q)'
  BY <1>14 DEF AssignVersion
<1>15. ASSUME NEW p \in Proc, VersionAssigned(p) PROVE Materializing(q)'
  BY <1>15 DEF VersionAssigned
<1>16. ASSUME NEW p \in Proc, VersionForeign(p) PROVE Materializing(q)'
  BY <1>16 DEF VersionForeign
<1>17. ASSUME NEW p \in Proc, CreateBranch(p) PROVE Materializing(q)'
  BY <1>17 DEF CreateBranch
<1>18. ASSUME NEW p \in Proc, UseBranch(p) PROVE Materializing(q)'
  BY <1>18 DEF UseBranch
<1>19. ASSUME NEW p \in Proc, BranchUnmarked(p) PROVE Materializing(q)'
  BY <1>19 DEF BranchUnmarked
<1>20. ASSUME NEW p \in Proc, Checkout(p) PROVE Materializing(q)'
  BY <1>20 DEF Checkout
<1>21. ASSUME NEW p \in Proc, MarkBranch(p) PROVE Materializing(q)'
  BY <1>21 DEF MarkBranch
<1>22. ASSUME NEW p \in Proc, ReadStartable(p) PROVE Materializing(q)'
  BY <1>22 DEF ReadStartable, Startable
<1>23. ASSUME NEW p \in Proc, ReadActive(p) PROVE Materializing(q)'
  BY <1>23 DEF ReadActive
<1>24. ASSUME NEW p \in Proc, ReadRefused(p) PROVE Materializing(q)'
  BY <1>24 DEF ReadRefused
<1>25. ASSUME NEW p \in Proc, StartLifecycle(p) PROVE Materializing(q)'
  <2>1. pc(p) = "transition"
    BY <1>25 DEF StartLifecycle, Written
  <2>2. /\ life = found.life /\ life.state \in Startable /\ life.revision \in Int
        /\ branch = "marked" /\ head = "work" /\ Status(p) = "committed" /\ version = "mine"
    BY <1>25, <2>1, InheritedAssumption DEF StartLifecycle
  <2>3. work = NoWork /\ life.state # "active"
    BY <2>2 DEF Startable
  <2>4. CASE Goto(p, "transition", "current") /\ UNCHANGED locked
    BY <1>25, <2>1, <2>2, <2>3, <2>4 DEF StartLifecycle, NoWork, Startable
  <2>5. CASE KilledWith(p, {"lifecycle"})
    BY <1>25, <2>1, <2>2, <2>3, <2>5 DEF StartLifecycle, NoWork, Startable
  <2> QED
    BY <1>25, <2>4, <2>5 DEF StartLifecycle
<1>26. ASSUME NEW p \in Proc, StartFails(p) PROVE Materializing(q)'
  BY <1>26 DEF StartFails
<1>27. ASSUME NEW p \in Proc, WorkProjected(p) PROVE Materializing(q)'
  BY <1>27, InheritedAssumption DEF WorkProjected, NoWork, NoLife
<1>28. ASSUME NEW p \in Proc, ReadWork(p) PROVE Materializing(q)'
  BY <1>28 DEF ReadWork
<1>29. ASSUME NEW p \in Proc, ProjectWork(p) PROVE Materializing(q)'
  <2>1. CASE Goto(p, "project", "record") /\ UNCHANGED locked
    BY <1>29, <2>1 DEF ProjectWork
  <2>2. CASE KilledWith(p, {"work"})
    BY <1>29, <2>2 DEF ProjectWork
  <2> QED
    BY <1>29, <2>1, <2>2 DEF ProjectWork
<1>30. ASSUME NEW p \in Proc, ProjectFails(p) PROVE Materializing(q)'
  BY <1>30 DEF ProjectFails
<1>31. ASSUME NEW p \in Proc, RecordFiles(p) PROVE Materializing(q)'
  BY <1>31 DEF RecordFiles
<1>32. ASSUME NEW p \in Proc, Report(p) PROVE Materializing(q)'
  BY <1>32 DEF Report
<1>33. ASSUME NEW p \in Proc, Crash(p) PROVE Materializing(q)'
  BY <1>33 DEF Crash
<1>34. ASSUME NEW p \in Proc, CrashHolding(p) PROVE Materializing(q)'
  BY <1>34 DEF CrashHolding
<1>35. ASSUME ChangeRelations PROVE Materializing(q)'
  BY <1>35 DEF ChangeRelations
<1>36. ASSUME MoveParent PROVE Materializing(q)'
  BY <1>36 DEF MoveParent
<1> QED
  BY <1>1, <1>2, <1>3, <1>4, <1>5, <1>6, <1>7, <1>8, <1>9, <1>10,
     <1>11, <1>12, <1>13, <1>14, <1>15, <1>16, <1>17, <1>18, <1>19, <1>20,
     <1>21, <1>22, <1>23, <1>24, <1>25, <1>26, <1>27, <1>28, <1>29, <1>30,
     <1>31, <1>32, <1>33, <1>34, <1>35, <1>36
  DEF Next, Step

LEMMA StepIInv == ASSUME IInv, [Next]_vars PROVE IInv'
<1>1. \A p \in Proc : Materializing(p)'
  BY MaterializingStep
<1> QED
  BY <1>1, TypeStep, RecordsStep, OrderStep DEF IInv

\* The types, the agreement of the records, the order of the effects and what
\* each process knows hold throughout.
THEOREM Invariance == Spec => []IInv
BY InitIInv, StepIInv, PTL DEF Spec

\* A start becomes visible in the order of start_issue, under any
\* interleaving and whoever is killed.
THEOREM Ordered == Spec => []EffectsInOrder
<1>1. IInv => EffectsInOrder
  BY DEF IInv
<1> QED
  BY <1>1, Invariance, PTL

\* Replaying a start never writes the lifecycle or the current work again.
THEOREM Quiet == Spec => []ReplayIsQuiet
<1>1. IInv => ReplayIsQuiet
  BY DEF IInv, RecordsAgree, ReplayIsQuiet
<1> QED
  BY <1>1, Invariance, PTL

\* A call that reports success leaves the issue started.
THEOREM Reported == Spec => []ReportedIsStarted
<1>1. IInv => ReportedIsStarted
  BY DEF IInv, TypeOK, RecordsAgree, Materializing, ReportedIsStarted
<1> QED
  BY <1>1, Invariance, PTL

----------------------------------------------------------------------------
(***************************************************************************)
(* Delivery                                                                 *)
(***************************************************************************)

\* One commit follows another, in a graph of commits.
Follows(commits, new, old) == new = old \/ old \in commits[new].past

\* What a command with the memory l knows of the way that HEAD, now at h, has come.
Knows(t, commits, l, h) ==
  /\ l.pc \in Deliver(t)!Validated \cup Deliver(t)!Deciding => Follows(commits, h, l.candidate)
  /\ l.pc \in {"generating", "testing"} =>
       Follows(commits, h, l.before.head) /\ Follows(commits, l.before.head, l.candidate)
  /\ l.pc \in Deliver(t)!Found => \A r \in l.results :
       /\ Follows(commits, h, r.commit)
       /\ r.environment # "artifacts" => Follows(commits, r.commit, l.candidate)
  /\ l.pc = "testing" => \A r \in l.results : Follows(commits, l.before.head, r.commit)
  /\ l.pc \in {"ready", "testing"} => l.testing \in Team[t].env
  /\ l.pc \in {"collect", "revalidate"} => \A r \in l.results : r.environment = "artifacts"
  /\ l.pc = "publish" => l.kind = "push"
  /\ l.pc \in Deliver(t)!Deciding =>
       /\ l.outcome = Deliver(t)!Outcome(l.results) /\ l.outcome # "INCOMPLETE"
       /\ \A r \in l.results :
            /\ Follows(commits, l.candidate, r.commit)
            /\ l.kind # "push" /\ r.environment # "artifacts" => r.commit = l.candidate

LEMMA GoesOnIs ==
  ASSUME NEW t, NEW p
  PROVE  Deliver(t)!HeadGoesOn(p) <=> Knows(t, slot1, slot6[p], slot2[p])
BY DEF Deliver!HeadGoesOn, Knows, Deliver!pc, Deliver!Descends, Follows, Deliver!Artifacts

\* Tags that were tested, and a memory and a checkout that the invariant allows.
TestedTags(t) == {tag \in Deliver(t)!Tag : Deliver(t)!Tested(tag)}
Fit(t, l) ==
  /\ l \in Deliver(t)!Local
  /\ {l.start.head, l.before.head, l.candidate} \subseteq Deliver(t)!Made
  /\ l.start.tags \cup l.before.tags \subseteq TestedTags(t)

LEMMA AtPlace ==
  ASSUME NEW t, Deliver(t)!IInv, NEW p \in Deliver(t)!Place
  PROVE  /\ Fit(t, slot6[p]) /\ Knows(t, slot1, slot6[p], slot2[p])
         /\ slot2[p] \in Deliver(t)!Made /\ slot4[p] \subseteq TestedTags(t)
<1>1. slot6[p] \in Deliver(t)!Local /\ slot2[p] \in Deliver(t)!Made /\ slot4[p] \subseteq Deliver(t)!Tag
  BY DEF Deliver!IInv, Deliver!TypeOK
<1>2. slot6[p].start.tags \subseteq Deliver(t)!Tag /\ slot6[p].before.tags \subseteq Deliver(t)!Tag
  BY <1>1 DEF Deliver!Local, Deliver!State
<1>3. \A tag \in slot4[p] \cup slot6[p].start.tags \cup slot6[p].before.tags : Deliver(t)!Tested(tag)
  BY DEF Deliver!IInv, Deliver!AllTested
<1>4. /\ slot4[p] \subseteq TestedTags(t)
      /\ slot6[p].start.tags \cup slot6[p].before.tags \subseteq TestedTags(t)
  BY <1>1, <1>2, <1>3, Zenon DEF TestedTags
<1>5. {slot6[p].start.head, slot6[p].before.head, slot6[p].candidate} \subseteq Deliver(t)!Made
  BY DEF Deliver!IInv, Deliver!TypeOK
<1>6. Knows(t, slot1, slot6[p], slot2[p])
  BY GoesOnIs DEF Deliver!IInv
<1> QED
  BY <1>1, <1>4, <1>5, <1>6 DEF Fit

LEMMA AtRemote ==
  ASSUME NEW t, Deliver(t)!IInv
  PROVE  /\ slot5.tip \in Deliver(t)!Made /\ slot5.tags \subseteq TestedTags(t)
         /\ slot5 = [tip |-> slot5.tip, tags |-> slot5.tags]
         /\ \A tag \in slot5.tags : Follows(slot1, slot5.tip, tag.commit)
         /\ Deliver(t)!Made \subseteq Nat /\ 1 \in Deliver(t)!Made /\ Deliver(t)!Made = DOMAIN slot1
         /\ slot1 \in Seq(Deliver(t)!CommitRecord) /\ Len(slot1) \in Nat
         /\ slot3 \in [Team[t].clones -> BOOLEAN]
<1>1. Deliver(t)!TypeOK
  BY DEF Deliver!IInv
<1>2. /\ slot5 \in [tip : Deliver(t)!Made, tags : SUBSET Deliver(t)!Tag]
      /\ slot1 \in Seq(Deliver(t)!CommitRecord) /\ slot3 \in [Team[t].clones -> BOOLEAN]
  BY <1>1 DEF Deliver!TypeOK
<1>3. Len(slot1) \in Nat /\ DOMAIN slot1 = 1..Len(slot1)
  BY <1>2
<1>4. Deliver(t)!Made \subseteq Nat /\ 1 \in Deliver(t)!Made /\ Deliver(t)!Made = DOMAIN slot1
  BY <1>2, <1>3 DEF Deliver!Made
<1>5. slot5.tags \subseteq TestedTags(t)
  BY <1>2 DEF TestedTags, Deliver!IInv, Deliver!AllTested
<1>6. \A tag \in slot5.tags : Follows(slot1, slot5.tip, tag.commit)
  BY DEF Deliver!IInv, Deliver!OutcomeOnBranch, Deliver!Descends, Follows
<1> QED
  BY <1>2, <1>3, <1>4, <1>5, <1>6

\* The order of the commits.
Ordered1(commits) ==
  \A new \in 1..Len(commits) :
    /\ commits[new].past \subseteq 1..(new - 1)
    /\ \A old \in commits[new].past : commits[old].past \subseteq commits[new].past

LEMMA FollowsOrder ==
  ASSUME NEW commits, Len(commits) \in Nat, Ordered1(commits), NEW c \in 1..Len(commits), NEW b, NEW a,
         Follows(commits, c, b)
  PROVE  /\ b \in 1..Len(commits)
         /\ Follows(commits, b, a) => Follows(commits, c, a)
         /\ Follows(commits, b, c) => b = c
<1>1. b = c \/ b \in 1..(c - 1)
  BY DEF Follows, Ordered1
<1>2. b \in 1..Len(commits)
  BY <1>1
<1>3. Follows(commits, b, a) => Follows(commits, c, a)
  BY <1>2 DEF Follows, Ordered1
<1>4. Follows(commits, b, c) => b = c
  <2>1. ASSUME b # c, Follows(commits, b, c) PROVE FALSE
    <3>1. c \in 1..(b - 1) /\ b \in 1..(c - 1)
      BY <1>1, <1>2, <2>1 DEF Follows, Ordered1
    <3> QED
      BY <3>1
  <2> QED
    BY <2>1
<1> QED
  BY <1>2, <1>3, <1>4

LEMMA AncestryIs ==
  ASSUME NEW t PROVE Deliver(t)!Ancestry <=> Ordered1(slot1)
BY DEF Deliver!Ancestry, Ordered1, Deliver!Made

\* Knowledge stays when HEAD goes on, and when commits are added.
LEMMA KnowsOn ==
  ASSUME NEW t, NEW commits, Len(commits) \in Nat, Ordered1(commits), NEW l, NEW h, NEW new,
         new \in 1..Len(commits), Follows(commits, new, h), Knows(t, commits, l, h)
  PROVE  Knows(t, commits, l, new)
<1>1. \A a : Follows(commits, h, a) => Follows(commits, new, a)
  BY FollowsOrder
<1> QED
  BY <1>1, ZenonT(60) DEF Knows

LEMMA KnowsStays ==
  ASSUME NEW t, NEW old, NEW commits, Len(old) \in Nat, Ordered1(old), NEW l, NEW h,
         {h, l.before.head, l.candidate} \subseteq 1..Len(old),
         \A i \in 1..Len(old) : commits[i] = old[i], Knows(t, old, l, h)
  PROVE  Knows(t, commits, l, h)
<1>1. \A new \in 1..Len(old) : \A a : Follows(old, new, a) => Follows(commits, new, a)
  BY DEF Follows
<1>2. \A a : Follows(old, h, a) => a \in 1..Len(old)
  BY FollowsOrder
<1>3. h \in 1..Len(old) /\ l.before.head \in 1..Len(old) /\ l.candidate \in 1..Len(old)
  OBVIOUS
<1> QED
  BY <1>1, <1>2, <1>3, ZenonT(60) DEF Knows

\* A step that lets one place p move, to the memory l, the commit h and the tags ts.
Moves(t, p, l, h, ts) ==
  /\ p \in Deliver(t)!Place
  /\ slot6' = [slot6 EXCEPT ![p] = l]
  /\ slot2' = [slot2 EXCEPT ![p] = h]
  /\ slot4' = [slot4 EXCEPT ![p] = ts]

\* No commit is taken back, and the branch moves forward only.
Forward(t) ==
  /\ Len(slot1') \in Nat /\ Len(slot1) <= Len(slot1') /\ \A i \in 1..Len(slot1) : slot1'[i] = slot1[i]
  /\ slot1' \in Seq(Deliver(t)!CommitRecord)
  /\ Ordered1(slot1')
  /\ slot5' \in [tip : 1..Len(slot1'), tags : SUBSET Deliver(t)!Tag] /\ Follows(slot1', slot5'.tip, slot5.tip)
  /\ \A tag \in slot5'.tags : Deliver(t)!Tested(tag)' /\ Follows(slot1', slot5'.tip, tag.commit)
  /\ slot3' \in [Team[t].clones -> BOOLEAN]

\* What p has afterwards is as the invariant asks.
Remembers(t, p, l, h, ts) ==
  /\ l \in Deliver(t)!Local /\ {l.start.head, l.before.head, l.candidate, h} \subseteq 1..Len(slot1')
  /\ ts \subseteq Deliver(t)!Tag
  /\ \A tag \in ts \cup l.start.tags \cup l.before.tags : Deliver(t)!Tested(tag)'
  /\ Knows(t, slot1', l, h)
  /\ p \in Team[t].runners /\ l.pc # "idle" => Follows(slot1', slot5'.tip, h)

\* A commit that was made keeps its ancestors, a tag that was tested stays so.
LEMMA StaysTested ==
  ASSUME NEW t, NEW tag, Forward(t), Len(slot1) \in Nat, DOMAIN slot1 = 1..Len(slot1), Deliver(t)!Tested(tag)
  PROVE  Deliver(t)!Tested(tag)'
<1>1. DOMAIN slot1' = 1..Len(slot1') /\ Len(slot1') \in Nat /\ Len(slot1) <= Len(slot1')
  BY DEF Forward
<1>2. tag.commit \in 1..Len(slot1)
  BY DEF Deliver!Tested
<1>3. tag.commit \in DOMAIN slot1' /\ slot1'[tag.commit] = slot1[tag.commit]
  BY <1>1, <1>2 DEF Forward
<1> QED
  BY <1>3 DEF Deliver!Tested, Deliver!Had, Deliver!Descends, Deliver!Checks, Deliver!Artifacts

LEMMA MovedIInv ==
  ASSUME NEW t \in DOMAIN Team, Deliver(t)!IInv, NEW p, NEW l, NEW h, NEW ts,
         Moves(t, p, l, h, ts), Remembers(t, p, l, h, ts), Forward(t)
  PROVE  Deliver(t)!IInv'
<1>0. Deliver(t)!TypeOK /\ Len(slot1) \in Nat /\ DOMAIN slot1 = 1..Len(slot1) /\ Deliver(t)!Made = 1..Len(slot1)
  BY AtRemote DEF Deliver!IInv, Deliver!Made
<1>1. /\ p \in Deliver(t)!Place /\ slot6'[p] = l /\ slot2'[p] = h /\ slot4'[p] = ts
      /\ \A q \in Deliver(t)!Place \ {p} : slot6'[q] = slot6[q] /\ slot2'[q] = slot2[q] /\ slot4'[q] = slot4[q]
  BY <1>0 DEF Moves, Deliver!TypeOK
<1>2. Len(slot1') \in Nat /\ 1..Len(slot1) \subseteq 1..Len(slot1') /\ Deliver(t)!Made' = 1..Len(slot1')
  BY <1>0 DEF Forward, Deliver!Made
<1>3. Deliver(t)!TypeOK'
  <2>1. slot2' \in [Deliver(t)!Place -> 1..Len(slot1')]
    BY <1>0, <1>2 DEF Moves, Remembers, Deliver!TypeOK
  <2>2. slot6' \in [Deliver(t)!Place -> Deliver(t)!Local]
    BY <1>0 DEF Moves, Remembers, Deliver!TypeOK
  <2>3. ASSUME NEW q \in Deliver(t)!Place
        PROVE  {slot6'[q].start.head, slot6'[q].before.head, slot6'[q].candidate} \subseteq 1..Len(slot1')
    <3>1. CASE q = p
      BY <1>1, <3>1 DEF Remembers
    <3>2. CASE q # p
      <4>1. {slot6[q].start.head, slot6[q].before.head, slot6[q].candidate} \subseteq 1..Len(slot1)
        BY <1>0 DEF Deliver!TypeOK
      <4> QED
        BY <1>1, <1>2, <3>2, <4>1
    <3> QED
      BY <3>1, <3>2
  <2>4. slot4' \in [Deliver(t)!Place -> SUBSET Deliver(t)!Tag]
    BY <1>0 DEF Moves, Remembers, Deliver!TypeOK
  <2> QED
    BY <1>2, <2>1, <2>2, <2>3, <2>4 DEF Forward, Deliver!TypeOK, Deliver!Place
<1>4. \A tag : Deliver(t)!Tested(tag) => Deliver(t)!Tested(tag)'
  BY <1>0, StaysTested
<1>5. Deliver(t)!AllTested'
  <2>1. ASSUME NEW q \in Deliver(t)!Place, NEW tag \in slot4'[q] \cup slot6'[q].start.tags \cup slot6'[q].before.tags
        PROVE  Deliver(t)!Tested(tag)'
    <3>1. CASE q = p
      BY <1>1, <2>1, <3>1 DEF Remembers
    <3>2. CASE q # p
      <4>1. tag \in slot4[q] \cup slot6[q].start.tags \cup slot6[q].before.tags
        BY <1>1, <2>1, <3>2
      <4> QED
        BY <1>4, <4>1 DEF Deliver!IInv, Deliver!AllTested
    <3> QED
      BY <3>1, <3>2
  <2> QED
    BY <2>1 DEF Forward, Deliver!AllTested, Deliver!Place
<1>6. Deliver(t)!OutcomeOnBranch'
  BY DEF Forward, Deliver!OutcomeOnBranch, Deliver!Descends, Follows
<1>7. Deliver(t)!Ancestry'
  BY AncestryIs DEF Forward, Deliver!Ancestry, Ordered1, Deliver!Made
<1>8. Ordered1(slot1)
  BY AncestryIs DEF Deliver!IInv
<1>9. ASSUME NEW q \in Deliver(t)!Place PROVE Deliver(t)!HeadGoesOn(q)'
  <2>1. CASE q = p
    <3>1. Knows(t, slot1', slot6'[q], slot2'[q])
      BY <1>1, <2>1 DEF Remembers
    <3> QED
      BY <3>1 DEF Deliver!HeadGoesOn, Knows, Deliver!pc, Deliver!Descends, Follows, Deliver!Artifacts
  <2>2. CASE q # p
    <3>1. Knows(t, slot1, slot6[q], slot2[q])
      BY AtPlace
    <3>2. {slot2[q], slot6[q].before.head, slot6[q].candidate} \subseteq 1..Len(slot1)
      BY <1>0 DEF Deliver!TypeOK
    <3>3. \A i \in 1..Len(slot1) : slot1'[i] = slot1[i]
      BY DEF Forward
    <3>4. Knows(t, slot1', slot6[q], slot2[q])
      BY <1>0, <1>8, <3>1, <3>2, <3>3, KnowsStays
    <3>5. Knows(t, slot1', slot6'[q], slot2'[q])
      BY <1>1, <2>2, <3>4
    <3> QED
      BY <3>5 DEF Deliver!HeadGoesOn, Knows, Deliver!pc, Deliver!Descends, Follows, Deliver!Artifacts
  <2> QED
    BY <2>1, <2>2
<1>10. ASSUME NEW q \in Deliver(t)!Place PROVE Deliver(t)!RunnerBehind(q)'
  <2>1. CASE q = p
    BY <1>1, <2>1 DEF Remembers, Deliver!RunnerBehind, Deliver!pc, Deliver!Descends, Follows
  <2>2. CASE q # p /\ q \in Team[t].runners /\ slot6'[q].pc # "idle"
    <3>1. slot5.tip \in 1..Len(slot1) /\ Follows(slot1, slot5.tip, slot2[q])
      BY <1>0, <1>1, <2>2 DEF Deliver!IInv, Deliver!TypeOK, Deliver!RunnerBehind, Deliver!pc, Deliver!Descends, Follows
    <3>2. Follows(slot1', slot5.tip, slot2[q])
      BY <3>1 DEF Forward, Follows
    <3>3. Follows(slot1', slot5'.tip, slot2[q])
      <4>1. slot5'.tip \in 1..Len(slot1')
        BY DEF Forward
      <4> QED
        BY <1>2, <3>2, <4>1, FollowsOrder DEF Forward
    <3> QED
      BY <1>1, <2>2, <3>3 DEF Deliver!RunnerBehind, Deliver!pc, Deliver!Descends, Follows
  <2> QED
    BY <2>1, <2>2 DEF Deliver!RunnerBehind, Deliver!pc
<1> QED
  BY <1>3, <1>5, <1>6, <1>7, <1>9, <1>10 DEF Deliver!IInv, Deliver!Place

\* A step that adds no commit and leaves the remote alone.
LEMMA QuietForward ==
  ASSUME NEW t \in DOMAIN Team, Deliver(t)!IInv, slot1' = slot1, slot5' = slot5, slot3' \in [Team[t].clones -> BOOLEAN]
  PROVE  Forward(t) /\ \A tag : Deliver(t)!Tested(tag) => Deliver(t)!Tested(tag)'
<1>1. \A tag : Deliver(t)!Tested(tag) => Deliver(t)!Tested(tag)'
  BY DEF Deliver!Tested, Deliver!Had, Deliver!Descends, Deliver!Checks, Deliver!Artifacts
<1>2. slot1 \in Seq(Deliver(t)!CommitRecord) /\ Len(slot1) \in Nat /\ Ordered1(slot1)
  BY AtRemote, AncestryIs DEF Deliver!IInv
<1>3. slot5 \in [tip : 1..Len(slot1), tags : SUBSET Deliver(t)!Tag]
  BY DEF Deliver!IInv, Deliver!TypeOK, Deliver!Made
<1>4. \A tag \in slot5.tags : Deliver(t)!Tested(tag) /\ Follows(slot1, slot5.tip, tag.commit)
  BY DEF Deliver!IInv, Deliver!AllTested, Deliver!OutcomeOnBranch, Deliver!Descends, Follows
<1> QED
  BY <1>1, <1>2, <1>3, <1>4 DEF Forward, Follows

LEMMA QuietIInv ==
  ASSUME NEW t \in DOMAIN Team, Deliver(t)!IInv, NEW p, NEW l, NEW h, NEW ts,
         Moves(t, p, l, h, ts), slot1' = slot1, slot5' = slot5, slot3' \in [Team[t].clones -> BOOLEAN],
         Fit(t, l), h \in Deliver(t)!Made, ts \subseteq TestedTags(t), Knows(t, slot1, l, h),
         p \in Team[t].runners /\ l.pc # "idle" => Follows(slot1, slot5.tip, h)
  PROVE  Deliver(t)!IInv'
<1>1. Forward(t) /\ \A tag : Deliver(t)!Tested(tag) => Deliver(t)!Tested(tag)'
  BY QuietForward
<1>2. ts \subseteq Deliver(t)!Tag /\ \A tag \in ts \cup l.start.tags \cup l.before.tags : Deliver(t)!Tested(tag)'
  BY <1>1, Zenon DEF TestedTags, Fit
<1>3. Remembers(t, p, l, h, ts)
  BY <1>2 DEF Remembers, Fit, Deliver!Made
<1> QED
  BY <1>1, <1>3, MovedIInv

\* Whoever is idle, or at the beginning, knows nothing of a commit.
Early == {"idle", "policy", "version", "validate"}

LEMMA EarlyKnows == ASSUME NEW t, NEW commits, NEW l, l.pc \in Early, NEW h PROVE Knows(t, commits, l, h)
BY DEF Knows, Early, Deliver!Validated, Deliver!Found, Deliver!Deciding

LEMMA IdleLocal ==
  ASSUME NEW t
  PROVE  Deliver(t)!Idle \in Deliver(t)!Local /\ Deliver(t)!Idle.pc = "idle"
<1>1. {} \in Deliver(t)!Results
  BY DEF Deliver!Results
<1>2. Deliver(t)!Unborn \in Deliver(t)!State
  BY DEF Deliver!Unborn, Deliver!State
<1> HIDE DEF Deliver!Unborn, Deliver!State
<1> QED
  BY <1>1, <1>2 DEF Deliver!Local, Deliver!PCs, Deliver!Idle, Deliver!Status

LEMMA IdleKnows == ASSUME NEW t, NEW commits, NEW h PROVE Knows(t, commits, Deliver(t)!Idle, h)
BY IdleLocal, EarlyKnows DEF Early

LEMMA IdleFit ==
  ASSUME NEW t, Deliver(t)!IInv
  PROVE  Fit(t, Deliver(t)!Idle) /\ Deliver(t)!Idle.pc = "idle"
<1>1. /\ Deliver(t)!Idle.start.head = 1 /\ Deliver(t)!Idle.before.head = 1 /\ Deliver(t)!Idle.candidate = 1
      /\ Deliver(t)!Idle.start.tags = {} /\ Deliver(t)!Idle.before.tags = {}
  BY DEF Deliver!Idle, Deliver!Unborn
<1>2. 1 \in Deliver(t)!Made
  BY AtRemote
<1>3. {Deliver(t)!Idle.start.head, Deliver(t)!Idle.before.head, Deliver(t)!Idle.candidate} \subseteq Deliver(t)!Made
  BY <1>1, <1>2
<1>4. Deliver(t)!Idle.start.tags \cup Deliver(t)!Idle.before.tags \subseteq TestedTags(t)
  BY <1>1
<1> HIDE DEF Deliver!Idle
<1> QED
  BY <1>3, <1>4, IdleLocal DEF Fit

\* A command goes on, or ends, where it is; tags come and go.
LEMMA GoesOn ==
  ASSUME NEW t \in DOMAIN Team, Deliver(t)!IInv, NEW p \in Deliver(t)!Place, NEW l, NEW ts,
         slot6' = [slot6 EXCEPT ![p] = l], slot2' = slot2, slot4' = [slot4 EXCEPT ![p] = ts],
         slot1' = slot1, slot5' = slot5, slot3' \in [Team[t].clones -> BOOLEAN],
         Fit(t, l), ts \subseteq TestedTags(t), Knows(t, slot1, l, slot2[p]),
         p \notin Team[t].runners \/ slot6[p].pc # "idle" \/ l.pc = "idle"
  PROVE  Deliver(t)!IInv'
<1>1. Moves(t, p, l, slot2[p], ts)
  BY DEF Moves, Deliver!IInv, Deliver!TypeOK
<1>2. slot2[p] \in Deliver(t)!Made
  BY AtPlace
<1>3. p \in Team[t].runners /\ l.pc # "idle" => Follows(slot1, slot5.tip, slot2[p])
  BY DEF Deliver!IInv, Deliver!RunnerBehind, Deliver!pc, Deliver!Descends, Follows
<1> QED
  BY <1>1, <1>2, <1>3, QuietIInv

LEMMA SameTags ==
  ASSUME NEW t, Deliver(t)!IInv, NEW p, slot4' = slot4
  PROVE  slot4' = [slot4 EXCEPT ![p] = slot4[p]]
BY DEF Deliver!IInv, Deliver!TypeOK

\* The same, if it leaves the tags and the worktree alone.
LEMMA StepIInvD ==
  ASSUME NEW t \in DOMAIN Team, Deliver(t)!IInv, NEW p \in Deliver(t)!Place, NEW l,
         slot6' = [slot6 EXCEPT ![p] = l],
         slot1' = slot1, slot2' = slot2, slot3' = slot3, slot4' = slot4, slot5' = slot5,
         Fit(t, l), Knows(t, slot1, l, slot2[p]),
         p \notin Team[t].runners \/ slot6[p].pc # "idle" \/ l.pc = "idle"
  PROVE  Deliver(t)!IInv'
BY SameTags, AtPlace, AtRemote, GoesOn

\* The repository is restored.
LEMMA RestoredIInv ==
  ASSUME NEW t \in DOMAIN Team, Deliver(t)!IInv, NEW p \in Deliver(t)!Place, NEW l,
         NEW h \in Deliver(t)!Made, NEW ts \in SUBSET TestedTags(t),
         slot6' = [slot6 EXCEPT ![p] = l], slot2' = [slot2 EXCEPT ![p] = h], slot4' = [slot4 EXCEPT ![p] = ts],
         slot1' = slot1, slot5' = slot5, slot3' = [c \in Team[t].clones |-> slot3[c] /\ c # p],
         Fit(t, l), Knows(t, slot1, l, h),
         p \in Team[t].runners /\ l.pc # "idle" => Follows(slot1, slot5.tip, h)
  PROVE  Deliver(t)!IInv'
<1>1. Moves(t, p, l, h, ts)
  BY DEF Moves
<1>2. slot3' \in [Team[t].clones -> BOOLEAN]
  OBVIOUS
<1> QED
  BY <1>1, <1>2, QuietIInv

LEMMA RaiseIInv ==
  ASSUME NEW t \in DOMAIN Team, Deliver(t)!IInv, NEW p \in Deliver(t)!Place, Deliver(t)!Raise(p)
  PROVE  Deliver(t)!IInv'
<1>1. slot1' = slot1 /\ slot5' = slot5 /\ slot6' = [slot6 EXCEPT ![p] = Deliver(t)!Idle]
  BY DEF Deliver!Raise, Deliver!Undo
<1>2. Fit(t, Deliver(t)!Idle) /\ \A h : Knows(t, slot1, Deliver(t)!Idle, h)
  BY IdleFit, IdleKnows
<1>3. CASE p \in Team[t].clones
  <2>1. /\ slot2' = [slot2 EXCEPT ![p] = slot6[p].start.head] /\ slot4' = [slot4 EXCEPT ![p] = slot6[p].start.tags]
        /\ slot3' = [c \in Team[t].clones |-> slot3[c] /\ c # p]
    BY <1>3 DEF Deliver!Raise, Deliver!Undo, Deliver!Restore
  <2>2. slot6[p].start.head \in Deliver(t)!Made /\ slot6[p].start.tags \in SUBSET TestedTags(t)
    BY AtPlace DEF Fit
  <2> QED
    BY <1>1, <1>2, <2>1, <2>2, IdleFit, RestoredIInv
<1>4. CASE p \notin Team[t].clones
  <2>1. slot2' = slot2 /\ slot4' = slot4 /\ slot3' = slot3
    BY <1>4 DEF Deliver!Raise
  <2> QED
    BY <1>1, <1>2, <2>1, IdleFit, StepIInvD
<1> QED
  BY <1>3, <1>4

\* The checked out commit, as a record.
LEMMA TipType ==
  ASSUME NEW t, Deliver(t)!IInv, NEW p \in Deliver(t)!Place
  PROVE  /\ slot2[p] \in 1..Len(slot1) /\ slot2[p] \in Nat
         /\ Deliver(t)!Tip(p) = slot1[slot2[p]] /\ Deliver(t)!Tip(p) \in Deliver(t)!CommitRecord
         /\ Deliver(t)!Tip(p).version \in Nat
<1>1. slot2[p] \in 1..Len(slot1) /\ slot1 \in Seq(Deliver(t)!CommitRecord)
  BY AtPlace, AtRemote DEF Deliver!Made
<1>2. slot1[slot2[p]] \in Deliver(t)!CommitRecord
  BY <1>1
<1> QED
  BY <1>1, <1>2 DEF Deliver!Tip, Deliver!CommitRecord

LEMMA BeginIInv ==
  ASSUME NEW t \in DOMAIN Team, Deliver(t)!IInv, NEW c \in Team[t].clones, c \notin Team[t].runners,
         NEW kind \in {"local", "push"}, Deliver(t)!Begin(c, kind)
  PROVE  Deliver(t)!IInv'
<1> DEFINE l == [Deliver(t)!Idle EXCEPT !.pc = "policy", !.kind = kind, !.start = Deliver(t)!Now(c)]
<1>1. /\ c \in Deliver(t)!Place /\ slot6' = [slot6 EXCEPT ![c] = l]
      /\ slot4' = slot4 /\ slot2' = slot2 /\ slot1' = slot1 /\ slot5' = slot5 /\ slot3' = slot3
  BY DEF Deliver!Begin, Deliver!Place
<1>2. slot2[c] \in Deliver(t)!Made /\ slot4[c] \subseteq TestedTags(t) /\ Deliver(t)!Made \subseteq Nat
  BY <1>1, AtPlace, AtRemote
<1>3. Deliver(t)!Now(c) \in Deliver(t)!State /\ Deliver(t)!Now(c).head = slot2[c] /\ Deliver(t)!Now(c).tags = slot4[c]
  BY <1>2 DEF Deliver!Now, Deliver!State, TestedTags
<1>4. Fit(t, Deliver(t)!Idle)
  BY IdleFit
<1>5. l \in Deliver(t)!Local
  <2>1. Deliver(t)!Idle \in Deliver(t)!Local
    BY <1>4 DEF Fit
  <2> QED
    BY <1>3, <2>1 DEF Deliver!Local, Deliver!PCs
<1>6. /\ l.pc = "policy" /\ l.start = Deliver(t)!Now(c)
      /\ l.before = Deliver(t)!Idle.before /\ l.candidate = Deliver(t)!Idle.candidate
  <2>1. Deliver(t)!Idle \in Deliver(t)!Local
    BY <1>4 DEF Fit
  <2> QED
    BY <2>1 DEF Deliver!Local
<1> HIDE DEF l
<1>7. Fit(t, l)
  BY <1>2, <1>3, <1>4, <1>5, <1>6 DEF Fit
<1>8. Knows(t, slot1, l, slot2[c])
  BY <1>6, EarlyKnows DEF Early
<1> QED
  BY <1>1, <1>7, <1>8, StepIInvD

\* A memory that keeps the repository's states, and names a commit.
LEMMA KeepsFit ==
  ASSUME NEW t, NEW l, Fit(t, l), NEW m \in Deliver(t)!Local, m.start = l.start, m.before = l.before,
         m.candidate = l.candidate \/ m.candidate \in Deliver(t)!Made
  PROVE  Fit(t, m)
BY DEF Fit

\* The steps of prepare_development_candidate that change the memory only.
LEMMA PrepareIInv ==
  ASSUME NEW t \in DOMAIN Team, Deliver(t)!IInv, NEW c \in Team[t].clones, c \notin Team[t].runners,
         Deliver(t)!Prepare(c) \/ Deliver(t)!AdvanceIteration(c) \/ Deliver(t)!KeepRequest(c)
  PROVE  Deliver(t)!IInv'
<1>1. /\ c \in Deliver(t)!Place /\ slot4' = slot4 /\ slot2' = slot2 /\ slot1' = slot1 /\ slot5' = slot5
      /\ slot3' = slot3
  BY DEF Deliver!Prepare, Deliver!AdvanceIteration, Deliver!KeepRequest, Deliver!Place
<1>2. Fit(t, slot6[c]) /\ slot6[c] \in Deliver(t)!Local /\ slot6[c].version \in Nat
  BY <1>1, AtPlace DEF Fit, Deliver!Local
<1>3. PICK to \in Early, v \in Nat, prepared \in BOOLEAN :
        slot6' = [slot6 EXCEPT ![c] = [slot6[c] EXCEPT !.pc = to, !.version = v, !.prepared = prepared]]
  <2>1. CASE Deliver(t)!Prepare(c)
    <3>1. Deliver(t)!Tip(c).version \in Nat
      BY <1>1, TipType
    <3> DEFINE v == Deliver(t)!Tip(c).version
    <3>2. slot6' = [slot6 EXCEPT ![c] = [slot6[c] EXCEPT !.pc = "version", !.version = v]]
      BY <2>1 DEF Deliver!Prepare
    <3> HIDE DEF v
    <3>3. [slot6[c] EXCEPT !.pc = "version", !.version = v]
            = [slot6[c] EXCEPT !.pc = "version", !.version = v, !.prepared = slot6[c].prepared]
      BY <1>2 DEF Deliver!Local
    <3>4. v \in Nat /\ slot6[c].prepared \in BOOLEAN
      BY <1>2, <3>1 DEF Deliver!Local, v
    <3> QED
      BY <3>2, <3>3, <3>4 DEF Early
  <2>2. CASE Deliver(t)!AdvanceIteration(c)
    <3>1. slot6' = [slot6 EXCEPT ![c] = [slot6[c] EXCEPT !.version = slot6[c].version + 1, !.prepared = TRUE]] /\ slot6[c].pc = "version"
      BY <2>2 DEF Deliver!AdvanceIteration, Deliver!pc
    <3>2. [slot6[c] EXCEPT !.version = slot6[c].version + 1, !.prepared = TRUE]
            = [slot6[c] EXCEPT !.pc = "version", !.version = slot6[c].version + 1, !.prepared = TRUE]
      BY <1>2, <3>1 DEF Deliver!Local
    <3>3. slot6[c].version + 1 \in Nat
      BY <1>2
    <3> QED
      BY <3>1, <3>2, <3>3 DEF Early
  <2>3. CASE Deliver(t)!KeepRequest(c)
    <3>1. slot6' = [slot6 EXCEPT ![c] = [slot6[c] EXCEPT !.pc = "validate"]]
      BY <2>3 DEF Deliver!KeepRequest, Deliver!Go
    <3>2. [slot6[c] EXCEPT !.pc = "validate"]
            = [slot6[c] EXCEPT !.pc = "validate", !.version = slot6[c].version, !.prepared = slot6[c].prepared]
      BY <1>2 DEF Deliver!Local
    <3>3. slot6[c].prepared \in BOOLEAN
      BY <1>2 DEF Deliver!Local
    <3> QED
      BY <1>2, <3>1, <3>2, <3>3 DEF Early
  <2> QED
    BY <2>1, <2>2, <2>3
<1> DEFINE l == [slot6[c] EXCEPT !.pc = to, !.version = v, !.prepared = prepared]
<1>4. l \in Deliver(t)!Local
  BY <1>2 DEF Deliver!Local, Deliver!PCs, Early
<1>5. l.pc = to /\ l.start = slot6[c].start /\ l.before = slot6[c].before /\ l.candidate = slot6[c].candidate
  BY <1>2 DEF Deliver!Local
<1>6. slot6' = [slot6 EXCEPT ![c] = l]
  BY <1>3
<1> HIDE DEF l
<1>7. Fit(t, l) /\ Knows(t, slot1, l, slot2[c])
  BY <1>2, <1>4, <1>5, KeepsFit, EarlyKnows
<1> QED
  BY <1>1, <1>6, <1>7, StepIInvD

----------------------------------------------------------------------------
\* Steps that add a commit on top of the one that is checked out.

LEMMA AppendForward ==
  ASSUME NEW t \in DOMAIN Team, Deliver(t)!IInv, NEW p \in Deliver(t)!Place, NEW new \in Deliver(t)!CommitRecord,
         new.past = Deliver(t)!Pasts(p), slot1' = Append(slot1, new), slot5' = slot5,
         slot3' \in [Team[t].clones -> BOOLEAN]
  PROVE  /\ Forward(t) /\ Len(slot1') = Len(slot1) + 1
         /\ \A tag : Deliver(t)!Tested(tag) => Deliver(t)!Tested(tag)'
         /\ \A old : Follows(slot1, slot2[p], old) => Follows(slot1', Len(slot1'), old)
<1>1. /\ slot1 \in Seq(Deliver(t)!CommitRecord) /\ Len(slot1) \in Nat /\ slot2[p] \in 1..Len(slot1)
      /\ slot5 \in [tip : 1..Len(slot1), tags : SUBSET Deliver(t)!Tag]
  BY AtRemote, AtPlace DEF Deliver!IInv, Deliver!TypeOK, Deliver!Made
<1>2. /\ slot1' \in Seq(Deliver(t)!CommitRecord) /\ Len(slot1') = Len(slot1) + 1
      /\ slot1'[Len(slot1) + 1] = new /\ \A i \in 1..Len(slot1) : slot1'[i] = slot1[i]
      /\ DOMAIN slot1 = 1..Len(slot1) /\ DOMAIN slot1' = 1..Len(slot1')
  BY <1>1
<1>3. Ordered1(slot1)
  BY AncestryIs DEF Deliver!IInv
<1>4. new.past = slot1[slot2[p]].past \cup {slot2[p]}
  BY DEF Deliver!Pasts, Deliver!Tip
<1>5. ASSUME NEW i \in 1..Len(slot1')
      PROVE  /\ slot1'[i].past \subseteq 1..(i - 1)
             /\ \A old \in slot1'[i].past : slot1'[old].past \subseteq slot1'[i].past
  <2>1. CASE i \in 1..Len(slot1)
    <3>1. slot1'[i] = slot1[i] /\ slot1[i].past \subseteq 1..(i - 1)
      BY <1>2, <1>3, <2>1 DEF Ordered1
    <3>2. \A old \in slot1[i].past : old \in 1..Len(slot1) /\ slot1[old].past \subseteq slot1[i].past
      BY <1>1, <1>3, <2>1, <3>1 DEF Ordered1
    <3> QED
      BY <1>2, <3>1, <3>2
  <2>2. CASE i = Len(slot1) + 1
    <3>1. slot1'[i].past = slot1[slot2[p]].past \cup {slot2[p]}
      BY <1>2, <1>4, <2>2
    <3>2. slot1[slot2[p]].past \subseteq 1..(slot2[p] - 1)
      BY <1>1, <1>3 DEF Ordered1
    <3>3. \A old \in slot1[slot2[p]].past : slot1[old].past \subseteq slot1[slot2[p]].past
      BY <1>1, <1>3 DEF Ordered1
    <3>4. slot1'[i].past \subseteq 1..Len(slot1)
      BY <1>1, <3>1, <3>2
    <3> QED
      BY <1>1, <1>2, <2>2, <3>1, <3>3, <3>4
  <2> QED
    BY <1>1, <1>2, <2>1, <2>2
<1>6. Ordered1(slot1')
  BY <1>5 DEF Ordered1
<1>7. ASSUME NEW tag, Deliver(t)!Tested(tag) PROVE Deliver(t)!Tested(tag)'
  <2>1. tag.commit \in DOMAIN slot1' /\ slot1'[tag.commit] = slot1[tag.commit]
    BY <1>1, <1>2, <1>7 DEF Deliver!Tested
  <2> QED
    BY <1>7, <2>1 DEF Deliver!Tested, Deliver!Had, Deliver!Descends, Deliver!Checks, Deliver!Artifacts
<1>8. \A tag \in slot5.tags : Deliver(t)!Tested(tag) /\ Follows(slot1, slot5.tip, tag.commit)
  BY DEF Deliver!IInv, Deliver!AllTested, Deliver!OutcomeOnBranch, Deliver!Descends, Follows
<1>9. \A tag \in slot5'.tags : Deliver(t)!Tested(tag)' /\ Follows(slot1', slot5'.tip, tag.commit)
  BY <1>1, <1>2, <1>7, <1>8 DEF Follows
<1>10. slot5' \in [tip : 1..Len(slot1'), tags : SUBSET Deliver(t)!Tag] /\ Follows(slot1', slot5'.tip, slot5.tip)
  BY <1>1, <1>2 DEF Follows
<1>11. \A old : Follows(slot1, slot2[p], old) => Follows(slot1', Len(slot1'), old)
  BY <1>2, <1>4 DEF Follows
<1>12. Forward(t)
  BY <1>1, <1>2, <1>6, <1>9, <1>10 DEF Forward
<1> QED
  BY <1>2, <1>7, <1>11, <1>12

\* The commit that is checked out is then the new one.
LEMMA AddsIInv ==
  ASSUME NEW t \in DOMAIN Team, Deliver(t)!IInv, NEW c \in Team[t].clones, c \notin Team[t].runners,
         NEW new \in Deliver(t)!CommitRecord, new.past = Deliver(t)!Pasts(c), slot1' = Append(slot1, new),
         slot5' = slot5, slot3' \in [Team[t].clones -> BOOLEAN], slot2' = [slot2 EXCEPT ![c] = Len(slot1')],
         slot4' = slot4, NEW l \in Deliver(t)!Local, slot6' = [slot6 EXCEPT ![c] = l],
         l.start = slot6[c].start, l.before = slot6[c].before,
         l.candidate = slot6[c].candidate \/ l.candidate = Len(slot1'), Knows(t, slot1', l, Len(slot1'))
  PROVE  Deliver(t)!IInv'
<1>1. c \in Deliver(t)!Place /\ Len(slot1) \in Nat
  BY AtRemote DEF Deliver!Place
<1>2. Forward(t) /\ Len(slot1') = Len(slot1) + 1 /\ \A tag : Deliver(t)!Tested(tag) => Deliver(t)!Tested(tag)'
  BY <1>1, AppendForward
<1>3. Moves(t, c, l, Len(slot1'), slot4[c])
  BY <1>1, SameTags DEF Moves
<1>4. slot4[c] \subseteq Deliver(t)!Tag /\ \A tag \in slot4[c] \cup l.start.tags \cup l.before.tags : Deliver(t)!Tested(tag)'
  <2>1. \A tag \in slot4[c] \cup l.start.tags \cup l.before.tags : tag \in Deliver(t)!Tag /\ Deliver(t)!Tested(tag)
    BY <1>1, AtPlace DEF TestedTags, Fit
  <2> QED
    BY <1>2, <2>1
<1>5. {l.start.head, l.before.head, l.candidate, Len(slot1')} \subseteq 1..Len(slot1')
  <2>1. {slot6[c].start.head, slot6[c].before.head, slot6[c].candidate} \subseteq 1..Len(slot1)
    BY <1>1, AtPlace DEF Fit, Deliver!Made
  <2> QED
    BY <1>1, <1>2, <2>1
<1>6. Remembers(t, c, l, Len(slot1'), slot4[c])
  BY <1>4, <1>5 DEF Remembers
<1> QED
  BY <1>2, <1>3, <1>6, MovedIInv

LEMMA CommitRequestIInv ==
  ASSUME NEW t \in DOMAIN Team, Deliver(t)!IInv, NEW c \in Team[t].clones, c \notin Team[t].runners,
         Deliver(t)!CommitRequest(c)
  PROVE  Deliver(t)!IInv'
<1>1. c \in Deliver(t)!Place
  BY DEF Deliver!Place
<1>2. PICK named \in Nat, bound \in BOOLEAN :
        slot1' = Append(slot1, Deliver(t)!Commit(Deliver(t)!Pasts(c), named, slot6[c].version, bound))
  <2> DEFINE named == IF slot6[c].prepared THEN slot6[c].version ELSE Deliver(t)!Tip(c).version
             bound == ~Deliver(t)!RequestCurrent(c)
  <2>1. slot1' = Append(slot1, Deliver(t)!Commit(Deliver(t)!Pasts(c), named, slot6[c].version, bound))
    BY DEF Deliver!CommitRequest
  <2>2. bound \in BOOLEAN
    OBVIOUS
  <2>3. slot6[c].version \in Nat /\ Deliver(t)!Tip(c).version \in Nat
    BY <1>1, AtPlace, TipType DEF Fit, Deliver!Local
  <2>4. named \in Nat
    BY <2>3
  <2> HIDE DEF named, bound
  <2> QED
    BY <2>1, <2>2, <2>4
<1> DEFINE new == Deliver(t)!Commit(Deliver(t)!Pasts(c), named, slot6[c].version, bound)
<1>3. new \in Deliver(t)!CommitRecord /\ new.past = Deliver(t)!Pasts(c)
  <2>1. slot6[c].version \in Nat
    BY <1>1, AtPlace DEF Fit, Deliver!Local
  <2>2. Deliver(t)!Pasts(c) \in SUBSET Nat
    BY <1>1, TipType DEF Deliver!Pasts, Deliver!CommitRecord
  <2> HIDE DEF Deliver!Pasts
  <2> QED
    BY <2>1, <2>2 DEF Deliver!Commit, Deliver!CommitRecord
<1>4. /\ slot1' = Append(slot1, new) /\ slot2' = [slot2 EXCEPT ![c] = Len(slot1')] /\ slot4' = slot4 /\ slot5' = slot5
      /\ slot6' = [slot6 EXCEPT ![c] = [slot6[c] EXCEPT !.pc = "validate"]]
  BY <1>2 DEF Deliver!CommitRequest, Deliver!Go
<1>5. slot3' \in [Team[t].clones -> BOOLEAN]
  BY AtRemote DEF Deliver!CommitRequest
<1> HIDE DEF new
<1> DEFINE l == [slot6[c] EXCEPT !.pc = "validate"]
<1>6. slot6[c] \in Deliver(t)!Local
  BY <1>1, AtPlace DEF Fit
<1>7. l \in Deliver(t)!Local
  BY <1>6 DEF Deliver!Local, Deliver!PCs
<1>8. l.pc = "validate" /\ l.start = slot6[c].start /\ l.before = slot6[c].before /\ l.candidate = slot6[c].candidate
  BY <1>6 DEF Deliver!Local
<1>9. slot6' = [slot6 EXCEPT ![c] = l]
  BY <1>4
<1> HIDE DEF l
<1>10. \A commits, h : Knows(t, commits, l, h)
  BY <1>8, EarlyKnows DEF Early
<1> QED
  BY <1>3, <1>4, <1>5, <1>7, <1>8, <1>9, <1>10, AddsIInv

LEMMA CommitsIInv ==
  ASSUME NEW t \in DOMAIN Team, Deliver(t)!IInv, NEW c \in Team[t].clones, c \notin Team[t].runners,
         Deliver(t)!Commits(c)
  PROVE  Deliver(t)!IInv'
<1>1. c \in Deliver(t)!Place
  BY DEF Deliver!Place
<1>2. PICK bound \in {FALSE, Deliver(t)!Tip(c).bound} :
        slot1' = Append(slot1, [Deliver(t)!Tip(c) EXCEPT !.past = Deliver(t)!Pasts(c), !.bound = bound])
  BY DEF Deliver!Commits
<1> DEFINE new == [Deliver(t)!Tip(c) EXCEPT !.past = Deliver(t)!Pasts(c), !.bound = bound]
<1>3. new \in Deliver(t)!CommitRecord /\ new.past = Deliver(t)!Pasts(c)
  <2>1. Deliver(t)!Tip(c) \in Deliver(t)!CommitRecord
    BY <1>1, TipType
  <2>2. Deliver(t)!Pasts(c) \in SUBSET Nat
    BY <1>1, TipType DEF Deliver!Pasts, Deliver!CommitRecord
  <2>3. bound \in BOOLEAN
    BY <2>1 DEF Deliver!CommitRecord
  <2> HIDE DEF Deliver!Pasts, Deliver!Tip
  <2>4. new \in Deliver(t)!CommitRecord
    BY <2>1, <2>2, <2>3 DEF Deliver!CommitRecord
  <2>5. new.past = Deliver(t)!Pasts(c)
    BY <2>1 DEF Deliver!CommitRecord
  <2> QED
    BY <2>4, <2>5
<1>4. /\ slot1' = Append(slot1, new) /\ slot2' = [slot2 EXCEPT ![c] = Len(slot1')] /\ slot4' = slot4 /\ slot5' = slot5
      /\ slot6' = slot6
  BY <1>2 DEF Deliver!Commits
<1> HIDE DEF new
<1>5. slot3' \in [Team[t].clones -> BOOLEAN] /\ slot6' = [slot6 EXCEPT ![c] = slot6[c]]
  BY <1>4, AtRemote DEF Deliver!Commits, Deliver!IInv, Deliver!TypeOK
<1>6. slot6[c] \in Deliver(t)!Local
  BY <1>1, AtPlace DEF Fit
<1>7. Knows(t, slot1', slot6[c], Len(slot1'))
  <2>1. /\ Len(slot1) \in Nat /\ Ordered1(slot1) /\ Knows(t, slot1, slot6[c], slot2[c])
        /\ {slot2[c], slot6[c].before.head, slot6[c].candidate} \subseteq 1..Len(slot1)
    BY <1>1, AtPlace, AtRemote, AncestryIs DEF Fit, Deliver!Made, Deliver!IInv
  <2>2. /\ Forward(t) /\ Len(slot1') = Len(slot1) + 1
        /\ \A old : Follows(slot1, slot2[c], old) => Follows(slot1', Len(slot1'), old)
    BY <1>1, <1>3, <1>4, <1>5, AppendForward
  <2>3. Knows(t, slot1', slot6[c], slot2[c])
    BY <2>1, <2>2, KnowsStays DEF Forward
  <2>4. /\ Len(slot1') \in Nat /\ Ordered1(slot1') /\ Len(slot1') \in 1..Len(slot1')
        /\ Follows(slot1', Len(slot1'), slot2[c])
    BY <2>1, <2>2 DEF Forward, Follows
  <2> QED
    BY <2>3, <2>4, KnowsOn
<1> QED
  BY <1>3, <1>4, <1>5, <1>6, <1>7, AddsIInv

----------------------------------------------------------------------------
\* Results.

\* A validation refreshes the tags.
LEMMA RefreshType ==
  ASSUME NEW t, Deliver(t)!IInv, NEW p \in Deliver(t)!Place, Deliver(t)!RefreshTags(p)
  PROVE  \E ts \in SUBSET TestedTags(t) : slot4' = [slot4 EXCEPT ![p] = ts]
<1>1. Deliver(t)!Without(slot4[p], Deliver(t)!Tip(p).version) \subseteq slot4[p]
  BY DEF Deliver!Without
<1>2. slot4' = [slot4 EXCEPT ![p] = Deliver(t)!Without(slot4[p], Deliver(t)!Tip(p).version)]
  BY DEF Deliver!RefreshTags
<1> QED
  BY <1>1, <1>2, AtPlace

\* A validated candidate goes on.
LEMMA ValidatedIInv ==
  ASSUME NEW t \in DOMAIN Team, Deliver(t)!IInv, NEW p \in Deliver(t)!Place, NEW l,
         slot6' = [slot6 EXCEPT ![p] = l], Deliver(t)!RefreshTags(p),
         slot1' = slot1, slot2' = slot2, slot3' = slot3, slot5' = slot5,
         Fit(t, l), Knows(t, slot1, l, slot2[p]),
         p \notin Team[t].runners \/ slot6[p].pc # "idle" \/ l.pc = "idle"
  PROVE  Deliver(t)!IInv'
BY RefreshType, AtRemote, GoesOn

LEMMA ValidateIInv ==
  ASSUME NEW t \in DOMAIN Team, Deliver(t)!IInv, NEW c \in Team[t].clones, c \notin Team[t].runners,
         Deliver(t)!Validate(c)
  PROVE  Deliver(t)!IInv'
<1> DEFINE l == [slot6[c] EXCEPT !.pc = "artifacts", !.candidate = slot2[c]]
<1>1. /\ c \in Deliver(t)!Place /\ slot6' = [slot6 EXCEPT ![c] = l] /\ Deliver(t)!RefreshTags(c)
      /\ slot1' = slot1 /\ slot2' = slot2 /\ slot3' = slot3 /\ slot5' = slot5
  BY DEF Deliver!Validate, Deliver!Place
<1>2. Fit(t, slot6[c]) /\ slot6[c] \in Deliver(t)!Local /\ slot2[c] \in Deliver(t)!Made /\ slot2[c] \in Nat
  BY <1>1, AtPlace, AtRemote DEF Fit
<1>3. l \in Deliver(t)!Local
  BY <1>2 DEF Deliver!Local, Deliver!PCs
<1>4. l.pc = "artifacts" /\ l.start = slot6[c].start /\ l.before = slot6[c].before /\ l.candidate = slot2[c]
  BY <1>2 DEF Deliver!Local
<1> HIDE DEF l
<1>5. Fit(t, l)
  BY <1>2, <1>3, <1>4, KeepsFit
<1>6. Knows(t, slot1, l, slot2[c])
  BY <1>4 DEF Knows, Deliver!Validated, Deliver!Found, Deliver!Deciding, Follows
<1> QED
  BY <1>1, <1>5, <1>6, ValidatedIInv

\* What is checked out now, as a state to be restored.
LEMMA NowType ==
  ASSUME NEW t, Deliver(t)!IInv, NEW p \in Deliver(t)!Place
  PROVE  /\ Deliver(t)!Now(p) \in Deliver(t)!State
         /\ Deliver(t)!Now(p).head = slot2[p] /\ Deliver(t)!Now(p).tags = slot4[p]
<1>1. slot2[p] \in Nat /\ slot4[p] \subseteq Deliver(t)!Tag
  BY AtPlace, AtRemote DEF TestedTags
<1> QED
  BY <1>1 DEF Deliver!Now, Deliver!State

\* A command looks at the repository before it runs a generator or a test.
LEMMA LooksIInv ==
  ASSUME NEW t \in DOMAIN Team, Deliver(t)!IInv, NEW p \in Deliver(t)!Place,
         \/ Deliver(t)!StartArtifacts(p) \/ Deliver(t)!RunTest(p)
  PROVE  Deliver(t)!IInv'
<1>1. PICK to \in {"generating", "testing"} :
        /\ slot6' = [slot6 EXCEPT ![p] = [slot6[p] EXCEPT !.pc = to, !.before = Deliver(t)!Now(p)]]
        /\ to = "generating" => slot6[p].pc = "artifacts"
        /\ to = "testing" => slot6[p].pc = "ready"
  BY DEF Deliver!StartArtifacts, Deliver!RunTest, Deliver!pc
<1>2. slot1' = slot1 /\ slot2' = slot2 /\ slot3' = slot3 /\ slot4' = slot4 /\ slot5' = slot5
  BY DEF Deliver!StartArtifacts, Deliver!RunTest
<1> DEFINE l == [slot6[p] EXCEPT !.pc = to, !.before = Deliver(t)!Now(p)]
<1>3. /\ Fit(t, slot6[p]) /\ slot6[p] \in Deliver(t)!Local /\ slot2[p] \in Deliver(t)!Made
      /\ slot4[p] \subseteq TestedTags(t) /\ Knows(t, slot1, slot6[p], slot2[p])
  BY AtPlace DEF Fit
<1>4. l \in Deliver(t)!Local
  <2>1. Deliver(t)!Now(p) \in Deliver(t)!State
    BY NowType
  <2> QED
    BY <1>3, <2>1 DEF Deliver!Local, Deliver!PCs
<1>5. /\ l.pc = to /\ l.start = slot6[p].start /\ l.before = Deliver(t)!Now(p) /\ l.candidate = slot6[p].candidate
      /\ l.results = slot6[p].results /\ l.testing = slot6[p].testing /\ l.kind = slot6[p].kind
      /\ l.outcome = slot6[p].outcome
  BY <1>3 DEF Deliver!Local
<1>6. slot6' = [slot6 EXCEPT ![p] = l]
  BY <1>1
<1> HIDE DEF l
<1>7. l.before.head = slot2[p] /\ l.before.tags = slot4[p]
  BY <1>5, NowType
<1>8. Fit(t, l)
  BY <1>3, <1>4, <1>5, <1>7 DEF Fit
<1>9. Knows(t, slot1, l, slot2[p])
  BY <1>1, <1>3, <1>5, <1>7 DEF Knows, Deliver!Validated, Deliver!Found, Deliver!Deciding, Follows
<1>10. slot6[p].pc # "idle"
  BY <1>1
<1> QED
  BY <1>2, <1>6, <1>8, <1>9, <1>10, StepIInvD

LEMMA ArtifactsPassIInv ==
  ASSUME NEW t \in DOMAIN Team, Deliver(t)!IInv, NEW c \in Team[t].clones, c \notin Team[t].runners,
         Deliver(t)!ArtifactsPass(c)
  PROVE  Deliver(t)!IInv'
<1> DEFINE found1 == {Deliver(t)!Result(slot2[c], "artifacts", "PASS")}
           l == [slot6[c] EXCEPT !.pc = "collect", !.results = found1]
<1>1. /\ c \in Deliver(t)!Place /\ slot6' = [slot6 EXCEPT ![c] = l] /\ slot6[c].pc = "generating"
      /\ slot1' = slot1 /\ slot2' = slot2 /\ slot3' = slot3 /\ slot4' = slot4 /\ slot5' = slot5
  BY DEF Deliver!ArtifactsPass, Deliver!Artifacts, Deliver!Place, Deliver!pc
<1>2. /\ Fit(t, slot6[c]) /\ slot6[c] \in Deliver(t)!Local /\ slot2[c] \in Nat
      /\ Knows(t, slot1, slot6[c], slot2[c])
  BY <1>1, AtPlace, AtRemote DEF Fit
<1>3. found1 \in Deliver(t)!Results /\ \A r \in found1 : r.commit = slot2[c] /\ r.environment = "artifacts"
  <2>1. "PASS" \in Deliver(t)!Status
    BY DEF Deliver!Status
  <2> QED
    BY <1>2, <2>1 DEF Deliver!Result, Deliver!Results, Deliver!Artifacts
<1> HIDE DEF found1
<1>4. l \in Deliver(t)!Local
  BY <1>2, <1>3 DEF Deliver!Local, Deliver!PCs
<1>5. /\ l.pc = "collect" /\ l.start = slot6[c].start /\ l.before = slot6[c].before /\ l.candidate = slot6[c].candidate
      /\ l.results = found1
  BY <1>2 DEF Deliver!Local
<1> HIDE DEF l
<1>6. Fit(t, l)
  BY <1>2, <1>4, <1>5, KeepsFit
<1>7. Knows(t, slot1, l, slot2[c])
  BY <1>1, <1>2, <1>3, <1>5 DEF Knows, Deliver!Validated, Deliver!Found, Deliver!Deciding, Follows
<1> QED
  BY <1>1, <1>6, <1>7, StepIInvD

\* A command restores the repository that it looked at, and has found something there.
LEMMA FindsIInv ==
  ASSUME NEW t \in DOMAIN Team, Deliver(t)!IInv, NEW p \in Deliver(t)!Place, NEW l \in Deliver(t)!Local,
         slot6' = [slot6 EXCEPT ![p] = l], Deliver(t)!Restore(p, slot6[p].before),
         slot1' = slot1, slot5' = slot5, slot6[p].pc \in {"generating", "testing"},
         l.pc = "run", l.start = slot6[p].start, l.before = slot6[p].before, l.candidate = slot6[p].candidate,
         slot6[p].pc = "generating" => p \notin Team[t].runners,
         \A r \in l.results :
           \/ r.commit = slot6[p].before.head
           \/ slot6[p].pc = "testing" /\ r \in slot6[p].results
  PROVE  Deliver(t)!IInv'
<1> DEFINE h == slot6[p].before.head
           ts == slot6[p].before.tags
<1>1. /\ Fit(t, slot6[p]) /\ Knows(t, slot1, slot6[p], slot2[p])
      /\ h \in Deliver(t)!Made /\ ts \in SUBSET TestedTags(t)
  BY AtPlace DEF Fit
<1>2. /\ slot2' = [slot2 EXCEPT ![p] = h] /\ slot4' = [slot4 EXCEPT ![p] = ts]
      /\ slot3' = [c \in Team[t].clones |-> slot3[c] /\ c # p]
  BY DEF Deliver!Restore
<1>3. Fit(t, l)
  BY <1>1, KeepsFit
<1>4. /\ Follows(slot1, slot2[p], h) /\ Follows(slot1, h, slot6[p].candidate)
      /\ slot6[p].pc = "testing" => \A r \in slot6[p].results :
           /\ Follows(slot1, h, r.commit)
           /\ r.environment # "artifacts" => Follows(slot1, r.commit, slot6[p].candidate)
  BY <1>1 DEF Knows, Deliver!Found
<1>5. Knows(t, slot1, l, h)
  BY <1>4 DEF Knows, Deliver!Validated, Deliver!Found, Deliver!Deciding, Follows
<1>6. ASSUME p \in Team[t].runners PROVE Follows(slot1, slot5.tip, h)
  <2>1. Follows(slot1, slot5.tip, slot2[p])
    BY <1>6 DEF Deliver!IInv, Deliver!RunnerBehind, Deliver!pc, Deliver!Descends, Follows
  <2>2. Len(slot1) \in Nat /\ Ordered1(slot1) /\ slot5.tip \in 1..Len(slot1)
    BY AtRemote, AncestryIs DEF Deliver!IInv, Deliver!Made
  <2> HIDE DEF h
  <2> QED
    BY <1>4, <2>1, <2>2, FollowsOrder
<1> HIDE DEF h, ts
<1> QED
  BY <1>1, <1>2, <1>3, <1>5, <1>6, RestoredIInv

LEMMA ArtifactsFailIInv ==
  ASSUME NEW t \in DOMAIN Team, Deliver(t)!IInv, NEW c \in Team[t].clones, c \notin Team[t].runners,
         NEW status \in Deliver(t)!Status, Deliver(t)!ArtifactsFail(c, status)
  PROVE  Deliver(t)!IInv'
<1> DEFINE found1 == {Deliver(t)!Result(slot6[c].before.head, "artifacts", status)}
           l == [slot6[c] EXCEPT !.pc = "run", !.left = Team[t].env, !.results = found1]
<1>1. /\ c \in Deliver(t)!Place /\ slot6' = [slot6 EXCEPT ![c] = l] /\ slot6[c].pc = "generating"
      /\ slot1' = slot1 /\ slot5' = slot5 /\ Deliver(t)!Restore(c, slot6[c].before)
  BY DEF Deliver!ArtifactsFail, Deliver!Artifacts, Deliver!Place, Deliver!pc
<1>2. slot6[c] \in Deliver(t)!Local /\ slot6[c].before.head \in Nat
  BY <1>1, AtPlace, AtRemote DEF Fit
<1>3. found1 \in Deliver(t)!Results /\ \A r \in found1 : r.commit = slot6[c].before.head
  BY <1>2 DEF Deliver!Result, Deliver!Results, Deliver!Artifacts
<1> HIDE DEF found1
<1>4. l \in Deliver(t)!Local
  BY <1>2, <1>3 DEF Deliver!Local, Deliver!PCs
<1>5. /\ l.pc = "run" /\ l.start = slot6[c].start /\ l.before = slot6[c].before /\ l.candidate = slot6[c].candidate
      /\ l.results = found1
  BY <1>2 DEF Deliver!Local
<1> HIDE DEF l
<1> QED
  BY <1>1, <1>3, <1>4, <1>5, FindsIInv

LEMMA EndTestIInv ==
  ASSUME NEW t \in DOMAIN Team, Deliver(t)!IInv, NEW p \in Deliver(t)!Place,
         NEW status \in Deliver(t)!Status, Deliver(t)!EndTest(p, status)
  PROVE  Deliver(t)!IInv'
<1> DEFINE e == slot6[p].testing
           left == slot6[p].left \ {e}
           results == slot6[p].results \cup {Deliver(t)!Result(slot6[p].before.head, e, status)}
           l == [slot6[p] EXCEPT !.pc = "run", !.testing = None, !.left = left, !.results = results]
<1>1. /\ slot6' = [slot6 EXCEPT ![p] = l] /\ slot6[p].pc = "testing"
      /\ slot1' = slot1 /\ slot5' = slot5 /\ Deliver(t)!Restore(p, slot6[p].before)
  BY DEF Deliver!EndTest, Deliver!pc
<1>2. slot6[p] \in Deliver(t)!Local /\ slot6[p].before.head \in Nat /\ e \in Team[t].env
  BY <1>1, AtPlace, AtRemote DEF Fit, Knows
<1>3. /\ results \in Deliver(t)!Results /\ left \in SUBSET Team[t].env
      /\ \A r \in results : r.commit = slot6[p].before.head \/ r \in slot6[p].results
  <2>1. slot6[p].results \in Deliver(t)!Results /\ slot6[p].left \in SUBSET Team[t].env
    BY <1>2 DEF Deliver!Local
  <2> HIDE DEF e
  <2>2. \A r \in results : r = Deliver(t)!Result(slot6[p].before.head, e, status) \/ r \in slot6[p].results
    OBVIOUS
  <2> QED
    BY <1>2, <2>1, <2>2 DEF Deliver!Result, Deliver!Results, Deliver!Artifacts
<1> HIDE DEF results, left
<1>4. l \in Deliver(t)!Local
  BY <1>2, <1>3 DEF Deliver!Local, Deliver!PCs
<1>5. /\ l.pc = "run" /\ l.start = slot6[p].start /\ l.before = slot6[p].before /\ l.candidate = slot6[p].candidate
      /\ l.results = results
  BY <1>2 DEF Deliver!Local
<1> HIDE DEF l
<1> QED
  BY <1>1, <1>3, <1>4, <1>5, FindsIInv

LEMMA ArtifactsUnchangedIInv ==
  ASSUME NEW t \in DOMAIN Team, Deliver(t)!IInv, NEW c \in Team[t].clones, c \notin Team[t].runners,
         Deliver(t)!ArtifactsUnchanged(c)
  PROVE  Deliver(t)!IInv'
<1> DEFINE l == [slot6[c] EXCEPT !.pc = "revalidate", !.candidate = slot2[c]]
<1>1. /\ c \in Deliver(t)!Place /\ slot6' = [slot6 EXCEPT ![c] = l] /\ slot6[c].pc = "collect"
      /\ slot1' = slot1 /\ slot2' = slot2 /\ slot3' = slot3 /\ slot4' = slot4 /\ slot5' = slot5
  BY DEF Deliver!ArtifactsUnchanged, Deliver!Place, Deliver!pc
<1>2. /\ Fit(t, slot6[c]) /\ slot6[c] \in Deliver(t)!Local /\ slot2[c] \in Deliver(t)!Made /\ slot2[c] \in Nat
      /\ Knows(t, slot1, slot6[c], slot2[c])
  BY <1>1, AtPlace, AtRemote DEF Fit
<1>3. l \in Deliver(t)!Local
  BY <1>2 DEF Deliver!Local, Deliver!PCs
<1>4. /\ l.pc = "revalidate" /\ l.start = slot6[c].start /\ l.before = slot6[c].before /\ l.candidate = slot2[c]
      /\ l.results = slot6[c].results
  BY <1>2 DEF Deliver!Local
<1> HIDE DEF l
<1>5. Fit(t, l)
  BY <1>2, <1>3, <1>4, KeepsFit
<1>6. Knows(t, slot1, l, slot2[c])
  BY <1>1, <1>2, <1>4 DEF Knows, Deliver!Validated, Deliver!Found, Deliver!Deciding, Follows
<1> QED
  BY <1>1, <1>5, <1>6, StepIInvD

LEMMA CommitArtifactsIInv ==
  ASSUME NEW t \in DOMAIN Team, Deliver(t)!IInv, NEW c \in Team[t].clones, c \notin Team[t].runners,
         Deliver(t)!CommitArtifacts(c)
  PROVE  Deliver(t)!IInv'
<1> DEFINE new == [Deliver(t)!Tip(c) EXCEPT !.past = Deliver(t)!Pasts(c)]
           n == Len(slot1) + 1
           On(r) == IF r.commit = slot2[c] THEN n ELSE r.commit
           results == {[r EXCEPT !.commit = On(r)] : r \in slot6[c].results}
           l == [slot6[c] EXCEPT !.pc = "revalidate", !.candidate = n, !.results = results]
<1>1. /\ c \in Deliver(t)!Place /\ Len(slot1) \in Nat /\ slot1 \in Seq(Deliver(t)!CommitRecord)
      /\ slot6[c] \in Deliver(t)!Local /\ Knows(t, slot1, slot6[c], slot2[c])
      /\ slot3 \in [Team[t].clones -> BOOLEAN]
  BY AtPlace, AtRemote DEF Fit, Deliver!Place
<1>2. new \in Deliver(t)!CommitRecord /\ new.past = Deliver(t)!Pasts(c)
  <2>1. Deliver(t)!Tip(c) \in Deliver(t)!CommitRecord
    BY <1>1, TipType
  <2>2. Deliver(t)!Pasts(c) \in SUBSET Nat
    BY <1>1, TipType DEF Deliver!Pasts, Deliver!CommitRecord
  <2> HIDE DEF Deliver!Pasts, Deliver!Tip
  <2> QED
    BY <2>1, <2>2 DEF Deliver!CommitRecord
<1>3. slot1' = Append(slot1, new) /\ slot6[c].pc = "collect"
  BY DEF Deliver!CommitArtifacts, Deliver!pc
<1> HIDE DEF new
<1>4. Len(slot1') = n
  BY <1>1, <1>2, <1>3
<1>5. slot6' = [slot6 EXCEPT ![c] = l] /\ slot2' = [slot2 EXCEPT ![c] = Len(slot1')]
      /\ slot4' = slot4 /\ slot5' = slot5 /\ slot3' = slot3
  BY <1>4 DEF Deliver!CommitArtifacts
<1>6. slot6[c].results \in Deliver(t)!Results
  BY <1>1 DEF Deliver!Local
<1>7. results \in Deliver(t)!Results
  BY <1>1, <1>6 DEF Deliver!Results
<1>8. \A s \in results : \E r \in slot6[c].results : s.environment = r.environment /\ s.commit = On(r)
  BY <1>6 DEF Deliver!Results
<1> HIDE DEF results
<1>9. l \in Deliver(t)!Local
  <2>1. n \in Nat
    BY <1>1
  <2> HIDE DEF n
  <2> QED
    BY <1>1, <1>7, <2>1 DEF Deliver!Local, Deliver!PCs
<1>10. /\ l.pc = "revalidate" /\ l.start = slot6[c].start /\ l.before = slot6[c].before /\ l.candidate = n
       /\ l.results = results
  BY <1>1 DEF Deliver!Local
<1> HIDE DEF l
<1>11. Knows(t, slot1', l, Len(slot1'))
  <2>1. \A old : Follows(slot1, slot2[c], old) => Follows(slot1', n, old)
    BY <1>1, <1>2, <1>3, <1>4, <1>5, AppendForward
  <2>2. \A r \in slot6[c].results : Follows(slot1, slot2[c], r.commit) /\ r.environment = "artifacts"
    BY <1>1, <1>3 DEF Knows, Deliver!Found
  <2>3. \A s \in results : Follows(slot1', n, s.commit) /\ s.environment = "artifacts"
    BY <1>8, <2>1, <2>2 DEF Follows
  <2> HIDE DEF n
  <2> QED
    BY <1>4, <1>10, <2>3 DEF Knows, Deliver!Validated, Deliver!Found, Deliver!Deciding, Follows
<1> QED
  BY <1>1, <1>2, <1>3, <1>4, <1>5, <1>9, <1>10, <1>11, AddsIInv

\* A validation that has asked for the candidate: the next test, if there is one.
LEMMA CheckedIInv ==
  ASSUME NEW t \in DOMAIN Team, Deliver(t)!IInv, NEW p \in Deliver(t)!Place,
         \/ Deliver(t)!Revalidate(p)
         \/ \E e \in Team[t].env : Deliver(t)!StartTest(p, e)
  PROVE  Deliver(t)!IInv'
<1>1. /\ slot6[p].pc \in {"revalidate", "run"} /\ Deliver(t)!RefreshTags(p)
      /\ slot1' = slot1 /\ slot2' = slot2 /\ slot3' = slot3 /\ slot5' = slot5
  BY DEF Deliver!Revalidate, Deliver!StartTest, Deliver!pc
<1>2. Fit(t, slot6[p]) /\ slot6[p] \in Deliver(t)!Local /\ Knows(t, slot1, slot6[p], slot2[p])
  BY AtPlace DEF Fit
<1>3. PICK l \in Deliver(t)!Local :
        /\ slot6' = [slot6 EXCEPT ![p] = l] /\ l.pc \in {"run", "ready"}
        /\ l.pc = "ready" => l.testing \in Team[t].env
        /\ l.start = slot6[p].start /\ l.before = slot6[p].before /\ l.candidate = slot6[p].candidate
        /\ l.results = slot6[p].results
  <2>1. CASE Deliver(t)!Revalidate(p)
    <3> DEFINE l == [slot6[p] EXCEPT !.pc = "run", !.left = Team[t].env]
    <3>1. slot6' = [slot6 EXCEPT ![p] = l]
      BY <2>1 DEF Deliver!Revalidate
    <3>2. l \in Deliver(t)!Local
      BY <1>2 DEF Deliver!Local, Deliver!PCs
    <3>3. /\ l.pc = "run" /\ l.start = slot6[p].start /\ l.before = slot6[p].before
          /\ l.candidate = slot6[p].candidate /\ l.results = slot6[p].results
      BY <1>2 DEF Deliver!Local
    <3> HIDE DEF l
    <3> QED
      BY <3>1, <3>2, <3>3
  <2>2. ASSUME NEW e \in Team[t].env, Deliver(t)!StartTest(p, e)
        PROVE  \E l \in Deliver(t)!Local :
                 /\ slot6' = [slot6 EXCEPT ![p] = l] /\ l.pc \in {"run", "ready"}
                 /\ l.pc = "ready" => l.testing \in Team[t].env
                 /\ l.start = slot6[p].start /\ l.before = slot6[p].before /\ l.candidate = slot6[p].candidate
                 /\ l.results = slot6[p].results
    <3> DEFINE l == [slot6[p] EXCEPT !.pc = "ready", !.testing = e]
    <3>1. slot6' = [slot6 EXCEPT ![p] = l]
      BY <2>2 DEF Deliver!StartTest
    <3>2. l \in Deliver(t)!Local
      BY <1>2 DEF Deliver!Local, Deliver!PCs
    <3>3. /\ l.pc = "ready" /\ l.testing = e /\ l.start = slot6[p].start /\ l.before = slot6[p].before
          /\ l.candidate = slot6[p].candidate /\ l.results = slot6[p].results
      BY <1>2 DEF Deliver!Local
    <3> HIDE DEF l
    <3> QED
      BY <3>1, <3>2, <3>3
  <2> QED
    BY <2>1, <2>2
<1>4. Fit(t, l)
  BY <1>2, <1>3, KeepsFit
<1>5. Knows(t, slot1, l, slot2[p])
  BY <1>1, <1>2, <1>3 DEF Knows, Deliver!Validated, Deliver!Found, Deliver!Deciding
<1> QED
  BY <1>1, <1>3, <1>4, <1>5, ValidatedIInv

LEMMA FinalizeIInv ==
  ASSUME NEW t \in DOMAIN Team, Deliver(t)!IInv, NEW p \in Deliver(t)!Place, Deliver(t)!Finalize(p)
  PROVE  Deliver(t)!IInv'
<1> DEFINE outcome == Deliver(t)!Outcome(slot6[p].results)
           to == IF slot6[p].kind = "push" THEN "publish" ELSE "tag"
           l == [slot6[p] EXCEPT !.pc = to, !.outcome = outcome]
<1>1. /\ slot6[p].pc = "run" /\ Deliver(t)!RefreshTags(p) /\ slot2[p] = slot6[p].candidate
      /\ slot1' = slot1 /\ slot2' = slot2 /\ slot3' = slot3 /\ slot5' = slot5
  BY DEF Deliver!Finalize, Deliver!AsExpected, Deliver!pc
<1>2. /\ Fit(t, slot6[p]) /\ slot6[p] \in Deliver(t)!Local /\ slot2[p] \in 1..Len(slot1)
      /\ Knows(t, slot1, slot6[p], slot2[p]) /\ Len(slot1) \in Nat /\ Ordered1(slot1)
  BY AtPlace, AtRemote, AncestryIs DEF Fit, Deliver!Made, Deliver!IInv
<1>3. CASE outcome = "INCOMPLETE"
  <2>1. slot6' = [slot6 EXCEPT ![p] = Deliver(t)!Idle]
    BY <1>3 DEF Deliver!Finalize
  <2> QED
    BY <1>1, <2>1, IdleFit, IdleKnows, ValidatedIInv
<1>4. CASE outcome # "INCOMPLETE"
  <2>1. slot6' = [slot6 EXCEPT ![p] = l]
    <3>1. to # "idle"
      OBVIOUS
    <3> QED
      BY <1>4, <3>1 DEF Deliver!Finalize
  <2>2. /\ outcome \in Deliver(t)!Status /\ to \in {"publish", "tag"}
        /\ to = "publish" => slot6[p].kind = "push"
    BY DEF Deliver!Outcome, Deliver!Status
  <2>3. outcome = Deliver(t)!Outcome(slot6[p].results)
    OBVIOUS
  <2> HIDE DEF to, outcome
  <2>4. l \in Deliver(t)!Local
    BY <1>2, <2>2 DEF Deliver!Local, Deliver!PCs
  <2>5. /\ l.pc = to /\ l.start = slot6[p].start /\ l.before = slot6[p].before /\ l.candidate = slot6[p].candidate
        /\ l.results = slot6[p].results /\ l.outcome = outcome /\ l.kind = slot6[p].kind
    BY <1>2 DEF Deliver!Local
  <2> HIDE DEF l
  <2>6. Fit(t, l)
    BY <1>2, <2>4, <2>5, KeepsFit
  <2>7. \A r \in slot6[p].results :
          /\ Follows(slot1, slot6[p].candidate, r.commit)
          /\ r.environment # "artifacts" => r.commit = slot6[p].candidate
    BY <1>1, <1>2, FollowsOrder DEF Knows, Deliver!Found
  <2>8. Knows(t, slot1, l, slot2[p])
    BY <1>1, <1>4, <2>2, <2>3, <2>5, <2>7 DEF Knows, Deliver!Validated, Deliver!Found, Deliver!Deciding, Follows
  <2> QED
    BY <1>1, <2>1, <2>6, <2>8, ValidatedIInv
<1> QED
  BY <1>3, <1>4

----------------------------------------------------------------------------
\* Tags.

\* The tag that is made is tested: of the candidate, or with --push of a commit that
\* follows it.
LEMMA TagTested ==
  ASSUME NEW t, Deliver(t)!IInv, NEW p \in Deliver(t)!Place, slot6[p].pc \in Deliver(t)!Deciding,
         NEW commit \in Deliver(t)!Made, Follows(slot1, commit, slot6[p].candidate),
         commit = slot6[p].candidate \/ slot6[p].kind = "push"
  PROVE  Deliver(t)!TagOf(p, commit) \in TestedTags(t) /\ Deliver(t)!TagOf(p, commit).commit = commit
<1> DEFINE tag == Deliver(t)!TagOf(p, commit)
<1>1. /\ slot6[p] \in Deliver(t)!Local /\ Knows(t, slot1, slot6[p], slot2[p])
      /\ Ordered1(slot1) /\ commit \in 1..Len(slot1) /\ commit \in DOMAIN slot1 /\ commit \in Nat
      /\ slot1 \in Seq(Deliver(t)!CommitRecord) /\ Len(slot1) \in Nat
  BY AtPlace, AtRemote, AncestryIs DEF Fit, Deliver!Made, Deliver!IInv
<1>2. /\ tag.version = slot1[commit].version /\ tag.outcome = slot6[p].outcome /\ tag.commit = commit
      /\ tag.pinned = (slot6[p].kind # "push") /\ tag.results = slot6[p].results
  BY DEF Deliver!TagOf
<1>3. tag \in Deliver(t)!Tag
  <2>1. slot1[commit].version \in Nat
    <3>1. slot1[commit] \in Deliver(t)!CommitRecord
      BY <1>1
    <3> QED
      BY <3>1 DEF Deliver!CommitRecord
  <2>2. slot6[p].outcome \in Deliver(t)!Status /\ slot6[p].results \in Deliver(t)!Results
    BY <1>1 DEF Deliver!Local
  <2> QED
    BY <1>1, <2>1, <2>2 DEF Deliver!TagOf, Deliver!Tag
<1> HIDE DEF tag
<1>4. \A r \in tag.results :
        /\ r.status \in {"PASS", "FAIL", "INCOMPLETE"}
        /\ Deliver(t)!Descends(commit, r.commit)
        /\ tag.pinned /\ r.environment # "artifacts" => r.commit = commit
  <2>1. \A r \in slot6[p].results :
          /\ Follows(slot1, slot6[p].candidate, r.commit)
          /\ slot6[p].kind # "push" /\ r.environment # "artifacts" => r.commit = slot6[p].candidate
    BY <1>1 DEF Knows
  <2>2. \A r \in slot6[p].results : r.status \in {"PASS", "FAIL", "INCOMPLETE"}
    BY <1>1 DEF Deliver!Local, Deliver!Results, Deliver!Status
  <2>3. \A r \in slot6[p].results : Follows(slot1, commit, r.commit)
    BY <1>1, <2>1, FollowsOrder
  <2> QED
    BY <1>2, <2>1, <2>2, <2>3 DEF Deliver!Descends, Follows
<1>5. tag.outcome = Deliver(t)!Outcome(tag.results)
  BY <1>1, <1>2 DEF Knows
<1>6. tag.outcome = "PASS" => \A e \in Deliver(t)!Checks : Deliver(t)!Had(tag, e, "PASS")
  BY <1>2, <1>4, <1>5 DEF Deliver!Outcome, Deliver!Has, Deliver!Had, Deliver!Artifacts
<1>7. tag.outcome = "FAIL" => \E e \in Deliver(t)!Checks : Deliver(t)!Had(tag, e, "FAIL")
  BY <1>2, <1>4, <1>5 DEF Deliver!Outcome, Deliver!Has, Deliver!Had, Deliver!Artifacts
<1>8. Deliver(t)!Tested(tag)
  BY <1>1, <1>2, <1>6, <1>7 DEF Deliver!Tested
<1> QED
  BY <1>2, <1>3, <1>8 DEF TestedTags, tag

LEMMA MyTagTested ==
  ASSUME NEW t, Deliver(t)!IInv, NEW p \in Deliver(t)!Place, slot6[p].pc \in Deliver(t)!Deciding
  PROVE  /\ Deliver(t)!MyTag(p) \in TestedTags(t) /\ Deliver(t)!MyTag(p).commit = slot6[p].candidate
         /\ Follows(slot1, slot2[p], slot6[p].candidate)
<1>1. /\ slot6[p].candidate \in Deliver(t)!Made /\ Follows(slot1, slot6[p].candidate, slot6[p].candidate)
      /\ Follows(slot1, slot2[p], slot6[p].candidate)
  BY AtPlace DEF Fit, Follows, Knows
<1> QED
  BY <1>1, TagTested DEF Deliver!MyTag

LEMMA TagLocallyIInv ==
  ASSUME NEW t \in DOMAIN Team, Deliver(t)!IInv, NEW p \in Deliver(t)!Place, Deliver(t)!TagLocally(p)
  PROVE  Deliver(t)!IInv'
<1> DEFINE ts == slot4[p] \cup {Deliver(t)!MyTag(p)}
<1>1. /\ slot4' = [slot4 EXCEPT ![p] = ts] /\ slot6[p].pc = "tag"
      /\ slot1' = slot1 /\ slot2' = slot2 /\ slot3' = slot3 /\ slot5' = slot5
  BY DEF Deliver!TagLocally, Deliver!pc
<1>2. ts \subseteq TestedTags(t)
  BY <1>1, MyTagTested, AtPlace DEF Deliver!Deciding
<1> HIDE DEF ts
<1>3. CASE p \in Team[t].runners
  <2> DEFINE l == [slot6[p] EXCEPT !.pc = "push tag"]
  <2>1. slot6' = [slot6 EXCEPT ![p] = l]
    BY <1>3 DEF Deliver!TagLocally
  <2>2. Fit(t, slot6[p]) /\ slot6[p] \in Deliver(t)!Local /\ Knows(t, slot1, slot6[p], slot2[p])
    BY AtPlace DEF Fit
  <2>3. l \in Deliver(t)!Local
    BY <2>2 DEF Deliver!Local, Deliver!PCs
  <2>4. /\ l.pc = "push tag" /\ l.start = slot6[p].start /\ l.before = slot6[p].before /\ l.candidate = slot6[p].candidate
        /\ l.results = slot6[p].results /\ l.outcome = slot6[p].outcome /\ l.kind = slot6[p].kind
    BY <2>2 DEF Deliver!Local
  <2> HIDE DEF l
  <2>5. Fit(t, l)
    BY <2>2, <2>3, <2>4, KeepsFit
  <2>6. Knows(t, slot1, l, slot2[p])
    BY <1>1, <2>2, <2>4 DEF Knows, Deliver!Validated, Deliver!Found, Deliver!Deciding
  <2> QED
    BY <1>1, <1>2, <2>1, <2>5, <2>6, AtRemote, GoesOn
<1>4. CASE p \notin Team[t].runners
  <2>1. slot6' = [slot6 EXCEPT ![p] = Deliver(t)!Idle]
    BY <1>4 DEF Deliver!TagLocally
  <2> QED
    BY <1>1, <1>2, <2>1, IdleFit, IdleKnows, AtRemote, GoesOn
<1> QED
  BY <1>3, <1>4

\* What is checked out is tagged, whatever it is; what was found on the way stands.
LEMMA PublishIInv ==
  ASSUME NEW t \in DOMAIN Team, Deliver(t)!IInv, NEW c \in Deliver(t)!Place, Deliver(t)!Publish(c)
  PROVE  Deliver(t)!IInv'
<1> DEFINE ts == Deliver(t)!Without(slot4[c], Deliver(t)!Tip(c).version) \cup {Deliver(t)!TagOf(c, slot2[c])}
           l == [slot6[c] EXCEPT !.pc = "push", !.candidate = slot2[c]]
<1>1. /\ slot4' = [slot4 EXCEPT ![c] = ts] /\ slot6[c].pc = "publish" /\ slot6' = [slot6 EXCEPT ![c] = l]
      /\ slot1' = slot1 /\ slot2' = slot2 /\ slot3' = slot3 /\ slot5' = slot5
  BY DEF Deliver!Publish, Deliver!pc
<1>2. /\ Fit(t, slot6[c]) /\ slot6[c] \in Deliver(t)!Local /\ slot2[c] \in Deliver(t)!Made /\ slot2[c] \in Nat
      /\ Knows(t, slot1, slot6[c], slot2[c]) /\ Ordered1(slot1) /\ slot2[c] \in 1..Len(slot1) /\ Len(slot1) \in Nat
  BY AtPlace, AtRemote, AncestryIs DEF Fit, Deliver!Made, Deliver!IInv
<1>3. slot6[c].kind = "push" /\ Follows(slot1, slot2[c], slot6[c].candidate)
  BY <1>1, <1>2 DEF Knows, Deliver!Deciding
<1>4. Deliver(t)!TagOf(c, slot2[c]) \in TestedTags(t)
  BY <1>1, <1>2, <1>3, TagTested DEF Deliver!Deciding
<1>5. ts \subseteq TestedTags(t)
  BY <1>4, AtPlace DEF Deliver!Without
<1> HIDE DEF ts
<1>6. l \in Deliver(t)!Local
  BY <1>2 DEF Deliver!Local, Deliver!PCs
<1>7. /\ l.pc = "push" /\ l.start = slot6[c].start /\ l.before = slot6[c].before /\ l.candidate = slot2[c]
      /\ l.results = slot6[c].results /\ l.outcome = slot6[c].outcome /\ l.kind = slot6[c].kind
  BY <1>2 DEF Deliver!Local
<1> HIDE DEF l
<1>8. Fit(t, l)
  BY <1>2, <1>6, <1>7, KeepsFit
<1>9. \A r \in slot6[c].results : Follows(slot1, slot2[c], r.commit)
  BY <1>1, <1>2, <1>3, FollowsOrder DEF Knows, Deliver!Deciding
<1>10. Knows(t, slot1, l, slot2[c])
  BY <1>1, <1>2, <1>3, <1>7, <1>9 DEF Knows, Deliver!Validated, Deliver!Found, Deliver!Deciding, Follows
<1>11. slot6[c].pc # "idle"
  BY <1>1
<1> QED
  BY <1>1, <1>5, <1>8, <1>10, <1>11, AtRemote, GoesOn

----------------------------------------------------------------------------
\* The remote.

\* The branch goes on to a commit, and tested tags of its history are added.
LEMMA RemoteForward ==
  ASSUME NEW t \in DOMAIN Team, Deliver(t)!IInv, NEW to \in Deliver(t)!Made, NEW new \in SUBSET TestedTags(t),
         slot5' = [tip |-> to, tags |-> slot5.tags \cup new], slot1' = slot1,
         slot3' \in [Team[t].clones -> BOOLEAN], Follows(slot1, to, slot5.tip),
         \A tag \in new : Follows(slot1, to, tag.commit)
  PROVE  Forward(t) /\ \A tag : Deliver(t)!Tested(tag) => Deliver(t)!Tested(tag)'
<1>1. \A tag : Deliver(t)!Tested(tag) => Deliver(t)!Tested(tag)'
  BY DEF Deliver!Tested, Deliver!Had, Deliver!Descends, Deliver!Checks, Deliver!Artifacts
<1>2. /\ slot1 \in Seq(Deliver(t)!CommitRecord) /\ Len(slot1) \in Nat /\ Ordered1(slot1) /\ to \in 1..Len(slot1)
      /\ slot5.tags \subseteq TestedTags(t) /\ \A tag \in slot5.tags : Follows(slot1, slot5.tip, tag.commit)
  BY AtRemote, AncestryIs DEF Deliver!IInv, Deliver!Made
<1>3. slot5'.tip = to /\ slot5'.tags = slot5.tags \cup new
  OBVIOUS
<1>4. \A tag \in slot5'.tags : tag \in Deliver(t)!Tag /\ Deliver(t)!Tested(tag)
  BY <1>2, <1>3 DEF TestedTags
<1>5. \A tag \in slot5'.tags : Follows(slot1, to, tag.commit)
  BY <1>2, <1>3, FollowsOrder
<1>6. slot5' \in [tip : 1..Len(slot1'), tags : SUBSET Deliver(t)!Tag]
  BY <1>2, <1>3, <1>4
<1> QED
  BY <1>1, <1>2, <1>3, <1>4, <1>5, <1>6 DEF Forward

\* Then the command ends where it is, or is rolled back.
LEMMA PublishedIInv ==
  ASSUME NEW t \in DOMAIN Team, Deliver(t)!IInv, NEW p \in Deliver(t)!Place, Forward(t),
         \A tag : Deliver(t)!Tested(tag) => Deliver(t)!Tested(tag)', slot1' = slot1,
         slot6' = [slot6 EXCEPT ![p] = Deliver(t)!Idle],
         \/ slot2' = slot2 /\ slot4' = slot4
         \/ slot2' = [slot2 EXCEPT ![p] = slot6[p].start.head] /\ slot4' = [slot4 EXCEPT ![p] = slot6[p].start.tags]
  PROVE  Deliver(t)!IInv'
<1>1. PICK h \in Deliver(t)!Made, ts \in SUBSET TestedTags(t) :
        slot2' = [slot2 EXCEPT ![p] = h] /\ slot4' = [slot4 EXCEPT ![p] = ts]
  <2>1. CASE slot2' = slot2 /\ slot4' = slot4
    <3>1. slot2' = [slot2 EXCEPT ![p] = slot2[p]] /\ slot4' = [slot4 EXCEPT ![p] = slot4[p]]
      BY <2>1 DEF Deliver!IInv, Deliver!TypeOK
    <3> QED
      BY <3>1, AtPlace
  <2>2. CASE slot2' = [slot2 EXCEPT ![p] = slot6[p].start.head] /\ slot4' = [slot4 EXCEPT ![p] = slot6[p].start.tags]
    BY <2>2, AtPlace DEF Fit
  <2> QED
    BY <2>1, <2>2
<1>2. Moves(t, p, Deliver(t)!Idle, h, ts)
  BY <1>1 DEF Moves
<1>3. Fit(t, Deliver(t)!Idle) /\ Knows(t, slot1, Deliver(t)!Idle, h) /\ Deliver(t)!Idle.pc = "idle"
  BY IdleFit, IdleKnows
<1>4. ts \subseteq Deliver(t)!Tag
      /\ \A tag \in ts \cup Deliver(t)!Idle.start.tags \cup Deliver(t)!Idle.before.tags : Deliver(t)!Tested(tag)'
  BY <1>3 DEF TestedTags, Fit
<1>5. Remembers(t, p, Deliver(t)!Idle, h, ts)
  BY <1>3, <1>4 DEF Remembers, Fit, Deliver!Made
<1> QED
  BY <1>2, <1>5, MovedIInv

LEMMA PushIInv ==
  ASSUME NEW t \in DOMAIN Team, Deliver(t)!IInv, NEW c \in Deliver(t)!Place,
         Deliver(t)!Push(c) \/ Deliver(t)!PushUnanswered(c)
  PROVE  Deliver(t)!IInv'
<1> DEFINE new == {Deliver(t)!MyTag(c)}
<1>1. /\ slot6[c].pc = "push" /\ slot1' = slot1 /\ Follows(slot1, slot2[c], slot5.tip)
      /\ slot5' = [tip |-> slot2[c], tags |-> slot5.tags \cup new]
      /\ slot6' = [slot6 EXCEPT ![c] = Deliver(t)!Idle]
      /\ \/ slot2' = slot2 /\ slot4' = slot4
         \/ slot2' = [slot2 EXCEPT ![c] = slot6[c].start.head] /\ slot4' = [slot4 EXCEPT ![c] = slot6[c].start.tags]
  BY DEF Deliver!Push, Deliver!PushUnanswered, Deliver!pc, Deliver!BranchAndTag, Deliver!Descends, Follows,
         Deliver!Undo, Deliver!Restore
<1>2. slot3' \in [Team[t].clones -> BOOLEAN]
  BY AtRemote DEF Deliver!Push, Deliver!PushUnanswered, Deliver!Undo, Deliver!Restore
<1>3. new \in SUBSET TestedTags(t) /\ \A tag \in new : Follows(slot1, slot2[c], tag.commit)
  <2>1. slot6[c].pc \in Deliver(t)!Deciding
    BY <1>1 DEF Deliver!Deciding
  <2>2. /\ Deliver(t)!MyTag(c) \in TestedTags(t) /\ Deliver(t)!MyTag(c).commit = slot6[c].candidate
        /\ Follows(slot1, slot2[c], slot6[c].candidate)
    BY <2>1, MyTagTested
  <2>3. \A tag \in new : tag = Deliver(t)!MyTag(c)
    OBVIOUS
  <2> HIDE DEF new
  <2> QED
    BY <2>2, <2>3
<1>4. slot2[c] \in Deliver(t)!Made
  BY AtPlace
<1> HIDE DEF new
<1>5. Forward(t) /\ \A tag : Deliver(t)!Tested(tag) => Deliver(t)!Tested(tag)'
  BY <1>1, <1>2, <1>3, <1>4, RemoteForward
<1> QED
  BY <1>1, <1>5, PublishedIInv

LEMMA PushTagIInv ==
  ASSUME NEW t \in DOMAIN Team, Deliver(t)!IInv, NEW r \in Team[t].runners, Deliver(t)!PushTag(r)
  PROVE  Deliver(t)!IInv'
<1> DEFINE new == {Deliver(t)!MyTag(r)}
<1>1. /\ slot6[r].pc = "push tag" /\ slot1' = slot1 /\ r \in Deliver(t)!Place
      /\ slot6' = [slot6 EXCEPT ![r] = Deliver(t)!Idle] /\ slot2' = slot2 /\ slot4' = slot4 /\ slot3' = slot3
      /\ slot5' = [slot5 EXCEPT !.tags = slot5.tags \cup new]
  BY DEF Deliver!PushTag, Deliver!pc, Deliver!Place
<1>2. /\ slot5.tip \in Deliver(t)!Made /\ slot5 = [tip |-> slot5.tip, tags |-> slot5.tags]
      /\ slot3' \in [Team[t].clones -> BOOLEAN] /\ Len(slot1) \in Nat /\ Ordered1(slot1) /\ slot5.tip \in 1..Len(slot1)
  BY <1>1, AtRemote, AncestryIs DEF Deliver!IInv, Deliver!Made
<1>3. slot5' = [tip |-> slot5.tip, tags |-> slot5.tags \cup new] /\ Follows(slot1, slot5.tip, slot5.tip)
  BY <1>1, <1>2 DEF Follows
<1>4. Follows(slot1, slot5.tip, slot2[r])
  BY <1>1 DEF Deliver!IInv, Deliver!RunnerBehind, Deliver!pc, Deliver!Descends, Follows
<1>5. new \in SUBSET TestedTags(t) /\ \A tag \in new : Follows(slot1, slot2[r], tag.commit)
  BY <1>1, MyTagTested DEF Deliver!Deciding
<1> HIDE DEF new
<1>6. \A tag \in new : Follows(slot1, slot5.tip, tag.commit)
  BY <1>2, <1>4, <1>5, FollowsOrder
<1>7. Forward(t) /\ \A tag : Deliver(t)!Tested(tag) => Deliver(t)!Tested(tag)'
  BY <1>1, <1>2, <1>3, <1>5, <1>6, RemoteForward
<1> QED
  BY <1>1, <1>7, PublishedIInv

LEMMA PushTagFailsIInv ==
  ASSUME NEW t \in DOMAIN Team, Deliver(t)!IInv, NEW r \in Deliver(t)!Place, Deliver(t)!PushTagFails(r)
  PROVE  Deliver(t)!IInv'
<1> DEFINE ts == Deliver(t)!Without(slot4[r], Deliver(t)!MyTag(r).version)
<1>1. /\ slot6' = [slot6 EXCEPT ![r] = Deliver(t)!Idle] /\ slot4' = [slot4 EXCEPT ![r] = ts]
      /\ slot1' = slot1 /\ slot2' = slot2 /\ slot3' = slot3 /\ slot5' = slot5
  BY DEF Deliver!PushTagFails
<1>2. ts \subseteq TestedTags(t)
  BY AtPlace DEF Deliver!Without
<1> HIDE DEF ts
<1> QED
  BY <1>1, <1>2, IdleFit, IdleKnows, AtRemote, GoesOn

\* A fresh checkout is of the tip of the branch, and its artifacts have just been found current.
LEMMA CheckoutIInv ==
  ASSUME NEW t \in DOMAIN Team, Deliver(t)!IInv, NEW r \in Deliver(t)!Place, Deliver(t)!Checkout(r)
  PROVE  Deliver(t)!IInv'
<1> DEFINE found1 == {Deliver(t)!Result(slot5.tip, "artifacts", "PASS")}
           l == [Deliver(t)!Idle EXCEPT !.pc = "run", !.kind = "ci", !.left = Team[t].env, !.results = found1,
                                        !.candidate = slot5.tip]
<1>1. /\ slot6' = [slot6 EXCEPT ![r] = l] /\ slot2' = [slot2 EXCEPT ![r] = slot5.tip]
      /\ slot4' = [slot4 EXCEPT ![r] = {}] /\ slot1' = slot1 /\ slot3' = slot3 /\ slot5' = slot5
  BY DEF Deliver!Checkout, Deliver!Artifacts
<1>2. slot5.tip \in Deliver(t)!Made /\ slot5.tip \in Nat /\ slot3' \in [Team[t].clones -> BOOLEAN]
  BY <1>1, AtRemote
<1>3. found1 \in Deliver(t)!Results /\ \A x \in found1 : x.commit = slot5.tip /\ x.environment = "artifacts"
  <2>1. "PASS" \in Deliver(t)!Status
    BY DEF Deliver!Status
  <2> QED
    BY <1>2, <2>1 DEF Deliver!Result, Deliver!Results, Deliver!Artifacts
<1> HIDE DEF found1
<1>4. Fit(t, Deliver(t)!Idle) /\ Deliver(t)!Idle \in Deliver(t)!Local
  BY IdleFit, IdleLocal
<1>5. l \in Deliver(t)!Local
  BY <1>2, <1>3, <1>4 DEF Deliver!Local, Deliver!PCs
<1>6. /\ l.pc = "run" /\ l.start = Deliver(t)!Idle.start /\ l.before = Deliver(t)!Idle.before
      /\ l.candidate = slot5.tip /\ l.results = found1
  BY <1>4 DEF Deliver!Local
<1> HIDE DEF l
<1>7. Fit(t, l)
  BY <1>2, <1>4, <1>5, <1>6, KeepsFit
<1>8. Knows(t, slot1, l, slot5.tip)
  BY <1>3, <1>6 DEF Knows, Deliver!Validated, Deliver!Found, Deliver!Deciding, Follows
<1>9. Moves(t, r, l, slot5.tip, {})
  BY <1>1 DEF Moves
<1>10. Follows(slot1, slot5.tip, slot5.tip)
  BY DEF Follows
<1> QED
  BY <1>1, <1>2, <1>7, <1>8, <1>9, <1>10, QuietIInv

----------------------------------------------------------------------------
\* The developer.

LEMMA SameMemory ==
  ASSUME NEW t, Deliver(t)!IInv, NEW c \in Deliver(t)!Place
  PROVE  slot6 = [slot6 EXCEPT ![c] = slot6[c]] /\ slot2 = [slot2 EXCEPT ![c] = slot2[c]]
BY DEF Deliver!IInv, Deliver!TypeOK

LEMMA EditsIInv ==
  ASSUME NEW t \in DOMAIN Team, Deliver(t)!IInv, NEW c \in Team[t].clones, c \notin Team[t].runners, Deliver(t)!Edits(c)
  PROVE  Deliver(t)!IInv'
<1>1. c \in Deliver(t)!Place
  BY DEF Deliver!Place
<1>2. slot6' = [slot6 EXCEPT ![c] = slot6[c]] /\ slot2' = slot2 /\ slot4' = slot4 /\ slot1' = slot1 /\ slot5' = slot5
  BY <1>1, SameMemory DEF Deliver!Edits
<1>3. slot3' \in [Team[t].clones -> BOOLEAN]
  BY AtRemote DEF Deliver!Edits
<1>4. /\ slot4' = [slot4 EXCEPT ![c] = slot4[c]] /\ slot4[c] \subseteq TestedTags(t)
      /\ Fit(t, slot6[c]) /\ Knows(t, slot1, slot6[c], slot2[c])
  BY <1>1, <1>2, SameTags, AtPlace
<1> QED
  BY <1>1, <1>2, <1>3, <1>4, GoesOn

LEMMA PushesBranchIInv ==
  ASSUME NEW t \in DOMAIN Team, Deliver(t)!IInv, NEW c \in Team[t].clones, c \notin Team[t].runners, Deliver(t)!PushesBranch(c)
  PROVE  Deliver(t)!IInv'
<1> DEFINE new == {}
<1>1. c \in Deliver(t)!Place
  BY DEF Deliver!Place
<1>2. /\ slot6' = slot6 /\ slot2' = slot2 /\ slot4' = slot4 /\ slot1' = slot1 /\ slot3' = slot3
      /\ slot5' = [slot5 EXCEPT !.tip = slot2[c]] /\ Follows(slot1, slot2[c], slot5.tip)
  BY DEF Deliver!PushesBranch, Deliver!Descends, Follows
<1>3. slot5' = [tip |-> slot2[c], tags |-> slot5.tags \cup new] /\ slot3' \in [Team[t].clones -> BOOLEAN]
  BY <1>2, AtRemote
<1>4. new \in SUBSET TestedTags(t) /\ \A tag \in new : Follows(slot1, slot2[c], tag.commit)
  OBVIOUS
<1>5. /\ slot2[c] \in Deliver(t)!Made /\ slot4[c] \subseteq TestedTags(t)
      /\ Fit(t, slot6[c]) /\ Knows(t, slot1, slot6[c], slot2[c])
  BY <1>1, AtPlace
<1> HIDE DEF new
<1>6. Forward(t) /\ \A tag : Deliver(t)!Tested(tag) => Deliver(t)!Tested(tag)'
  BY <1>2, <1>3, <1>4, <1>5, RemoteForward
<1>7. Moves(t, c, slot6[c], slot2[c], slot4[c])
  BY <1>1, <1>2, SameMemory, SameTags DEF Moves
<1>8. /\ slot4[c] \subseteq Deliver(t)!Tag
      /\ \A tag \in slot4[c] \cup slot6[c].start.tags \cup slot6[c].before.tags : Deliver(t)!Tested(tag)'
  BY <1>5, <1>6 DEF TestedTags, Fit
<1>9. Remembers(t, c, slot6[c], slot2[c], slot4[c])
  BY <1>2, <1>5, <1>8 DEF Remembers, Fit, Deliver!Made
<1> QED
  BY <1>6, <1>7, <1>9, MovedIInv

LEMMA PullsIInv ==
  ASSUME NEW t \in DOMAIN Team, Deliver(t)!IInv, NEW c \in Team[t].clones, c \notin Team[t].runners, Deliver(t)!Pulls(c)
  PROVE  Deliver(t)!IInv'
<1> DEFINE ts == slot4[c] \cup slot5.tags
<1>1. c \in Deliver(t)!Place
  BY DEF Deliver!Place
<1>2. /\ slot6' = slot6 /\ slot2' = [slot2 EXCEPT ![c] = slot5.tip] /\ slot4' = [slot4 EXCEPT ![c] = ts]
      /\ slot1' = slot1 /\ slot3' = slot3 /\ slot5' = slot5 /\ Follows(slot1, slot5.tip, slot2[c])
  BY DEF Deliver!Pulls, Deliver!Descends, Follows
<1>3. ts \subseteq TestedTags(t) /\ Fit(t, slot6[c]) /\ Knows(t, slot1, slot6[c], slot2[c])
  BY <1>1, AtPlace, AtRemote
<1> HIDE DEF ts
<1>4. Moves(t, c, slot6[c], slot5.tip, ts)
  BY <1>1, <1>2, SameMemory DEF Moves
<1>5. /\ slot5.tip \in Deliver(t)!Made /\ slot3' \in [Team[t].clones -> BOOLEAN]
      /\ Len(slot1) \in Nat /\ Ordered1(slot1) /\ slot5.tip \in 1..Len(slot1)
  BY <1>2, AtRemote, AncestryIs DEF Deliver!IInv, Deliver!Made
<1>6. Knows(t, slot1, slot6[c], slot5.tip)
  BY <1>2, <1>3, <1>5, KnowsOn
<1> QED
  BY <1>2, <1>3, <1>4, <1>5, <1>6, QuietIInv

----------------------------------------------------------------------------
LEMMA TestIInv ==
  ASSUME NEW t \in DOMAIN Team, Deliver(t)!IInv, NEW p \in Deliver(t)!Place, Deliver(t)!Test(p)
  PROVE  Deliver(t)!IInv'
<1>1. CASE Deliver(t)!ValidateFails(p) \/ Deliver(t)!TagRefused(p)
  BY <1>1, RaiseIInv DEF Deliver!ValidateFails, Deliver!TagRefused
<1>2. CASE \E e \in Team[t].env : Deliver(t)!StartTest(p, e)
  BY <1>2, CheckedIInv
<1>3. CASE Deliver(t)!RunTest(p)
  BY <1>3, LooksIInv
<1>4. CASE \E status \in Deliver(t)!Status : Deliver(t)!EndTest(p, status)
  BY <1>4, EndTestIInv
<1>5. CASE Deliver(t)!Finalize(p)
  BY <1>5, FinalizeIInv
<1>6. CASE Deliver(t)!TagLocally(p)
  BY <1>6, TagLocallyIInv
<1> QED
  BY <1>1, <1>2, <1>3, <1>4, <1>5, <1>6 DEF Deliver!Test

LEMMA VerifyIInv ==
  ASSUME NEW t \in DOMAIN Team, Deliver(t)!IInv, NEW c \in Team[t].clones, c \notin Team[t].runners,
         Team[t].kinds[c] \subseteq {"local", "push"}, Deliver(t)!Verify(c)
  PROVE  Deliver(t)!IInv'
<1>1. c \in Deliver(t)!Place
  BY DEF Deliver!Place
<1>2. CASE \E kind \in Team[t].kinds[c] : Deliver(t)!Begin(c, kind)
  BY <1>2, BeginIInv
<1>3. CASE \/ Deliver(t)!RepositoryPolicyFails(c) \/ Deliver(t)!BranchPolicyFails(c) \/ Deliver(t)!PrepareRefuses(c)
           \/ Deliver(t)!PrepareFails(c) \/ Deliver(t)!PushRejected(c)
  BY <1>1, <1>3, RaiseIInv
     DEF Deliver!RepositoryPolicyFails, Deliver!BranchPolicyFails, Deliver!PrepareRefuses, Deliver!PrepareFails, Deliver!PushRejected
<1>4. CASE Deliver(t)!Prepare(c) \/ Deliver(t)!AdvanceIteration(c) \/ Deliver(t)!KeepRequest(c)
  BY <1>4, PrepareIInv
<1>5. CASE Deliver(t)!CommitRequest(c)
  BY <1>5, CommitRequestIInv
<1>6. CASE Deliver(t)!Validate(c)
  BY <1>6, ValidateIInv
<1>7. CASE Deliver(t)!StartArtifacts(c)
  BY <1>1, <1>7, LooksIInv
<1>8. CASE Deliver(t)!ArtifactsPass(c)
  BY <1>8, ArtifactsPassIInv
<1>9. CASE \E status \in Deliver(t)!Status : Deliver(t)!ArtifactsFail(c, status)
  BY <1>9, ArtifactsFailIInv
<1>10. CASE Deliver(t)!ArtifactsUnchanged(c)
  BY <1>10, ArtifactsUnchangedIInv
<1>11. CASE Deliver(t)!CommitArtifacts(c)
  BY <1>11, CommitArtifactsIInv
<1>12. CASE Deliver(t)!Revalidate(c)
  BY <1>1, <1>12, CheckedIInv
<1>13. CASE Deliver(t)!Publish(c)
  BY <1>1, <1>13, PublishIInv
<1>14. CASE Deliver(t)!Push(c) \/ Deliver(t)!PushUnanswered(c)
  BY <1>1, <1>14, PushIInv
<1> QED
  BY <1>2, <1>3, <1>4, <1>5, <1>6, <1>7, <1>8, <1>9, <1>10, <1>11, <1>12, <1>13, <1>14 DEF Deliver!Verify

LEMMA DeliveryStep ==
  ASSUME NEW t \in DOMAIN Team, Deliver(t)!DeliveryAssumption, Deliver(t)!IInv, [Deliver(t)!Next]_<<slot1, slot2, slot3, slot4, slot5, slot6>>
  PROVE  Deliver(t)!IInv'
<1>1. \A c \in Team[t].clones : c \notin Team[t].runners /\ Team[t].kinds[c] \subseteq {"local", "push"}
  BY DEF Deliver!DeliveryAssumption
<1>2. ASSUME NEW p \in Deliver(t)!Place, Deliver(t)!Test(p) PROVE Deliver(t)!IInv'
  BY <1>2, TestIInv
<1>3. ASSUME NEW c \in Team[t].clones, Deliver(t)!Verify(c) PROVE Deliver(t)!IInv'
  BY <1>1, <1>3, VerifyIInv
<1>4. ASSUME NEW c \in Team[t].clones, Deliver(t)!Develop(c) PROVE Deliver(t)!IInv'
  <2>1. c \notin Team[t].runners
    BY <1>1
  <2> QED
    BY <1>4, <2>1, EditsIInv, CommitsIInv, PushesBranchIInv, PullsIInv DEF Deliver!Develop
<1>5. ASSUME NEW r \in Team[t].runners, Deliver(t)!Checkout(r) \/ Deliver(t)!PushTag(r) \/ Deliver(t)!PushTagFails(r)
      PROVE  Deliver(t)!IInv'
  <2>1. r \in Deliver(t)!Place
    BY DEF Deliver!Place
  <2> QED
    BY <1>5, <2>1, CheckoutIInv, PushTagIInv, PushTagFailsIInv
<1>6. CASE UNCHANGED <<slot1, slot2, slot3, slot4, slot5, slot6>>
  <2>1. /\ slot1' = slot1 /\ slot2' = slot2 /\ slot3' = slot3
        /\ slot4' = slot4 /\ slot5' = slot5 /\ slot6' = slot6
    BY <1>6
  <2>2. Deliver(t)!TypeOK'
    BY <2>1, Zenon DEF Deliver!IInv, Deliver!TypeOK, Deliver!Made
  <2>3. Deliver(t)!Ancestry'
    BY <2>1, Zenon DEF Deliver!IInv, Deliver!Ancestry, Deliver!Made
  <2>4. \A tag : Deliver(t)!Tested(tag) => Deliver(t)!Tested(tag)'
    BY <2>1, Zenon DEF Deliver!Tested, Deliver!Had, Deliver!Descends
  <2>5. Deliver(t)!AllTested'
    BY <2>1, <2>4, Zenon DEF Deliver!IInv, Deliver!AllTested
  <2>6. Deliver(t)!OutcomeOnBranch'
    BY <2>1, Zenon DEF Deliver!IInv, Deliver!OutcomeOnBranch, Deliver!Descends
  <2>7. ASSUME NEW p \in Deliver(t)!Place PROVE Deliver(t)!HeadGoesOn(p)'
    <3>1. Deliver(t)!HeadGoesOn(p)
      BY DEF Deliver!IInv
    <3> QED
      BY <2>1, <3>1 DEF Deliver!HeadGoesOn, Deliver!pc, Deliver!Descends
  <2>8. ASSUME NEW p \in Deliver(t)!Place PROVE Deliver(t)!RunnerBehind(p)'
    BY <2>1, Zenon DEF Deliver!IInv, Deliver!RunnerBehind, Deliver!Descends, Deliver!pc
  <2> QED
    BY <2>2, <2>3, <2>5, <2>6, <2>7, <2>8 DEF Deliver!IInv
<1> QED
  BY <1>2, <1>3, <1>4, <1>5, <1>6 DEF Deliver!Next

LEMMA DeliveryInit == ASSUME NEW t \in DOMAIN Team PROVE Deliver(t)!Init => Deliver(t)!IInv
<1> SUFFICES ASSUME Deliver(t)!Init PROVE Deliver(t)!IInv
  OBVIOUS
<1>1. /\ Len(slot1) = 1 /\ slot1[1].past = {} /\ slot1 \in Seq(Deliver(t)!CommitRecord)
      /\ slot5 = [tip |-> 1, tags |-> {}] /\ Deliver(t)!Made = {1}
  BY DEF Deliver!Init, Deliver!Commit, Deliver!CommitRecord, Deliver!Made
<1>2. \A p \in Deliver(t)!Place : slot6[p] = Deliver(t)!Idle /\ slot2[p] = 1 /\ slot4[p] = {}
  BY DEF Deliver!Init
<1>3. /\ Deliver(t)!Idle.start.head = 1 /\ Deliver(t)!Idle.before.head = 1 /\ Deliver(t)!Idle.candidate = 1
      /\ Deliver(t)!Idle.start.tags = {} /\ Deliver(t)!Idle.before.tags = {}
  BY DEF Deliver!Idle, Deliver!Unborn
<1>4. Deliver(t)!TypeOK
  <2> HIDE DEF Deliver!Idle
  <2> QED
    BY <1>1, <1>2, <1>3, IdleLocal DEF Deliver!Init, Deliver!TypeOK
<1>5. Deliver(t)!Ancestry /\ Deliver(t)!AllTested /\ Deliver(t)!OutcomeOnBranch
  BY <1>1, <1>2, <1>3 DEF Deliver!Ancestry, Deliver!AllTested, Deliver!OutcomeOnBranch
<1>6. \A p \in Deliver(t)!Place : Deliver(t)!HeadGoesOn(p) /\ Deliver(t)!RunnerBehind(p)
  <2> SUFFICES ASSUME NEW p \in Deliver(t)!Place PROVE Deliver(t)!HeadGoesOn(p) /\ Deliver(t)!RunnerBehind(p)
    OBVIOUS
  <2>1. Knows(t, slot1, slot6[p], slot2[p]) /\ slot6[p].pc = "idle"
    BY <1>2, IdleKnows, IdleLocal
  <2> QED
    BY <2>1, GoesOnIs DEF Deliver!RunnerBehind, Deliver!pc
<1> QED
  BY <1>4, <1>5, <1>6 DEF Deliver!IInv

----------------------------------------------------------------------------
(***************************************************************************)
(* HostedStage                                                              *)
(***************************************************************************)

LEMMA Greatest ==
  ASSUME NEW n \in Nat, NEW S \in SUBSET (1..n), S # {}
  PROVE  \E i \in S : \A j \in S : j <= i
<1> DEFINE T == {n - i : i \in S}
<1>1. T \subseteq Nat /\ T # {}
  <2>1. \A i \in S : n - i \in Nat
    OBVIOUS
  <2>2. PICK i : i \in S
    OBVIOUS
  <2> QED
    BY <2>1, <2>2
<1>2. PICK x \in T : \A y \in T : ~(<<y, x>> \in OpToRel(<, Nat))
  BY <1>1, NatLessThanWellFounded, WFMin
<1>3. \A y \in T : ~(y < x)
  BY <1>1, <1>2 DEF OpToRel
<1>4. PICK i \in S : x = n - i
  OBVIOUS
<1>5. \A j \in S : ~(n - j < n - i)
  BY <1>3, <1>4
<1> QED
  BY <1>5

\* The last commit of a history up to n of which P holds, given the indexes of those of which it does.
LEMMA LastOf ==
  ASSUME NEW n \in Nat, NEW S \in SUBSET (1..n), 1 \in S
  PROVE  \E i \in 1..n : i \in S /\ \A j \in (i + 1)..n : j \notin S
<1>1. PICK i \in S : \A j \in S : j <= i
  BY Greatest
<1> QED
  BY <1>1

LEMMA HistoryIs ==
  ASSUME NEW t, NEW h, Host(t)!History(h)
  PROVE  /\ h \in Seq(Host(t)!Commits) /\ Len(h) \in Nat /\ Len(h) > 0 /\ DOMAIN h = 1..Len(h) /\ h[1].kind = "source"
         /\ Len(h) \in DOMAIN h /\ \A i \in DOMAIN h : h[i] \in Host(t)!Commits
         /\ \A i \in DOMAIN h : \A j \in 1..i : Host(t)!Members(h[j].log) \subseteq Host(t)!Members(h[i].log)
BY DEF Host!History

LEMMA CommitIs ==
  ASSUME NEW t, NEW commit \in Host(t)!Commits
  PROVE  /\ commit.kind \in {"source", "marker", "evidence", "recorded"} /\ commit.version \in Nat
         /\ commit.stage \in Host(t)!Kinds /\ commit.log \in Seq(Host(t)!Observation)
BY DEF Host!Commits

LEMMA CandidateIs ==
  ASSUME NEW t, NEW h, Host(t)!History(h), NEW n \in 1..Len(h)
  PROVE  /\ Host(t)!Candidate(h, n) \in 1..n /\ h[Host(t)!Candidate(h, n)].kind \in {"source", "recorded"}
         /\ Host(t)!EvidenceSource(h, n) \in 1..n
<1>1. n \in Nat /\ 1 \in 1..n /\ h[1].kind = "source" /\ 1..n \subseteq DOMAIN h /\ \A i \in DOMAIN h : h[i] \in Host(t)!Commits
  BY HistoryIs
<1>2. Host(t)!Candidate(h, n) \in 1..n /\ ~Host(t)!Bookkeeping(h[Host(t)!Candidate(h, n)])
  <2> DEFINE S == {i \in 1..n : ~Host(t)!Bookkeeping(h[i])}
  <2>1. S \in SUBSET (1..n) /\ 1 \in S
    BY <1>1 DEF Host!Bookkeeping
  <2>2. \E i \in 1..n : i \in S /\ \A j \in (i + 1)..n : j \notin S
    <3> HIDE DEF S
    <3> QED
      BY <1>1, <2>1, LastOf
  <2>3. \E i \in 1..n : ~Host(t)!Bookkeeping(h[i]) /\ \A j \in (i + 1)..n : Host(t)!Bookkeeping(h[j])
    BY <1>1, <2>2
  <2> QED
    BY <2>3 DEF Host!Candidate
<1>3. Host(t)!EvidenceSource(h, n) \in 1..n
  <2> DEFINE S == {i \in 1..n : h[i].kind # "recorded"}
  <2>1. S \in SUBSET (1..n) /\ 1 \in S
    BY <1>1
  <2>2. \E i \in 1..n : i \in S /\ \A j \in (i + 1)..n : j \notin S
    <3> HIDE DEF S
    <3> QED
      BY <1>1, <2>1, LastOf
  <2>3. \E i \in 1..n : h[i].kind # "recorded" /\ \A j \in (i + 1)..n : h[j].kind = "recorded"
    BY <1>1, <2>2
  <2> QED
    BY <2>3 DEF Host!EvidenceSource
<1> QED
  BY <1>1, <1>2, <1>3, CommitIs DEF Host!Bookkeeping

\* A commit that takes nothing from the log makes the history longer.
LEMMA AppendHistory ==
  ASSUME NEW t, NEW h, Host(t)!History(h), NEW commit \in Host(t)!Commits,
         Host(t)!Members(Host(t)!LogOf(h)) \subseteq Host(t)!Members(commit.log)
  PROVE  /\ Host(t)!History(Append(h, commit)) /\ Host(t)!Precedes(h, Append(h, commit))
         /\ Len(Append(h, commit)) = Len(h) + 1 /\ Append(h, commit)[Len(h) + 1] = commit
<1> DEFINE g == Append(h, commit)
<1>1. h \in Seq(Host(t)!Commits) /\ Len(h) \in Nat /\ Len(h) > 0 /\ DOMAIN h = 1..Len(h) /\ h[1].kind = "source"
  BY HistoryIs
<1>2. /\ g \in Seq(Host(t)!Commits) /\ Len(g) = Len(h) + 1 /\ g[Len(h) + 1] = commit
      /\ DOMAIN g = 1..(Len(h) + 1) /\ \A i \in 1..Len(h) : g[i] = h[i]
  BY <1>1
<1> HIDE DEF g
<1>3. ASSUME NEW i \in DOMAIN g, NEW j \in 1..i PROVE Host(t)!Members(g[j].log) \subseteq Host(t)!Members(g[i].log)
  <2>1. CASE i \in 1..Len(h)
    <3>1. j \in 1..Len(h) /\ Host(t)!Members(h[j].log) \subseteq Host(t)!Members(h[i].log)
      BY <1>1, <2>1, HistoryIs
    <3> QED
      BY <1>2, <2>1, <3>1
  <2>2. CASE i = Len(h) + 1 /\ j \in 1..Len(h)
    <3>1. Len(h) \in DOMAIN h /\ j \in 1..Len(h)
      BY <1>1, <2>2
    <3>2. Host(t)!Members(h[j].log) \subseteq Host(t)!Members(h[Len(h)].log)
      BY <1>1, <3>1, HistoryIs
    <3> QED
      BY <1>2, <2>2, <3>2 DEF Host!LogOf
  <2>3. CASE i = Len(h) + 1 /\ j = Len(h) + 1
    BY <2>3
  <2> QED
    BY <1>1, <1>2, <2>1, <2>2, <2>3
<1>4. Host(t)!History(g)
  <2>1. g[1].kind = "source" /\ Len(g) > 0
    BY <1>1, <1>2
  <2> QED
    BY <1>2, <1>3, <2>1 DEF Host!History
<1>5. Host(t)!Precedes(h, g)
  BY <1>1, <1>2 DEF Host!Precedes
<1> QED
  BY <1>2, <1>4, <1>5 DEF g

LEMMA PrecedesTrans ==
  ASSUME NEW t, NEW f, NEW g, NEW h, Host(t)!History(f), Host(t)!History(g), Host(t)!History(h),
         Host(t)!Precedes(f, g), Host(t)!Precedes(g, h)
  PROVE  Host(t)!Precedes(f, h)
<1>1. Len(f) \in Nat /\ Len(g) \in Nat /\ Len(h) \in Nat /\ DOMAIN f = 1..Len(f) /\ DOMAIN g = 1..Len(g)
  BY HistoryIs
<1> QED
  BY <1>1 DEF Host!Precedes

LEMMA PrecedesSelf == ASSUME NEW t, NEW h, Host(t)!History(h) PROVE Host(t)!Precedes(h, h)
BY HistoryIs DEF Host!Precedes

----------------------------------------------------------------------------
\* The invariant, of values.
Evident(t, h, tags) ==
  /\ tags \subseteq [phase : Host(t)!Terminal, version : Nat, outcome : {"PASS", "FAIL"}, candidate : 1..Len(h)]
  /\ \A tag \in tags :
       /\ h[tag.candidate].kind \notin {"marker", "evidence"}
       /\ h[tag.candidate].version = tag.version
       /\ Host(t)!Record(tag.candidate, tag.phase, tag.version, Host(t)!Expected(tag.outcome), TRUE)
            \in Host(t)!Members(h[Len(h)].log)
       /\ \A s \in tags : s.phase = tag.phase /\ s.version = tag.version => s = tag

RunIs(t) ==
  [pc : {"idle", "plan", "test", "check", "publish", "bind", "tag"}, tip : Nat, candidate : Nat,
   record : Host(t)!Observation]

Tracked(t, h, invoked, run) ==
  /\ invoked \subseteq 1..Len(h)
  /\ run \in RunIs(t)
  /\ run.pc # "idle" => run.tip \in invoked
  /\ run.pc \notin {"idle", "plan"} =>
       run.candidate \in 1..(run.tip - 1) /\ h[run.candidate].kind \in {"source", "recorded"}
  /\ run.pc \notin {"idle", "plan", "test"} => run.record.version = h[run.candidate].version
  /\ run.pc \in {"bind", "tag"} => run.record.kind \in Host(t)!Terminal /\ run.tip < Len(h)

LEMMA HostIs ==
  ASSUME NEW t
  PROVE  Host(t)!IInv <=> /\ Host(t)!History(slot1) /\ Host(t)!History(slot4) /\ slot2 \in Seq(Host(t)!Observation)
                          /\ Tracked(t, slot4, slot5, slot7) /\ Evident(t, slot4, slot6)
BY DEF Host!IInv, Host!TypeOK, Host!RunTraced, Host!TagIsEvidence, Host!LogOf, Host!pc, Tracked, RunIs, Evident

LEMMA HostIsThen ==
  ASSUME NEW t, Host(t)!History(slot1'), Host(t)!History(slot4'), slot2' \in Seq(Host(t)!Observation),
         Tracked(t, slot4', slot5', slot7'), Evident(t, slot4', slot6')
  PROVE  Host(t)!IInv'
<1>1. Host(t)!TypeOK'
  <2>1. Host(t)!History(slot1)'
    <3>1. (slot1 \in Seq(Host(t)!Commits))'
      BY Zenon DEF Host!History, Host!Commits, Host!Kinds, Host!Observation, Host!Result
    <3>2. (Len(slot1) > 0 /\ slot1[1].kind = "source")'
      BY DEF Host!History
    <3>3. (\A k \in DOMAIN slot1 : \A j \in 1..k : Host(t)!Members(slot1[j].log) \subseteq Host(t)!Members(slot1[k].log))'
      BY DEF Host!History, Host!Members
    <3> QED
      BY <3>1, <3>2, <3>3 DEF Host!History
  <2>6. Host(t)!History(slot4)'
    <3>1. (slot4 \in Seq(Host(t)!Commits))'
      BY Zenon DEF Host!History, Host!Commits, Host!Kinds, Host!Observation, Host!Result
    <3>2. (Len(slot4) > 0 /\ slot4[1].kind = "source")'
      BY DEF Host!History
    <3>3. (\A k \in DOMAIN slot4 : \A j \in 1..k : Host(t)!Members(slot4[j].log) \subseteq Host(t)!Members(slot4[k].log))'
      BY DEF Host!History, Host!Members
    <3> QED
      BY <3>1, <3>2, <3>3 DEF Host!History
  <2>2. (slot2 \in Seq(Host(t)!Observation))'
    BY DEF Host!Kinds, Host!Observation, Host!Result
  <2>3. (slot5 \subseteq 1..Len(slot4))'
    BY DEF Tracked
  <2>4. (slot6 \subseteq [phase : Host(t)!Terminal, version : Nat, outcome : {"PASS", "FAIL"}, candidate : 1..Len(slot4)])'
    BY DEF Evident, Host!Terminal
  <2>5. (slot7 \in [pc : {"idle", "plan", "test", "check", "publish", "bind", "tag"}, tip : Nat, candidate : Nat,
                    record : Host(t)!Observation])'
    BY DEF Tracked, RunIs, Host!Kinds, Host!Observation, Host!Result
  <2> QED
    BY <2>1, <2>2, <2>3, <2>4, <2>5, <2>6 DEF Host!TypeOK
<1>2. Host(t)!RunTraced'
  BY DEF Host!RunTraced, Host!pc, Host!Terminal, Tracked
<1>3. Host(t)!TagIsEvidence'
  BY DEF Host!TagIsEvidence, Host!LogOf, Host!Members, Host!Record, Host!Expected, Evident
<1> QED
  BY <1>1, <1>2, <1>3 DEF Host!IInv

LEMMA LongerEvidence ==
  ASSUME NEW t, NEW h, NEW g, Host(t)!History(h), Host(t)!History(g), Host(t)!Precedes(h, g), NEW ts, Evident(t, h, ts)
  PROVE  Evident(t, g, ts)
<1>1. /\ Len(h) \in Nat /\ Len(g) \in Nat /\ Len(h) > 0 /\ Len(h) <= Len(g) /\ DOMAIN h = 1..Len(h) /\ DOMAIN g = 1..Len(g)
      /\ \A i \in 1..Len(h) : g[i] = h[i]
  BY HistoryIs DEF Host!Precedes
<1>2. Host(t)!Members(h[Len(h)].log) \subseteq Host(t)!Members(g[Len(g)].log)
  <2>1. Len(g) \in DOMAIN g /\ Len(h) \in 1..Len(g) /\ g[Len(h)] = h[Len(h)]
    BY <1>1
  <2>2. Host(t)!Members(g[Len(h)].log) \subseteq Host(t)!Members(g[Len(g)].log)
    BY <2>1, HistoryIs
  <2> QED
    BY <2>1, <2>2
<1>3. ts \subseteq [phase : Host(t)!Terminal, version : Nat, outcome : {"PASS", "FAIL"}, candidate : 1..Len(h)]
  BY DEF Evident
<1>4. 1..Len(h) \subseteq 1..Len(g)
  BY <1>1
<1>5. ts \subseteq [phase : Host(t)!Terminal, version : Nat, outcome : {"PASS", "FAIL"}, candidate : 1..Len(g)]
  BY <1>3, <1>4
<1>6. \A tag \in ts : tag.candidate \in 1..Len(h) /\ g[tag.candidate] = h[tag.candidate]
  BY <1>1, <1>3
<1> QED
  BY <1>2, <1>5, <1>6 DEF Evident

LEMMA LongerTracked ==
  ASSUME NEW t, NEW h, NEW g, Host(t)!History(h), Host(t)!History(g), Host(t)!Precedes(h, g),
         NEW i, NEW j, i \subseteq j, j \subseteq 1..Len(g), NEW r, Tracked(t, h, i, r)
  PROVE  Tracked(t, g, j, r)
<1>1. /\ Len(h) \in Nat /\ Len(g) \in Nat /\ Len(h) <= Len(g) /\ DOMAIN h = 1..Len(h)
      /\ \A k \in 1..Len(h) : g[k] = h[k]
  BY HistoryIs DEF Host!Precedes
<1>2. r \in RunIs(t) /\ r.tip \in Nat /\ (r.pc # "idle" => r.tip \in j /\ r.tip <= Len(h))
  BY <1>1 DEF Tracked, RunIs
<1>3. r.pc \notin {"idle", "plan"} =>
        /\ r.candidate \in 1..(r.tip - 1) /\ h[r.candidate].kind \in {"source", "recorded"}
        /\ g[r.candidate] = h[r.candidate]
  <2> SUFFICES ASSUME r.pc \notin {"idle", "plan"} 
               PROVE  /\ r.candidate \in 1..(r.tip - 1) /\ h[r.candidate].kind \in {"source", "recorded"}
                      /\ g[r.candidate] = h[r.candidate]
    OBVIOUS
  <2>1. r.candidate \in 1..(r.tip - 1) /\ h[r.candidate].kind \in {"source", "recorded"}
    BY DEF Tracked
  <2>2. r.candidate \in 1..Len(h)
    BY <1>1, <1>2, <2>1
  <2> QED
    BY <1>1, <2>1, <2>2
<1>4. r.pc \in {"bind", "tag"} => r.record.kind \in Host(t)!Terminal /\ r.tip < Len(g)
  BY <1>1, <1>2 DEF Tracked
<1> QED
  BY <1>2, <1>3, <1>4 DEF Tracked

\* What the developer does: the clone changes, and the branch grows.
LEMMA HostGrows ==
  ASSUME NEW t, Host(t)!IInv, Host(t)!History(slot1'), Host(t)!History(slot4'), Host(t)!Precedes(slot4, slot4'),
         slot2' \in Seq(Host(t)!Observation), slot5 \subseteq slot5', slot5' \subseteq 1..Len(slot4'),
         slot6' = slot6, slot7' = slot7
  PROVE  Host(t)!IInv'
<1>1. Host(t)!History(slot4) /\ Tracked(t, slot4, slot5, slot7) /\ Evident(t, slot4, slot6)
  BY HostIs
<1>2. Tracked(t, slot4', slot5', slot7)
  BY <1>1, LongerTracked
<1>3. Evident(t, slot4', slot6)
  BY <1>1, LongerEvidence
<1>4. Tracked(t, slot4', slot5', slot7') /\ Evident(t, slot4', slot6')
  BY <1>2, <1>3
<1> QED
  BY <1>4, HostIsThen

\* What the workflow does while it publishes nothing.
LEMMA HostRuns ==
  ASSUME NEW t, Host(t)!IInv, slot1' = slot1, slot2' = slot2, slot4' = slot4, slot5' = slot5, slot6' = slot6,
         Tracked(t, slot4, slot5, slot7')
  PROVE  Host(t)!IInv'
<1>1. Host(t)!History(slot1) /\ Host(t)!History(slot4) /\ slot2 \in Seq(Host(t)!Observation) /\ Evident(t, slot4, slot6)
  BY HostIs
<1>2. Host(t)!History(slot1') /\ Host(t)!History(slot4') /\ slot2' \in Seq(Host(t)!Observation)
  BY <1>1
<1>3. Tracked(t, slot4', slot5', slot7') /\ Evident(t, slot4', slot6')
  BY <1>1
<1> QED
  BY <1>2, <1>3, HostIsThen

----------------------------------------------------------------------------
LEMMA KindsAre == ASSUME NEW t PROVE "none" \in Host(t)!Kinds
BY DEF Host!Kinds

LEMMA SourceIs ==
  ASSUME NEW t, NEW v \in Nat, NEW log \in Seq(Host(t)!Observation)
  PROVE  Host(t)!Source(v, log) \in Host(t)!Commits /\ Host(t)!Source(v, log).log = log /\ Host(t)!Source(v, log).version = v
BY KindsAre DEF Host!Source, Host!Commit, Host!Commits

LEMMA MarkerIs ==
  ASSUME NEW t, NEW v \in Nat, NEW log \in Seq(Host(t)!Observation), NEW stage \in Host(t)!Kinds, NEW bound \in BOOLEAN
  PROVE  Host(t)!Marker(v, stage, bound, log) \in Host(t)!Commits /\ Host(t)!Marker(v, stage, bound, log).log = log
BY DEF Host!Marker, Host!Commit, Host!Commits

LEMMA EvidenceIs ==
  ASSUME NEW t, NEW v \in Nat, NEW log \in Seq(Host(t)!Observation)
  PROVE  /\ Host(t)!Evidence(v, log) \in Host(t)!Commits /\ Host(t)!Evidence(v, log).log = log
         /\ Host(t)!Recorded(v, log) \in Host(t)!Commits /\ Host(t)!Recorded(v, log).log = log
BY KindsAre DEF Host!Evidence, Host!Recorded, Host!Commit, Host!Commits

LEMMA LastIs ==
  ASSUME NEW t, NEW h, Host(t)!History(h)
  PROVE  Host(t)!Version(h) \in Nat /\ Host(t)!LogOf(h) \in Seq(Host(t)!Observation)
<1>1. h[Len(h)] \in Host(t)!Commits
  BY HistoryIs
<1> QED
  BY <1>1, CommitIs DEF Host!Version, Host!LogOf

LEMMA AddSource ==
  ASSUME NEW t, NEW h, Host(t)!History(h), NEW v \in Nat
  PROVE  LET g == Append(h, Host(t)!Source(v, Host(t)!LogOf(h)))
         IN  Host(t)!History(g) /\ Host(t)!Precedes(h, g) /\ Host(t)!LogOf(g) = Host(t)!LogOf(h)
<1> DEFINE commit == Host(t)!Source(v, Host(t)!LogOf(h))
           g == Append(h, commit)
<1>1. Host(t)!LogOf(h) \in Seq(Host(t)!Observation)
  BY LastIs
<1>2. commit \in Host(t)!Commits /\ commit.log = Host(t)!LogOf(h)
  BY <1>1, SourceIs
<1>3. Host(t)!Members(Host(t)!LogOf(h)) \subseteq Host(t)!Members(commit.log)
  BY <1>2
<1> HIDE DEF commit
<1>4. Host(t)!History(g) /\ Host(t)!Precedes(h, g) /\ Len(g) = Len(h) + 1 /\ g[Len(h) + 1] = commit
  BY <1>2, <1>3, AppendHistory
<1>5. Host(t)!LogOf(g) = Host(t)!LogOf(h)
  BY <1>2, <1>4 DEF Host!LogOf
<1> QED
  BY <1>4, <1>5 DEF commit

LEMMA PreparedIs ==
  ASSUME NEW t, Host(t)!IInv, NEW stage
  PROVE  Host(t)!History(Host(t)!Prepared(stage)) /\ Host(t)!Precedes(slot1, Host(t)!Prepared(stage))
<1>1. Host(t)!History(slot1)
  BY HostIs
<1> DEFINE v == Host(t)!NextVersion(slot6 \cup slot3, Host(t)!Version(slot1), stage)
<1>2. v \in Nat
  <2>1. Host(t)!Version(slot1) \in Nat
    BY <1>1, LastIs
  <2> QED
    BY <2>1 DEF Host!NextVersion
<1>3. Host(t)!Prepared(stage) = slot1 \/ Host(t)!Prepared(stage) = Append(slot1, Host(t)!Source(v, Host(t)!LogOf(slot1)))
  BY DEF Host!Prepared
<1> HIDE DEF v
<1>4. Host(t)!History(slot1) /\ Host(t)!Precedes(slot1, slot1)
  BY <1>1, PrecedesSelf
<1> QED
  BY <1>1, <1>2, <1>3, <1>4, AddSource

LEMMA NotIs == ASSUME NEW b \in BOOLEAN PROVE (~b) \in BOOLEAN
OBVIOUS

LEMMA RequestedIs ==
  ASSUME NEW t, Host(t)!IInv, NEW stage \in Hosted[t].stages, NEW between \in BOOLEAN
  PROVE  Host(t)!History(Host(t)!Requested(stage, between)) /\ Host(t)!Precedes(slot1, Host(t)!Requested(stage, between))
<1> DEFINE h == Host(t)!Prepared(stage)
           before == IF between THEN Append(h, Host(t)!Source(Host(t)!Version(h), Host(t)!LogOf(h))) ELSE h
           commit == Host(t)!Marker(Host(t)!Version(h), stage, ~between, Host(t)!LogOf(h))
<1>1. Host(t)!Requested(stage, between) = Append(before, commit)
  BY DEF Host!Requested
<1>2. Host(t)!History(slot1) /\ Host(t)!History(h) /\ Host(t)!Precedes(slot1, h)
  BY HostIs, PreparedIs
<1> HIDE DEF h
<1>3. Host(t)!Version(h) \in Nat /\ Host(t)!LogOf(h) \in Seq(Host(t)!Observation)
  BY <1>2, LastIs
<1>4. Host(t)!History(before) /\ Host(t)!Precedes(h, before) /\ Host(t)!LogOf(before) = Host(t)!LogOf(h)
  <2>1. CASE between
    BY <1>2, <1>3, <2>1, AddSource
  <2>2. CASE ~between
    BY <1>2, <2>2, PrecedesSelf
  <2> QED
    BY <2>1, <2>2
<1> HIDE DEF before
<1>5. commit \in Host(t)!Commits /\ commit.log = Host(t)!LogOf(h)
  <2>1. stage \in Host(t)!Kinds
    BY DEF Host!Kinds
  <2>2. (~between) \in BOOLEAN
    BY NotIs
  <2> QED
    BY <1>3, <2>1, <2>2, MarkerIs, ZenonT(60)
<1> HIDE DEF commit
<1>6. Host(t)!Members(Host(t)!LogOf(before)) \subseteq Host(t)!Members(commit.log)
  BY <1>4, <1>5
<1>7. Host(t)!History(Append(before, commit)) /\ Host(t)!Precedes(before, Append(before, commit))
  BY <1>4, <1>5, <1>6, AppendHistory
<1>8. Host(t)!Precedes(slot1, before)
  BY <1>2, <1>4, PrecedesTrans
<1>9. Host(t)!Precedes(slot1, Append(before, commit))
  BY <1>2, <1>4, <1>7, <1>8, PrecedesTrans
<1> QED
  BY <1>1, <1>7, <1>9

----------------------------------------------------------------------------
LEMMA InvokedIn ==
  ASSUME NEW t, Host(t)!IInv, NEW h, Host(t)!History(h), Host(t)!Precedes(slot4, h)
  PROVE  slot5 \subseteq 1..Len(h) /\ Len(h) \in 1..Len(h)
<1>1. slot5 \subseteq 1..Len(slot4) /\ Host(t)!History(slot4)
  BY HostIs DEF Tracked
<1>2. Len(slot4) \in Nat /\ Len(h) \in Nat /\ Len(h) > 0 /\ Len(slot4) <= Len(h)
  BY <1>1, HistoryIs DEF Host!Precedes
<1> QED
  BY <1>1, <1>2

\* The clone alone changes.
LEMMA CloneIInv ==
  ASSUME NEW t, Host(t)!IInv, Host(t)!History(slot1'), slot2' \in Seq(Host(t)!Observation),
         slot4' = slot4, slot5' = slot5, slot6' = slot6, slot7' = slot7
  PROVE  Host(t)!IInv'
<1>1. Host(t)!History(slot4) /\ slot5 \subseteq 1..Len(slot4)
  BY HostIs DEF Tracked
<1>2. Host(t)!Precedes(slot4, slot4)
  BY <1>1, PrecedesSelf
<1>3. Host(t)!History(slot4') /\ Host(t)!Precedes(slot4, slot4') /\ slot5 \subseteq slot5' /\ slot5' \subseteq 1..Len(slot4')
  BY <1>1, <1>2
<1> QED
  BY <1>3, HostGrows

LEMMA RequestIInv ==
  ASSUME NEW t, Host(t)!IInv, NEW stage \in Hosted[t].stages, Host(t)!Request(stage)
  PROVE  Host(t)!IInv'
<1>1. PICK between \in BOOLEAN :
        /\ slot1' = Host(t)!Requested(stage, between)
        /\ \/ Host(t)!Precedes(slot4, slot1) /\ slot4' = slot1' /\ slot5' = slot5 \cup {Len(slot1')}
           \/ slot4' = slot4 /\ slot5' = slot5
        /\ slot2' = slot2 /\ slot6' = slot6 /\ slot7' = slot7
  BY DEF Host!Request
<1>2. Host(t)!History(slot1') /\ Host(t)!Precedes(slot1, slot1')
  BY <1>1, RequestedIs
<1>3. Host(t)!History(slot1) /\ Host(t)!History(slot4) /\ slot2' \in Seq(Host(t)!Observation)
  BY <1>1, HostIs
<1>4. CASE slot4' = slot4 /\ slot5' = slot5
  BY <1>1, <1>2, <1>3, <1>4, CloneIInv
<1>5. CASE Host(t)!Precedes(slot4, slot1) /\ slot4' = slot1' /\ slot5' = slot5 \cup {Len(slot1')}
  <2>1. Host(t)!Precedes(slot4, slot1')
    BY <1>2, <1>3, <1>5, PrecedesTrans
  <2>2. slot5 \subseteq 1..Len(slot1') /\ Len(slot1') \in 1..Len(slot1')
    BY <1>2, <2>1, InvokedIn
  <2>3. Host(t)!History(slot4') /\ Host(t)!Precedes(slot4, slot4') /\ slot5 \subseteq slot5' /\ slot5' \subseteq 1..Len(slot4')
    BY <1>2, <1>5, <2>1, <2>2
  <2> QED
    BY <1>1, <1>2, <1>3, <2>3, HostGrows
<1> QED
  BY <1>1, <1>4, <1>5

LEMMA PushBranchIInv ==
  ASSUME NEW t, Host(t)!IInv, Host(t)!PushBranch
  PROVE  Host(t)!IInv'
<1>1. /\ Host(t)!Precedes(slot4, slot1) /\ slot4' = slot1 /\ slot5' \in {slot5, slot5 \cup {Len(slot1)}}
      /\ slot1' = slot1 /\ slot2' = slot2 /\ slot6' = slot6 /\ slot7' = slot7
  BY DEF Host!PushBranch
<1>2. Host(t)!History(slot1) /\ slot2 \in Seq(Host(t)!Observation)
  BY HostIs
<1>3. slot5 \subseteq 1..Len(slot1) /\ Len(slot1) \in 1..Len(slot1)
  BY <1>1, <1>2, InvokedIn
<1>4. /\ Host(t)!History(slot1') /\ Host(t)!History(slot4') /\ Host(t)!Precedes(slot4, slot4')
      /\ slot2' \in Seq(Host(t)!Observation) /\ slot5 \subseteq slot5' /\ slot5' \subseteq 1..Len(slot4')
  BY <1>1, <1>2, <1>3
<1> QED
  BY <1>1, <1>4, HostGrows

LEMMA SourcesIInv ==
  ASSUME NEW t, Host(t)!IInv, Host(t)!CommitSource \/ Host(t)!Pull
  PROVE  Host(t)!IInv'
<1>1. Host(t)!History(slot1) /\ Host(t)!History(slot4) /\ slot2 \in Seq(Host(t)!Observation)
  BY HostIs
<1>2. slot2' = slot2 /\ slot4' = slot4 /\ slot5' = slot5 /\ slot6' = slot6 /\ slot7' = slot7
  BY DEF Host!CommitSource, Host!Pull
<1>3. Host(t)!History(slot1')
  <2>1. CASE Host(t)!CommitSource
    <3>1. slot1' = Append(slot1, Host(t)!Source(Host(t)!Version(slot1), Host(t)!LogOf(slot1)))
      BY <2>1 DEF Host!CommitSource
    <3>2. Host(t)!Version(slot1) \in Nat
      BY <1>1, LastIs
    <3> QED
      BY <1>1, <3>1, <3>2, AddSource
  <2>2. CASE Host(t)!Pull
    BY <1>1, <2>2 DEF Host!Pull
  <2> QED
    BY <2>1, <2>2
<1> QED
  BY <1>1, <1>2, <1>3, CloneIInv

LEMMA RecordIs ==
  ASSUME NEW t, NEW candidate \in Nat, NEW kind \in Host(t)!Kinds, NEW v \in Nat, NEW result \in Host(t)!Result,
         NEW clean \in BOOLEAN
  PROVE  Host(t)!Record(candidate, kind, v, result, clean) \in Host(t)!Observation
BY Zenon DEF Host!Record, Host!Observation

LEMMA TestLocallyIInv ==
  ASSUME NEW t, Host(t)!IInv, NEW stage \in Hosted[t].locally, NEW result \in Host(t)!Result, NEW clean \in BOOLEAN,
         Host(t)!TestLocally(stage, result, clean)
  PROVE  Host(t)!IInv'
<1> DEFINE h == Host(t)!Prepared(stage)
           record == Host(t)!Record(Len(h), stage, Host(t)!Version(h), result, clean)
           log == Append(Host(t)!LogOf(h) \o slot2, record)
           commit == Host(t)!Recorded(Host(t)!Version(h), log)
<1>1. \/ slot1' = h /\ slot2' = Append(slot2, record)
      \/ slot1' = Append(h, commit) /\ slot2' = <<>>
  BY DEF Host!TestLocally
<1>2. slot4' = slot4 /\ slot5' = slot5 /\ slot6' = slot6 /\ slot7' = slot7
  BY DEF Host!TestLocally
<1>3. Host(t)!History(h) /\ slot2 \in Seq(Host(t)!Observation)
  BY HostIs, PreparedIs
<1> HIDE DEF h
<1>4. Host(t)!Version(h) \in Nat /\ Host(t)!LogOf(h) \in Seq(Host(t)!Observation) /\ Len(h) \in Nat
  BY <1>3, LastIs, HistoryIs
<1>5. record \in Host(t)!Observation
  <2>1. stage \in Host(t)!Kinds
    BY DEF Host!Kinds
  <2> QED
    BY <1>4, <2>1, RecordIs
<1> HIDE DEF record
<1>6. log \in Seq(Host(t)!Observation) /\ Host(t)!Members(Host(t)!LogOf(h)) \subseteq Host(t)!Members(log)
  <2> DEFINE old == Host(t)!LogOf(h)
  <2>1. old \in Seq(Host(t)!Observation)
    BY <1>4
  <2> HIDE DEF old
  <2>2. /\ log \in Seq(Host(t)!Observation) /\ DOMAIN old = 1..Len(old) /\ Len(old) \in Nat /\ Len(slot2) \in Nat
        /\ log = Append(old \o slot2, record)
    BY <1>3, <1>5, <2>1 DEF old
  <2>3. \A i \in 1..Len(old) : i \in DOMAIN log /\ log[i] = old[i]
    BY <1>3, <1>5, <2>1, <2>2
  <2> HIDE DEF log
  <2>4. Host(t)!Members(old) \subseteq Host(t)!Members(log)
    BY <2>2, <2>3 DEF Host!Members
  <2> QED
    BY <2>2, <2>4 DEF old
<1> HIDE DEF log
<1>7. commit \in Host(t)!Commits /\ commit.log = log
  BY <1>4, <1>6, EvidenceIs
<1> HIDE DEF commit
<1>8. Host(t)!History(Append(h, commit))
  <2>1. Host(t)!Members(Host(t)!LogOf(h)) \subseteq Host(t)!Members(commit.log)
    BY <1>6, <1>7
  <2> QED
    BY <1>3, <1>7, <2>1, AppendHistory
<1>9. Host(t)!History(slot1') /\ slot2' \in Seq(Host(t)!Observation)
  <2>1. Append(slot2, record) \in Seq(Host(t)!Observation) /\ <<>> \in Seq(Host(t)!Observation)
    BY <1>3, <1>5
  <2>2. CASE slot1' = h /\ slot2' = Append(slot2, record)
    BY <1>3, <2>1, <2>2
  <2>3. CASE slot1' = Append(h, commit) /\ slot2' = <<>>
    BY <1>8, <2>1, <2>3
  <2> QED
    BY <1>1, <2>2, <2>3 DEF h, record, log, commit
<1> QED
  BY <1>2, <1>9, CloneIInv

LEMMA DevelopIInv ==
  ASSUME NEW t, Host(t)!HostedAssumption, Host(t)!IInv, Host(t)!Develop
  PROVE  Host(t)!IInv'
<1>1. CASE \E stage \in Hosted[t].locally, outcome \in Hosted[t].outcomes : Host(t)!TestLocally(stage, outcome[1], outcome[2])
  <2>1. PICK stage \in Hosted[t].locally, outcome \in Hosted[t].outcomes : Host(t)!TestLocally(stage, outcome[1], outcome[2])
    BY <1>1
  <2>2. outcome[1] \in Host(t)!Result /\ outcome[2] \in BOOLEAN
    BY DEF Host!HostedAssumption
  <2> QED
    BY <2>1, <2>2, TestLocallyIInv
<1> QED
  BY <1>1, SourcesIInv, PushBranchIInv, RequestIInv DEF Host!Develop

----------------------------------------------------------------------------
\* A run of the workflow.
LEMMA IdleRun == ASSUME NEW t PROVE Host(t)!Idle \in RunIs(t) /\ Host(t)!Idle.pc = "idle"
<1>1. Host(t)!Untested \in Host(t)!Observation
  BY KindsAre DEF Host!Untested, Host!Observation, Host!Result
<1> QED
  BY <1>1 DEF RunIs, Host!Idle

LEMMA EndsIInv ==
  ASSUME NEW t, Host(t)!IInv, Host(t)!Ends
  PROVE  Host(t)!IInv'
<1>1. Host(t)!Idle \in RunIs(t) /\ Host(t)!Idle.pc = "idle"
  BY IdleRun
<1>2. /\ slot7' = Host(t)!Idle /\ slot1' = slot1 /\ slot2' = slot2 /\ slot4' = slot4 /\ slot5' = slot5 /\ slot6' = slot6
  BY DEF Host!Ends
<1>3. Tracked(t, slot4, slot5, slot7')
  BY <1>1, <1>2, HostIs DEF Tracked
<1> QED
  BY <1>2, <1>3, HostRuns

LEMMA RunIsNow ==
  ASSUME NEW t, Host(t)!IInv
  PROVE  /\ Host(t)!History(slot4) /\ slot5 \subseteq 1..Len(slot4) /\ Len(slot4) \in Nat /\ slot7 \in RunIs(t)
         /\ slot7.tip \in Nat /\ slot7.candidate \in Nat /\ slot7.record \in Host(t)!Observation
         /\ Tracked(t, slot4, slot5, slot7)
BY HostIs, HistoryIs DEF Tracked, RunIs

LEMMA StartRunIInv ==
  ASSUME NEW t, Host(t)!IInv, NEW i \in slot5, Host(t)!StartRun(i)
  PROVE  Host(t)!IInv'
<1> DEFINE r == [Host(t)!Idle EXCEPT !.pc = "plan", !.tip = i]
<1>1. i \in Nat /\ slot5 \subseteq 1..Len(slot4)
  BY RunIsNow
<1>2. r \in RunIs(t) /\ r.pc = "plan" /\ r.tip = i
  <2>1. Host(t)!Untested \in Host(t)!Observation
    BY KindsAre DEF Host!Untested, Host!Observation, Host!Result
  <2> QED
    BY <1>1, <2>1 DEF RunIs, Host!Idle
<1>3. slot7' = r /\ slot1' = slot1 /\ slot2' = slot2 /\ slot4' = slot4 /\ slot5' = slot5 /\ slot6' = slot6
  BY DEF Host!StartRun
<1> HIDE DEF r
<1>4. Tracked(t, slot4, slot5, slot7')
  BY <1>1, <1>2, <1>3 DEF Tracked
<1> QED
  BY <1>3, <1>4, HostRuns

LEMMA PlanIInv ==
  ASSUME NEW t, Host(t)!IInv, Host(t)!Plan
  PROVE  Host(t)!IInv'
<1> DEFINE candidate == Host(t)!Candidate(slot4, slot7.tip - 1)
           r == [slot7 EXCEPT !.pc = "test", !.candidate = candidate]
<1>1. slot7' = r /\ slot1' = slot1 /\ slot2' = slot2 /\ slot4' = slot4 /\ slot5' = slot5 /\ slot6' = slot6
  BY DEF Host!Plan
<1>2. /\ slot7.pc = "plan" /\ slot4[slot7.tip].kind = "marker" /\ slot7.tip \in slot5 /\ slot4[1].kind = "source"
      /\ slot7 \in RunIs(t) /\ Host(t)!History(slot4) /\ slot5 \subseteq 1..Len(slot4) /\ Len(slot4) \in Nat
  BY RunIsNow, HistoryIs DEF Host!Plan, Host!Planned, Host!pc, Tracked
<1>3. slot7.tip \in 1..Len(slot4) /\ slot7.tip # 1 /\ slot7.tip - 1 \in 1..Len(slot4)
  <2>1. slot7.tip \in 1..Len(slot4)
    BY <1>2, Zenon
  <2>2. slot7.tip # 1
    BY <1>2, Zenon
  <2>3. slot7.tip \in Nat /\ Len(slot4) \in Nat
    BY RunIsNow
  <2> QED
    BY <2>1, <2>2, <2>3
<1>4. candidate \in 1..(slot7.tip - 1) /\ slot4[candidate].kind \in {"source", "recorded"}
  BY <1>2, <1>3, CandidateIs
<1> HIDE DEF candidate
<1>5. r \in RunIs(t) /\ r.pc = "test" /\ r.candidate = candidate /\ r.tip = slot7.tip
  <2>1. candidate \in Nat /\ slot7 \in RunIs(t)
    BY <1>2, <1>3, <1>4
  <2>2. r \in RunIs(t)
    BY <2>1 DEF RunIs
  <2>3. r.pc = "test" /\ r.candidate = candidate /\ r.tip = slot7.tip
    BY <2>1 DEF RunIs
  <2> QED
    BY <2>2, <2>3
<1> HIDE DEF r
<1>6. Tracked(t, slot4, slot5, slot7')
  BY <1>1, <1>2, <1>4, <1>5 DEF Tracked
<1> QED
  BY <1>1, <1>6, HostRuns

LEMMA TestHostedIInv ==
  ASSUME NEW t, Host(t)!IInv, NEW result \in Host(t)!Result, NEW clean \in BOOLEAN, Host(t)!TestHosted(result, clean)
  PROVE  Host(t)!IInv'
<1> DEFINE stage == slot4[slot7.tip].stage
           v == slot4[slot7.candidate].version
           record == Host(t)!Record(Host(t)!Observes(stage, slot7.candidate), stage, v, result, clean)
           r == [slot7 EXCEPT !.pc = "check", !.record = record]
<1>1. /\ slot7' = r /\ slot1' = slot1 /\ slot2' = slot2 /\ slot4' = slot4 /\ slot5' = slot5 /\ slot6' = slot6
      /\ slot7.pc = "test"
  BY DEF Host!TestHosted, Host!pc
<1>2. /\ slot7 \in RunIs(t) /\ Host(t)!History(slot4) /\ slot5 \subseteq 1..Len(slot4) /\ Len(slot4) \in Nat
      /\ slot7.tip \in slot5 /\ slot7.candidate \in 1..(slot7.tip - 1) /\ slot4[slot7.candidate].kind \in {"source", "recorded"}
  BY <1>1, RunIsNow DEF Tracked
<1>3. slot7.tip \in 1..Len(slot4) /\ slot7.candidate \in 1..Len(slot4)
  <2>1. slot7.tip \in 1..Len(slot4)
    BY <1>2, Zenon
  <2>2. slot7.tip \in Nat /\ Len(slot4) \in Nat
    BY RunIsNow
  <2> QED
    BY <1>2, <2>1, <2>2
<1>4. stage \in Host(t)!Kinds /\ v \in Nat
  <2>1. slot4[slot7.tip] \in Host(t)!Commits /\ slot4[slot7.candidate] \in Host(t)!Commits
    BY <1>2, <1>3, HistoryIs
  <2> QED
    BY <2>1, CommitIs
<1>5. Host(t)!Observes(stage, slot7.candidate) \in Nat
  <2>1. Host(t)!EvidenceSource(slot4, slot7.candidate) \in 1..slot7.candidate
    BY <1>2, <1>3, CandidateIs
  <2>2. slot7.candidate \in Nat
    BY <1>3
  <2> QED
    BY <2>1, <2>2 DEF Host!Observes
<1> HIDE DEF stage
<1>6. record \in Host(t)!Observation
  <2> HIDE DEF v
  <2> QED
    BY <1>4, <1>5, RecordIs
<1>7. record.version = v
  BY DEF Host!Record
<1> HIDE DEF record
<1>8. r \in RunIs(t) /\ r.pc = "check" /\ r.candidate = slot7.candidate /\ r.tip = slot7.tip /\ r.record = record
  BY <1>2, <1>6 DEF RunIs
<1> HIDE DEF r
<1>9. Tracked(t, slot4, slot5, slot7')
  BY <1>1, <1>2, <1>7, <1>8 DEF Tracked
<1> QED
  BY <1>1, <1>9, HostRuns

\* The run goes on with what it has.
LEMMA GoesOnIInv ==
  ASSUME NEW t, Host(t)!IInv, Host(t)!CheckPublication \/ Host(t)!Bind
  PROVE  Host(t)!IInv'
<1>1. PICK to \in {"publish", "tag"} :
        /\ slot7' = [slot7 EXCEPT !.pc = to] /\ slot1' = slot1 /\ slot2' = slot2 /\ slot4' = slot4 /\ slot5' = slot5
        /\ slot6' = slot6 /\ slot7.pc = (IF to = "tag" THEN "bind" ELSE "check")
  BY DEF Host!CheckPublication, Host!Bind, Host!pc
<1> DEFINE r == [slot7 EXCEPT !.pc = to]
<1>2. slot7 \in RunIs(t) /\ Tracked(t, slot4, slot5, slot7) /\ slot7' = r
  BY <1>1, RunIsNow
<1>3. r \in RunIs(t) /\ r.pc = to /\ r.candidate = slot7.candidate /\ r.tip = slot7.tip /\ r.record = slot7.record
  BY <1>2 DEF RunIs
<1> HIDE DEF r
<1>4. Tracked(t, slot4, slot5, slot7')
  BY <1>1, <1>2, <1>3 DEF Tracked
<1> QED
  BY <1>1, <1>4, HostRuns

LEMMA PushEvidenceIInv ==
  ASSUME NEW t, Host(t)!IInv, Host(t)!PushEvidence
  PROVE  Host(t)!IInv'
<1> DEFINE log == Append(Host(t)!LogOf(slot4), slot7.record)
           commit == Host(t)!Evidence(Host(t)!Version(slot4), log)
           b == Append(slot4, commit)
<1>1. /\ slot7.pc = "publish" /\ Len(slot4) = slot7.tip /\ slot4' = b
      /\ \/ slot7.record.kind \in Host(t)!Terminal /\ slot7' = [slot7 EXCEPT !.pc = "bind"]
         \/ slot7' = Host(t)!Idle
      /\ slot1' = slot1 /\ slot2' = slot2 /\ slot5' = slot5 /\ slot6' = slot6
  BY DEF Host!PushEvidence, Host!pc
<1>2. /\ Host(t)!History(slot4) /\ Host(t)!History(slot1) /\ slot2 \in Seq(Host(t)!Observation)
      /\ Evident(t, slot4, slot6) /\ Tracked(t, slot4, slot5, slot7) /\ slot7 \in RunIs(t)
      /\ slot7.record \in Host(t)!Observation /\ Len(slot4) \in Nat
  BY HostIs, RunIsNow
<1>3. Host(t)!Version(slot4) \in Nat /\ Host(t)!LogOf(slot4) \in Seq(Host(t)!Observation)
  BY <1>2, LastIs
<1>4. log \in Seq(Host(t)!Observation) /\ Host(t)!Members(Host(t)!LogOf(slot4)) \subseteq Host(t)!Members(log)
  <2> DEFINE old == Host(t)!LogOf(slot4)
  <2>1. old \in Seq(Host(t)!Observation)
    BY <1>3
  <2> HIDE DEF old
  <2>2. log \in Seq(Host(t)!Observation) /\ log = Append(old, slot7.record)
    BY <1>2, <2>1 DEF old
  <2>3. \A i \in DOMAIN old : i \in DOMAIN log /\ log[i] = old[i]
    BY <1>2, <2>1, <2>2
  <2> HIDE DEF log
  <2>4. Host(t)!Members(old) \subseteq Host(t)!Members(log)
    BY <2>3 DEF Host!Members
  <2> QED
    BY <2>2, <2>4 DEF old
<1> HIDE DEF log
<1>5. commit \in Host(t)!Commits /\ commit.log = log
  BY <1>3, <1>4, EvidenceIs
<1> HIDE DEF commit
<1>6. Host(t)!History(b) /\ Host(t)!Precedes(slot4, b) /\ Len(b) = Len(slot4) + 1
  <2>1. Host(t)!Members(Host(t)!LogOf(slot4)) \subseteq Host(t)!Members(commit.log)
    BY <1>4, <1>5
  <2> QED
    BY <1>2, <1>5, <2>1, AppendHistory
<1> HIDE DEF b
<1>7. slot5 \subseteq 1..Len(b)
  BY <1>2, <1>6 DEF Tracked
<1>8. Evident(t, b, slot6) /\ Tracked(t, b, slot5, slot7)
  BY <1>2, <1>6, <1>7, LongerEvidence, LongerTracked
<1>9. Tracked(t, b, slot5, slot7')
  <2>1. CASE slot7' = Host(t)!Idle
    <3>1. Host(t)!Idle \in RunIs(t) /\ Host(t)!Idle.pc = "idle"
      BY IdleRun
    <3> QED
      BY <1>7, <2>1, <3>1 DEF Tracked
  <2>2. CASE slot7.record.kind \in Host(t)!Terminal /\ slot7' = [slot7 EXCEPT !.pc = "bind"]
    <3> DEFINE r == [slot7 EXCEPT !.pc = "bind"]
    <3>1. r \in RunIs(t) /\ r.pc = "bind" /\ r.candidate = slot7.candidate /\ r.tip = slot7.tip /\ r.record = slot7.record
      BY <1>2 DEF RunIs
    <3> HIDE DEF r
    <3>2. slot7' = r /\ slot7.tip < Len(b)
      BY <1>1, <1>2, <1>6, <2>2 DEF r
    <3> QED
      BY <1>1, <1>8, <2>2, <3>1, <3>2 DEF Tracked
  <2> QED
    BY <1>1, <2>1, <2>2
<1>10. /\ Host(t)!History(slot1') /\ Host(t)!History(slot4') /\ slot2' \in Seq(Host(t)!Observation)
       /\ Tracked(t, slot4', slot5', slot7') /\ Evident(t, slot4', slot6')
  BY <1>1, <1>2, <1>6, <1>8, <1>9
<1> QED
  BY <1>10, HostIsThen

\* Who may tag has an observation of exactly this outcome in front of him.
LEMMA EvidenceFound ==
  ASSUME NEW t, NEW log \in Seq(Host(t)!Observation), NEW phase, NEW v, NEW candidate, NEW outcome,
         Host(t)!PhaseEvidence(log, phase, v, candidate, outcome)
  PROVE  Host(t)!Record(candidate, phase, v, Host(t)!Expected(outcome), TRUE) \in Host(t)!Members(log)
<1> DEFINE own == {i \in DOMAIN log : log[i].kind \in Host(t)!Terminal /\ log[i].version = v}
           observed == {log[i] : i \in own}
<1>1. /\ \A r \in observed : r.kind = phase /\ r.candidate = candidate
      /\ {r.result : r \in {s \in observed : Host(t)!Decided(s)}} = {Host(t)!Expected(outcome)}
      /\ \E r \in observed : Host(t)!Decided(r) /\ r.clean
  BY DEF Host!PhaseEvidence
<1>2. PICK r \in observed : Host(t)!Decided(r) /\ r.clean
  BY <1>1
<1>3. r.result = Host(t)!Expected(outcome) /\ r.kind = phase /\ r.candidate = candidate
  <2> HIDE DEF observed
  <2>1. r.result \in {x.result : x \in {s \in observed : Host(t)!Decided(s)}}
    BY <1>2
  <2> QED
    BY <1>1, <2>1
<1>4. PICK i \in DOMAIN log : r = log[i] /\ r.version = v
  OBVIOUS
<1>5. r \in Host(t)!Observation /\ r \in Host(t)!Members(log)
  BY <1>4 DEF Host!Members
<1>6. r.clean = TRUE
  BY <1>2, <1>5, Zenon DEF Host!Observation
<1>7. r = Host(t)!Record(candidate, phase, v, Host(t)!Expected(outcome), TRUE)
  BY <1>3, <1>4, <1>5, <1>6 DEF Host!Record, Host!Observation
<1> QED
  BY <1>5, <1>7

LEMMA PublishTagIInv ==
  ASSUME NEW t, Host(t)!IInv, Host(t)!PublishTag
  PROVE  Host(t)!IInv'
<1> DEFINE h == Host(t)!Upto(slot4, slot7.tip + 1)
           log == Host(t)!LogOf(h)
           phase == slot7.record.kind
           v == slot7.record.version
           outcome == Host(t)!OutcomeOf(slot7.record)
           new == Host(t)!Tag(phase, v, outcome, slot7.candidate)
<1>1. /\ slot7.pc = "tag" /\ Host(t)!TagAllowed(slot6, log, phase, v, slot7.candidate, outcome)
      /\ slot6' = slot6 \cup {new} /\ slot7' = Host(t)!Idle
      /\ slot1' = slot1 /\ slot2' = slot2 /\ slot4' = slot4 /\ slot5' = slot5
  BY DEF Host!PublishTag, Host!MyTag, Host!pc
<1>2. /\ Host(t)!History(slot1) /\ Host(t)!History(slot4) /\ slot2 \in Seq(Host(t)!Observation) /\ Evident(t, slot4, slot6)
      /\ slot5 \subseteq 1..Len(slot4) /\ Len(slot4) \in Nat /\ slot7 \in RunIs(t)
  BY HostIs, RunIsNow
<1>3. /\ slot7.tip \in slot5 /\ slot7.tip < Len(slot4) /\ phase \in Host(t)!Terminal /\ slot7.candidate \in 1..(slot7.tip - 1)
      /\ slot4[slot7.candidate].kind \in {"source", "recorded"} /\ v = slot4[slot7.candidate].version
  BY <1>1, RunIsNow DEF Tracked
<1>4. slot7.tip + 1 \in 1..Len(slot4) /\ slot7.candidate \in 1..Len(slot4)
  <2>1. slot7.tip \in 1..Len(slot4)
    BY <1>2, <1>3, Zenon
  <2>2. slot7.tip \in Nat /\ Len(slot4) \in Nat
    BY RunIsNow
  <2> QED
    BY <1>2, <1>3, <2>1, <2>2
<1>5. log = slot4[slot7.tip + 1].log
  <2>1. slot4 \in Seq(Host(t)!Commits)
    BY <1>2, HistoryIs
  <2>2. Len(h) = slot7.tip + 1 /\ h[slot7.tip + 1] = slot4[slot7.tip + 1]
    BY <1>2, <1>4, <2>1 DEF Host!Upto
  <2> QED
    BY <2>2 DEF Host!LogOf
<1>6. log \in Seq(Host(t)!Observation) /\ Host(t)!Members(log) \subseteq Host(t)!Members(slot4[Len(slot4)].log)
  <2>1. slot4[slot7.tip + 1] \in Host(t)!Commits /\ Len(slot4) \in DOMAIN slot4
    BY <1>2, <1>4, HistoryIs
  <2>2. Host(t)!Members(slot4[slot7.tip + 1].log) \subseteq Host(t)!Members(slot4[Len(slot4)].log)
    BY <1>2, <1>4, <2>1, HistoryIs
  <2> QED
    BY <1>5, <2>1, <2>2, CommitIs
<1> HIDE DEF log
<1>7. Host(t)!Record(slot7.candidate, phase, v, Host(t)!Expected(outcome), TRUE) \in Host(t)!Members(slot4[Len(slot4)].log)
  BY <1>1, <1>6, EvidenceFound DEF Host!TagAllowed
<1>8. outcome \in {"PASS", "FAIL"} /\ v \in Nat
  <2>1. slot4[slot7.candidate] \in Host(t)!Commits
    BY <1>2, <1>4, HistoryIs
  <2> QED
    BY <1>3, <2>1, CommitIs DEF Host!OutcomeOf
<1> HIDE DEF outcome, phase, v
<1>9. new.phase = phase /\ new.version = v /\ new.outcome = outcome /\ new.candidate = slot7.candidate
  BY DEF Host!Tag
<1>10. new \in [phase : Host(t)!Terminal, version : Nat, outcome : {"PASS", "FAIL"}, candidate : 1..Len(slot4)]
  BY <1>3, <1>4, <1>8 DEF Host!Tag
<1>11. slot6 \subseteq [phase : Host(t)!Terminal, version : Nat, outcome : {"PASS", "FAIL"}, candidate : 1..Len(slot4)]
  BY <1>2 DEF Evident
<1>12. ASSUME NEW s \in slot6, s.phase = phase, s.version = v PROVE s = new
  <2>1. s.outcome \in {"PASS", "FAIL"}
    BY <1>11
  <2>2. s.outcome # Host(t)!Opposite(outcome)
    BY <1>1, <1>12 DEF Host!TagAllowed, Host!HasTag
  <2>3. s.outcome = outcome
    BY <1>8, <2>1, <2>2 DEF Host!Opposite
  <2>4. s.candidate = slot7.candidate
    BY <1>1, <1>12, <2>3 DEF Host!TagAllowed
  <2> QED
    BY <1>9, <1>10, <1>11, <1>12, <2>3, <2>4
<1> HIDE DEF new
<1>13. Evident(t, slot4, slot6 \cup {new})
  <2>1. slot6 \cup {new} \subseteq [phase : Host(t)!Terminal, version : Nat, outcome : {"PASS", "FAIL"}, candidate : 1..Len(slot4)]
    BY <1>10, <1>11
  <2>2. ASSUME NEW tag \in slot6 \cup {new}
        PROVE  /\ slot4[tag.candidate].kind \notin {"marker", "evidence"}
               /\ slot4[tag.candidate].version = tag.version
               /\ Host(t)!Record(tag.candidate, tag.phase, tag.version, Host(t)!Expected(tag.outcome), TRUE)
                    \in Host(t)!Members(slot4[Len(slot4)].log)
    <3>1. CASE tag \in slot6
      BY <1>2, <3>1 DEF Evident
    <3>2. CASE tag = new
      BY <1>3, <1>7, <1>9, <3>2
    <3> QED
      BY <3>1, <3>2
  <2>3. ASSUME NEW tag \in slot6 \cup {new}, NEW s \in slot6 \cup {new}, s.phase = tag.phase, s.version = tag.version
        PROVE  s = tag
    BY <1>2, <1>9, <1>12, <2>3 DEF Evident
  <2> QED
    BY <2>1, <2>2, <2>3 DEF Evident
<1>14. Tracked(t, slot4, slot5, Host(t)!Idle)
  <2>1. Host(t)!Idle \in RunIs(t) /\ Host(t)!Idle.pc = "idle"
    BY IdleRun
  <2> QED
    BY <1>2, <2>1 DEF Tracked
<1>15. /\ Host(t)!History(slot1') /\ Host(t)!History(slot4') /\ slot2' \in Seq(Host(t)!Observation)
       /\ Tracked(t, slot4', slot5', slot7') /\ Evident(t, slot4', slot6')
  BY <1>1, <1>2, <1>13, <1>14
<1> QED
  BY <1>15, HostIsThen

LEMMA WorkflowIInv ==
  ASSUME NEW t, Host(t)!HostedAssumption, Host(t)!IInv, Host(t)!Workflow
  PROVE  Host(t)!IInv'
<1>1. CASE \E i \in slot5 : Host(t)!StartRun(i)
  BY <1>1, StartRunIInv
<1>2. CASE Host(t)!Plan
  BY <1>2, PlanIInv
<1>3. CASE \E outcome \in Hosted[t].outcomes : Host(t)!TestHosted(outcome[1], outcome[2])
  <2>1. PICK outcome \in Hosted[t].outcomes : Host(t)!TestHosted(outcome[1], outcome[2])
    BY <1>3
  <2>2. outcome[1] \in Host(t)!Result /\ outcome[2] \in BOOLEAN
    BY DEF Host!HostedAssumption
  <2> QED
    BY <2>1, <2>2, TestHostedIInv
<1>4. CASE Host(t)!CheckPublication \/ Host(t)!Bind
  BY <1>4, GoesOnIInv
<1>5. CASE Host(t)!PushEvidence
  BY <1>5, PushEvidenceIInv
<1>6. CASE Host(t)!PublishTag
  BY <1>6, PublishTagIInv
<1>7. CASE \/ Host(t)!PlanRefuses \/ Host(t)!PublicationRefused \/ Host(t)!EvidenceRejected \/ Host(t)!BindRefused
           \/ Host(t)!TagFails \/ Host(t)!Cancel
  BY <1>7, EndsIInv
     DEF Host!PlanRefuses, Host!PublicationRefused, Host!EvidenceRejected, Host!BindRefused, Host!TagFails, Host!Cancel
<1> QED
  BY <1>1, <1>2, <1>3, <1>4, <1>5, <1>6, <1>7 DEF Host!Workflow

LEMMA HostedInit == ASSUME NEW t, Host(t)!Init PROVE Host(t)!IInv
<1>1. /\ slot1 = <<Host(t)!Source(1, <<>>)>> /\ slot4 = slot1 /\ slot2 = <<>> /\ slot5 = {} /\ slot6 = {} /\ slot7 = Host(t)!Idle
  BY DEF Host!Init
<1>2. Host(t)!Source(1, <<>>) \in Host(t)!Commits /\ Host(t)!Source(1, <<>>).kind = "source"
  <2>1. <<>> \in Seq(Host(t)!Observation)
    OBVIOUS
  <2> QED
    BY <2>1, SourceIs DEF Host!Source, Host!Commit
<1>3. Host(t)!History(slot1)
  <2> DEFINE commit == Host(t)!Source(1, <<>>)
  <2>1. slot1 = <<commit>> /\ commit \in Host(t)!Commits /\ commit.kind = "source"
    BY <1>1, <1>2
  <2> HIDE DEF commit
  <2>2. slot1 \in Seq(Host(t)!Commits) /\ Len(slot1) = 1 /\ DOMAIN slot1 = {1} /\ slot1[1] = commit
    BY <2>1
  <2> QED
    BY <2>1, <2>2 DEF Host!History
<1>4. Tracked(t, slot4, slot5, slot7)
  BY <1>1, IdleRun DEF Tracked
<1>5. Evident(t, slot4, slot6) /\ slot2 \in Seq(Host(t)!Observation) /\ Host(t)!History(slot4)
  BY <1>1, <1>3 DEF Evident
<1> QED
  BY <1>3, <1>4, <1>5, HostIs

LEMMA HostedStep ==
  ASSUME NEW t, Host(t)!HostedAssumption, Host(t)!IInv, [Host(t)!Next]_slots
  PROVE  Host(t)!IInv'
<1>1. CASE UNCHANGED slots
  <2>1. slot1' = slot1 /\ slot2' = slot2 /\ slot4' = slot4 /\ slot5' = slot5 /\ slot6' = slot6 /\ slot7' = slot7
    BY <1>1 DEF slots
  <2>2. Tracked(t, slot4, slot5, slot7')
    BY <2>1, RunIsNow
  <2> QED
    BY <2>1, <2>2, HostRuns
<1> QED
  BY <1>1, DevelopIInv, WorkflowIInv DEF Host!Next

----------------------------------------------------------------------------
(***************************************************************************)
(* The composition                                                          *)
(***************************************************************************)

LEMMA IssueInitIInv == IssueInit => IssueIInv
<1> USE DEF Start, Retries, Delivers, Hosts, Races, Repeats
<1> SUFFICES ASSUME IssueInit PROVE IssueIInv
  OBVIOUS
<1>1. IInv
  BY InitIInv DEF IssueInit
<1>2. subject = Retries => Retry!IInv
  BY Retry!InitIInv DEF IssueInit
<1>3. ASSUME NEW t \in DOMAIN Team, subject = Delivers(t) PROVE Deliver(t)!IInv
  <2>1. Deliver(t)!Init
    BY <1>3 DEF IssueInit
  <2> QED
    BY <2>1, DeliveryInit
<1>4. subject = Races => Race!IInv
  BY RemoteAssumed, Race!InitIInv DEF IssueInit
<1>5. subject = Repeats => Repeat!IInv
  BY RemoteAssumed, Repeat!InitIInv DEF IssueInit
<1>6. ASSUME NEW t \in DOMAIN Hosted, subject = Hosts(t) PROVE Host(t)!IInv
  <2>1. Host(t)!Init
    BY <1>6 DEF IssueInit
  <2> QED
    BY <2>1, HostedInit
<1> QED
  BY <1>1, <1>2, <1>3, <1>4, <1>5, <1>6 DEF IssueIInv

LEMMA IssueStep == ASSUME IssueIInv, [IssueNext]_<<vars, subject, slots>> PROVE IssueIInv'
<1> USE DEF Start, Retries, Delivers, Hosts, Races, Repeats
<1>1. UNCHANGED subject /\ [Next]_vars
  BY DEF IssueNext
<1>2. IInv'
  BY <1>1, StepIInv DEF IssueIInv
<1>3. ASSUME subject = Retries PROVE Retry!IInv'
  <2>1. [Retry!Next]_(Retry!vars)
    BY <1>3 DEF IssueNext, slots, Retry!vars
  <2> QED
    BY <1>3, <2>1, RetryAssumed, Retry!StepIInv DEF IssueIInv
<1>4. ASSUME NEW t \in DOMAIN Team, subject = Delivers(t) PROVE Deliver(t)!IInv'
  <2>1. [Deliver(t)!Next]_<<slot1, slot2, slot3, slot4, slot5, slot6>>
    BY <1>4 DEF IssueNext, slots
  <2> QED
    BY <1>4, <2>1, TeamsAssumed, DeliveryStep DEF IssueIInv
<1>5. ASSUME subject = Races PROVE Race!IInv'
  <2>1. [Race!Next]_(Race!vars)
    BY <1>5 DEF IssueNext, slots, Race!vars
  <2> QED
    BY <1>5, <2>1, RemoteAssumed, Race!StepIInv DEF IssueIInv
<1>6. ASSUME subject = Repeats PROVE Repeat!IInv'
  <2>1. [Repeat!Next]_(Repeat!vars)
    BY <1>6 DEF IssueNext, slots, Repeat!vars
  <2> QED
    BY <1>6, <2>1, RemoteAssumed, Repeat!StepIInv DEF IssueIInv
<1>7. ASSUME NEW t \in DOMAIN Hosted, subject = Hosts(t) PROVE Host(t)!IInv'
  <2>1. [Host(t)!Next]_slots
    BY <1>7 DEF IssueNext, slots
  <2> QED
    BY <1>7, <2>1, HostedAssumed, HostedStep DEF IssueIInv
<1> QED
  BY <1>1, <1>2, <1>3, <1>4, <1>5, <1>6, <1>7 DEF IssueIInv

\* Whatever the subject, its inductive invariant holds throughout, for all constants.
THEOREM IssueInvariance == IssueSpec => []IssueIInv
BY IssueInitIInv, IssueStep, PTL DEF IssueSpec

\* No observation is lost: a kill between any two steps of a verification leaves each
\* in the log or in the journal.
THEOREM EvidenceIsKept == IssueSpec => []EvidenceKept
<1>1. IssueIInv => EvidenceKept
  BY DEF IssueIInv, EvidenceKept, Retry!IInv
<1> QED
  BY <1>1, IssueInvariance, PTL

\* A verification that reports success has left the stand-in and the worktree as it
\* had found them.
THEOREM SuccessIsUntouched == IssueSpec => []SuccessMeansUntouched
<1>1. IssueIInv => SuccessMeansUntouched
  BY DEF IssueIInv, SuccessMeansUntouched, Retry!IInv, Retry!Sees, Retry!SuccessMeansUntouched
<1> QED
  BY <1>1, IssueInvariance, PTL

\* Who is told an outcome is told that of his own command on his own source revision,
\* and success means that what it committed is on the source branch.
THEOREM AnswersAreTrue == IssueSpec => []AnswerIsTrue
<1>1. IssueIInv => AnswerIsTrue
  BY DEF IssueIInv, AnswerIsTrue, Race!IInv, Repeat!IInv
<1> QED
  BY <1>1, IssueInvariance, PTL

\* Wherever a terminal tag is found, here or on the remote, and however HEAD was moved
\* while the command ran, its commit is of its version and its outcome rests on results
\* found on that commit or its history; what the environments found is of exactly that
\* commit whenever the command has asked for it to the end, so unless --push published it.
THEOREM TagsAreTested == IssueSpec => []TagIsTested
<1>1. ASSUME IssueIInv, NEW t \in DOMAIN Team, subject = Delivers(t) PROVE Deliver(t)!TagIsTested
  <2>1. Deliver(t)!AllTested
    BY <1>1 DEF IssueIInv, Deliver!IInv
  <2> QED
    BY <2>1 DEF Deliver!AllTested, Deliver!TagIsTested
<1>2. IssueIInv => TagIsTested
  BY <1>1 DEF TagIsTested
<1> QED
  BY <1>2, IssueInvariance, PTL

\* Whatever push was rejected, unanswered or rolled back, a published outcome is of a
\* commit that the published branch has.
THEOREM OutcomesAreOnBranch == IssueSpec => []OutcomeOnBranch
<1>1. IssueIInv => OutcomeOnBranch
  BY DEF IssueIInv, Deliver!IInv, OutcomeOnBranch
<1> QED
  BY <1>1, IssueInvariance, PTL

\* A tag that the workflow publishes names a commit of the branch that changes source and
\* of which the branch holds a clean observation of this outcome, and no other tag of the
\* phase decides the version, whoever repeats, overtakes or cancels runs meanwhile.
THEOREM TagsAreEvidence == IssueSpec => []TagIsEvidence
<1>1. IssueIInv => TagIsEvidence
  BY DEF IssueIInv, Host!IInv, TagIsEvidence
<1> QED
  BY <1>1, IssueInvariance, PTL

\* No command, repeated, raced or killed, takes a commit off a source branch.
THEOREM SourcesOnlyGrow == IssueSpec => NothingOverwritten
<1>1. ASSUME IssueIInv, [IssueNext]_<<vars, subject, slots>>, subject = Races PROVE Race!SourcesGrow
  <2>1. [Race!Next]_(Race!vars)
    BY <1>1 DEF IssueNext, slots, Race!vars, Start, Retries, Delivers, Hosts, Races, Repeats
  <2> QED
    BY <1>1, <2>1, RemoteAssumed, Race!GrowStep DEF IssueIInv
<1>2. ASSUME IssueIInv, [IssueNext]_<<vars, subject, slots>>, subject = Repeats PROVE Repeat!SourcesGrow
  <2>1. [Repeat!Next]_(Repeat!vars)
    BY <1>2 DEF IssueNext, slots, Repeat!vars, Start, Retries, Delivers, Hosts, Races, Repeats
  <2> QED
    BY <1>2, <2>1, RemoteAssumed, Repeat!GrowStep DEF IssueIInv
<1>3. IssueIInv /\ [IssueNext]_<<vars, subject, slots>>
        => [/\ subject = Races => Race!SourcesGrow
            /\ subject = Repeats => Repeat!SourcesGrow]_slots
  BY <1>1, <1>2
<1> QED
  BY <1>3, IssueInvariance, PTL DEF IssueSpec, NothingOverwritten
=============================================================================

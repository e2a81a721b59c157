------------------------- MODULE TransactionProofs -------------------------
(***************************************************************************)
(* Proofs about Transaction for every set of transactions, members and      *)
(* processes.                                                               *)
(***************************************************************************)
EXTENDS Transaction, TLAPS

\* No transaction has a record at first.
LEMMA InitIInv == Init => IInv
<1> SUFFICES ASSUME Init PROVE IInv
  OBVIOUS
<1> USE DEF Init, Status, pc, Job, Idle
<1>1. TypeOK
  BY DEF TypeOK, TxnRecord, Observation, Unobserved, Local
<1>2. RevisionIsStatus
  BY DEF RevisionIsStatus
<1>3. CoordinatorExclusion /\ ScanStaysTrue /\ DecidersReadPrepared
  BY DEF CoordinatorExclusion, ScanStaysTrue, DecidersReadPrepared
<1>4. NoConflictingPrepared /\ OnlyCommittedApplied
  BY DEF NoConflictingPrepared, OnlyCommittedApplied
<1>5. QED
  BY <1>1, <1>2, <1>3, <1>4 DEF IInv

\* A decision leaves a transaction record.
LEMMA DecideType ==
  ASSUME TypeOK, NEW t \in Txn, NEW status \in {"committed", "aborted"}, Decide(t, status)
  PROVE  txn' \in [Txn -> TxnRecord]
<1>1. txn[t].revision + 1 \in Nat \cup {-1} /\ txn[t].reads \in Observation
  BY DEF TypeOK, TxnRecord
<1>2. [status |-> status, revision |-> txn[t].revision + 1, reads |-> txn[t].reads] \in TxnRecord
  BY <1>1 DEF TxnRecord
<1>3. QED
  BY <1>2 DEF Decide, TypeOK

\* A process that works on a transaction knows which.
LocalType ==
  /\ at \in [Proc -> Local]
  /\ \A p \in Proc : pc(p) \notin {"idle", "dead"} => Job(p) \in Txn

LEMMA MoveType ==
  ASSUME LocalType, NEW p \in Proc, NEW m \in Local,
         m.pc \notin {"idle", "dead"} => m.job \in Txn, at' = [at EXCEPT ![p] = m]
  PROVE  LocalType'
<1>1. at' \in [Proc -> Local] /\ at'[p] = m /\ \A q \in Proc \ {p} : at'[q] = at[q]
  BY DEF LocalType
<1>2. ASSUME NEW q \in Proc, pc(q)' \notin {"idle", "dead"} PROVE Job(q)' \in Txn
  BY <1>1, <1>2 DEF LocalType, pc, Job
<1>3. QED
  BY <1>1, <1>2 DEF LocalType

PCs == {"idle", "lock", "scan", "create", "resume", "load", "validate", "revalidate",
        "abort", "apply", "dead"}

LEMMA GotoType ==
  ASSUME LocalType, NEW p \in Proc, NEW from, NEW to \in PCs, Goto(p, from, to),
         from \notin {"idle", "dead"}
  PROVE  LocalType'
<1> DEFINE m == [at[p] EXCEPT !.pc = to]
<1>1. at[p] \in Local /\ at[p].job \in Txn
  BY DEF LocalType, Goto, pc, Job
<1>2. m \in Local /\ m.job = at[p].job
  BY <1>1 DEF Local, PCs
<1>3. at' = [at EXCEPT ![p] = m]
  BY DEF Goto, LocalType
<1> HIDE DEF m
<1>4. QED
  BY <1>1, <1>2, <1>3, MoveType

LEMMA ReadingType ==
  ASSUME TypeOK, NEW p \in Proc, NEW t \in Txn, NEW next \in PCs, NEW reads \in SUBSET Member,
         at' = [at EXCEPT ![p] = Reading(t, next, reads)]
  PROVE  LocalType'
<1>1. txn[t].revision \in Nat \cup {-1}
  BY DEF TypeOK, TxnRecord
<1>2. Unobserved \in Observation
  BY DEF Unobserved, Observation
<1>3. Reading(t, next, reads) \in Local /\ Reading(t, next, reads).job = t
  BY <1>1, <1>2 DEF Reading, Idle, Local, PCs
<1>4. LocalType
  BY DEF TypeOK, LocalType
<1>5. QED
  BY <1>3, <1>4, MoveType

\* Reading a member leaves fewer of them.
LEMMA LeftType ==
  ASSUME LocalType, NEW p \in Proc, pc(p) \notin {"idle", "dead"}, NEW m \in Member,
         at' = [at EXCEPT ![p].left = @ \ {m}]
  PROVE  LocalType'
<1> DEFINE l == [at[p] EXCEPT !.left = @ \ {m}]
<1>1. at[p] \in Local /\ at[p].job \in Txn
  BY DEF LocalType, pc, Job
<1>2. l \in Local /\ l.job = at[p].job
  BY <1>1 DEF Local
<1>3. at' = [at EXCEPT ![p] = l]
  BY DEF LocalType
<1> HIDE DEF l
<1>4. QED
  BY <1>1, <1>2, <1>3, MoveType

\* A process that is killed works on nothing; one that returns or goes on
\* and forgets what it read works on what it worked on, or on nothing.
LEMMA KilledType ==
  ASSUME LocalType, NEW p \in Proc, Killed(p)
  PROVE  LocalType'
<1> DEFINE m == [Idle EXCEPT !.pc = "dead"]
<1>1. m \in Local /\ m.pc = "dead"
  BY DEF Idle, Local, Unobserved, Observation
<1>2. at' = [at EXCEPT ![p] = m]
  BY DEF Killed
<1> HIDE DEF m
<1>3. QED
  BY <1>1, <1>2, MoveType

LEMMA ForgetType ==
  ASSUME LocalType, NEW p \in Proc, NEW from, NEW to \in PCs, Forget(p, from, to),
         from \notin {"idle", "dead"}
  PROVE  LocalType'
<1> DEFINE m == [Idle EXCEPT !.pc = to, !.job = Job(p)]
<1>1. Job(p) \in Txn
  BY DEF LocalType, Forget, pc, Job
<1>2. m \in Local /\ m.job = Job(p)
  BY <1>1 DEF Idle, Local, PCs, Unobserved, Observation
<1>3. at' = [at EXCEPT ![p] = m]
  BY DEF Forget
<1> HIDE DEF m
<1>4. QED
  BY <1>1, <1>2, <1>3, MoveType

LEMMA ReturnType ==
  ASSUME LocalType, NEW p \in Proc, NEW from, Return(p, from)
  PROVE  LocalType'
<1>1. Idle \in Local /\ Idle.pc = "idle"
  BY DEF Idle, Local, Unobserved, Observation
<1>2. at' = [at EXCEPT ![p] = Idle]
  BY DEF Return
<1>3. QED
  BY <1>1, <1>2, MoveType

\* Steps that concern a process and no record keep all the types.
LEMMA LocalSuffices ==
  ASSUME TypeOK, LocalType', UNCHANGED <<txn, current, applied, blocked>>, coordinator' \in BOOLEAN
  PROVE  TypeOK'
BY DEF TypeOK, LocalType

LEMMA ProcTypeStep ==
  ASSUME TypeOK, NEW p \in Proc,
         \/ LockCoordinator(p) \/ ScanPasses(p) \/ LoadPrepared(p)
         \/ \E m \in Member : ReadCurrent(p, m)
  PROVE  TypeOK'
<1>1. LocalType
  BY DEF TypeOK, LocalType
<1>2. UNCHANGED <<txn, current, applied, blocked>> /\ coordinator' \in BOOLEAN
  BY DEF LockCoordinator, ScanPasses, LoadPrepared, ReadCurrent, data, TypeOK
<1>3. CASE LockCoordinator(p)
  <2>1. Goto(p, "lock", "scan") /\ "scan" \in PCs
    BY <1>3 DEF LockCoordinator, PCs
  <2>2. QED
    BY <1>1, <1>2, <2>1, GotoType, LocalSuffices
<1>4. CASE ScanPasses(p)
  <2>1. Goto(p, "scan", "create") /\ "create" \in PCs
    BY <1>4 DEF ScanPasses, PCs
  <2>2. QED
    BY <1>1, <1>2, <2>1, GotoType, LocalSuffices
<1>5. CASE LoadPrepared(p)
  <2>1. Job(p) \in Txn
    BY <1>5 DEF LoadPrepared, TypeOK
  <2>2. ReadSet[Job(p)] \in SUBSET Member /\ "validate" \in PCs
    BY <2>1, SetsAssumption DEF PCs
  <2>3. at' = [at EXCEPT ![p] = Reading(Job(p), "validate", ReadSet[Job(p)])]
    BY <1>5 DEF LoadPrepared
  <2>4. QED
    BY <1>2, <2>1, <2>2, <2>3, ReadingType, LocalSuffices
<1>6. ASSUME NEW m \in Member, ReadCurrent(p, m) PROVE TypeOK'
  <2>1. pc(p) \notin {"idle", "dead"} /\ at' = [at EXCEPT ![p].left = @ \ {m}]
    BY <1>6 DEF ReadCurrent
  <2>2. QED
    BY <1>1, <1>2, <2>1, LeftType, LocalSuffices
<1>7. QED
  BY <1>3, <1>4, <1>5, <1>6

LEMMA MaterializeType ==
  ASSUME TypeOK, NEW p \in Proc, NEW m \in Member, Materialize(p, m)
  PROVE  TypeOK'
<1>1. current' = [current EXCEPT ![m] = @ + 1] /\ current \in [Member -> Nat]
  BY DEF Materialize, TypeOK, Observation
<1>2. current' \in Observation
  BY <1>1 DEF Observation
<1>3. applied' \in [Txn -> SUBSET Member]
  BY DEF Materialize, TypeOK
<1>4. LocalType'
  <2>1. LocalType
    BY DEF TypeOK, LocalType
  <2>2. CASE UNCHANGED at
    BY <2>1, <2>2 DEF LocalType, pc, Job
  <2>3. CASE Abandoned(p, m)
    BY <2>1, <2>3, KilledType DEF Abandoned
  <2>4. QED
    BY <2>2, <2>3 DEF Materialize
<1>5. blocked' \subseteq Txn \cup Member
  BY DEF Materialize, Released, Abandoned, TypeOK
<1>6. QED
  BY <1>2, <1>3, <1>4, <1>5 DEF Materialize, TypeOK, LocalType

\* Every step keeps the types of the variables.
LEMMA TypeStep == ASSUME IInv, [Next]_vars PROVE TypeOK'
<1> USE DEF IInv, TypeOK, data, pc, Job, Status, Goto, Forget, Return, Killed, Released, Abandoned, Missing, Idle, Reading, TxnRecord, Local, Observation, Unobserved
<1>1. CASE UNCHANGED vars
  BY <1>1 DEF vars
<1>2. ASSUME NEW p \in Proc, NEW t \in Txn, Begin(p, t) PROVE TypeOK'
  BY <1>2, SetsAssumption DEF Begin
<1>3. ASSUME NEW p \in Proc, NEW t \in Txn, AbortCall(p, t) PROVE TypeOK'
  BY <1>3, SetsAssumption DEF AbortCall
<1>4. ASSUME NEW p \in Proc, NEW t \in Txn, RecoverCommitted(p, t) PROVE TypeOK'
  BY <1>4, SetsAssumption DEF RecoverCommitted
<1>5. ASSUME NEW p \in Proc, NEW t \in Txn, RecoverPrepared(p, t) PROVE TypeOK'
  BY <1>5, SetsAssumption DEF RecoverPrepared
<1>6. ASSUME NEW p \in Proc, LockCoordinator(p) PROVE TypeOK'
  BY <1>6, ProcTypeStep
<1>7. ASSUME NEW p \in Proc, CoordinatorBusy(p) PROVE TypeOK'
  BY <1>7, SetsAssumption DEF CoordinatorBusy
<1>8. ASSUME NEW p \in Proc, ScanPasses(p) PROVE TypeOK'
  BY <1>8, ProcTypeStep
<1>9. ASSUME NEW p \in Proc, ScanFails(p) PROVE TypeOK'
  BY <1>9, SetsAssumption DEF ScanFails
<1>10. ASSUME NEW p \in Proc, CreateRecord(p) PROVE TypeOK'
  <2>1. LocalType /\ Job(p) \in Txn
    BY <1>10 DEF CreateRecord, LocalType
  <2>2. txn' \in [Txn -> TxnRecord]
    BY <1>10, <2>1 DEF CreateRecord
  <2>3. LocalType'
    BY <1>10, <2>1, ForgetType, KilledType DEF CreateRecord, PCs
  <2>4. coordinator' \in BOOLEAN /\ blocked' \subseteq Txn \cup Member
    BY <1>10, <2>1 DEF CreateRecord
  <2>5. QED
    BY <1>10, <2>2, <2>3, <2>4 DEF CreateRecord, LocalType
<1>11. ASSUME NEW p \in Proc, CreateRaises(p) PROVE TypeOK'
  BY <1>11, SetsAssumption DEF CreateRaises
<1>12. ASSUME NEW p \in Proc, Resume(p) PROVE TypeOK'
  BY <1>12, SetsAssumption DEF Resume
<1>13. ASSUME NEW p \in Proc, StartFails(p) PROVE TypeOK'
  BY <1>13, SetsAssumption DEF StartFails
<1>14. ASSUME NEW p \in Proc, LoadPrepared(p) PROVE TypeOK'
  BY <1>14, ProcTypeStep
<1>15. ASSUME NEW p \in Proc, LoadCommitted(p) PROVE TypeOK'
  BY <1>15, SetsAssumption DEF LoadCommitted
<1>16. ASSUME NEW p \in Proc, LoadAborted(p) PROVE TypeOK'
  BY <1>16, SetsAssumption DEF LoadAborted
<1>17. ASSUME NEW p \in Proc, NEW m \in Member, ReadCurrent(p, m) PROVE TypeOK'
  BY <1>17, ProcTypeStep
<1>18. ASSUME NEW p \in Proc, NEW m \in Member, ReadStale(p, m) PROVE TypeOK'
  BY <1>18, SetsAssumption DEF ReadStale
<1>19. ASSUME NEW p \in Proc, NEW m \in Member, Materialize(p, m) PROVE TypeOK'
  BY <1>19, MaterializeType
<1>20. ASSUME NEW p \in Proc, CommitRecord(p) PROVE TypeOK'
  <2>1. LocalType /\ Decide(Job(p), "committed") /\ Job(p) \in Txn
    BY <1>20 DEF CommitRecord, LocalType
  <2>2. txn' \in [Txn -> TxnRecord]
    BY <2>1, DecideType
  <2>3. LocalType'
    BY <1>20, <2>1, ForgetType, KilledType DEF CommitRecord, PCs
  <2>4. blocked' \subseteq Txn \cup Member
    BY <1>20, <2>1 DEF CommitRecord
  <2>5. QED
    BY <1>20, <2>2, <2>3, <2>4 DEF CommitRecord, LocalType
<1>21. ASSUME NEW p \in Proc, AbortRecord(p) PROVE TypeOK'
  <2>1. LocalType /\ Decide(Job(p), "aborted") /\ Job(p) \in Txn
    BY <1>21 DEF AbortRecord, LocalType
  <2>2. txn' \in [Txn -> TxnRecord]
    BY <2>1, DecideType
  <2>3. LocalType'
    BY <1>21, <2>1, ReturnType, KilledType DEF AbortRecord
  <2>4. blocked' \subseteq Txn \cup Member
    BY <1>21, <2>1 DEF AbortRecord
  <2>5. QED
    BY <1>21, <2>2, <2>3, <2>4 DEF AbortRecord, LocalType
<1>22. ASSUME NEW p \in Proc, CommitRaises(p) PROVE TypeOK'
  BY <1>22, SetsAssumption DEF CommitRaises
<1>23. ASSUME NEW p \in Proc, AbortRaises(p) PROVE TypeOK'
  BY <1>23, SetsAssumption DEF AbortRaises
<1>24. ASSUME NEW p \in Proc, MaterializeEnds(p) PROVE TypeOK'
  BY <1>24, SetsAssumption DEF MaterializeEnds
<1>25. ASSUME NEW p \in Proc, MaterializeRaises(p) PROVE TypeOK'
  BY <1>25, SetsAssumption DEF MaterializeRaises
<1>26. ASSUME NEW p \in Proc, RecoverEnds(p) PROVE TypeOK'
  BY <1>26, SetsAssumption DEF RecoverEnds
<1>27. ASSUME NEW p \in Proc, Crash(p) PROVE TypeOK'
  BY <1>27, SetsAssumption DEF Crash
<1>28. ASSUME NEW m \in Member, OutsideWrite(m) PROVE TypeOK'
  BY <1>28, SetsAssumption DEF OutsideWrite
<1>30. ASSUME NEW p \in Proc, NEW r \in Txn \cup Member, CrashHolding(p, r) PROVE TypeOK'
  BY <1>30 DEF CrashHolding
<1>31. ASSUME NEW m \in Member, Obstruct(m) PROVE TypeOK'
  BY <1>31 DEF Obstruct
<1>32. ASSUME NEW r \in Txn \cup Member, Repair(r) PROVE TypeOK'
  BY <1>32 DEF Repair
<1>29. QED
  BY <1>1, <1>2, <1>3, <1>4, <1>5, <1>6, <1>7, <1>8, <1>9, <1>10, <1>11, <1>12, <1>13, <1>14, <1>15, <1>16, <1>17, <1>18, <1>19, <1>20, <1>21, <1>22, <1>23, <1>24, <1>25, <1>26, <1>27, <1>28, <1>30, <1>31, <1>32
  DEF Next, Step

\* One live process at a time is between the coordinator lock's mkdir and rmdir.
LEMMA ExclusionStep == ASSUME IInv, [Next]_vars PROVE CoordinatorExclusion'
<1> USE DEF IInv, TypeOK, data, pc, Job, Status, Goto, Forget, Return, Killed, Released, Abandoned, Missing, Idle, Reading, CoordinatorExclusion
<1>1. CASE UNCHANGED vars
  BY <1>1 DEF vars
<1>2. ASSUME NEW p \in Proc, NEW t \in Txn, Begin(p, t) PROVE CoordinatorExclusion'
  BY <1>2 DEF Begin
<1>3. ASSUME NEW p \in Proc, NEW t \in Txn, AbortCall(p, t) PROVE CoordinatorExclusion'
  BY <1>3 DEF AbortCall
<1>4. ASSUME NEW p \in Proc, NEW t \in Txn, RecoverCommitted(p, t) PROVE CoordinatorExclusion'
  BY <1>4 DEF RecoverCommitted
<1>5. ASSUME NEW p \in Proc, NEW t \in Txn, RecoverPrepared(p, t) PROVE CoordinatorExclusion'
  BY <1>5 DEF RecoverPrepared
<1>6. ASSUME NEW p \in Proc, LockCoordinator(p) PROVE CoordinatorExclusion'
  BY <1>6 DEF LockCoordinator
<1>7. ASSUME NEW p \in Proc, CoordinatorBusy(p) PROVE CoordinatorExclusion'
  BY <1>7 DEF CoordinatorBusy
<1>8. ASSUME NEW p \in Proc, ScanPasses(p) PROVE CoordinatorExclusion'
  BY <1>8 DEF ScanPasses
<1>9. ASSUME NEW p \in Proc, ScanFails(p) PROVE CoordinatorExclusion'
  BY <1>9 DEF ScanFails
<1>10. ASSUME NEW p \in Proc, CreateRecord(p) PROVE CoordinatorExclusion'
  BY <1>10 DEF CreateRecord
<1>11. ASSUME NEW p \in Proc, CreateRaises(p) PROVE CoordinatorExclusion'
  BY <1>11 DEF CreateRaises
<1>12. ASSUME NEW p \in Proc, Resume(p) PROVE CoordinatorExclusion'
  BY <1>12 DEF Resume
<1>13. ASSUME NEW p \in Proc, StartFails(p) PROVE CoordinatorExclusion'
  BY <1>13 DEF StartFails
<1>14. ASSUME NEW p \in Proc, LoadPrepared(p) PROVE CoordinatorExclusion'
  BY <1>14 DEF LoadPrepared
<1>15. ASSUME NEW p \in Proc, LoadCommitted(p) PROVE CoordinatorExclusion'
  BY <1>15 DEF LoadCommitted
<1>16. ASSUME NEW p \in Proc, LoadAborted(p) PROVE CoordinatorExclusion'
  BY <1>16 DEF LoadAborted
<1>17. ASSUME NEW p \in Proc, NEW m \in Member, ReadCurrent(p, m) PROVE CoordinatorExclusion'
  BY <1>17 DEF ReadCurrent
<1>18. ASSUME NEW p \in Proc, NEW m \in Member, ReadStale(p, m) PROVE CoordinatorExclusion'
  BY <1>18 DEF ReadStale
<1>19. ASSUME NEW p \in Proc, NEW m \in Member, Materialize(p, m) PROVE CoordinatorExclusion'
  <2>1. CASE UNCHANGED at
    BY <1>19, <2>1 DEF Materialize
  <2>2. CASE Abandoned(p, m)
    BY <1>19, <2>2 DEF Materialize
  <2>3. QED
    BY <1>19, <2>1, <2>2 DEF Materialize
<1>20. ASSUME NEW p \in Proc, CommitRecord(p) PROVE CoordinatorExclusion'
  <2>1. pc(p)' \in {"apply", "dead"} /\ \A q \in Proc \ {p} : at'[q] = at[q]
    BY <1>20 DEF CommitRecord
  <2>2. coordinator' = coordinator
    BY <1>20 DEF CommitRecord
  <2>3. QED
    BY <2>1, <2>2
<1>21. ASSUME NEW p \in Proc, AbortRecord(p) PROVE CoordinatorExclusion'
  BY <1>21 DEF AbortRecord
<1>22. ASSUME NEW p \in Proc, CommitRaises(p) PROVE CoordinatorExclusion'
  BY <1>22 DEF CommitRaises
<1>23. ASSUME NEW p \in Proc, AbortRaises(p) PROVE CoordinatorExclusion'
  BY <1>23 DEF AbortRaises
<1>24. ASSUME NEW p \in Proc, MaterializeEnds(p) PROVE CoordinatorExclusion'
  BY <1>24 DEF MaterializeEnds
<1>25. ASSUME NEW p \in Proc, MaterializeRaises(p) PROVE CoordinatorExclusion'
  BY <1>25 DEF MaterializeRaises
<1>26. ASSUME NEW p \in Proc, RecoverEnds(p) PROVE CoordinatorExclusion'
  BY <1>26 DEF RecoverEnds
<1>27. ASSUME NEW p \in Proc, Crash(p) PROVE CoordinatorExclusion'
  BY <1>27 DEF Crash
<1>28. ASSUME NEW m \in Member, OutsideWrite(m) PROVE CoordinatorExclusion'
  BY <1>28 DEF OutsideWrite
<1>30. ASSUME NEW p \in Proc, NEW r \in Txn \cup Member, CrashHolding(p, r) PROVE CoordinatorExclusion'
  BY <1>30 DEF CrashHolding
<1>31. ASSUME NEW m \in Member, Obstruct(m) PROVE CoordinatorExclusion'
  BY <1>31 DEF Obstruct
<1>32. ASSUME NEW r \in Txn \cup Member, Repair(r) PROVE CoordinatorExclusion'
  BY <1>32 DEF Repair
<1>29. QED
  BY <1>1, <1>2, <1>3, <1>4, <1>5, <1>6, <1>7, <1>8, <1>9, <1>10, <1>11, <1>12, <1>13, <1>14, <1>15, <1>16, <1>17, <1>18, <1>19, <1>20, <1>21, <1>22, <1>23, <1>24, <1>25, <1>26, <1>27, <1>28, <1>30, <1>31, <1>32
  DEF Next, Step

\* The revision of a transaction record tells how far the transaction is.
LEMMA RevisionStep == ASSUME IInv, [Next]_vars PROVE RevisionIsStatus'
<1> USE DEF IInv, TypeOK, data, pc, Job, Status, Goto, Forget, Return, Killed, Released, Abandoned, Missing, Idle, Reading, RevisionIsStatus, DecidersReadPrepared, Decide, Unmoved
<1>1. CASE UNCHANGED vars
  BY <1>1 DEF vars
<1>2. ASSUME NEW p \in Proc, NEW t \in Txn, Begin(p, t) PROVE RevisionIsStatus'
  BY <1>2 DEF Begin
<1>3. ASSUME NEW p \in Proc, NEW t \in Txn, AbortCall(p, t) PROVE RevisionIsStatus'
  BY <1>3 DEF AbortCall
<1>4. ASSUME NEW p \in Proc, NEW t \in Txn, RecoverCommitted(p, t) PROVE RevisionIsStatus'
  BY <1>4 DEF RecoverCommitted
<1>5. ASSUME NEW p \in Proc, NEW t \in Txn, RecoverPrepared(p, t) PROVE RevisionIsStatus'
  BY <1>5 DEF RecoverPrepared
<1>6. ASSUME NEW p \in Proc, LockCoordinator(p) PROVE RevisionIsStatus'
  BY <1>6 DEF LockCoordinator
<1>7. ASSUME NEW p \in Proc, CoordinatorBusy(p) PROVE RevisionIsStatus'
  BY <1>7 DEF CoordinatorBusy
<1>8. ASSUME NEW p \in Proc, ScanPasses(p) PROVE RevisionIsStatus'
  BY <1>8 DEF ScanPasses
<1>9. ASSUME NEW p \in Proc, ScanFails(p) PROVE RevisionIsStatus'
  BY <1>9 DEF ScanFails
<1>10. ASSUME NEW p \in Proc, CreateRecord(p) PROVE RevisionIsStatus'
  BY <1>10 DEF CreateRecord
<1>11. ASSUME NEW p \in Proc, CreateRaises(p) PROVE RevisionIsStatus'
  BY <1>11 DEF CreateRaises
<1>12. ASSUME NEW p \in Proc, Resume(p) PROVE RevisionIsStatus'
  BY <1>12 DEF Resume
<1>13. ASSUME NEW p \in Proc, StartFails(p) PROVE RevisionIsStatus'
  BY <1>13 DEF StartFails
<1>14. ASSUME NEW p \in Proc, LoadPrepared(p) PROVE RevisionIsStatus'
  BY <1>14 DEF LoadPrepared
<1>15. ASSUME NEW p \in Proc, LoadCommitted(p) PROVE RevisionIsStatus'
  BY <1>15 DEF LoadCommitted
<1>16. ASSUME NEW p \in Proc, LoadAborted(p) PROVE RevisionIsStatus'
  BY <1>16 DEF LoadAborted
<1>17. ASSUME NEW p \in Proc, NEW m \in Member, ReadCurrent(p, m) PROVE RevisionIsStatus'
  BY <1>17 DEF ReadCurrent
<1>18. ASSUME NEW p \in Proc, NEW m \in Member, ReadStale(p, m) PROVE RevisionIsStatus'
  BY <1>18 DEF ReadStale
<1>19. ASSUME NEW p \in Proc, NEW m \in Member, Materialize(p, m) PROVE RevisionIsStatus'
  BY <1>19 DEF Materialize
<1>20. ASSUME NEW p \in Proc, CommitRecord(p) PROVE RevisionIsStatus'
  BY <1>20 DEF CommitRecord
<1>21. ASSUME NEW p \in Proc, AbortRecord(p) PROVE RevisionIsStatus'
  BY <1>21 DEF AbortRecord
<1>22. ASSUME NEW p \in Proc, CommitRaises(p) PROVE RevisionIsStatus'
  BY <1>22 DEF CommitRaises
<1>23. ASSUME NEW p \in Proc, AbortRaises(p) PROVE RevisionIsStatus'
  BY <1>23 DEF AbortRaises
<1>24. ASSUME NEW p \in Proc, MaterializeEnds(p) PROVE RevisionIsStatus'
  BY <1>24 DEF MaterializeEnds
<1>25. ASSUME NEW p \in Proc, MaterializeRaises(p) PROVE RevisionIsStatus'
  BY <1>25 DEF MaterializeRaises
<1>26. ASSUME NEW p \in Proc, RecoverEnds(p) PROVE RevisionIsStatus'
  BY <1>26 DEF RecoverEnds
<1>27. ASSUME NEW p \in Proc, Crash(p) PROVE RevisionIsStatus'
  BY <1>27 DEF Crash
<1>28. ASSUME NEW m \in Member, OutsideWrite(m) PROVE RevisionIsStatus'
  BY <1>28 DEF OutsideWrite
<1>30. ASSUME NEW p \in Proc, NEW r \in Txn \cup Member, CrashHolding(p, r) PROVE RevisionIsStatus'
  BY <1>30 DEF CrashHolding
<1>31. ASSUME NEW m \in Member, Obstruct(m) PROVE RevisionIsStatus'
  BY <1>31 DEF Obstruct
<1>32. ASSUME NEW r \in Txn \cup Member, Repair(r) PROVE RevisionIsStatus'
  BY <1>32 DEF Repair
<1>29. QED
  BY <1>1, <1>2, <1>3, <1>4, <1>5, <1>6, <1>7, <1>8, <1>9, <1>10, <1>11, <1>12, <1>13, <1>14, <1>15, <1>16, <1>17, <1>18, <1>19, <1>20, <1>21, <1>22, <1>23, <1>24, <1>25, <1>26, <1>27, <1>28, <1>30, <1>31, <1>32
  DEF Next, Step

\* Whoever decides a transaction read its prepared record.
LEMMA DeciderStep == ASSUME IInv, [Next]_vars PROVE DecidersReadPrepared'
<1> USE DEF IInv, TypeOK, data, pc, Job, Status, Goto, Forget, Return, Killed, Released, Abandoned, Missing, Idle, Reading, DecidersReadPrepared, RevisionIsStatus, Decide, Unmoved
<1>1. CASE UNCHANGED vars
  BY <1>1 DEF vars
<1>2. ASSUME NEW p \in Proc, NEW t \in Txn, Begin(p, t) PROVE DecidersReadPrepared'
  BY <1>2 DEF Begin
<1>3. ASSUME NEW p \in Proc, NEW t \in Txn, AbortCall(p, t) PROVE DecidersReadPrepared'
  BY <1>3 DEF AbortCall
<1>4. ASSUME NEW p \in Proc, NEW t \in Txn, RecoverCommitted(p, t) PROVE DecidersReadPrepared'
  BY <1>4 DEF RecoverCommitted
<1>5. ASSUME NEW p \in Proc, NEW t \in Txn, RecoverPrepared(p, t) PROVE DecidersReadPrepared'
  BY <1>5 DEF RecoverPrepared
<1>6. ASSUME NEW p \in Proc, LockCoordinator(p) PROVE DecidersReadPrepared'
  BY <1>6 DEF LockCoordinator
<1>7. ASSUME NEW p \in Proc, CoordinatorBusy(p) PROVE DecidersReadPrepared'
  BY <1>7 DEF CoordinatorBusy
<1>8. ASSUME NEW p \in Proc, ScanPasses(p) PROVE DecidersReadPrepared'
  BY <1>8 DEF ScanPasses
<1>9. ASSUME NEW p \in Proc, ScanFails(p) PROVE DecidersReadPrepared'
  BY <1>9 DEF ScanFails
<1>10. ASSUME NEW p \in Proc, CreateRecord(p) PROVE DecidersReadPrepared'
  <2>1. pc(p)' \in {"load", "dead"} /\ \A q \in Proc \ {p} : at'[q] = at[q]
    BY <1>10 DEF CreateRecord
  <2>2. \A t \in Txn : Status(t) = "committed" => Status(t)' = "committed"
    BY <1>10 DEF CreateRecord
  <2>3. QED
    BY <2>1, <2>2
<1>11. ASSUME NEW p \in Proc, CreateRaises(p) PROVE DecidersReadPrepared'
  BY <1>11 DEF CreateRaises
<1>12. ASSUME NEW p \in Proc, Resume(p) PROVE DecidersReadPrepared'
  BY <1>12 DEF Resume
<1>13. ASSUME NEW p \in Proc, StartFails(p) PROVE DecidersReadPrepared'
  BY <1>13 DEF StartFails
<1>14. ASSUME NEW p \in Proc, LoadPrepared(p) PROVE DecidersReadPrepared'
  BY <1>14 DEF LoadPrepared
<1>15. ASSUME NEW p \in Proc, LoadCommitted(p) PROVE DecidersReadPrepared'
  BY <1>15 DEF LoadCommitted
<1>16. ASSUME NEW p \in Proc, LoadAborted(p) PROVE DecidersReadPrepared'
  BY <1>16 DEF LoadAborted
<1>17. ASSUME NEW p \in Proc, NEW m \in Member, ReadCurrent(p, m) PROVE DecidersReadPrepared'
  BY <1>17 DEF ReadCurrent
<1>18. ASSUME NEW p \in Proc, NEW m \in Member, ReadStale(p, m) PROVE DecidersReadPrepared'
  BY <1>18 DEF ReadStale
<1>19. ASSUME NEW p \in Proc, NEW m \in Member, Materialize(p, m) PROVE DecidersReadPrepared'
  BY <1>19 DEF Materialize
<1>20. ASSUME NEW p \in Proc, CommitRecord(p) PROVE DecidersReadPrepared'
  <2>1. /\ pc(p)' \in {"apply", "dead"} /\ \A q \in Proc \ {p} : at'[q] = at[q]
        /\ pc(p)' = "apply" => Job(p)' = Job(p)
    BY <1>20 DEF CommitRecord
  <2>2. Job(p) \in Txn /\ Decide(Job(p), "committed")
    BY <1>20 DEF CommitRecord
  <2>3. txn'[Job(p)].status = "committed" /\ \A t \in Txn \ {Job(p)} : txn'[t] = txn[t]
    BY <2>2
  <2>4. QED
    BY <2>1, <2>2, <2>3
<1>21. ASSUME NEW p \in Proc, AbortRecord(p) PROVE DecidersReadPrepared'
  BY <1>21 DEF AbortRecord
<1>22. ASSUME NEW p \in Proc, CommitRaises(p) PROVE DecidersReadPrepared'
  BY <1>22 DEF CommitRaises
<1>23. ASSUME NEW p \in Proc, AbortRaises(p) PROVE DecidersReadPrepared'
  BY <1>23 DEF AbortRaises
<1>24. ASSUME NEW p \in Proc, MaterializeEnds(p) PROVE DecidersReadPrepared'
  BY <1>24 DEF MaterializeEnds
<1>25. ASSUME NEW p \in Proc, MaterializeRaises(p) PROVE DecidersReadPrepared'
  BY <1>25 DEF MaterializeRaises
<1>26. ASSUME NEW p \in Proc, RecoverEnds(p) PROVE DecidersReadPrepared'
  BY <1>26 DEF RecoverEnds
<1>27. ASSUME NEW p \in Proc, Crash(p) PROVE DecidersReadPrepared'
  BY <1>27 DEF Crash
<1>28. ASSUME NEW m \in Member, OutsideWrite(m) PROVE DecidersReadPrepared'
  BY <1>28 DEF OutsideWrite
<1>30. ASSUME NEW p \in Proc, NEW r \in Txn \cup Member, CrashHolding(p, r) PROVE DecidersReadPrepared'
  BY <1>30 DEF CrashHolding
<1>31. ASSUME NEW m \in Member, Obstruct(m) PROVE DecidersReadPrepared'
  BY <1>31 DEF Obstruct
<1>32. ASSUME NEW r \in Txn \cup Member, Repair(r) PROVE DecidersReadPrepared'
  BY <1>32 DEF Repair
<1>29. QED
  BY <1>1, <1>2, <1>3, <1>4, <1>5, <1>6, <1>7, <1>8, <1>9, <1>10, <1>11, <1>12, <1>13, <1>14, <1>15, <1>16, <1>17, <1>18, <1>19, <1>20, <1>21, <1>22, <1>23, <1>24, <1>25, <1>26, <1>27, <1>28, <1>30, <1>31, <1>32
  DEF Next, Step

\* Only prepare()'s creation of a record makes a transaction prepared.
LEMMA PreparedByCreate ==
  ASSUME IInv, [Next]_vars, NEW t \in Txn, Status(t)' = "prepared"
  PROVE  Status(t) = "prepared" \/ \E p \in Proc : CreateRecord(p) /\ Job(p) = t
<1> USE DEF IInv, TypeOK, Status
<1>1. CASE UNCHANGED txn
  BY <1>1
<1>2. ASSUME NEW p \in Proc, CreateRecord(p)
      PROVE  Status(t) = "prepared" \/ \E q \in Proc : CreateRecord(q) /\ Job(q) = t
  <2>1. CASE Job(p) = t
    BY <1>2, <2>1
  <2>2. CASE Job(p) # t
    BY <1>2, <2>2 DEF CreateRecord
  <2>3. QED
    BY <2>1, <2>2
<1>3. ASSUME NEW p \in Proc, CommitRecord(p) \/ AbortRecord(p)
      PROVE  Status(t) = "prepared"
  BY <1>3 DEF CommitRecord, AbortRecord, Decide
<1>4. QED
  BY <1>1, <1>2, <1>3
  DEF Next, Step, vars, data, Begin, AbortCall, RecoverCommitted, RecoverPrepared,
      LockCoordinator, CoordinatorBusy, ScanPasses, ScanFails, CreateRaises, Resume,
      StartFails, LoadPrepared, LoadCommitted, LoadAborted, ReadCurrent, ReadStale,
      Materialize, CommitRaises, AbortRaises, MaterializeEnds, MaterializeRaises,
      RecoverEnds, Crash, CrashHolding, OutsideWrite, Obstruct, Repair

\* Conflicts do not depend on the order of the two transactions.
LEMMA ConflictSymmetric ==
  ASSUME NEW t \in Txn, NEW u \in Txn, Conflict(t, u) PROVE Conflict(u, t)
  BY DEF Conflict

\* What a passed scan found stays true: whoever could make another
\* transaction prepared would need the lock.
LEMMA ScanStep == ASSUME IInv, [Next]_vars PROVE ScanStaysTrue'
<1> SUFFICES ASSUME NEW p \in Proc, pc(p)' = "create", PreparedConflict(Job(p))'
             PROVE  FALSE
  BY DEF ScanStaysTrue
<1>1. /\ Job(p)' = Job(p)
      /\ ~PreparedConflict(Job(p))
      /\ \A q \in Proc : ~CreateRecord(q)
  <2> USE DEF IInv, TypeOK, pc, Job, Goto, Forget, Return, Killed, Released, Abandoned, Missing, Idle, Reading
  <2>1. ASSUME NEW q \in Proc, CreateRecord(q) PROVE FALSE
    <3>1. pc(q) = "create" /\ pc(q)' \in {"load", "dead"}
      BY <2>1 DEF CreateRecord
    <3>2. p # q
      BY <3>1
    <3>3. pc(p) # "create" /\ pc(p)' = pc(p)
      BY <2>1, <3>1, <3>2 DEF CreateRecord, CoordinatorExclusion
    <3>4. QED
      BY <3>3
  <2>2. ASSUME NEW q \in Proc, ScanPasses(q)
        PROVE  Job(p)' = Job(p) /\ ~PreparedConflict(Job(p))
    BY <2>2 DEF ScanPasses, ScanStaysTrue
  <2>3. ASSUME NEW q \in Proc, \E t \in Txn : Begin(q, t)
        PROVE  Job(p)' = Job(p) /\ pc(p) = "create"
    BY <2>3 DEF Begin
  <2>4. ASSUME NEW q \in Proc, \E t \in Txn : AbortCall(q, t)
        PROVE  Job(p)' = Job(p) /\ pc(p) = "create"
    BY <2>4 DEF AbortCall
  <2>5. ASSUME NEW q \in Proc, \E t \in Txn : RecoverCommitted(q, t)
        PROVE  Job(p)' = Job(p) /\ pc(p) = "create"
    BY <2>5 DEF RecoverCommitted
  <2>6. ASSUME NEW q \in Proc, \E t \in Txn : RecoverPrepared(q, t)
        PROVE  Job(p)' = Job(p) /\ pc(p) = "create"
    BY <2>6 DEF RecoverPrepared
  <2>7. ASSUME NEW q \in Proc, LockCoordinator(q)
        PROVE  Job(p)' = Job(p) /\ pc(p) = "create"
    BY <2>7 DEF LockCoordinator
  <2>8. ASSUME NEW q \in Proc, CoordinatorBusy(q)
        PROVE  Job(p)' = Job(p) /\ pc(p) = "create"
    BY <2>8 DEF CoordinatorBusy
  <2>9. ASSUME NEW q \in Proc, ScanFails(q)
        PROVE  Job(p)' = Job(p) /\ pc(p) = "create"
    BY <2>9 DEF ScanFails
  <2>10. ASSUME NEW q \in Proc, CreateRaises(q)
        PROVE  Job(p)' = Job(p) /\ pc(p) = "create"
    BY <2>10 DEF CreateRaises
  <2>11. ASSUME NEW q \in Proc, Resume(q)
        PROVE  Job(p)' = Job(p) /\ pc(p) = "create"
    BY <2>11 DEF Resume
  <2>12. ASSUME NEW q \in Proc, StartFails(q)
        PROVE  Job(p)' = Job(p) /\ pc(p) = "create"
    BY <2>12 DEF StartFails
  <2>13. ASSUME NEW q \in Proc, LoadPrepared(q)
        PROVE  Job(p)' = Job(p) /\ pc(p) = "create"
    BY <2>13 DEF LoadPrepared
  <2>14. ASSUME NEW q \in Proc, LoadCommitted(q)
        PROVE  Job(p)' = Job(p) /\ pc(p) = "create"
    BY <2>14 DEF LoadCommitted
  <2>15. ASSUME NEW q \in Proc, LoadAborted(q)
        PROVE  Job(p)' = Job(p) /\ pc(p) = "create"
    BY <2>15 DEF LoadAborted
  <2>16. ASSUME NEW q \in Proc, \E m \in Member : ReadCurrent(q, m)
        PROVE  Job(p)' = Job(p) /\ pc(p) = "create"
    BY <2>16 DEF ReadCurrent
  <2>17. ASSUME NEW q \in Proc, \E m \in Member : ReadStale(q, m)
        PROVE  Job(p)' = Job(p) /\ pc(p) = "create"
    BY <2>17 DEF ReadStale
  <2>18. ASSUME NEW q \in Proc, \E m \in Member : Materialize(q, m)
        PROVE  Job(p)' = Job(p) /\ pc(p) = "create"
    BY <2>18 DEF Materialize
  <2>19. ASSUME NEW q \in Proc, CommitRecord(q)
        PROVE  Job(p)' = Job(p) /\ pc(p) = "create"
    BY <2>19 DEF CommitRecord
  <2>20. ASSUME NEW q \in Proc, AbortRecord(q)
        PROVE  Job(p)' = Job(p) /\ pc(p) = "create"
    BY <2>20 DEF AbortRecord
  <2>21. ASSUME NEW q \in Proc, CommitRaises(q)
        PROVE  Job(p)' = Job(p) /\ pc(p) = "create"
    BY <2>21 DEF CommitRaises
  <2>22. ASSUME NEW q \in Proc, AbortRaises(q)
        PROVE  Job(p)' = Job(p) /\ pc(p) = "create"
    BY <2>22 DEF AbortRaises
  <2>23. ASSUME NEW q \in Proc, MaterializeEnds(q)
        PROVE  Job(p)' = Job(p) /\ pc(p) = "create"
    BY <2>23 DEF MaterializeEnds
  <2>24. ASSUME NEW q \in Proc, MaterializeRaises(q)
        PROVE  Job(p)' = Job(p) /\ pc(p) = "create"
    BY <2>24 DEF MaterializeRaises
  <2>25. ASSUME NEW q \in Proc, RecoverEnds(q)
        PROVE  Job(p)' = Job(p) /\ pc(p) = "create"
    BY <2>25 DEF RecoverEnds
  <2>26. ASSUME NEW q \in Proc, Crash(q)
        PROVE  Job(p)' = Job(p) /\ pc(p) = "create"
    BY <2>26 DEF Crash
  <2>27. ASSUME UNCHANGED at PROVE Job(p)' = Job(p) /\ pc(p) = "create"
    BY <2>27
  <2>29. ASSUME NEW q \in Proc, \E r \in Txn \cup Member : CrashHolding(q, r)
        PROVE  Job(p)' = Job(p) /\ pc(p) = "create"
    BY <2>29 DEF CrashHolding
  <2>28. QED
    BY <2>29, <2>1, <2>2, <2>3, <2>4, <2>5, <2>6, <2>7, <2>8, <2>9, <2>10,
       <2>11, <2>12, <2>13, <2>14, <2>15, <2>16, <2>17, <2>18, <2>19, <2>20,
       <2>21, <2>22, <2>23, <2>24, <2>25, <2>26, <2>27
    DEF Next, Step, vars, OutsideWrite, Obstruct, Repair, ScanStaysTrue
<1>2. PICK u \in Txn \ {Job(p)} : Status(u)' = "prepared" /\ Conflict(Job(p), u)
  BY <1>1 DEF PreparedConflict
<1>3. Status(u) = "prepared"
  BY <1>1, <1>2, PreparedByCreate
<1>4. QED
  BY <1>1, <1>2, <1>3 DEF PreparedConflict, IInv, ScanStaysTrue

\* A new prepared transaction has nothing to do with the others.
LEMMA NoConflictStep == ASSUME IInv, [Next]_vars PROVE NoConflictingPrepared'
<1> SUFFICES ASSUME NEW t \in Txn, NEW u \in Txn, t # u, Conflict(t, u),
                    Status(t)' = "prepared", Status(u)' = "prepared"
             PROVE  FALSE
  BY DEF NoConflictingPrepared
<1>1. ~ (Status(t) = "prepared" /\ Status(u) = "prepared")
  BY DEF IInv, NoConflictingPrepared
<1>2. ASSUME NEW p \in Proc, CreateRecord(p)
      PROVE  ~PreparedConflict(Job(p)) /\ \A v \in Txn \ {Job(p)} : Status(v)' = Status(v)
  BY <1>2 DEF CreateRecord, Forget, IInv, ScanStaysTrue, Status, TypeOK
<1>3. CASE Status(t) # "prepared"
  <2>1. PICK p \in Proc : CreateRecord(p) /\ Job(p) = t
    BY <1>3, PreparedByCreate
  <2>2. QED
    BY <1>2, <2>1 DEF PreparedConflict
<1>4. CASE Status(u) # "prepared"
  <2>1. PICK p \in Proc : CreateRecord(p) /\ Job(p) = u
    BY <1>4, PreparedByCreate
  <2>2. QED
    BY <1>2, <2>1, ConflictSymmetric DEF PreparedConflict
<1>5. QED
  BY <1>1, <1>3, <1>4

\* Only a materialization of a committed transaction writes members.
LEMMA AppliedStep == ASSUME IInv, [Next]_vars PROVE OnlyCommittedApplied'
<1> USE DEF IInv, TypeOK, data, pc, Job, Status, Goto, Forget, Return, Killed, Released, Abandoned, Missing, Idle, Reading, OnlyCommittedApplied, DecidersReadPrepared, RevisionIsStatus, Decide, Unmoved
<1>1. CASE UNCHANGED vars
  BY <1>1 DEF vars
<1>2. ASSUME NEW p \in Proc, NEW t \in Txn, Begin(p, t) PROVE OnlyCommittedApplied'
  BY <1>2 DEF Begin
<1>3. ASSUME NEW p \in Proc, NEW t \in Txn, AbortCall(p, t) PROVE OnlyCommittedApplied'
  BY <1>3 DEF AbortCall
<1>4. ASSUME NEW p \in Proc, NEW t \in Txn, RecoverCommitted(p, t) PROVE OnlyCommittedApplied'
  BY <1>4 DEF RecoverCommitted
<1>5. ASSUME NEW p \in Proc, NEW t \in Txn, RecoverPrepared(p, t) PROVE OnlyCommittedApplied'
  BY <1>5 DEF RecoverPrepared
<1>6. ASSUME NEW p \in Proc, LockCoordinator(p) PROVE OnlyCommittedApplied'
  BY <1>6 DEF LockCoordinator
<1>7. ASSUME NEW p \in Proc, CoordinatorBusy(p) PROVE OnlyCommittedApplied'
  BY <1>7 DEF CoordinatorBusy
<1>8. ASSUME NEW p \in Proc, ScanPasses(p) PROVE OnlyCommittedApplied'
  BY <1>8 DEF ScanPasses
<1>9. ASSUME NEW p \in Proc, ScanFails(p) PROVE OnlyCommittedApplied'
  BY <1>9 DEF ScanFails
<1>10. ASSUME NEW p \in Proc, CreateRecord(p) PROVE OnlyCommittedApplied'
  BY <1>10 DEF CreateRecord
<1>11. ASSUME NEW p \in Proc, CreateRaises(p) PROVE OnlyCommittedApplied'
  BY <1>11 DEF CreateRaises
<1>12. ASSUME NEW p \in Proc, Resume(p) PROVE OnlyCommittedApplied'
  BY <1>12 DEF Resume
<1>13. ASSUME NEW p \in Proc, StartFails(p) PROVE OnlyCommittedApplied'
  BY <1>13 DEF StartFails
<1>14. ASSUME NEW p \in Proc, LoadPrepared(p) PROVE OnlyCommittedApplied'
  BY <1>14 DEF LoadPrepared
<1>15. ASSUME NEW p \in Proc, LoadCommitted(p) PROVE OnlyCommittedApplied'
  BY <1>15 DEF LoadCommitted
<1>16. ASSUME NEW p \in Proc, LoadAborted(p) PROVE OnlyCommittedApplied'
  BY <1>16 DEF LoadAborted
<1>17. ASSUME NEW p \in Proc, NEW m \in Member, ReadCurrent(p, m) PROVE OnlyCommittedApplied'
  BY <1>17 DEF ReadCurrent
<1>18. ASSUME NEW p \in Proc, NEW m \in Member, ReadStale(p, m) PROVE OnlyCommittedApplied'
  BY <1>18 DEF ReadStale
<1>19. ASSUME NEW p \in Proc, NEW m \in Member, Materialize(p, m) PROVE OnlyCommittedApplied'
  BY <1>19 DEF Materialize
<1>20. ASSUME NEW p \in Proc, CommitRecord(p) PROVE OnlyCommittedApplied'
  BY <1>20 DEF CommitRecord
<1>21. ASSUME NEW p \in Proc, AbortRecord(p) PROVE OnlyCommittedApplied'
  BY <1>21 DEF AbortRecord
<1>22. ASSUME NEW p \in Proc, CommitRaises(p) PROVE OnlyCommittedApplied'
  BY <1>22 DEF CommitRaises
<1>23. ASSUME NEW p \in Proc, AbortRaises(p) PROVE OnlyCommittedApplied'
  BY <1>23 DEF AbortRaises
<1>24. ASSUME NEW p \in Proc, MaterializeEnds(p) PROVE OnlyCommittedApplied'
  BY <1>24 DEF MaterializeEnds
<1>25. ASSUME NEW p \in Proc, MaterializeRaises(p) PROVE OnlyCommittedApplied'
  BY <1>25 DEF MaterializeRaises
<1>26. ASSUME NEW p \in Proc, RecoverEnds(p) PROVE OnlyCommittedApplied'
  BY <1>26 DEF RecoverEnds
<1>27. ASSUME NEW p \in Proc, Crash(p) PROVE OnlyCommittedApplied'
  BY <1>27 DEF Crash
<1>28. ASSUME NEW m \in Member, OutsideWrite(m) PROVE OnlyCommittedApplied'
  BY <1>28 DEF OutsideWrite
<1>30. ASSUME NEW p \in Proc, NEW r \in Txn \cup Member, CrashHolding(p, r) PROVE OnlyCommittedApplied'
  BY <1>30 DEF CrashHolding
<1>31. ASSUME NEW m \in Member, Obstruct(m) PROVE OnlyCommittedApplied'
  BY <1>31 DEF Obstruct
<1>32. ASSUME NEW r \in Txn \cup Member, Repair(r) PROVE OnlyCommittedApplied'
  BY <1>32 DEF Repair
<1>29. QED
  BY <1>1, <1>2, <1>3, <1>4, <1>5, <1>6, <1>7, <1>8, <1>9, <1>10, <1>11, <1>12, <1>13, <1>14, <1>15, <1>16, <1>17, <1>18, <1>19, <1>20, <1>21, <1>22, <1>23, <1>24, <1>25, <1>26, <1>27, <1>28, <1>30, <1>31, <1>32
  DEF Next, Step

\* The inductive invariant holds in every reachable state.
THEOREM Invariance == Spec => []IInv
<1>1. IInv /\ [Next]_vars => IInv'
  BY TypeStep, ExclusionStep, ScanStep, RevisionStep, DeciderStep, NoConflictStep,
     AppliedStep
  DEF IInv
<1>2. QED
  BY <1>1, InitIInv, PTL DEF Spec

\* Prepared transactions never touch each other's records.
THEOREM PreparedExclude == Spec => []NoConflictingPrepared
  BY Invariance, PTL DEF IInv

\* What is materialized belongs to a committed transaction.
THEOREM AppliedAreCommitted == Spec => []OnlyCommittedApplied
  BY Invariance, PTL DEF IInv

\* A transaction is decided once.
THEOREM Decided == Spec => DecidedOnce
<1> DEFINE Stays == \A t \in Txn : Status(t) \in {"committed", "aborted"} => txn'[t] = txn[t]
<1>1. ASSUME IInv, [Next]_vars PROVE [Stays]_vars
  <2> USE <1>1 DEF IInv, TypeOK, Status
  <2>1. CASE UNCHANGED txn
    BY <2>1
  <2>2. ASSUME NEW p \in Proc, CreateRecord(p) PROVE Stays
    BY <2>2 DEF CreateRecord
  <2>3. ASSUME NEW p \in Proc, CommitRecord(p) \/ AbortRecord(p) PROVE Stays
    <3>1. txn[Job(p)].revision = 0
      BY <2>3 DEF CommitRecord, AbortRecord, Unmoved, DecidersReadPrepared, Forget, Return
    <3>2. Job(p) \in Txn
      BY <2>3 DEF CommitRecord, AbortRecord, Forget, Return
    <3>3. Status(Job(p)) = "prepared"
      BY <3>1, <3>2 DEF RevisionIsStatus
    <3>4. \A t \in Txn \ {Job(p)} : txn'[t] = txn[t]
      BY <2>3 DEF CommitRecord, AbortRecord, Decide
    <3>5. QED
      BY <3>3, <3>4
  <2>4. QED
    BY <2>1, <2>2, <2>3
    DEF Next, Step, vars, data, Begin, AbortCall, RecoverCommitted, RecoverPrepared,
        LockCoordinator, CoordinatorBusy, ScanPasses, ScanFails, CreateRaises, Resume,
        StartFails, LoadPrepared, LoadCommitted, LoadAborted, ReadCurrent, ReadStale,
        Materialize, CommitRaises, AbortRaises, MaterializeEnds, MaterializeRaises,
        RecoverEnds, Crash, CrashHolding, OutsideWrite, Obstruct, Repair
<1>2. Spec => [][Stays]_vars
  BY <1>1, Invariance, PTL DEF Spec
<1>3. QED
  BY <1>2 DEF DecidedOnce
=============================================================================

-------------------------- MODULE WorkspaceProofs --------------------------
(***************************************************************************)
(* Proofs about Workspace for every set of processes, workers and sessions, *)
(* whichever of the processes are killed.                                   *)
(***************************************************************************)
EXTENDS Workspace, TLAPS

PCs == {"idle", "start", "mkdir", "describe", "claim", "withdraw", "retire", "unbranch",
        "created", "lock", "check", "write", "unlock"}
Held == {"lock", "check", "write", "unlock"}

LEMMA IdleType == Idle \in Local /\ Idle.pc = "idle"
BY DEF Idle, Local, Statuses

\* A claim that a command may change is changed to another claim.
LEMMA UpdatedClaim ==
  ASSUME NEW c \in Claims!Claim, NEW status \in Statuses, NEW worker \in Worker,
         NEW session \in Session \cup {None}
  PROVE  Claims!Updated(c, status, worker, session) \in Claims!Claim
<1>1. c.revision + 1 \in Nat
  BY DEF Claims!Claim
<1>2. (IF status \in Claims!Owned THEN worker ELSE None) \in Worker \cup {None}
  OBVIOUS
<1>3. (IF status \in Claims!Owned THEN session ELSE None) \in Session \cup {None}
  OBVIOUS
<1>4. status \in Claims!Owned \cup {"available", "closed"}
  BY DEF Statuses, Claims!Owned
<1> QED
  BY <1>1, <1>2, <1>3, <1>4 DEF Claims!Claim, Claims!Updated

\* The claim a workspace is created with is a claim, and no claim is none.
LEMMA ClaimFacts ==
  /\ Claims!Available \in Claims!Claim
  /\ Claims!NoClaim \notin Claims!Claim
BY DEF Claims!Available, Claims!Claim, Claims!NoClaim, Claims!Owned

LEMMA InitIInv == ASSUME Init PROVE IInv
<1>1. \A p \in Proc : at[p] = Idle /\ pc(p) = "idle"
  BY IdleType DEF Init, pc
<1>2. TypeOK
  BY <1>1, IdleType DEF Init, TypeOK
<1> QED
  BY <1>1, <1>2 DEF Init, IInv, OneCreator, LockExclusion, ClaimedIsComplete, Creating

\* A return and a step keep the types of the processes.
LocalType ==
  /\ at \in [Proc -> Local]
  /\ \A p \in Proc : pc(p) \in Held => at[p].worker \in Worker

LEMMA ReturnType ==
  ASSUME LocalType, NEW p \in Proc, NEW from, Return(p, from)
  PROVE  LocalType'
<1>1. at' \in [Proc -> Local] /\ at'[p].pc = "idle"
  BY IdleType DEF LocalType, Return
<1>2. ASSUME NEW q \in Proc, pc(q)' \in Held PROVE at'[q].worker \in Worker
  <2>1. q # p
    BY <1>1, <1>2 DEF pc, Held
  <2> QED
    BY <1>2, <2>1 DEF LocalType, Return, pc
<1> QED
  BY <1>1, <1>2 DEF LocalType

LEMMA GotoType ==
  ASSUME LocalType, NEW p \in Proc, NEW from, NEW to \in PCs, Goto(p, from, to),
         to \in Held => from \in Held
  PROVE  LocalType'
<1>1. at' = [at EXCEPT ![p] = [at[p] EXCEPT !.pc = to]] /\ at[p] \in Local /\ pc(p) = from
  BY DEF LocalType, Goto
<1>2. [at[p] EXCEPT !.pc = to] \in Local
  BY <1>1 DEF Local, PCs
<1>3. at' \in [Proc -> Local]
  BY <1>1, <1>2 DEF LocalType
<1>4. at'[p].pc = to /\ at'[p].worker = at[p].worker
  BY <1>1 DEF LocalType, Local
<1>5. ASSUME NEW q \in Proc, pc(q)' \in Held PROVE at'[q].worker \in Worker
  <2>1. CASE q = p
    BY <1>1, <1>4, <1>5, <2>1 DEF LocalType, pc
  <2>2. CASE q # p
    BY <1>1, <1>5, <2>2 DEF LocalType, pc
  <2> QED
    BY <2>1, <2>2
<1> QED
  BY <1>3, <1>5 DEF LocalType

\* The types of everything but the processes.
DataType ==
  /\ tree \in {"none", "clean", "dirty"} /\ branch \in BOOLEAN
  /\ directory \in {"none", "empty", "described"}
  /\ claim \in Claims!Claim \cup {Claims!NoClaim} /\ lock \in BOOLEAN

\* Every step keeps the types of the data.
LEMMA DataStep ==
  ASSUME IInv, [Next]_vars
  PROVE  DataType'
<1> USE DEF IInv, TypeOK, DataType, data, pc, Goto, Return
<1>1. CASE UNCHANGED vars
  BY <1>1 DEF vars
<1>2. ASSUME NEW p \in Proc, Provision(p)
      PROVE  DataType'
  BY <1>2 DEF Provision
<1>3. ASSUME NEW p \in Proc, NEW status \in Statuses, NEW worker \in Worker,
         NEW session \in Session \cup {None}, ReadClaim(p, status, worker, session)
      PROVE  DataType'
  BY <1>3 DEF ReadClaim
<1>4. ASSUME NEW p \in Proc, StartIssue(p)
      PROVE  DataType'
  BY <1>4 DEF StartIssue
<1>5. ASSUME NEW p \in Proc, StartRefused(p)
      PROVE  DataType'
  BY <1>5 DEF StartRefused
<1>6. ASSUME NEW p \in Proc, StartFails(p)
      PROVE  DataType'
  BY <1>6 DEF StartFails
<1>7. ASSUME NEW p \in Proc, MakeDirectory(p)
      PROVE  DataType'
  BY <1>7 DEF MakeDirectory
<1>8. ASSUME NEW p \in Proc, DirectoryExists(p)
      PROVE  DataType'
  BY <1>8 DEF DirectoryExists
<1>9. ASSUME NEW p \in Proc, Describe(p)
      PROVE  DataType'
  BY <1>9 DEF Describe
<1>10. ASSUME NEW p \in Proc, OfferClaim(p)
      PROVE  DataType'
  BY <1>10, ClaimFacts DEF OfferClaim
<1>11. ASSUME NEW p \in Proc, CreateFails(p)
      PROVE  DataType'
  BY <1>11 DEF CreateFails
<1>12. ASSUME NEW p \in Proc, Withdraw(p)
      PROVE  DataType'
  BY <1>12 DEF Withdraw
<1>13. ASSUME NEW p \in Proc, Retire(p)
      PROVE  DataType'
  BY <1>13 DEF Retire
<1>14. ASSUME NEW p \in Proc, RetireRefused(p)
      PROVE  DataType'
  BY <1>14 DEF RetireRefused
<1>15. ASSUME NEW p \in Proc, DeleteBranch(p)
      PROVE  DataType'
  BY <1>15 DEF DeleteBranch
<1>16. ASSUME NEW p \in Proc, ReportCreated(p)
      PROVE  DataType'
  BY <1>16 DEF ReportCreated
<1>17. ASSUME NEW p \in Proc, AcquireLock(p)
      PROVE  DataType'
  BY <1>17 DEF AcquireLock
<1>18. ASSUME NEW p \in Proc, LockBusy(p)
      PROVE  DataType'
  BY <1>18 DEF LockBusy
<1>19. ASSUME NEW p \in Proc, Admit(p)
      PROVE  DataType'
  BY <1>19 DEF Admit
<1>20. ASSUME NEW p \in Proc, Refuse(p)
      PROVE  DataType'
  BY <1>20 DEF Refuse
<1>21. ASSUME NEW p \in Proc, WriteClaim(p)
      PROVE  DataType'
  <2>1. claim \in Claims!Claim /\ at[p].worker \in Worker
    BY <1>21 DEF WriteClaim, LockExclusion
  <2>2. at[p].status \in Statuses /\ at[p].session \in Session \cup {None}
    BY DEF Local
  <2> QED
    BY <1>21, <2>1, <2>2, UpdatedClaim DEF WriteClaim
<1>22. ASSUME NEW p \in Proc, WriteFails(p)
      PROVE  DataType'
  BY <1>22 DEF WriteFails
<1>23. ASSUME NEW p \in Proc, ReleaseLock(p)
      PROVE  DataType'
  BY <1>23 DEF ReleaseLock
<1>24. ASSUME NEW p \in Proc, Crash(p)
      PROVE  DataType'
  BY <1>24 DEF Crash
<1>25. ASSUME CleanUp
      PROVE  DataType'
  BY <1>25 DEF CleanUp
<1> QED
  BY <1>1, <1>2, <1>3, <1>4, <1>5, <1>6, <1>7, <1>8, <1>9, <1>10,
     <1>11, <1>12, <1>13, <1>14, <1>15, <1>16, <1>17, <1>18, <1>19, <1>20,
     <1>21, <1>22, <1>23, <1>24, <1>25
  DEF Next, Step

\* Every step keeps the types of the processes.
LEMMA LocalStep ==
  ASSUME IInv, [Next]_vars
  PROVE  LocalType'
<1> USE DEF PCs, Held
<1> LocalType
  BY DEF IInv, TypeOK, LocalType
<1>1. CASE UNCHANGED vars
  BY <1>1 DEF vars, LocalType, pc
<1>2. ASSUME NEW p \in Proc, Provision(p)
      PROVE  LocalType'
  BY <1>2, GotoType DEF Provision
<1>3. ASSUME NEW p \in Proc, NEW status \in Statuses, NEW worker \in Worker,
         NEW session \in Session \cup {None}, ReadClaim(p, status, worker, session)
      PROVE  LocalType'
  <2> DEFINE l == [pc |-> "lock", held |-> claim.revision, status |-> status,
                  worker |-> worker, session |-> session]
  <2>1. at' = [at EXCEPT ![p] = l]
    BY <1>3 DEF ReadClaim
  <2>2. claim.revision \in Nat \cup {-1}
    BY DEF IInv, TypeOK, Claims!Claim, Claims!NoClaim
  <2>3. l \in Local /\ l.worker \in Worker
    BY <2>2 DEF Local
  <2> HIDE DEF l
  <2> QED
    BY <2>1, <2>3 DEF LocalType, pc
<1>4. ASSUME NEW p \in Proc, StartIssue(p)
      PROVE  LocalType'
  BY <1>4, GotoType DEF StartIssue
<1>5. ASSUME NEW p \in Proc, StartRefused(p)
      PROVE  LocalType'
  BY <1>5, GotoType DEF StartRefused
<1>6. ASSUME NEW p \in Proc, StartFails(p)
      PROVE  LocalType'
  BY <1>6, GotoType DEF StartFails
<1>7. ASSUME NEW p \in Proc, MakeDirectory(p)
      PROVE  LocalType'
  BY <1>7, GotoType DEF MakeDirectory
<1>8. ASSUME NEW p \in Proc, DirectoryExists(p)
      PROVE  LocalType'
  BY <1>8, GotoType DEF DirectoryExists
<1>9. ASSUME NEW p \in Proc, Describe(p)
      PROVE  LocalType'
  BY <1>9, GotoType DEF Describe
<1>10. ASSUME NEW p \in Proc, OfferClaim(p)
      PROVE  LocalType'
  BY <1>10, GotoType DEF OfferClaim
<1>11. ASSUME NEW p \in Proc, CreateFails(p)
      PROVE  LocalType'
  BY <1>11, GotoType DEF CreateFails
<1>12. ASSUME NEW p \in Proc, Withdraw(p)
      PROVE  LocalType'
  BY <1>12, GotoType DEF Withdraw
<1>13. ASSUME NEW p \in Proc, Retire(p)
      PROVE  LocalType'
  BY <1>13, GotoType DEF Retire
<1>14. ASSUME NEW p \in Proc, RetireRefused(p)
      PROVE  LocalType'
  BY <1>14, ReturnType DEF RetireRefused
<1>15. ASSUME NEW p \in Proc, DeleteBranch(p)
      PROVE  LocalType'
  BY <1>15, ReturnType DEF DeleteBranch
<1>16. ASSUME NEW p \in Proc, ReportCreated(p)
      PROVE  LocalType'
  BY <1>16, ReturnType DEF ReportCreated
<1>17. ASSUME NEW p \in Proc, AcquireLock(p)
      PROVE  LocalType'
  BY <1>17, GotoType DEF AcquireLock
<1>18. ASSUME NEW p \in Proc, LockBusy(p)
      PROVE  LocalType'
  BY <1>18, ReturnType DEF LockBusy
<1>19. ASSUME NEW p \in Proc, Admit(p)
      PROVE  LocalType'
  BY <1>19, GotoType DEF Admit
<1>20. ASSUME NEW p \in Proc, Refuse(p)
      PROVE  LocalType'
  BY <1>20, GotoType DEF Refuse
<1>21. ASSUME NEW p \in Proc, WriteClaim(p)
      PROVE  LocalType'
  BY <1>21, GotoType DEF WriteClaim
<1>22. ASSUME NEW p \in Proc, WriteFails(p)
      PROVE  LocalType'
  BY <1>22, GotoType DEF WriteFails
<1>23. ASSUME NEW p \in Proc, ReleaseLock(p)
      PROVE  LocalType'
  BY <1>23, ReturnType DEF ReleaseLock
<1>24. ASSUME NEW p \in Proc, Crash(p)
      PROVE  LocalType'
  BY <1>24, ReturnType DEF Crash, Return
<1>25. ASSUME CleanUp
      PROVE  LocalType'
  BY <1>25 DEF CleanUp, LocalType, pc
<1> QED
  BY <1>1, <1>2, <1>3, <1>4, <1>5, <1>6, <1>7, <1>8, <1>9, <1>10,
     <1>11, <1>12, <1>13, <1>14, <1>15, <1>16, <1>17, <1>18, <1>19, <1>20,
     <1>21, <1>22, <1>23, <1>24, <1>25
  DEF Next, Step

\* Every step keeps the types.
LEMMA TypeStep == ASSUME IInv, [Next]_vars PROVE TypeOK'
BY DataStep, LocalStep DEF DataType, LocalType, Held, TypeOK

\* Every step leaves a claimed workspace complete.
LEMMA CompleteStep ==
  ASSUME IInv, [Next]_vars
  PROVE  ClaimedIsComplete'
<1> USE DEF IInv, TypeOK, OneCreator, LockExclusion, ClaimedIsComplete, Complete, Creating, data, pc, Goto, Return
<1>1. CASE UNCHANGED vars
  BY <1>1 DEF vars
<1>2. ASSUME NEW p \in Proc, Provision(p)
      PROVE  ClaimedIsComplete'
  BY <1>2 DEF Provision
<1>3. ASSUME NEW p \in Proc, NEW status \in Statuses, NEW worker \in Worker,
         NEW session \in Session \cup {None}, ReadClaim(p, status, worker, session)
      PROVE  ClaimedIsComplete'
  BY <1>3 DEF ReadClaim
<1>4. ASSUME NEW p \in Proc, StartIssue(p)
      PROVE  ClaimedIsComplete'
  BY <1>4 DEF StartIssue
<1>5. ASSUME NEW p \in Proc, StartRefused(p)
      PROVE  ClaimedIsComplete'
  BY <1>5 DEF StartRefused
<1>6. ASSUME NEW p \in Proc, StartFails(p)
      PROVE  ClaimedIsComplete'
  BY <1>6 DEF StartFails
<1>7. ASSUME NEW p \in Proc, MakeDirectory(p)
      PROVE  ClaimedIsComplete'
  BY <1>7 DEF MakeDirectory
<1>8. ASSUME NEW p \in Proc, DirectoryExists(p)
      PROVE  ClaimedIsComplete'
  BY <1>8 DEF DirectoryExists
<1>9. ASSUME NEW p \in Proc, Describe(p)
      PROVE  ClaimedIsComplete'
  BY <1>9 DEF Describe
<1>10. ASSUME NEW p \in Proc, OfferClaim(p)
      PROVE  ClaimedIsComplete'
  BY <1>10 DEF OfferClaim
<1>11. ASSUME NEW p \in Proc, CreateFails(p)
      PROVE  ClaimedIsComplete'
  BY <1>11 DEF CreateFails
<1>12. ASSUME NEW p \in Proc, Withdraw(p)
      PROVE  ClaimedIsComplete'
  BY <1>12 DEF Withdraw
<1>13. ASSUME NEW p \in Proc, Retire(p)
      PROVE  ClaimedIsComplete'
  BY <1>13 DEF Retire
<1>14. ASSUME NEW p \in Proc, RetireRefused(p)
      PROVE  ClaimedIsComplete'
  BY <1>14 DEF RetireRefused
<1>15. ASSUME NEW p \in Proc, DeleteBranch(p)
      PROVE  ClaimedIsComplete'
  BY <1>15 DEF DeleteBranch
<1>16. ASSUME NEW p \in Proc, ReportCreated(p)
      PROVE  ClaimedIsComplete'
  BY <1>16 DEF ReportCreated
<1>17. ASSUME NEW p \in Proc, AcquireLock(p)
      PROVE  ClaimedIsComplete'
  BY <1>17 DEF AcquireLock
<1>18. ASSUME NEW p \in Proc, LockBusy(p)
      PROVE  ClaimedIsComplete'
  BY <1>18 DEF LockBusy
<1>19. ASSUME NEW p \in Proc, Admit(p)
      PROVE  ClaimedIsComplete'
  BY <1>19 DEF Admit
<1>20. ASSUME NEW p \in Proc, Refuse(p)
      PROVE  ClaimedIsComplete'
  BY <1>20 DEF Refuse
<1>21. ASSUME NEW p \in Proc, WriteClaim(p)
      PROVE  ClaimedIsComplete'
  BY <1>21 DEF WriteClaim
<1>22. ASSUME NEW p \in Proc, WriteFails(p)
      PROVE  ClaimedIsComplete'
  BY <1>22 DEF WriteFails
<1>23. ASSUME NEW p \in Proc, ReleaseLock(p)
      PROVE  ClaimedIsComplete'
  BY <1>23 DEF ReleaseLock
<1>24. ASSUME NEW p \in Proc, Crash(p)
      PROVE  ClaimedIsComplete'
  BY <1>24 DEF Crash
<1>25. ASSUME CleanUp
      PROVE  ClaimedIsComplete'
  BY <1>25 DEF CleanUp
<1> QED
  BY <1>1, <1>2, <1>3, <1>4, <1>5, <1>6, <1>7, <1>8, <1>9, <1>10,
     <1>11, <1>12, <1>13, <1>14, <1>15, <1>16, <1>17, <1>18, <1>19, <1>20,
     <1>21, <1>22, <1>23, <1>24, <1>25
  DEF Next, Step

\* Every step leaves one creator, who has what it has provisioned.
LEMMA CreatorStep ==
  ASSUME IInv, [Next]_vars
  PROVE  OneCreator'
<1> USE DEF IInv, TypeOK, OneCreator, ClaimedIsComplete, Complete, Creating, Idle, data, pc, Goto, Return
<1>1. CASE UNCHANGED vars
  BY <1>1 DEF vars
<1>2. ASSUME NEW p \in Proc, Provision(p)
      PROVE  OneCreator'
  BY <1>2 DEF Provision
<1>3. ASSUME NEW p \in Proc, NEW status \in Statuses, NEW worker \in Worker,
         NEW session \in Session \cup {None}, ReadClaim(p, status, worker, session)
      PROVE  OneCreator'
  BY <1>3 DEF ReadClaim
<1>4. ASSUME NEW p \in Proc, StartIssue(p)
      PROVE  OneCreator'
  BY <1>4 DEF StartIssue
<1>5. ASSUME NEW p \in Proc, StartRefused(p)
      PROVE  OneCreator'
  BY <1>5 DEF StartRefused
<1>6. ASSUME NEW p \in Proc, StartFails(p)
      PROVE  OneCreator'
  BY <1>6 DEF StartFails
<1>7. ASSUME NEW p \in Proc, MakeDirectory(p)
      PROVE  OneCreator'
  BY <1>7 DEF MakeDirectory
<1>8. ASSUME NEW p \in Proc, DirectoryExists(p)
      PROVE  OneCreator'
  BY <1>8 DEF DirectoryExists
<1>9. ASSUME NEW p \in Proc, Describe(p)
      PROVE  OneCreator'
  BY <1>9 DEF Describe
<1>10. ASSUME NEW p \in Proc, OfferClaim(p)
      PROVE  OneCreator'
  BY <1>10 DEF OfferClaim
<1>11. ASSUME NEW p \in Proc, CreateFails(p)
      PROVE  OneCreator'
  BY <1>11 DEF CreateFails
<1>12. ASSUME NEW p \in Proc, Withdraw(p)
      PROVE  OneCreator'
  BY <1>12 DEF Withdraw
<1>13. ASSUME NEW p \in Proc, Retire(p)
      PROVE  OneCreator'
  BY <1>13 DEF Retire
<1>14. ASSUME NEW p \in Proc, RetireRefused(p)
      PROVE  OneCreator'
  BY <1>14 DEF RetireRefused
<1>15. ASSUME NEW p \in Proc, DeleteBranch(p)
      PROVE  OneCreator'
  BY <1>15 DEF DeleteBranch
<1>16. ASSUME NEW p \in Proc, ReportCreated(p)
      PROVE  OneCreator'
  BY <1>16 DEF ReportCreated
<1>17. ASSUME NEW p \in Proc, AcquireLock(p)
      PROVE  OneCreator'
  BY <1>17 DEF AcquireLock
<1>18. ASSUME NEW p \in Proc, LockBusy(p)
      PROVE  OneCreator'
  BY <1>18 DEF LockBusy
<1>19. ASSUME NEW p \in Proc, Admit(p)
      PROVE  OneCreator'
  BY <1>19 DEF Admit
<1>20. ASSUME NEW p \in Proc, Refuse(p)
      PROVE  OneCreator'
  BY <1>20 DEF Refuse
<1>21. ASSUME NEW p \in Proc, WriteClaim(p)
      PROVE  OneCreator'
  BY <1>21 DEF WriteClaim, LockExclusion
<1>22. ASSUME NEW p \in Proc, WriteFails(p)
      PROVE  OneCreator'
  BY <1>22 DEF WriteFails
<1>23. ASSUME NEW p \in Proc, ReleaseLock(p)
      PROVE  OneCreator'
  BY <1>23 DEF ReleaseLock
<1>24. ASSUME NEW p \in Proc, Crash(p)
      PROVE  OneCreator'
  BY <1>24 DEF Crash
<1>25. ASSUME CleanUp
      PROVE  OneCreator'
  BY <1>25 DEF CleanUp
<1> QED
  BY <1>1, <1>2, <1>3, <1>4, <1>5, <1>6, <1>7, <1>8, <1>9, <1>10,
     <1>11, <1>12, <1>13, <1>14, <1>15, <1>16, <1>17, <1>18, <1>19, <1>20,
     <1>21, <1>22, <1>23, <1>24, <1>25
  DEF Next, Step

\* Every step leaves one holder of the lock, and its decision valid.
LEMMA LockStep ==
  ASSUME IInv, [Next]_vars
  PROVE  LockExclusion'
<1> USE DEF IInv, TypeOK, OneCreator, LockExclusion, Creating, Admitted, Idle, data, pc, Goto, Return
<1>1. CASE UNCHANGED vars
  BY <1>1 DEF vars
<1>2. ASSUME NEW p \in Proc, Provision(p)
      PROVE  LockExclusion'
  BY <1>2 DEF Provision
<1>3. ASSUME NEW p \in Proc, NEW status \in Statuses, NEW worker \in Worker,
         NEW session \in Session \cup {None}, ReadClaim(p, status, worker, session)
      PROVE  LockExclusion'
  <2>1. claim # Claims!NoClaim
    BY <1>3 DEF ReadClaim
  <2> DEFINE l == [pc |-> "lock", held |-> claim.revision, status |-> status,
                  worker |-> worker, session |-> session]
  <2>2. at' = [at EXCEPT ![p] = l] /\ l.pc = "lock" /\ UNCHANGED <<claim, lock>>
    BY <1>3 DEF ReadClaim
  <2> HIDE DEF l
  <2> QED
    BY <2>1, <2>2
<1>4. ASSUME NEW p \in Proc, StartIssue(p)
      PROVE  LockExclusion'
  BY <1>4 DEF StartIssue
<1>5. ASSUME NEW p \in Proc, StartRefused(p)
      PROVE  LockExclusion'
  BY <1>5 DEF StartRefused
<1>6. ASSUME NEW p \in Proc, StartFails(p)
      PROVE  LockExclusion'
  BY <1>6 DEF StartFails
<1>7. ASSUME NEW p \in Proc, MakeDirectory(p)
      PROVE  LockExclusion'
  BY <1>7 DEF MakeDirectory
<1>8. ASSUME NEW p \in Proc, DirectoryExists(p)
      PROVE  LockExclusion'
  BY <1>8 DEF DirectoryExists
<1>9. ASSUME NEW p \in Proc, Describe(p)
      PROVE  LockExclusion'
  BY <1>9 DEF Describe
<1>10. ASSUME NEW p \in Proc, OfferClaim(p)
      PROVE  LockExclusion'
  BY <1>10 DEF OfferClaim
<1>11. ASSUME NEW p \in Proc, CreateFails(p)
      PROVE  LockExclusion'
  BY <1>11 DEF CreateFails
<1>12. ASSUME NEW p \in Proc, Withdraw(p)
      PROVE  LockExclusion'
  BY <1>12 DEF Withdraw
<1>13. ASSUME NEW p \in Proc, Retire(p)
      PROVE  LockExclusion'
  BY <1>13 DEF Retire
<1>14. ASSUME NEW p \in Proc, RetireRefused(p)
      PROVE  LockExclusion'
  BY <1>14 DEF RetireRefused
<1>15. ASSUME NEW p \in Proc, DeleteBranch(p)
      PROVE  LockExclusion'
  BY <1>15 DEF DeleteBranch
<1>16. ASSUME NEW p \in Proc, ReportCreated(p)
      PROVE  LockExclusion'
  BY <1>16 DEF ReportCreated
<1>17. ASSUME NEW p \in Proc, AcquireLock(p)
      PROVE  LockExclusion'
  BY <1>17 DEF AcquireLock
<1>18. ASSUME NEW p \in Proc, LockBusy(p)
      PROVE  LockExclusion'
  BY <1>18 DEF LockBusy
<1>19. ASSUME NEW p \in Proc, Admit(p)
      PROVE  LockExclusion'
  BY <1>19 DEF Admit
<1>20. ASSUME NEW p \in Proc, Refuse(p)
      PROVE  LockExclusion'
  BY <1>20 DEF Refuse
<1>21. ASSUME NEW p \in Proc, WriteClaim(p)
      PROVE  LockExclusion'
  <2>1. claim \in Claims!Claim /\ at[p].worker \in Worker
    BY <1>21 DEF WriteClaim
  <2>2. at[p].status \in Statuses /\ at[p].session \in Session \cup {None}
    BY DEF Local
  <2>3. claim' # Claims!NoClaim
    BY <1>21, <2>1, <2>2, UpdatedClaim, ClaimFacts DEF WriteClaim
  <2>4. \A q \in Proc : pc(q)' # "write"
    BY <1>21 DEF WriteClaim
  <2> QED
    BY <1>21, <2>3, <2>4 DEF WriteClaim
<1>22. ASSUME NEW p \in Proc, WriteFails(p)
      PROVE  LockExclusion'
  BY <1>22 DEF WriteFails
<1>23. ASSUME NEW p \in Proc, ReleaseLock(p)
      PROVE  LockExclusion'
  BY <1>23 DEF ReleaseLock
<1>24. ASSUME NEW p \in Proc, Crash(p)
      PROVE  LockExclusion'
  BY <1>24 DEF Crash
<1>25. ASSUME CleanUp
      PROVE  LockExclusion'
  BY <1>25 DEF CleanUp
<1> QED
  BY <1>1, <1>2, <1>3, <1>4, <1>5, <1>6, <1>7, <1>8, <1>9, <1>10,
     <1>11, <1>12, <1>13, <1>14, <1>15, <1>16, <1>17, <1>18, <1>19, <1>20,
     <1>21, <1>22, <1>23, <1>24, <1>25
  DEF Next, Step

\* Types, one creator at a time, one holder of the claim lock and claims on
\* complete workspaces only, throughout.
THEOREM Invariance == Spec => []IInv
<1>1. Init => IInv
  BY InitIInv
<1>2. IInv /\ [Next]_vars => IInv'
  BY TypeStep, CompleteStep, CreatorStep, LockStep DEF IInv
<1> QED
  BY <1>1, <1>2, PTL DEF Spec

\* Nobody can claim a workspace without its branch, worktree or description,
\* whichever creators are killed.
THEOREM Claimable == Spec => []ClaimedIsComplete
<1>1. IInv => ClaimedIsComplete
  BY DEF IInv
<1> QED
  BY <1>1, Invariance, PTL

\* Every step creates the claim, updates it as the contract says, or leaves it.
LEMMA ClaimStep ==
  ASSUME IInv, [Next]_vars
  PROVE  [Claims!Next]_claim
<1> USE DEF data
<1>1. CASE UNCHANGED vars
  BY <1>1 DEF vars
<1>2. ASSUME NEW p \in Proc, Provision(p)
      PROVE  [Claims!Next]_claim
  BY <1>2 DEF Provision
<1>3. ASSUME NEW p \in Proc, NEW status \in Statuses, NEW worker \in Worker,
         NEW session \in Session \cup {None}, ReadClaim(p, status, worker, session)
      PROVE  [Claims!Next]_claim
  BY <1>3 DEF ReadClaim
<1>4. ASSUME NEW p \in Proc, StartIssue(p)
      PROVE  [Claims!Next]_claim
  BY <1>4 DEF StartIssue
<1>5. ASSUME NEW p \in Proc, StartRefused(p)
      PROVE  [Claims!Next]_claim
  BY <1>5 DEF StartRefused
<1>6. ASSUME NEW p \in Proc, StartFails(p)
      PROVE  [Claims!Next]_claim
  BY <1>6 DEF StartFails
<1>7. ASSUME NEW p \in Proc, MakeDirectory(p)
      PROVE  [Claims!Next]_claim
  BY <1>7 DEF MakeDirectory
<1>8. ASSUME NEW p \in Proc, DirectoryExists(p)
      PROVE  [Claims!Next]_claim
  BY <1>8 DEF DirectoryExists
<1>9. ASSUME NEW p \in Proc, Describe(p)
      PROVE  [Claims!Next]_claim
  BY <1>9 DEF Describe
<1>10. ASSUME NEW p \in Proc, OfferClaim(p)
      PROVE  [Claims!Next]_claim
  <2>1. claim = Claims!NoClaim
    BY <1>10 DEF IInv, OneCreator, Creating, OfferClaim, Goto
  <2>2. Claims!Create
    BY <1>10, <2>1 DEF OfferClaim, Claims!Create
  <2> QED
    BY <2>2 DEF Claims!Next
<1>11. ASSUME NEW p \in Proc, CreateFails(p)
      PROVE  [Claims!Next]_claim
  BY <1>11 DEF CreateFails
<1>12. ASSUME NEW p \in Proc, Withdraw(p)
      PROVE  [Claims!Next]_claim
  BY <1>12 DEF Withdraw
<1>13. ASSUME NEW p \in Proc, Retire(p)
      PROVE  [Claims!Next]_claim
  BY <1>13 DEF Retire
<1>14. ASSUME NEW p \in Proc, RetireRefused(p)
      PROVE  [Claims!Next]_claim
  BY <1>14 DEF RetireRefused
<1>15. ASSUME NEW p \in Proc, DeleteBranch(p)
      PROVE  [Claims!Next]_claim
  BY <1>15 DEF DeleteBranch
<1>16. ASSUME NEW p \in Proc, ReportCreated(p)
      PROVE  [Claims!Next]_claim
  BY <1>16 DEF ReportCreated
<1>17. ASSUME NEW p \in Proc, AcquireLock(p)
      PROVE  [Claims!Next]_claim
  BY <1>17 DEF AcquireLock
<1>18. ASSUME NEW p \in Proc, LockBusy(p)
      PROVE  [Claims!Next]_claim
  BY <1>18 DEF LockBusy
<1>19. ASSUME NEW p \in Proc, Admit(p)
      PROVE  [Claims!Next]_claim
  BY <1>19 DEF Admit
<1>20. ASSUME NEW p \in Proc, Refuse(p)
      PROVE  [Claims!Next]_claim
  BY <1>20 DEF Refuse
<1>21. ASSUME NEW p \in Proc, WriteClaim(p)
      PROVE  [Claims!Next]_claim
  <2>1. pc(p) = "write" /\ Admitted(p) /\ claim # Claims!NoClaim
    BY <1>21 DEF IInv, LockExclusion, WriteClaim, Goto
  <2>2. at[p].worker \in Worker /\ at[p].session \in Session \cup {None}
        /\ at[p].status \in Claims!Owned \cup {"available", "closed"}
    BY <2>1 DEF IInv, TypeOK, Local, Statuses, Claims!Owned
  <2>3. at[p].held = claim.revision
    BY <2>1 DEF Admitted, Claims!Admits
  <2>4. Claims!Update(at[p].status, at[p].worker, at[p].session)
    BY <1>21, <2>1, <2>3 DEF Admitted, WriteClaim, Claims!Update
  <2> QED
    BY <2>2, <2>4 DEF Claims!Next
<1>22. ASSUME NEW p \in Proc, WriteFails(p)
      PROVE  [Claims!Next]_claim
  BY <1>22 DEF WriteFails
<1>23. ASSUME NEW p \in Proc, ReleaseLock(p)
      PROVE  [Claims!Next]_claim
  BY <1>23 DEF ReleaseLock
<1>24. ASSUME NEW p \in Proc, Crash(p)
      PROVE  [Claims!Next]_claim
  BY <1>24 DEF Crash
<1>25. ASSUME CleanUp
      PROVE  [Claims!Next]_claim
  BY <1>25 DEF CleanUp
<1> QED
  BY <1>1, <1>2, <1>3, <1>4, <1>5, <1>6, <1>7, <1>8, <1>9, <1>10,
     <1>11, <1>12, <1>13, <1>14, <1>15, <1>16, <1>17, <1>18, <1>19, <1>20,
     <1>21, <1>22, <1>23, <1>24, <1>25
  DEF Next, Step

\* The claim changes one revision at a time, along legal transitions, and while
\* owned by its owner only, whatever workers do at the same time.
THEOREM Implements == Spec => ImplementsClaim
<1>1. Init => Claims!Init
  BY DEF Init, Claims!Init
<1>2. IInv /\ [Next]_vars => [Claims!Next]_claim
  BY ClaimStep
<1> QED
  BY <1>1, <1>2, Invariance, PTL DEF Spec, ImplementsClaim, Claims!Spec
=============================================================================

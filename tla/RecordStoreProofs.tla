------------------------- MODULE RecordStoreProofs -------------------------
(***************************************************************************)
(* Proofs about RecordStore for every set of processes, keys and values.    *)
(***************************************************************************)
EXTENDS RecordStore, TLAPS

\* No record is in place and none is being written when the store is empty.
LEMMA InitIInv == StoreInit => IInv
  BY NoneAssumption
  DEF StoreInit, IInv, TypeOK, LockExclusion, AdmittedIsCurrent, StagedIsSuccessor,
      UnansweredWhileBusy, WrittenNotNewer, Missing, Unanswered, NoRequest, Record,
      Request, Busy, Locked

\* "No record" has the shape of a record.
LEMMA MissingIsRecord == Missing \in Record
  BY DEF Missing, Record

\* What a request makes is a record.
LEMMA SuccessorIsRecord ==
  ASSUME NEW p \in Proc, NEW r \in Request
  PROVE  /\ Successor(p, r) \in Record
         /\ Successor(p, r).revision = r.expected + 1
         /\ Successor(p, r).previous = r.expected
  BY DEF Successor, Record, Request

\* Every step of the store keeps the types of its variables.
LEMMA TypeStep == ASSUME IInv, [StoreNext]_svars PROVE TypeOK'
<1> USE DEF IInv, TypeOK, Goto, Busy, Locked
<1>1. CASE UNCHANGED svars
  BY <1>1 DEF svars
<1>2. ASSUME NEW p \in Proc, NEW k \in Key, NEW v \in Value, Call(p, k, v)
      PROVE  TypeOK'
  BY <1>2 DEF Call, Request, Record, Unanswered, Missing
<1>3. ASSUME NEW p \in Proc, AcquireLock(p) PROVE TypeOK'
  BY <1>3 DEF AcquireLock
<1>4. ASSUME NEW p \in Proc, LockBusy(p) PROVE TypeOK'
  BY <1>4 DEF LockBusy
<1>5. ASSUME NEW p \in Proc, Admit(p) PROVE TypeOK'
  BY <1>5 DEF Admit
<1>6. ASSUME NEW p \in Proc, Refuse(p) PROVE TypeOK'
  BY <1>6 DEF Refuse
<1>7. ASSUME NEW p \in Proc, Stage(p) PROVE TypeOK'
  BY <1>7, SuccessorIsRecord DEF Stage
<1>8. ASSUME NEW p \in Proc, Publish(p) PROVE TypeOK'
  BY <1>8, MissingIsRecord DEF Publish
<1>9. ASSUME NEW p \in Proc, WriteFails(p) PROVE TypeOK'
  <2>1. pc' = [pc EXCEPT ![p] = "release"] /\ pc[p] \in Busy
    BY <1>9 DEF WriteFails
  <2>2. QED
    BY <1>9, <2>1, MissingIsRecord DEF WriteFails
<1>10. ASSUME NEW p \in Proc, ReleaseLock(p) PROVE TypeOK'
  BY <1>10 DEF ReleaseLock
<1>11. ASSUME NEW p \in Proc, Crash(p) PROVE TypeOK'
  BY <1>11 DEF Crash
<1>12. QED
  BY <1>1, <1>2, <1>3, <1>4, <1>5, <1>6, <1>7, <1>8, <1>9, <1>10, <1>11
  DEF StoreNext, Step

\* mkdir lets one live process in, and only the holder removes the directory.
LEMMA ExclusionStep == ASSUME IInv, [StoreNext]_svars PROVE LockExclusion'
<1> USE DEF IInv, TypeOK, LockExclusion, Goto, Busy, Locked
<1>1. CASE UNCHANGED svars
  BY <1>1 DEF svars
<1>2. ASSUME NEW p \in Proc, NEW k \in Key, NEW v \in Value, Call(p, k, v) PROVE LockExclusion'
  BY <1>2 DEF Call
<1>3. ASSUME NEW p \in Proc, AcquireLock(p) PROVE LockExclusion'
  BY <1>3 DEF AcquireLock
<1>4. ASSUME NEW p \in Proc, LockBusy(p) PROVE LockExclusion'
  BY <1>4 DEF LockBusy
<1>5. ASSUME NEW p \in Proc, Admit(p) PROVE LockExclusion'
  BY <1>5 DEF Admit
<1>6. ASSUME NEW p \in Proc, Refuse(p) PROVE LockExclusion'
  BY <1>6 DEF Refuse
<1>7. ASSUME NEW p \in Proc, Stage(p) PROVE LockExclusion'
  BY <1>7 DEF Stage
<1>8. ASSUME NEW p \in Proc, Publish(p) PROVE LockExclusion'
  BY <1>8 DEF Publish
<1>9. ASSUME NEW p \in Proc, WriteFails(p) PROVE LockExclusion'
  BY <1>9 DEF WriteFails
<1>10. ASSUME NEW p \in Proc, ReleaseLock(p) PROVE LockExclusion'
  BY <1>10 DEF ReleaseLock
<1>11. ASSUME NEW p \in Proc, Crash(p) PROVE LockExclusion'
  BY <1>11 DEF Crash
<1>12. QED
  BY <1>1, <1>2, <1>3, <1>4, <1>5, <1>6, <1>7, <1>8, <1>9, <1>10, <1>11
  DEF StoreNext, Step

\* Only the holder of a key's lock can change its record, so what it checked stays.
LEMMA AdmittedStep == ASSUME IInv, [StoreNext]_svars PROVE AdmittedIsCurrent'
<1> USE DEF IInv, TypeOK, LockExclusion, AdmittedIsCurrent, Expected, Goto, Busy, Locked
<1>1. CASE UNCHANGED svars
  BY <1>1 DEF svars
<1>2. ASSUME NEW p \in Proc, NEW k \in Key, NEW v \in Value, Call(p, k, v) PROVE AdmittedIsCurrent'
  BY <1>2 DEF Call
<1>3. ASSUME NEW p \in Proc, AcquireLock(p) PROVE AdmittedIsCurrent'
  BY <1>3 DEF AcquireLock
<1>4. ASSUME NEW p \in Proc, LockBusy(p) PROVE AdmittedIsCurrent'
  BY <1>4 DEF LockBusy
<1>5. ASSUME NEW p \in Proc, Admit(p) PROVE AdmittedIsCurrent'
  BY <1>5 DEF Admit
<1>6. ASSUME NEW p \in Proc, Refuse(p) PROVE AdmittedIsCurrent'
  BY <1>6 DEF Refuse
<1>7. ASSUME NEW p \in Proc, Stage(p) PROVE AdmittedIsCurrent'
  BY <1>7 DEF Stage
<1>8. ASSUME NEW p \in Proc, Publish(p) PROVE AdmittedIsCurrent'
  BY <1>8 DEF Publish
<1>9. ASSUME NEW p \in Proc, WriteFails(p) PROVE AdmittedIsCurrent'
  BY <1>9 DEF WriteFails
<1>10. ASSUME NEW p \in Proc, ReleaseLock(p) PROVE AdmittedIsCurrent'
  BY <1>10 DEF ReleaseLock
<1>11. ASSUME NEW p \in Proc, Crash(p) PROVE AdmittedIsCurrent'
  BY <1>11 DEF Crash
<1>12. QED
  BY <1>1, <1>2, <1>3, <1>4, <1>5, <1>6, <1>7, <1>8, <1>9, <1>10, <1>11
  DEF StoreNext, Step

\* A temporary file holds the successor until it is renamed or unlinked.
LEMMA StagedStep == ASSUME IInv, [StoreNext]_svars PROVE StagedIsSuccessor'
<1> USE DEF IInv, TypeOK, StagedIsSuccessor, Goto, Busy, Locked
<1>1. CASE UNCHANGED svars
  BY <1>1 DEF svars
<1>2. ASSUME NEW p \in Proc, NEW k \in Key, NEW v \in Value, Call(p, k, v) PROVE StagedIsSuccessor'
  BY <1>2 DEF Call
<1>3. ASSUME NEW p \in Proc, AcquireLock(p) PROVE StagedIsSuccessor'
  BY <1>3 DEF AcquireLock
<1>4. ASSUME NEW p \in Proc, LockBusy(p) PROVE StagedIsSuccessor'
  BY <1>4 DEF LockBusy
<1>5. ASSUME NEW p \in Proc, Admit(p) PROVE StagedIsSuccessor'
  BY <1>5 DEF Admit
<1>6. ASSUME NEW p \in Proc, Refuse(p) PROVE StagedIsSuccessor'
  BY <1>6 DEF Refuse
<1>7. ASSUME NEW p \in Proc, Stage(p) PROVE StagedIsSuccessor'
  BY <1>7 DEF Stage
<1>8. ASSUME NEW p \in Proc, Publish(p) PROVE StagedIsSuccessor'
  BY <1>8 DEF Publish
<1>9. ASSUME NEW p \in Proc, WriteFails(p) PROVE StagedIsSuccessor'
  BY <1>9 DEF WriteFails
<1>10. ASSUME NEW p \in Proc, ReleaseLock(p) PROVE StagedIsSuccessor'
  BY <1>10 DEF ReleaseLock
<1>11. ASSUME NEW p \in Proc, Crash(p) PROVE StagedIsSuccessor'
  BY <1>11 DEF Crash
<1>12. QED
  BY <1>1, <1>2, <1>3, <1>4, <1>5, <1>6, <1>7, <1>8, <1>9, <1>10, <1>11
  DEF StoreNext, Step

\* A call is answered once, when it leaves the store.
LEMMA UnansweredStep == ASSUME IInv, [StoreNext]_svars PROVE UnansweredWhileBusy'
<1> USE DEF IInv, TypeOK, UnansweredWhileBusy, Goto, Busy, Locked
<1>1. CASE UNCHANGED svars
  BY <1>1 DEF svars
<1>2. ASSUME NEW p \in Proc, NEW k \in Key, NEW v \in Value, Call(p, k, v) PROVE UnansweredWhileBusy'
  BY <1>2 DEF Call
<1>3. ASSUME NEW p \in Proc, AcquireLock(p) PROVE UnansweredWhileBusy'
  BY <1>3 DEF AcquireLock
<1>4. ASSUME NEW p \in Proc, LockBusy(p) PROVE UnansweredWhileBusy'
  BY <1>4 DEF LockBusy
<1>5. ASSUME NEW p \in Proc, Admit(p) PROVE UnansweredWhileBusy'
  BY <1>5 DEF Admit
<1>6. ASSUME NEW p \in Proc, Refuse(p) PROVE UnansweredWhileBusy'
  BY <1>6 DEF Refuse
<1>7. ASSUME NEW p \in Proc, Stage(p) PROVE UnansweredWhileBusy'
  BY <1>7 DEF Stage
<1>8. ASSUME NEW p \in Proc, Publish(p) PROVE UnansweredWhileBusy'
  BY <1>8 DEF Publish
<1>9. ASSUME NEW p \in Proc, WriteFails(p) PROVE UnansweredWhileBusy'
  BY <1>9 DEF WriteFails
<1>10. ASSUME NEW p \in Proc, ReleaseLock(p) PROVE UnansweredWhileBusy'
  BY <1>10 DEF ReleaseLock
<1>11. ASSUME NEW p \in Proc, Crash(p) PROVE UnansweredWhileBusy'
  BY <1>11 DEF Crash
<1>12. QED
  BY <1>1, <1>2, <1>3, <1>4, <1>5, <1>6, <1>7, <1>8, <1>9, <1>10, <1>11
  DEF StoreNext, Step

\* Revisions only grow, so no returned record is newer than the one in place.
LEMMA WrittenStep == ASSUME IInv, [StoreNext]_svars PROVE WrittenNotNewer'
<1> USE DEF IInv, TypeOK, WrittenNotNewer, AdmittedIsCurrent, StagedIsSuccessor, Expected, Goto, Busy, Locked
<1>1. CASE UNCHANGED svars
  BY <1>1 DEF svars
<1>2. ASSUME NEW p \in Proc, NEW k \in Key, NEW v \in Value, Call(p, k, v) PROVE WrittenNotNewer'
  BY <1>2 DEF Call, Unanswered
<1>3. ASSUME NEW p \in Proc, AcquireLock(p) PROVE WrittenNotNewer'
  BY <1>3 DEF AcquireLock
<1>4. ASSUME NEW p \in Proc, LockBusy(p) PROVE WrittenNotNewer'
  BY <1>4 DEF LockBusy
<1>5. ASSUME NEW p \in Proc, Admit(p) PROVE WrittenNotNewer'
  BY <1>5 DEF Admit
<1>6. ASSUME NEW p \in Proc, Refuse(p) PROVE WrittenNotNewer'
  BY <1>6 DEF Refuse
<1>7. ASSUME NEW p \in Proc, Stage(p) PROVE WrittenNotNewer'
  BY <1>7 DEF Stage
<1>8. ASSUME NEW p \in Proc, Publish(p) PROVE WrittenNotNewer'
  <2>1. temp[p].revision = disk[call[p].key].revision + 1
    BY <1>8, SuccessorIsRecord DEF Publish
  <2>2. /\ call[p].key \in Key /\ call' = call
        /\ disk' = [disk EXCEPT ![call[p].key] = temp[p]]
        /\ result' = [result EXCEPT ![p] = [outcome |-> "written", record |-> temp[p]]]
    BY <1>8 DEF Publish
  <2>3. \A k \in Key : disk[k].revision \in Int /\ disk[k].revision <= disk'[k].revision
    BY <2>1, <2>2 DEF Record
  <2>4. \A q \in Proc : result[q].record.revision \in Int
    BY DEF Record
  <2>5. QED
    BY <2>1, <2>2, <2>3, <2>4
<1>9. ASSUME NEW p \in Proc, WriteFails(p) PROVE WrittenNotNewer'
  BY <1>9 DEF WriteFails
<1>10. ASSUME NEW p \in Proc, ReleaseLock(p) PROVE WrittenNotNewer'
  BY <1>10 DEF ReleaseLock
<1>11. ASSUME NEW p \in Proc, Crash(p) PROVE WrittenNotNewer'
  BY <1>11 DEF Crash
<1>12. QED
  BY <1>1, <1>2, <1>3, <1>4, <1>5, <1>6, <1>7, <1>8, <1>9, <1>10, <1>11
  DEF StoreNext, Step

\* The winner of a revision is unique: its record is newer than every
\* record returned before.
LEMMA WinnerStep ==
  ASSUME IInv, OneWinnerPerRevision, [StoreNext]_svars
  PROVE  OneWinnerPerRevision'
<1> USE DEF IInv, TypeOK, OneWinnerPerRevision
<1>1. CASE UNCHANGED <<call, result>>
  BY <1>1
<1>2. ASSUME NEW p \in Proc, Publish(p) PROVE OneWinnerPerRevision'
  <2>1. temp[p].revision = disk[call[p].key].revision + 1 /\ call[p].key \in Key
    BY <1>2, SuccessorIsRecord
    DEF Publish, Goto, Busy, Locked, AdmittedIsCurrent, StagedIsSuccessor, Expected
  <2>2. /\ call' = call
        /\ result' = [result EXCEPT ![p] = [outcome |-> "written", record |-> temp[p]]]
    BY <1>2 DEF Publish
  <2>3. \A q \in Proc : result[q].record.revision \in Int
    BY DEF Record
  <2>4. \A k \in Key : disk[k].revision \in Int
    BY DEF Record
  <2>5. \A q \in Proc : q # p /\ result[q].outcome = "written" /\ call[q].key = call[p].key
          => result[q].record.revision < temp[p].revision
    BY <2>1, <2>3, <2>4 DEF WrittenNotNewer
  <2>6. QED
    BY <2>1, <2>2, <2>3, <2>4, <2>5
<1>3. ASSUME NEW p \in Proc,
             \/ \E k \in Key, v \in Value : Call(p, k, v)
             \/ LockBusy(p) \/ Refuse(p) \/ WriteFails(p)
      PROVE  OneWinnerPerRevision'
  <2>1. /\ \A q \in Proc \ {p} : result'[q] = result[q] /\ call'[q] = call[q]
        /\ result'[p].outcome # "written"
    BY <1>3 DEF Call, LockBusy, Refuse, WriteFails, Unanswered
  <2>2. QED
    BY <2>1
<1>4. QED
  BY <1>1, <1>2, <1>3
  DEF StoreNext, Step, svars, AcquireLock, Admit, Stage, ReleaseLock, Crash

\* The inductive invariant holds in every reachable state of the store.
THEOREM Invariance == Spec => []IInv
<1>1. IInv /\ [StoreNext]_svars => IInv'
  BY TypeStep, ExclusionStep, AdmittedStep, StagedStep, UnansweredStep, WrittenStep
  DEF IInv
<1>2. QED
  BY <1>1, InitIInv, PTL DEF Spec

\* No two calls are told that they made the same revision of a record.
THEOREM OneWinner == Spec => []OneWinnerPerRevision
<1>1. StoreInit => OneWinnerPerRevision
  BY DEF StoreInit, OneWinnerPerRevision, Unanswered
<1>2. IInv /\ OneWinnerPerRevision /\ [StoreNext]_svars => OneWinnerPerRevision'
  BY WinnerStep
<1>3. QED
  BY <1>1, <1>2, Invariance, PTL DEF Spec

\* Only a rename changes a record, and it advances it by one revision.
THEOREM Chain == Spec => RevisionChain
<1> DEFINE Advances ==
      \A k \in Key :
        disk'[k] # disk[k] =>
          /\ disk'[k].revision = disk[k].revision + 1
          /\ disk'[k].previous = disk[k].revision
<1>1. ASSUME IInv, [StoreNext]_svars PROVE [Advances]_svars
  <2>1. CASE UNCHANGED disk
    BY <2>1
  <2>2. ASSUME NEW p \in Proc, Publish(p) PROVE Advances
    <3>1. disk' = [disk EXCEPT ![call[p].key] = Successor(p, call[p])]
      BY <1>1, <2>2 DEF IInv, StagedIsSuccessor, Publish, Goto
    <3>2. disk[call[p].key].revision = call[p].expected /\ call[p] \in Request
      BY <1>1, <2>2 DEF IInv, TypeOK, AdmittedIsCurrent, Expected, Publish, Goto
    <3>3. QED
      BY <1>1, <3>1, <3>2, SuccessorIsRecord DEF IInv, TypeOK
  <2>3. QED
    BY <1>1, <2>1, <2>2
    DEF StoreNext, Step, svars, Call, AcquireLock, LockBusy, Admit, Refuse, Stage,
        WriteFails, ReleaseLock, Crash
<1>2. Spec => [][Advances]_svars
  BY <1>1, Invariance, PTL DEF Spec
<1>3. QED
  BY <1>2 DEF RevisionChain

\* The register speaks of the same records as the store.
LEMMA SameRecords ==
  /\ Cas!Missing = Missing /\ Cas!NoRequest = NoRequest /\ Cas!Unanswered = Unanswered
  /\ \A p \in Proc, r \in Request : Cas!Successor(p, r) = Successor(p, r)
  BY DEF Missing, NoRequest, Unanswered, Successor,
         Cas!Missing, Cas!NoRequest, Cas!Unanswered, Cas!Successor

\* A step of the store is a step of the compare-and-swap register or leaves
\* what a client of the register sees as it is.
LEMMA RefinementStep ==
  ASSUME IInv, [StoreNext]_svars
  PROVE  [Cas!CasNext]_Cas!cvars
<1> DEFINE phases == [p \in Proc |-> Phase(p)]
<1> USE DEF IInv, TypeOK, Goto, Cas!cvars
<1>1. CASE UNCHANGED svars
  BY <1>1 DEF svars, Phase
<1>2. ASSUME NEW p \in Proc, NEW k \in Key, NEW v \in Value, Call(p, k, v)
      PROVE  Cas!Invoke(p, k, v)
  <2>1. phases[p] = "idle" /\ phases' = [phases EXCEPT ![p] = "called"]
    BY <1>2 DEF Call, Phase
  <2>2. QED
    BY <1>2, <2>1, SameRecords DEF Call, Cas!Invoke
<1>3. ASSUME NEW p \in Proc,
             AcquireLock(p) \/ Admit(p) \/ Stage(p) \/ ReleaseLock(p)
      PROVE  UNCHANGED Cas!cvars
  <2>1. phases' = phases
    BY <1>3 DEF AcquireLock, Admit, Stage, ReleaseLock, Phase
  <2>2. QED
    BY <1>3, <2>1 DEF AcquireLock, Admit, Stage, ReleaseLock
<1>4. ASSUME NEW p \in Proc, LockBusy(p) \/ WriteFails(p) PROVE Cas!GiveUp(p)
  <2>1. /\ phases[p] = "called" /\ phases' = [phases EXCEPT ![p] = "idle"]
        /\ result[p] = Unanswered
    BY <1>4 DEF LockBusy, WriteFails, Phase, UnansweredWhileBusy
  <2>2. result' = [result EXCEPT ![p] = [outcome |-> "failed", record |-> Missing]]
    BY <1>4, <2>1 DEF LockBusy, WriteFails, Unanswered
  <2>3. QED
    BY <1>4, <2>1, <2>2, SameRecords DEF LockBusy, WriteFails, Cas!GiveUp, Cas!Answer
<1>5. ASSUME NEW p \in Proc, Refuse(p) PROVE Cas!Conflict(p)
  <2>1. /\ phases[p] = "called" /\ phases' = [phases EXCEPT ![p] = "idle"]
        /\ result[p] = Unanswered
    BY <1>5 DEF Refuse, Phase, UnansweredWhileBusy
  <2>2. result' = [result EXCEPT ![p] = [outcome |-> "conflict", record |-> Missing]]
    <3>1. result' = [result EXCEPT ![p] = [result[p] EXCEPT !.outcome = "conflict"]]
      BY <1>5 DEF Refuse
    <3>2. [result[p] EXCEPT !.outcome = "conflict"] = [outcome |-> "conflict", record |-> Missing]
      BY <2>1 DEF Unanswered
    <3>3. QED
      BY <3>1, <3>2
  <2>3. QED
    BY <1>5, <2>1, <2>2, SameRecords DEF Refuse, Expected, Cas!Conflict, Cas!Answer
<1>6. ASSUME NEW p \in Proc, Publish(p) PROVE Cas!Swap(p)
  <2>1. phases[p] = "called" /\ phases' = [phases EXCEPT ![p] = "idle"]
    BY <1>6 DEF Publish, Phase
  <2>2. temp[p] = Successor(p, call[p]) /\ Expected(p)
    BY <1>6 DEF Publish, StagedIsSuccessor, AdmittedIsCurrent
  <2>3. QED
    BY <1>6, <2>1, <2>2, SameRecords DEF Publish, Expected, Cas!Swap, Cas!Answer
<1>7. ASSUME NEW p \in Proc, Crash(p) PROVE Cas!Die(p)
  <2>1. phases' = [phases EXCEPT ![p] = "dead"]
    BY <1>7 DEF Crash, Phase
  <2>2. QED
    BY <1>7, <2>1 DEF Crash, Cas!Die
<1>8. QED
  BY <1>1, <1>2, <1>3, <1>4, <1>5, <1>6, <1>7 DEF StoreNext, Step, Cas!CasNext

\* The store implements the atomic compare-and-swap register.
THEOREM Refinement == Spec => ImplementsCasRegister
<1>1. StoreInit => Cas!CasInit
  BY SameRecords DEF StoreInit, Cas!CasInit, Phase
<1>2. QED
  BY <1>1, Invariance, RefinementStep, PTL DEF Spec, ImplementsCasRegister, Cas!CasSpec
=============================================================================

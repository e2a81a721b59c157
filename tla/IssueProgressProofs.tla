------------------------ MODULE IssueProgressProofs ------------------------
(***************************************************************************)
(* Proofs about Lifecycle, Planner (P) and DonePlan (D) for every set of    *)
(* processes, candidates, test sections, gates and releases, every          *)
(* inherited record and every number of changes.                            *)
(***************************************************************************)
EXTENDS IssueProgress, TLAPS

----------------------------------------------------------------------------
(***************************************************************************)
(* Lifecycle                                                                *)
(***************************************************************************)

\* A legal transition has a next state.
LEMMA NextStateExists ==
  ASSUME NEW v, NEW name, \E to \in States : <<v.state, name, to>> \in Transitions
  PROVE  /\ NextState(v, name) \in States
         /\ <<v.state, name, NextState(v, name)>> \in Transitions
BY DEF NextState

\* What _event and _validate_history say of an event does not depend on
\* the events after it.
LEMMA EventFitsAppend ==
  ASSUME NEW h \in Seq(Event), NEW e \in Event, NEW legacy \in Nat,
         NEW i \in 1..Len(h), EventFits(h, legacy, i)
  PROVE  EventFits(Append(h, e), legacy, i)
<1>1. \A j \in 1..Len(h) : Append(h, e)[j] = h[j]
  OBVIOUS
<1>2. i > 1 => Append(h, e)[i - 1] = h[i - 1]
  BY <1>1
<1>3. Append(h, e)[i] = h[i]
  BY <1>1
<1> QED
  BY <1>2, <1>3 DEF EventFits, CandidateFits

\* An event fits behind the others when it follows a transition, starts where
\* the last one ended and names a fitting candidate.
LEMMA AppendedEventFits ==
  ASSUME NEW h \in Seq(Event), NEW e \in Event, NEW legacy \in Nat, legacy <= Len(h),
         e.from = IF h = <<>> THEN "not_started" ELSE h[Len(h)].to,
         <<e.from, e.transition, e.to>> \in Transitions,
         CandidateFits(e.transition, e.candidate, h, Len(h))
  PROVE  EventFits(Append(h, e), legacy, Len(h) + 1)
<1>1. PICK s : s = Append(h, e)
  OBVIOUS
<1>2. PICK n \in Nat : n = Len(h)
  OBVIOUS
<1>3. PICK i \in Nat : i = n + 1
  OBVIOUS
<1>4. s[i] = e /\ (n > 0 => s[n] = h[n])
  BY <1>1, <1>2, <1>3
<1>5. i > legacy /\ ~(i <= legacy) /\ i - 1 = n /\ (i > 1 <=> n > 0)
  BY <1>2, <1>3
<1>6. h = <<>> <=> n = 0
  BY <1>2
<1>7. n = 0 => legacy = 0
  BY <1>2
<1>8. s[i].from = (IF i > 1 THEN s[i - 1].to
                  ELSE IF legacy > 0 THEN "unstarted" ELSE "not_started")
  <2>1. CASE n > 0
    BY <2>1, <1>2, <1>4, <1>5, <1>6
  <2>2. CASE n = 0
    BY <2>2, <1>4, <1>5, <1>6, <1>7
  <2> QED
    BY <2>1, <2>2
<1>9. CandidateFits(s[i].transition, s[i].candidate, s, i - 1)
  BY <1>2, <1>4, <1>5 DEF CandidateFits
<1>10. <<s[i].from, s[i].transition, s[i].to>>
         \in (IF i <= legacy THEN LegacyTransitions ELSE Transitions)
  BY <1>4, <1>5
<1>11. EventFits(s, legacy, i)
  BY <1>8, <1>9, <1>10, Zenon DEF EventFits
<1> QED
  BY <1>1, <1>2, <1>3, <1>11

\* transition() appends an event that the reader accepts.
LEMMA AdvancedReadable ==
  ASSUME NEW v \in Lifecycle, Readable(v),
         NEW name \in Names, NEW c \in Candidate \cup {None},
         \E to \in States : <<v.state, name, to>> \in Transitions,
         CandidateFits(name, c, v.history, Len(v.history))
  PROVE  /\ Advanced(v, name, c) \in Lifecycle
         /\ Readable(Advanced(v, name, c))
<1> DEFINE to == NextState(v, name)
           e == [transition |-> name, from |-> v.state, to |-> to, candidate |-> c]
           h == v.history
           new == Append(h, e)
<1>1. to \in States /\ <<v.state, name, to>> \in Transitions
  BY NextStateExists
<1>2. v.state \in States /\ h \in Seq(Event) /\ v.legacy \in Nat /\ v.aliases \in SUBSET Alias
  BY DEF Lifecycle
<1>3. e \in Event
  BY <1>1, <1>2 DEF Event
<1>4. Advanced(v, name, c) = [state |-> to, history |-> new, legacy |-> v.legacy,
                              aliases |-> v.aliases]
  BY DEF Advanced
<1> HIDE DEF to, e
<1>5. new \in Seq(Event) /\ Len(new) = Len(h) + 1 /\ new[Len(h) + 1] = e
      /\ \A j \in 1..Len(h) : new[j] = h[j]
  BY <1>2, <1>3
<1>6. v.legacy <= Len(h)
  BY DEF Readable
<1>7. ASSUME NEW i \in 1..Len(h) PROVE EventFits(new, v.legacy, i)
  <2>1. EventFits(h, v.legacy, i)
    BY DEF Readable
  <2> QED
    BY <2>1, <1>2, <1>3, EventFitsAppend
<1>8. EventFits(new, v.legacy, Len(h) + 1)
  <2>1. v.state = IF h = <<>> THEN "not_started" ELSE h[Len(h)].to
    BY DEF Readable
  <2>2. e.from = v.state /\ e.transition = name /\ e.to = to /\ e.candidate = c
    BY DEF e
  <2>3. <<e.from, e.transition, e.to>> \in Transitions
    BY <2>2, <1>1
  <2>4. CandidateFits(e.transition, e.candidate, h, Len(h))
    BY <2>2
  <2> QED
    BY <1>2, <1>3, <1>6, <2>1, <2>2, <2>3, <2>4, AppendedEventFits
<1>9. \A i \in 1..Len(new) : EventFits(new, v.legacy, i)
  <2>1. 1..Len(new) = 1..Len(h) \cup {Len(h) + 1}
    BY <1>2, <1>5
  <2> QED
    BY <2>1, <1>7, <1>8
<1>10. new # <<>> /\ new[Len(new)].to = to
  BY <1>5, <1>2 DEF e
<1> HIDE DEF new
<1> QED
  BY <1>1, <1>2, <1>4, <1>5, <1>6, <1>9, <1>10 DEF Readable, Lifecycle

----------------------------------------------------------------------------
(***************************************************************************)
(* The invariant                                                            *)
(***************************************************************************)

LEMMA NotStartedReadable == NotStarted \in Lifecycle /\ Readable(NotStarted)
BY DEF NotStarted, Lifecycle, States, Readable

\* Changing the test sections of a readable record keeps it readable.
LEMMA WithAliasesReadable ==
  ASSUME NEW v \in Lifecycle, Readable(v), NEW aliases \in SUBSET Alias
  PROVE  WithAliases(v, aliases) \in Lifecycle /\ Readable(WithAliases(v, aliases))
BY DEF WithAliases, Lifecycle, Readable

\* A process past its check writes a readable value.
LEMMA NewValueReadable ==
  ASSUME IInv, NEW p \in Proc, at[p].pc = "store"
  PROVE  NewValue(p) \in Lifecycle /\ Readable(NewValue(p))
<1>1. /\ at[p].base \in Lifecycle /\ at[p].aliases \in SUBSET Alias
      /\ at[p].candidate \in Candidate \cup {None}
      /\ at[p].op \in Names \cup {"set-aliases", None}
  BY DEF IInv, TypeOK
<1>2. Readable(at[p].base)
  BY DEF IInv, Underway
<1>3. CASE at[p].op = "set-aliases"
  BY <1>1, <1>2, <1>3, WithAliasesReadable DEF NewValue
<1>4. CASE at[p].op # "set-aliases"
  <2>1. /\ \E to \in States : <<at[p].base.state, at[p].op, to>> \in Transitions
        /\ CandidateFits(at[p].op, at[p].candidate, at[p].base.history,
                         Len(at[p].base.history))
    BY <1>4 DEF IInv, Underway
  <2>2. at[p].op \in Names
    BY <2>1 DEF Transitions, Names
  <2> QED
    BY <1>1, <1>2, <1>4, <2>1, <2>2, AdvancedReadable DEF NewValue
<1> QED
  BY <1>3, <1>4

LEMMA InitIInv == ASSUME Init PROVE IInv
<1>1. record.value \in Lifecycle /\ Readable(record.value)
  BY NotStartedReadable, InheritedAssumption DEF Init, NoRecord
<1>2. Idle \in [pc : {"idle", "check", "store"}, op : Names \cup {"set-aliases", None},
                candidate : Candidate \cup {None}, aliases : SUBSET Alias,
                expected : Nat \cup {-1}, base : Lifecycle]
  BY NotStartedReadable DEF Idle
<1>3. TypeOK
  <2>1. record = [revision |-> record.revision, value |-> record.value]
        /\ record.revision \in Nat \cup {-1}
    BY DEF Init, NoRecord
  <2>2. record \in [revision : Nat \cup {-1}, value : Lifecycle]
    BY <1>1, <2>1
  <2> QED
    BY <2>2, <1>2 DEF Init, TypeOK
<1>4. ASSUME NEW p \in Proc PROVE Underway(p)
  <2>1. at[p].pc = "idle" /\ at[p].expected = -1
    BY DEF Init, Idle
  <2> QED
    BY <2>1 DEF Underway
<1> QED
  BY <1>1, <1>3, <1>4 DEF IInv, StoredReadable, Init, Idle, NoRecord

\* Every step keeps the types.
LEMMA TypeStep == ASSUME IInv, [Next]_vars PROVE TypeOK'
<1>1. CASE UNCHANGED vars
  BY <1>1 DEF vars, IInv, TypeOK
<1>2. ASSUME NEW p \in Proc, NEW name \in Names, NEW c \in Candidate \cup {None}, Request(p, name, c) PROVE TypeOK'
  BY <1>2, NotStartedReadable DEF Request, IInv, TypeOK, Idle
<1>3. ASSUME NEW p \in Proc, NEW aliases \in SUBSET Alias, RequestAliases(p, aliases)
      PROVE TypeOK'
  <2>1. record.value.aliases \cup aliases \in SUBSET Alias
    BY DEF IInv, TypeOK, Lifecycle
  <2>2. record.revision \in Nat
    BY <1>3, MaxRevisionAssumption DEF RequestAliases
  <2> QED
    BY <1>3, <2>1, <2>2, NotStartedReadable DEF RequestAliases, IInv, TypeOK, Idle
<1>4. ASSUME NEW p \in Proc, Check(p) PROVE TypeOK'
  <2> DEFINE m == [at[p] EXCEPT !.pc = "store", !.base = record.value]
  <2>1. /\ UNCHANGED <<record, recorded, lost>> /\ at' = [at EXCEPT ![p] = m]
        /\ record.value \in Lifecycle
    BY <1>4 DEF Check, IInv, TypeOK
  <2>2. m \in [pc : {"idle", "check", "store"}, op : Names \cup {"set-aliases", None},
               candidate : Candidate \cup {None}, aliases : SUBSET Alias,
               expected : Nat \cup {-1}, base : Lifecycle]
    BY <2>1 DEF IInv, TypeOK
  <2> HIDE DEF m
  <2> QED
    BY <2>1, <2>2 DEF IInv, TypeOK
<1>5. ASSUME NEW p \in Proc, Refuse(p) PROVE TypeOK'
  BY <1>5, NotStartedReadable DEF Refuse, IInv, TypeOK, Idle
<1>6. ASSUME NEW p \in Proc, Store(p) PROVE TypeOK'
  BY <1>6, NotStartedReadable, NewValueReadable DEF Store, IInv, TypeOK, Idle
<1>7. ASSUME NEW p \in Proc, StoreLost(p) PROVE TypeOK'
  BY <1>7, NotStartedReadable DEF StoreLost, IInv, TypeOK, Idle
<1>8. ASSUME GitCommit PROVE TypeOK'
  BY <1>8 DEF GitCommit, IInv, TypeOK
<1>9. ASSUME LoseFile PROVE TypeOK'
  BY <1>9, NotStartedReadable DEF LoseFile, IInv, TypeOK, NoRecord
<1>10. QED
  BY <1>1, <1>2, <1>3, <1>4, <1>5, <1>6, <1>7, <1>8, <1>9
  DEF Next

\* Every step leaves a readable record.
LEMMA ReadableStep == ASSUME IInv, [Next]_vars PROVE StoredReadable'
<1>1. CASE UNCHANGED vars
  BY <1>1 DEF vars, IInv, StoredReadable
<1>2. ASSUME NEW p \in Proc, NEW name \in Names, NEW c \in Candidate \cup {None}, Request(p, name, c) PROVE StoredReadable'
  BY <1>2 DEF Request, IInv, StoredReadable
<1>3. ASSUME NEW p \in Proc, NEW aliases \in SUBSET Alias, RequestAliases(p, aliases) PROVE StoredReadable'
  BY <1>3 DEF RequestAliases, IInv, StoredReadable
<1>4. ASSUME NEW p \in Proc, Check(p) PROVE StoredReadable'
  BY <1>4 DEF Check, IInv, StoredReadable
<1>5. ASSUME NEW p \in Proc, Refuse(p) PROVE StoredReadable'
  BY <1>5 DEF Refuse, IInv, StoredReadable
<1>6. ASSUME NEW p \in Proc, Store(p) PROVE StoredReadable'
  BY <1>6, NewValueReadable DEF Store, IInv, StoredReadable
<1>7. ASSUME NEW p \in Proc, StoreLost(p) PROVE StoredReadable'
  BY <1>7 DEF StoreLost, IInv, StoredReadable
<1>8. ASSUME GitCommit PROVE StoredReadable'
  BY <1>8 DEF GitCommit, IInv, StoredReadable
<1>9. ASSUME LoseFile PROVE StoredReadable'
  BY <1>9, NotStartedReadable DEF LoseFile, IInv, StoredReadable, NoRecord
<1>10. QED
  BY <1>1, <1>2, <1>3, <1>4, <1>5, <1>6, <1>7, <1>8, <1>9
  DEF Next

\* Every step leaves what each process q knows true.
LEMMA UnderwayStep ==
  ASSUME IInv, [Next]_vars, NEW q \in Proc
  PROVE  Underway(q)'
<1> USE DEF IInv, Underway, TypeOK
<1>1. CASE UNCHANGED vars
  <2>1. UNCHANGED <<record, lost, at>>
    BY <1>1 DEF vars
  <2>2. Underway(q)
    OBVIOUS
  <2> HIDE DEF IInv, TypeOK
  <2> QED
    BY <2>1, <2>2
<1>2. ASSUME NEW p \in Proc, NEW name \in Names, NEW c \in Candidate \cup {None}, Request(p, name, c) PROVE Underway(q)'
  <2>1. CASE q = p
    <3>1. at'[p].pc = "check" /\ at'[p].expected = record.revision /\ at'[p].op = name
          /\ record' = record /\ lost' = lost
      BY <1>2 DEF Request, Idle
    <3> QED
      BY <2>1, <3>1 DEF Names
  <2>2. CASE q # p
    <3>1. at'[q] = at[q] /\ record' = record /\ lost' = lost
      BY <1>2, <2>2 DEF Request
    <3> QED
      BY <3>1
  <2> QED
    BY <2>1, <2>2
<1>3. ASSUME NEW p \in Proc, NEW aliases \in SUBSET Alias, RequestAliases(p, aliases) PROVE Underway(q)'
  BY <1>3 DEF RequestAliases, Idle
<1>4. ASSUME NEW p \in Proc, Check(p) PROVE Underway(q)'
  BY <1>4 DEF Check, Current, Legal, StoredReadable
<1>5. ASSUME NEW p \in Proc, Refuse(p) PROVE Underway(q)'
  <2>1. CASE q = p
    BY <1>5, <2>1 DEF Refuse, Idle
  <2>2. CASE q # p
    <3>1. at'[q] = at[q] /\ record' = record /\ lost' = lost
      BY <1>5, <2>2 DEF Refuse
    <3> QED
      BY <3>1
  <2> QED
    BY <2>1, <2>2
<1>6. ASSUME NEW p \in Proc, Store(p) PROVE Underway(q)'
  BY <1>6 DEF Store, Idle
<1>7. ASSUME NEW p \in Proc, StoreLost(p) PROVE Underway(q)'
  BY <1>7 DEF StoreLost, Idle
<1>8. ASSUME GitCommit PROVE Underway(q)'
  BY <1>8 DEF GitCommit
<1>9. ASSUME LoseFile PROVE Underway(q)'
  BY <1>9 DEF LoseFile, NoRecord
<1>10. QED
  BY <1>1, <1>2, <1>3, <1>4, <1>5, <1>6, <1>7, <1>8, <1>9
  DEF Next

LEMMA StepIInv == ASSUME IInv, [Next]_vars PROVE IInv'
<1>1. \A p \in Proc : Underway(p)'
  BY UnderwayStep
<1> QED
  BY <1>1, TypeStep, ReadableStep DEF IInv

\* The types, the readable record and what underway processes know hold
\* throughout.
THEOREM Invariance == Spec => []IInv
BY InitIInv, StepIInv, PTL DEF Spec

----------------------------------------------------------------------------
(***************************************************************************)
(* The properties                                                           *)
(***************************************************************************)

\* Whatever the tool writes, its reader accepts.
THEOREM NeverStuck == Spec => []StoredReadable
<1>1. IInv => StoredReadable
  BY DEF IInv
<1> QED
  BY <1>1, Invariance, PTL

\* In a readable history an acceptance or completion follows the event that
\* names its candidate.
LEMMA CandidateOf ==
  ASSUME NEW v \in Lifecycle, Readable(v), NEW i \in 1..Len(v.history), i > v.legacy,
         v.history[i].to \in {"accepted", "completed"}
  PROVE  /\ i > 1
         /\ v.history[i - 1].candidate = v.history[i].candidate
         /\ v.history[i - 1].to = v.history[i].from
         /\ v.history[i].to = "completed" => v.history[i].from = "accepted"
         /\ v.history[i].to = "accepted" => v.history[i].from = "in_review"
<1>1. EventFits(v.history, v.legacy, i)
  BY DEF Readable
<1>2. ~(i <= v.legacy)
  BY DEF Lifecycle
<1>3. /\ <<v.history[i].from, v.history[i].transition, v.history[i].to>> \in Transitions
      /\ CandidateFits(v.history[i].transition, v.history[i].candidate, v.history, i - 1)
      /\ i > 1 => v.history[i].from = v.history[i - 1].to
  BY <1>1, <1>2 DEF EventFits
<1>4. /\ v.history[i].transition \in {"accept", "complete"}
      /\ v.history[i].to = "completed" => v.history[i].from = "accepted"
      /\ v.history[i].to = "accepted" => v.history[i].from = "in_review"
  BY <1>3 DEF Transitions
<1>5. i - 1 > 0 /\ v.history[i - 1].candidate = v.history[i].candidate
  BY <1>3, <1>4 DEF CandidateFits
<1> QED
  BY <1>3, <1>4, <1>5

\* A completed issue was reviewed and accepted with the candidate it
\* completed with.
THEOREM Reviewed == Spec => []CompletedAsReviewed
<1>1. ASSUME IInv PROVE CompletedAsReviewed
  <2> DEFINE v == record.value
             n == Len(v.history)
  <2>1. v \in Lifecycle /\ Readable(v)
    BY <1>1 DEF IInv, TypeOK, StoredReadable
  <2>2. n \in Nat /\ v.legacy \in Nat
    BY <2>1 DEF Lifecycle
  <2> HIDE DEF v
  <2>3. SUFFICES ASSUME v.state = "completed", n > v.legacy
        PROVE  /\ n >= 2
               /\ v.history[n - 1].transition = "accept"
               /\ v.history[n - 1].candidate = v.history[n].candidate
               /\ n - 1 > v.legacy =>
                    /\ n >= 3
                    /\ v.history[n - 2].transition = "submit-review"
                    /\ v.history[n - 2].candidate = v.history[n].candidate
    BY DEF CompletedAsReviewed, v
  <2>4. v.history[n].to = "completed"
    BY <2>1, <2>2, <2>3 DEF Readable
  <2>5. /\ n > 1
        /\ v.history[n - 1].candidate = v.history[n].candidate
        /\ v.history[n - 1].to = "accepted"
    BY <2>1, <2>2, <2>3, <2>4, CandidateOf
  <2>6. \A i \in 1..n : <<v.history[i].from, v.history[i].transition, v.history[i].to>>
                           \in IF i <= v.legacy THEN LegacyTransitions ELSE Transitions
    BY <2>1 DEF Readable, EventFits
  <2>7. v.history[n - 1].transition = "accept"
    <3>1. n - 1 \in 1..n
      BY <2>2, <2>5
    <3> QED
      BY <2>5, <2>6, <3>1 DEF Transitions, LegacyTransitions
  <2>8. ASSUME n - 1 > v.legacy
        PROVE  /\ n >= 3
               /\ v.history[n - 2].transition = "submit-review"
               /\ v.history[n - 2].candidate = v.history[n].candidate
    <3>1. n - 1 \in 1..n /\ n - 1 - 1 = n - 2
      BY <2>2, <2>5
    <3>2. /\ n - 1 > 1
          /\ v.history[n - 2].candidate = v.history[n - 1].candidate
          /\ v.history[n - 2].to = "in_review"
      BY <2>1, <2>5, <2>8, <3>1, CandidateOf
    <3>3. n - 2 \in 1..n
      BY <2>2, <3>2
    <3>4. v.history[n - 2].transition = "submit-review"
      BY <2>6, <3>2, <3>3 DEF Transitions, LegacyTransitions
    <3> QED
      BY <2>2, <2>5, <3>2, <3>4
  <2> QED
    BY <2>2, <2>5, <2>7, <2>8
<1> QED
  BY <1>1, Invariance, PTL

\* Until the file is lost, histories only grow, by one event at a time, and test
\* sections stay.
THEOREM AppendsOnly == Spec => OnlyAppends
<1> DEFINE Appends ==
      ~lost /\ record'.revision > 0 =>
        LET old == record.value.history
            new == record'.value.history
        IN  /\ Len(new) \in {Len(old), Len(old) + 1}
            /\ \A i \in 1..Len(old) : new[i] = old[i]
            /\ record.value.aliases \subseteq record'.value.aliases
<1>1. ASSUME IInv, [Next]_vars PROVE Appends \/ UNCHANGED vars
  <2>1. record.value.history \in Seq(Event) /\ Len(record.value.history) \in Nat
    BY <1>1 DEF IInv, TypeOK, Lifecycle
  <2>2. CASE record' = record
    BY <2>1, <2>2
  <2>3. CASE record' = NoRecord
    BY <2>3 DEF NoRecord
  <2>4. ASSUME NEW p \in Proc, Store(p), ~lost PROVE Appends
    <3>1. /\ at[p].base = record.value
          /\ at[p].op = "set-aliases" => record.value.aliases \subseteq at[p].aliases
      BY <1>1, <2>4 DEF Store, IInv, Underway
    <3>2. record'.value = NewValue(p)
      BY <2>4 DEF Store
    <3>3. CASE at[p].op = "set-aliases"
      BY <2>1, <3>1, <3>2, <3>3 DEF NewValue, WithAliases
    <3>4. CASE at[p].op # "set-aliases"
      <4>1. PICK e : NewValue(p).history = Append(record.value.history, e)
                     /\ NewValue(p).aliases = record.value.aliases
        BY <3>1, <3>4 DEF NewValue, Advanced
      <4>2. /\ Len(NewValue(p).history) = Len(record.value.history) + 1
            /\ \A i \in 1..Len(record.value.history) :
                 NewValue(p).history[i] = record.value.history[i]
        BY <2>1, <4>1
      <4> QED
        BY <3>2, <4>1, <4>2
    <3> QED
      BY <3>3, <3>4
  <2> QED
    BY <1>1, <2>2, <2>3, <2>4
    DEF Next, vars, Request, RequestAliases, Check, Refuse, StoreLost, GitCommit, LoseFile
<1>2. IInv /\ [Next]_vars => [Appends]_vars
  BY <1>1
<1> QED
  BY <1>2, Invariance, PTL DEF Spec, OnlyAppends

\* Whenever the file was lost, also before git recorded it or under a running command: a
\* record that git has and that is missing stays missing once no command is left that
\* read before it was recorded and is about to write.
THEOREM NoReset == Spec => MissingStaysMissing
<1>1. ASSUME IInv, [Next]_vars, Missing PROVE Missing'
  <2>1. /\ record.revision = -1 /\ recorded
        /\ \A p \in Proc : ~(at[p].pc = "store" /\ at[p].expected = -1)
    BY <1>1 DEF Missing
  <2>2. \A p \in Proc : ~Current(p) /\ ~Store(p)
    BY <2>1 DEF Current, ReadRaises, Store
  <2>3. \A p \in Proc : ~Check(p)
    BY <2>2 DEF Check
  <2>4. record' = record /\ recorded' = recorded
    <3>1. CASE UNCHANGED vars
      BY <3>1 DEF vars
    <3>2. ASSUME NEW p \in Proc, NEW name \in Names, NEW c \in Candidate \cup {None}, Request(p, name, c)
          PROVE  record' = record /\ recorded' = recorded
      BY <3>2 DEF Request
    <3>3. ASSUME NEW p \in Proc, NEW aliases \in SUBSET Alias, RequestAliases(p, aliases)
          PROVE  record' = record /\ recorded' = recorded
      BY <3>3 DEF RequestAliases
    <3>4. ASSUME NEW p \in Proc, Refuse(p) \/ StoreLost(p) PROVE record' = record /\ recorded' = recorded
      BY <3>4 DEF Refuse, StoreLost
    <3>5. ~GitCommit /\ ~LoseFile
      BY <2>1 DEF GitCommit, LoseFile
    <3> QED
      BY <1>1, <2>2, <2>3, <3>1, <3>2, <3>3, <3>4, <3>5, Zenon DEF Next
  <2>5. ASSUME NEW q \in Proc PROVE ~(at'[q].pc = "store" /\ at'[q].expected = -1)
    <3>1. CASE UNCHANGED at
      BY <2>1, <3>1
    <3>2. ASSUME NEW p \in Proc, UNCHANGED at \/ \E m : at' = [at EXCEPT ![p] = m] /\ m.pc \in {"idle", "check"}
          PROVE  ~(at'[q].pc = "store" /\ at'[q].expected = -1)
      BY <1>1, <2>1, <3>2 DEF IInv, TypeOK
    <3>3. ASSUME NEW p \in Proc, NEW name \in Names, NEW c \in Candidate \cup {None}, Request(p, name, c)
          PROVE  \E m : at' = [at EXCEPT ![p] = m] /\ m.pc \in {"idle", "check"}
      BY <3>3, <2>1 DEF Request, ReadRaises
    <3>4. ASSUME NEW p \in Proc, NEW aliases \in SUBSET Alias, RequestAliases(p, aliases)
          PROVE  \E m : at' = [at EXCEPT ![p] = m] /\ m.pc \in {"idle", "check"}
      <4>1. /\ at' = [at EXCEPT ![p] = [Idle EXCEPT !.pc = "check", !.op = "set-aliases",
                                        !.aliases = record.value.aliases \cup aliases, !.expected = record.revision]]
        BY <3>4 DEF RequestAliases
      <4>2. [Idle EXCEPT !.pc = "check", !.op = "set-aliases", !.aliases = record.value.aliases \cup aliases,
                         !.expected = record.revision].pc = "check"
        BY DEF Idle
      <4> QED
        BY <4>1, <4>2
    <3>5. ASSUME NEW p \in Proc, Refuse(p) \/ StoreLost(p)
          PROVE  \E m : at' = [at EXCEPT ![p] = m] /\ m.pc \in {"idle", "check"}
      <4>1. at' = [at EXCEPT ![p] = Idle] /\ Idle.pc = "idle"
        BY <3>5 DEF Refuse, StoreLost, Idle
      <4> QED
        BY <4>1
    <3>6. CASE GitCommit \/ LoseFile \/ UNCHANGED vars
      BY <3>1, <3>6 DEF GitCommit, LoseFile, vars
    <3> QED
      BY <1>1, <2>2, <2>3, <3>2, <3>3, <3>4, <3>5, <3>6 DEF Next
  <2> QED
    BY <2>1, <2>4, <2>5 DEF Missing
<1>2. IInv /\ [Next]_vars => [Missing => Missing']_vars
  BY <1>1
<1> QED
  BY <1>2, Invariance, PTL DEF Spec, MissingStaysMissing

----------------------------------------------------------------------------
(***************************************************************************)
(* Planner                                                                  *)
(***************************************************************************)

LEMMA PlannerInit == P!Init => P!IInv
BY DEF P!Init, P!IInv, P!TypeOK, P!CacheIsEarned, P!NoteIsEarned, P!Policies, P!Empty,
   P!NoCommand, P!pc, P!Outcomes

\* What is saved for a commit claims what is noted of it and no more.
LEMMA SavedClaims ==
  ASSUME P!TypeOK, NEW c \in Nat, NEW r \in P!Outcomes \cup {"missing"},
         NEW i \in {"none", "failed", "succeeded"}
  PROVE  P!Saved(c, r, i) = [candidate |-> c, regression |-> r, integration |-> i]
<1>1. P!LoadLocalState(c) \in [candidate : Nat, regression : P!Outcomes \cup {"missing"},
                               integration : {"none", "failed", "succeeded"}]
  BY DEF P!TypeOK, P!LoadLocalState, P!Empty
<1>2. PICK l : l = P!LoadLocalState(c)
  OBVIOUS
<1>3. [l EXCEPT !.candidate = c, !.regression = r, !.integration = i]
        = [candidate |-> c, regression |-> r, integration |-> i]
  <2>1. [l EXCEPT !.candidate = c] = [candidate |-> c, regression |-> l.regression, integration |-> l.integration]
    BY <1>1, <1>2
  <2>2. PICK m : m = [l EXCEPT !.candidate = c]
    OBVIOUS
  <2>3. PICK n : n = [m EXCEPT !.regression = r]
    OBVIOUS
  <2>4. n = [candidate |-> c, regression |-> r, integration |-> l.integration]
    BY <2>1, <2>2, <2>3
  <2>5. [n EXCEPT !.integration = i] = [candidate |-> c, regression |-> r, integration |-> i]
    BY <2>4
  <2>6. [l EXCEPT !.candidate = c, !.regression = r, !.integration = i] = [n EXCEPT !.integration = i]
    BY <2>2, <2>3
  <2> QED
    BY <2>5, <2>6
<1> QED
  BY <1>2, <1>3 DEF P!Saved

\* A regression that the cache notes for a commit did pass on it.
LEMMA LoadedPass ==
  ASSUME P!CacheIsEarned, NEW c
  PROVE  /\ P!LoadLocalState(c).regression = "PASS" => c \in slot6
         /\ P!LoadLocalState(c).integration = "succeeded" => c \in slot7
BY DEF P!CacheIsEarned, P!LoadLocalState, P!Empty

LEMMA PlannerStep == ASSUME P!IInv, [P!Next]_(P!vars) PROVE P!IInv'
<1> USE DEF P!pc, P!Policies, P!NoCommand
<1>1. /\ P!TypeOK /\ P!CacheIsEarned /\ P!NoteIsEarned
      /\ slot1 \in Nat /\ slot2 \in Nat
  BY DEF P!IInv, P!TypeOK
<1>2. P!NewCommit => slot1' \in Nat /\ slot2' \in Nat
  BY <1>1 DEF P!NewCommit
<1>3. \A c \in Nat : P!LoadLocalState(c).regression \in P!Outcomes \cup {"missing"}
  BY <1>1 DEF P!TypeOK, P!LoadLocalState, P!Empty
<1>4. CASE UNCHANGED P!vars
  BY <1>1, <1>4 DEF P!IInv, P!vars, P!TypeOK, P!CacheIsEarned, P!NoteIsEarned
<1>5. ASSUME NEW outcome \in P!Outcomes, P!VerifyLocal(outcome) PROVE P!IInv'
  BY <1>1, <1>2, <1>5 DEF P!VerifyLocal, P!IInv, P!TypeOK, P!CacheIsEarned, P!NoteIsEarned, P!Outcomes
<1>6. ASSUME P!SaveOutcome PROVE P!IInv'
  <2>1. slot5.outcome \in P!Outcomes \cup {"none"}
    BY <1>1 DEF P!TypeOK
  <2>2. slot5.outcome \in P!Outcomes
    BY <1>1, <1>6, <2>1 DEF P!SaveOutcome, P!NoteIsEarned
  <2>3. slot4' = [candidate |-> slot1, regression |-> slot5.outcome, integration |-> "none"]
    BY <1>1, <1>6, <2>2, SavedClaims DEF P!SaveOutcome
  <2>4. P!TypeOK'
    <3>1. slot4' \in [candidate : Nat, regression : P!Outcomes \cup {"missing"},
                      integration : {"none", "failed", "succeeded"}]
      BY <1>1, <2>2, <2>3
    <3>2. slot5' \in [pc : {"idle", "verified", "iterate", "iterated", "succeeded", "failed"},
                      outcome : P!Outcomes \cup {"none"}, old : Nat]
      BY <1>1, <1>6 DEF P!SaveOutcome, P!TypeOK
    <3> QED
      BY <1>1, <1>6, <3>1, <3>2 DEF P!SaveOutcome, P!TypeOK
  <2> QED
    BY <1>1, <1>6, <2>3, <2>4 DEF P!SaveOutcome, P!IInv, P!CacheIsEarned, P!NoteIsEarned
<1>7. ASSUME P!AdvanceIteration PROVE P!IInv'
  BY <1>1, <1>2, <1>7 DEF P!AdvanceIteration, P!Goto, P!IInv, P!TypeOK, P!CacheIsEarned, P!NoteIsEarned
<1>8. ASSUME P!SaveIteration PROVE P!IInv'
  BY <1>1, <1>8, SavedClaims DEF P!SaveIteration, P!IInv, P!TypeOK, P!CacheIsEarned, P!NoteIsEarned, P!Outcomes
<1>9. ASSUME P!ReportSucceeded PROVE P!IInv'
  BY <1>1, <1>9 DEF P!ReportSucceeded, P!IInv, P!TypeOK, P!CacheIsEarned, P!NoteIsEarned
<1>10. ASSUME P!SaveSucceeded PROVE P!IInv'
  BY <1>1, <1>3, <1>10, SavedClaims, LoadedPass
  DEF P!SaveSucceeded, P!IInv, P!TypeOK, P!CacheIsEarned, P!NoteIsEarned
<1>11. ASSUME P!ReportFailed PROVE P!IInv'
  BY <1>1, <1>2, <1>11 DEF P!ReportFailed, P!IInv, P!TypeOK, P!CacheIsEarned, P!NoteIsEarned
<1>12. ASSUME P!SaveFailed PROVE P!IInv'
  BY <1>1, <1>12, SavedClaims DEF P!SaveFailed, P!IInv, P!TypeOK, P!CacheIsEarned, P!NoteIsEarned, P!Outcomes
<1>13. ASSUME P!Restore PROVE P!IInv'
  BY <1>1, <1>13 DEF P!Restore, P!IInv, P!TypeOK, P!CacheIsEarned, P!NoteIsEarned
<1>14. ASSUME P!Kill PROVE P!IInv'
  BY <1>1, <1>14 DEF P!Kill, P!Empty, P!IInv, P!TypeOK, P!CacheIsEarned, P!NoteIsEarned
<1>15. ASSUME P!PeopleCommit PROVE P!IInv'
  BY <1>1, <1>2, <1>15 DEF P!PeopleCommit, P!MayMove, P!IInv, P!TypeOK, P!CacheIsEarned, P!NoteIsEarned
<1>16. ASSUME NEW commit \in 1..slot2, P!Checkout(commit) PROVE P!IInv'
  <2>1. commit \in Nat
    BY <1>1
  <2> QED
    BY <1>1, <1>16, <2>1 DEF P!Checkout, P!MayMove, P!IInv, P!TypeOK, P!CacheIsEarned, P!NoteIsEarned
<1>17. ASSUME NEW policies \in SUBSET P!Policies, P!PolicyChanges(policies) PROVE P!IInv'
  BY <1>1, <1>17 DEF P!PolicyChanges, P!MayMove, P!IInv, P!TypeOK, P!CacheIsEarned, P!NoteIsEarned
<1> QED
  BY <1>4, <1>5, <1>6, <1>7, <1>8, <1>9, <1>10, <1>11, <1>12, <1>13, <1>14, <1>15, <1>16, <1>17
  DEF P!Next

\* What the plan makes legal the cache claims, and what the cache claims was earned.
LEMMA PlanEarned == P!IInv => P!PlanIsEarned
<1> SUFFICES ASSUME P!IInv, P!pc = "idle" PROVE P!PlanIsEarned
  BY DEF P!PlanIsEarned
<1> DEFINE facts == P!DiscoverFacts
<1>1. /\ facts.regression = P!LoadLocalState(slot1).regression
      /\ facts.integration = P!LoadLocalState(slot1).integration
      /\ facts.prelim = "absent" /\ facts.authorized = FALSE
  BY DEF P!DiscoverFacts
<1>2. facts.integration \in {"none", "failed", "succeeded"}
  BY <1>1 DEF P!IInv, P!TypeOK, P!LoadLocalState, P!Empty
<1>3. "test integration" \in P!DerivePlan(facts) => facts.regression = "PASS"
  BY DEF P!DerivePlan
<1>4. P!StateName(facts) = "integration accepted; authorization pending" =>
        facts.regression = "PASS" /\ facts.integration = "succeeded"
  BY <1>2 DEF P!StateName
<1> QED
  BY <1>1, <1>3, <1>4, LoadedPass DEF P!IInv, P!PlanIsEarned

----------------------------------------------------------------------------
(***************************************************************************)
(* DonePlan                                                                 *)
(***************************************************************************)

LEMMA DoneInit == D!Init => D!IInv
BY DEF D!Init, D!IInv, D!TypeOK, D!ReportsAreEarned, D!MergedIsEarned, D!Observation, D!Nothing,
   D!NotPinned, D!NoGrants, D!NoCommit, D!MitStatus

\* What a snapshot takes from the state.
LEMMA SnapshotFacts ==
  ASSUME NEW release, NEW contenders, NEW unmet,
         NEW facts, facts = D!Snapshot(release, contenders, unmet)
  PROVE  /\ facts.release = release
         /\ facts.candidate = slot2.candidate
         /\ facts.parent = slot1.parent
         /\ facts.validation = slot3
         /\ facts.authorization = slot4.authorization
         /\ facts.policy = (unmet # "policy") /\ facts.mitAuthenticated = (unmet # "mitAuthenticated")
         /\ unmet \notin {"policy", "mitAuthenticated"} =>
              facts.mit = slot4.mit.status /\ facts.mitCandidate = slot4.mit.candidate
         /\ unmet = "mitAuthenticated" => facts.mit = "passed"
<1>1. unmet \notin {"policy", "mitAuthenticated"} => facts.mit = slot4.mit.status
  BY DEF D!Snapshot
<1>2. unmet = "mitAuthenticated" => facts.mit = "passed"
  BY DEF D!Snapshot
<1> QED
  BY <1>1, <1>2 DEF D!Snapshot

\* Nothing blocks only if every gate and the authorization are of the candidate and
\* the parent tip, the policy of the manual test is verified and the test, if it has
\* passed, is of the candidate and authenticated.
LEMMA NothingMissing ==
  ASSUME NEW facts, D!Missing(facts) = {}
  PROVE  /\ facts.candidate # D!NoCommit
         /\ \A name \in GateNames :
              Len(facts.validation[name]) = 1 /\ D!GateMatches(facts.validation[name][1], facts)
         /\ D!AuthorizationMatches(facts.authorization, facts)
         /\ facts.policy /\ facts.mit # "failed"
         /\ facts.mit = "passed" => facts.mitCandidate = facts.candidate /\ facts.mitAuthenticated
<1>1. PICK b : b = D!Blocks(facts)
  OBVIOUS
<1>2. \A reason \in DOMAIN b : ~b[reason]
  BY <1>1 DEF D!Missing
<1>3. {"candidate", "gates", "authorization", "policy", "mit"} \subseteq DOMAIN b
  BY <1>1 DEF D!Blocks
<1>4. /\ b["candidate"] = (facts.candidate = D!NoCommit)
      /\ b["gates"] = (\E name \in GateNames :
           ~(Len(facts.validation[name]) = 1 /\ D!GateMatches(facts.validation[name][1], facts)))
      /\ b["authorization"] = ~D!AuthorizationMatches(facts.authorization, facts)
      /\ b["policy"] = ~facts.policy /\ b["mit"] = D!MitBlocks(facts)
  BY <1>1, Zenon DEF D!Blocks
<1>5. ~b["candidate"] /\ ~b["gates"] /\ ~b["authorization"] /\ ~b["policy"] /\ ~b["mit"]
  BY <1>2, <1>3
<1>6. ~D!MitBlocks(facts)
  BY <1>4, <1>5
<1>7. facts.mit # "failed" /\ (facts.mit = "passed" => facts.mitCandidate = facts.candidate /\ facts.mitAuthenticated)
  BY <1>6 DEF D!MitBlocks
<1> QED
  BY <1>4, <1>5, <1>7

\* What is allowed, or may run, is of a snapshot that nothing blocks and that does not
\* wait for a manual test.
LEMMA AllowedMissesNothing ==
  ASSUME NEW facts, D!Allowed(facts) \/ D!QueueTrack(facts) = "runnable"
  PROVE  D!Missing(facts) = {} /\ facts.mit \notin {"pending", "timeout"}
BY DEF D!Allowed, D!QueueTrack, D!Disposition

\* What the reports say, one by one.
LEMMA EarnedReports ==
  ASSUME D!ReportsAreEarned
  PROVE  /\ \A name \in GateNames : \A i \in 1..Len(slot3[name]) :
              slot3[name][i].passed /\ slot3[name][i].authenticated
                => <<name, slot3[name][i].candidate, slot3[name][i].parent, "none">> \in slot7
         /\ slot4.authorization # D!Nothing
              => <<"authorization", slot4.authorization.candidate, slot4.authorization.parent, slot4.authorization.release>> \in slot7
         /\ slot4.mit.status = "passed" => <<"manual test", slot4.mit.candidate, D!NoCommit, "none">> \in slot7
BY Zenon DEF D!ReportsAreEarned

LEMMA PlanDoneStep ==
  ASSUME D!IInv, NEW release \in Releases, NEW contenders, NEW unmet,
         D!PlanDone(D!Snapshot(release, contenders, unmet))
  PROVE  D!IInv'
<1>1. PICK facts : facts = D!Snapshot(release, contenders, unmet)
  OBVIOUS
<1>2. CASE ~(D!Allowed(facts) \/ D!QueueTrack(facts) = "runnable")
  BY <1>1, <1>2 DEF D!PlanDone, D!IInv, D!TypeOK, D!ReportsAreEarned, D!MergedIsEarned, D!Earned
<1>3. CASE D!Allowed(facts) \/ D!QueueTrack(facts) = "runnable"
  <2>1. slot5' = [candidate |-> facts.candidate, parent |-> facts.parent, release |-> facts.release]
    BY <1>1, <1>3 DEF D!PlanDone
  <2>2. /\ facts.candidate # D!NoCommit
        /\ \A name \in GateNames :
             Len(facts.validation[name]) = 1 /\ D!GateMatches(facts.validation[name][1], facts)
        /\ D!AuthorizationMatches(facts.authorization, facts)
        /\ facts.policy /\ facts.mit \notin {"failed", "pending", "timeout"}
        /\ facts.mit = "passed" => facts.mitCandidate = facts.candidate /\ facts.mitAuthenticated
    BY <1>3, AllowedMissesNothing, NothingMissing
  <2>9. /\ facts.release = release /\ facts.candidate = slot2.candidate /\ facts.parent = slot1.parent
        /\ facts.validation = slot3 /\ facts.authorization = slot4.authorization
        /\ facts.policy = (unmet # "policy") /\ facts.mitAuthenticated = (unmet # "mitAuthenticated")
        /\ unmet \notin {"policy", "mitAuthenticated"} =>
             facts.mit = slot4.mit.status /\ facts.mitCandidate = slot4.mit.candidate
        /\ unmet = "mitAuthenticated" => facts.mit = "passed"
    BY <1>1, SnapshotFacts
  <2>3. ASSUME NEW name \in GateNames
        PROVE  <<name, facts.candidate, facts.parent, "none">> \in slot7
    <3>1. Len(slot3[name]) = 1 /\ D!GateMatches(slot3[name][1], facts)
      BY <2>2, <2>9
    <3>2. PICK gate : gate = slot3[name][1]
      OBVIOUS
    <3>3. gate.passed /\ gate.authenticated /\ gate.candidate = facts.candidate /\ gate.parent = facts.parent
      BY <3>1, <3>2 DEF D!GateMatches
    <3>4. gate.passed /\ gate.authenticated => <<name, gate.candidate, gate.parent, "none">> \in slot7
      <4>1. D!ReportsAreEarned /\ 1 \in 1..Len(slot3[name])
        BY <3>1 DEF D!IInv
      <4> QED
        BY <3>2, <4>1, EarnedReports
    <3> QED
      BY <3>3, <3>4
  <2>4. <<"authorization", facts.candidate, facts.parent, facts.release>> \in slot7
    <3>1. slot4.authorization = [candidate |-> facts.candidate, parent |-> facts.parent, release |-> facts.release]
      BY <2>2, <2>9 DEF D!AuthorizationMatches
    <3>2. slot4.authorization # D!Nothing
      BY <2>2, <3>1 DEF D!Nothing
    <3>3. PICK auth : auth = slot4.authorization
      OBVIOUS
    <3>4. <<"authorization", auth.candidate, auth.parent, auth.release>> \in slot7
      BY <3>2, <3>3, EarnedReports DEF D!IInv
    <3> QED
      BY <3>1, <3>3, <3>4
  <2>5. UNCHANGED <<slot1, slot2, slot3, slot4, slot6, slot7>>
    BY DEF D!PlanDone
  <2>6. D!TypeOK' /\ D!ReportsAreEarned'
    BY <2>5 DEF D!IInv, D!TypeOK, D!ReportsAreEarned
  <2>7. slot4.mit.status # "not-required" => <<"manual test", facts.candidate, 0, "none">> \in slot7
    <3>1. unmet # "policy" /\ (unmet = "mitAuthenticated" => facts.mit = "passed" /\ ~facts.mitAuthenticated)
      BY <2>2, <2>9
    <3>2. unmet # "mitAuthenticated"
      BY <2>2, <3>1
    <3>3. facts.mit = slot4.mit.status /\ facts.mitCandidate = slot4.mit.candidate
      BY <3>1, <3>2, <2>9
    <3>4. slot4.mit.status \in D!MitStatus
      BY DEF D!IInv, D!TypeOK
    <3> QED
      BY <2>2, <3>3, <3>4 DEF D!MitStatus, D!IInv, D!ReportsAreEarned, D!NoCommit
  <2>8. D!Earned(slot5)' /\ D!MergedIsEarned'
    BY <2>1, <2>3, <2>4, <2>5, <2>7 DEF D!IInv, D!MergedIsEarned, D!Earned, D!NoCommit
  <2> QED
    BY <2>6, <2>8 DEF D!IInv
<1> QED
  BY <1>2, <1>3

LEMMA RunGateStep ==
  ASSUME D!IInv, NEW name \in GateNames, NEW ok \in BOOLEAN, NEW authentic \in BOOLEAN,
         D!RunGate(name, ok, authentic)
  PROVE  D!IInv'
<1> USE DEF D!RunGate, D!Elsewhere
<1>1. PICK gate : gate = [candidate |-> slot2.candidate, parent |-> slot1.parent,
                          passed |-> ok, authenticated |-> authentic]
  OBVIOUS
<1>2. gate \in D!Observation
  BY <1>1 DEF D!IInv, D!TypeOK, D!Observation
<1>3. /\ slot3' = [slot3 EXCEPT ![name] = Append(slot3[name], gate)]
      /\ slot3 \in [GateNames -> Seq(D!Observation)]
  BY <1>1 DEF D!IInv, D!TypeOK
<1>4. /\ slot3' \in [GateNames -> Seq(D!Observation)]
      /\ \E set \in SUBSET Nat : slot4' = [slot4 EXCEPT !.integrated = set]
  <2>1. slot4.integrated \in SUBSET Nat /\ slot2.candidate \in Nat
    BY DEF D!IInv, D!TypeOK
  <2>2. \E set \in SUBSET Nat : slot4' = [slot4 EXCEPT !.integrated = set]
    <3> DEFINE old == slot4.integrated
               c == slot2.candidate
               set == IF name # "integration" THEN old
                      ELSE IF ok /\ authentic THEN old \cup {c} ELSE old \ {c}
    <3>1. slot4' = [slot4 EXCEPT !.integrated = set]
      OBVIOUS
    <3>2. set \in SUBSET Nat
      BY <2>1
    <3> QED
      BY <3>1, <3>2
  <2>3. slot3' \in [GateNames -> Seq(D!Observation)]
    <3>1. Append(slot3[name], gate) \in Seq(D!Observation)
      BY <1>2, <1>3
    <3> QED
      BY <1>3, <3>1
  <2> QED
    BY <2>2, <2>3
<1>5. slot7 \subseteq slot7' /\ (ok /\ authentic => <<name, gate.candidate, gate.parent, "none">> \in slot7')
  BY <1>1 DEF D!Earn
<1>6. ASSUME NEW other \in GateNames, NEW i \in 1..Len(slot3'[other]),
             slot3'[other][i].passed, slot3'[other][i].authenticated
      PROVE  <<other, slot3'[other][i].candidate, slot3'[other][i].parent, "none">> \in slot7'
  <2>1. CASE other # name
    BY <1>3, <1>5, <1>6, <2>1 DEF D!IInv, D!ReportsAreEarned
  <2>2. CASE other = name /\ i \in 1..Len(slot3[name])
    <3>1. slot3'[other][i] = slot3[name][i]
      BY <1>2, <1>3, <2>2
    <3> QED
      BY <1>5, <1>6, <2>2, <3>1 DEF D!IInv, D!ReportsAreEarned
  <2>3. CASE other = name /\ i \notin 1..Len(slot3[name])
    <3>1. slot3'[other][i] = gate
      BY <1>2, <1>3, <2>3
    <3> QED
      BY <1>1, <1>5, <1>6, <2>3, <3>1
  <2> QED
    BY <2>1, <2>2, <2>3
<1>7. slot4'.authorization = slot4.authorization /\ slot4'.mit = slot4.mit /\ UNCHANGED <<slot1, slot2, slot5, slot6>>
  BY <1>4 DEF D!IInv, D!TypeOK
<1>8. D!TypeOK'
  BY <1>4, <1>7 DEF D!IInv, D!TypeOK
<1>9. D!ReportsAreEarned'
  BY <1>5, <1>6, <1>7 DEF D!IInv, D!ReportsAreEarned
<1>10. D!MergedIsEarned' /\ (slot5' # D!Nothing => D!Earned(slot5)')
  BY <1>5, <1>7 DEF D!IInv, D!MergedIsEarned, D!Earned
<1> QED
  BY <1>8, <1>9, <1>10 DEF D!IInv

LEMMA RecollectStep == ASSUME D!IInv, NEW name \in GateNames, D!Recollect(name) PROVE D!IInv'
<1>1. /\ slot3' = [slot3 EXCEPT ![name] = <<>>] /\ UNCHANGED <<slot1, slot2, slot4, slot5, slot6, slot7>>
      /\ slot3 \in [GateNames -> Seq(D!Observation)]
  BY DEF D!Recollect, D!Elsewhere, D!IInv, D!TypeOK
<1>2. slot3' \in [GateNames -> Seq(D!Observation)]
  BY <1>1
<1>3. D!TypeOK'
  BY <1>1, <1>2 DEF D!IInv, D!TypeOK
<1>4. ASSUME NEW other \in GateNames, NEW i \in 1..Len(slot3'[other])
      PROVE  i \in 1..Len(slot3[other]) /\ slot3'[other][i] = slot3[other][i]
  BY <1>1
<1>5. D!ReportsAreEarned'
  BY <1>1, <1>4 DEF D!IInv, D!ReportsAreEarned
<1>6. D!MergedIsEarned' /\ (slot5' # D!Nothing => D!Earned(slot5)')
  BY <1>1 DEF D!IInv, D!MergedIsEarned, D!Earned
<1> QED
  BY <1>3, <1>5, <1>6 DEF D!IInv

\* The gate has compared what is checked out and the parent tip with the plan.
LEMMA MergeStep == ASSUME D!IInv, D!Merge PROVE D!IInv'
<1>1. /\ slot5 # D!Nothing /\ D!Earned(slot5) /\ slot1 \in [source : Nat, contains : Nat, parent : Nat]
      /\ slot5.parent = slot1.parent /\ slot1.source = slot5.candidate /\ slot1.contains >= slot5.parent
  BY DEF D!IInv, D!TypeOK, D!Merge, D!PreMergeAccepts
<1>2. /\ slot6' = [candidate |-> slot1.source, contains |-> slot1.contains, parent |-> slot1.parent, release |-> slot5.release]
      /\ slot1' = [slot1 EXCEPT !.parent = @ + 1] /\ slot5' = D!Nothing /\ UNCHANGED <<slot2, slot3, slot4, slot7>>
  BY DEF D!Merge
<1>3. slot1' \in [source : Nat, contains : Nat, parent : Nat]
  <2>1. PICK n \in Nat : n = slot1.parent + 1
    BY <1>1
  <2>2. slot1' = [slot1 EXCEPT !.parent = n]
    BY <1>2, <2>1
  <2> QED
    BY <1>1, <2>2
<1>4. /\ slot6'.candidate = slot5.candidate /\ slot6'.parent = slot5.parent /\ slot6'.release = slot5.release
      /\ slot6'.contains >= slot6'.parent
  BY <1>1, <1>2
<1>5. D!MergedIsEarned'
  BY <1>1, <1>2, <1>4 DEF D!MergedIsEarned, D!Earned
<1> QED
  BY <1>2, <1>3, <1>5 DEF D!IInv, D!TypeOK, D!ReportsAreEarned

LEMMA AuthorizeStep == ASSUME D!IInv, NEW release \in Releases, D!Authorize(release) PROVE D!IInv'
<1>1. PICK auth : auth = [candidate |-> slot2.candidate, parent |-> slot1.parent, release |-> release]
  OBVIOUS
<1>2. /\ slot7' = slot7 \cup {<<"authorization", auth.candidate, auth.parent, auth.release>>}
      /\ slot4' = [slot4 EXCEPT !.authorization = auth]
      /\ UNCHANGED <<slot1, slot2, slot3, slot5, slot6>>
  BY <1>1 DEF D!Authorize, D!Earn, D!Elsewhere
<1>3. auth \in [candidate : Nat, parent : Nat, release : Releases \cup {"none"}]
  BY <1>1 DEF D!IInv, D!TypeOK
<1>4. D!TypeOK' /\ slot4'.authorization = auth /\ slot4'.mit = slot4.mit
  BY <1>2, <1>3 DEF D!IInv, D!TypeOK
<1>5. D!ReportsAreEarned'
  <2>1. \A gate \in GateNames : \A i \in 1..Len(slot3'[gate]) :
          slot3'[gate][i].passed /\ slot3'[gate][i].authenticated
            => <<gate, slot3'[gate][i].candidate, slot3'[gate][i].parent, "none">> \in slot7'
    BY <1>2 DEF D!IInv, D!ReportsAreEarned
  <2>2. <<"authorization", slot4'.authorization.candidate, slot4'.authorization.parent, slot4'.authorization.release>> \in slot7'
    BY <1>2, <1>4
  <2>3. slot4'.mit.status = "passed" => <<"manual test", slot4'.mit.candidate, D!NoCommit, "none">> \in slot7'
    <3>1. PICK test : test = slot4.mit
      OBVIOUS
    <3>2. test.status = "passed" => <<"manual test", test.candidate, D!NoCommit, "none">> \in slot7
      BY <3>1, EarnedReports DEF D!IInv
    <3>3. slot7 \subseteq slot7' /\ slot4'.mit = test
      BY <1>2, <1>4, <3>1
    <3> QED
      BY <3>2, <3>3
  <2> QED
    BY <2>1, <2>2, <2>3 DEF D!ReportsAreEarned
<1>6. D!MergedIsEarned' /\ (slot5' # D!Nothing => D!Earned(slot5)')
  BY <1>2, <1>4 DEF D!IInv, D!MergedIsEarned, D!Earned
<1> QED
  BY <1>4, <1>5, <1>6 DEF D!IInv

\* Commits and merges move a tip forward by one.
Tips == [source : Nat, contains : Nat, parent : Nat]

LEMMA TipsAdvance ==
  ASSUME NEW tips \in Tips
  PROVE  /\ [tips EXCEPT !.source = @ + 1] \in Tips
         /\ [tips EXCEPT !.parent = @ + 1] \in Tips
         /\ [tips EXCEPT !.source = @ + 1, !.contains = tips.parent] \in Tips
<1>1. PICK m \in Nat : m = tips.source + 1
  BY DEF Tips
<1>2. PICK n \in Nat : n = tips.parent + 1
  BY DEF Tips
<1>3. [tips EXCEPT !.source = m] \in Tips /\ [tips EXCEPT !.parent = n] \in Tips
  BY DEF Tips
<1>4. [tips EXCEPT !.source = m, !.contains = tips.parent] \in Tips
  BY DEF Tips
<1> QED
  BY <1>1, <1>2, <1>3, <1>4

LEMMA DoneStep == ASSUME D!IInv, D!DoneAssumption, [D!Next]_(D!vars) PROVE D!IInv'
<1> USE DEF D!IInv, D!TypeOK, D!ReportsAreEarned, D!MergedIsEarned, D!Earned, D!Elsewhere
<1>1. CASE UNCHANGED D!vars
  BY <1>1 DEF D!vars
<1>2. ASSUME D!Merge PROVE D!IInv'
  BY <1>2, MergeStep
<1>3. ASSUME D!SourceAdvances \/ D!ParentAdvances \/ D!ParentIsMergedIn PROVE D!IInv'
  <2>1. slot1 \in Tips
    BY DEF Tips
  <2>2. slot1' \in Tips
    BY <1>3, <2>1, TipsAdvance DEF D!SourceAdvances, D!ParentAdvances, D!ParentIsMergedIn, D!Commit
  <2> QED
    BY <1>3, <2>2 DEF Tips, D!SourceAdvances, D!ParentAdvances, D!ParentIsMergedIn, D!Commit
<1>4. ASSUME D!Pin PROVE D!IInv'
  BY <1>4 DEF D!Pin
<1>5. ASSUME NEW name \in GateNames, D!Recollect(name) PROVE D!IInv'
  BY <1>5, RecollectStep
<1>6. ASSUME NEW release \in Releases, D!Authorize(release) PROVE D!IInv'
  BY <1>6, AuthorizeStep
<1>7. ASSUME NEW status \in Answers, D!TestManually(status) PROVE D!IInv'
  <2>1. /\ slot7 \subseteq slot7' /\ UNCHANGED <<slot1, slot2, slot3, slot5, slot6>>
        /\ status = "passed" => <<"manual test", slot2.candidate, 0, "none">> \in slot7'
        /\ slot4.mit.status # "not-required"
    BY <1>7 DEF D!TestManually, D!Earn, D!NoCommit
  <2>2. /\ slot4'.mit = [status |-> status, candidate |-> slot2.candidate] /\ slot4'.authorization = slot4.authorization
        /\ slot4' = [slot4 EXCEPT !.mit = [status |-> status, candidate |-> slot2.candidate]]
    BY <1>7 DEF D!TestManually
  <2>3. D!TypeOK'
    BY <2>1, <2>2 DEF D!DoneAssumption, D!MitStatus
  <2>4. D!ReportsAreEarned'
    BY <2>1, <2>2 DEF D!NoCommit
  <2>5. D!MergedIsEarned' /\ (slot5' # D!Nothing => D!Earned(slot5)')
    BY <2>1, <2>2
  <2> QED
    BY <2>3, <2>4, <2>5
<1>8. ASSUME NEW name \in GateNames, NEW run \in Runs, D!RunGate(name, run[1], run[2]) PROVE D!IInv'
  <2>1. run[1] \in BOOLEAN /\ run[2] \in BOOLEAN
    BY DEF D!DoneAssumption
  <2> HIDE DEF D!IInv, D!TypeOK, D!ReportsAreEarned, D!MergedIsEarned, D!Earned
  <2> QED
    BY <1>8, <2>1, RunGateStep, Zenon
<1>9. ASSUME NEW release \in Releases, NEW contenders \in {1, 2}, NEW unmet \in Unmet,
             D!PlanDone(D!Snapshot(release, contenders, unmet))
      PROVE  D!IInv'
  BY <1>9, PlanDoneStep
<1> QED
  BY <1>1, <1>2, <1>3, <1>4, <1>5, <1>6, <1>7, <1>8, <1>9 DEF D!Next

----------------------------------------------------------------------------
(***************************************************************************)
(* The composition                                                          *)
(***************************************************************************)

\* Whatever the subject, its inductive invariant holds throughout, for all constants.
THEOREM ProgressInvariance == ProgressSpec => []ProgressIInv
<1>1. ProgressInit => ProgressIInv
  BY InitIInv, PlannerInit, DoneInit DEF ProgressInit, ProgressIInv
<1>2. ASSUME ProgressIInv, [ProgressNext]_<<vars, subject, slots>> PROVE ProgressIInv'
  <2>1. CASE UNCHANGED <<vars, subject, slots>>
    <3>1. IInv'
      BY <1>2, <2>1, StepIInv DEF ProgressIInv
    <3>2. subject' = "planner" => P!IInv'
      BY <1>2, <2>1, PlannerStep DEF ProgressIInv, slots, P!vars
    <3>3. subject' = "done" => D!IInv'
      BY <1>2, <2>1, DoneStep, DoneAssumed DEF ProgressIInv, slots, D!vars
    <3> QED
      BY <3>1, <3>2, <3>3 DEF ProgressIInv
  <2>2. CASE subject = "lifecycle" /\ Next /\ UNCHANGED <<subject, slots>>
    BY <1>2, <2>2, StepIInv DEF ProgressIInv
  <2>3. CASE subject = "planner" /\ P!Next /\ UNCHANGED <<subject, vars>>
    BY <1>2, <2>3, StepIInv, PlannerStep DEF ProgressIInv
  <2>4. CASE subject = "done" /\ D!Next /\ UNCHANGED <<subject, vars>>
    BY <1>2, <2>4, StepIInv, DoneStep, DoneAssumed DEF ProgressIInv
  <2> QED
    BY <1>2, <2>1, <2>2, <2>3, <2>4 DEF ProgressNext
<1> QED
  BY <1>1, <1>2, PTL DEF ProgressSpec

\* The planner offers integration at HEAD only after a regression that passed on this
\* very commit, and takes it as accepted only after a success reported for it as well.
THEOREM OffersWhatIsEarned == ProgressSpec => []PlanIsEarned
<1>1. ProgressIInv => PlanIsEarned
  BY PlanEarned DEF ProgressIInv, PlanIsEarned
<1> QED
  BY <1>1, ProgressInvariance, PTL

\* What was merged had passed every gate and was authorized on the very tip that it was
\* merged into, contains this tip, and passed a manual test if one is required: the gate
\* before the merge sees every move of the branches since the plan.
THEOREM MergesWhatIsEarned == ProgressSpec => []MergedIsEarned
<1>1. ProgressIInv => MergedIsEarned
  BY DEF ProgressIInv, MergedIsEarned, D!IInv
<1> QED
  BY <1>1, ProgressInvariance, PTL
=============================================================================

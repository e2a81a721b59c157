------------------------ MODULE RemoteCommandProofs ------------------------
(***************************************************************************)
(* Proofs about RemoteCommand: whatever commands execute, repeat, race with *)
(* each other and with people, no commit of a source branch is lost, and    *)
(* who is told of a success finds what his command committed.               *)
(***************************************************************************)
EXTENDS RemoteCommand, SequenceTheorems, TLAPS

\* A branch that only gets commits on top.
Extends(s, t) == Len(s) <= Len(t) /\ \A k \in 1..Len(s) : t[k] = s[k]

LEMMA PrefixIsExtends ==
  ASSUME NEW S, NEW s \in Seq(S), NEW t \in Seq(S), Extends(s, t)
  PROVE  IsPrefix(s, t)
<1>1. Len(s) \in Nat /\ Len(t) \in Nat /\ s \in [1..Len(s) -> S] /\ t \in [1..Len(t) -> S]
  BY LenProperties
<1>2. \A k \in 1..Len(s) : t[k] \in S
  BY <1>1 DEF Extends
<1>3. /\ SubSeq(t, 1, Len(s)) \in Seq(S) /\ Len(SubSeq(t, 1, Len(s))) = Len(s)
      /\ \A k \in 1..Len(s) : SubSeq(t, 1, Len(s))[k] = t[k]
  BY <1>1, <1>2, SubSeqProperties
<1>4. SubSeq(t, 1, Len(s)) = s
  BY <1>3, SeqEqual DEF Extends
<1>5. SubSeq(s, 1, Len(s)) = s
  BY SubSeqFull
<1> QED
  BY <1>1, <1>4, <1>5 DEF IsPrefix, Extends

LEMMA AppendExtends ==
  ASSUME NEW S, NEW s \in Seq(S), NEW e \in S
  PROVE  Append(s, e) \in Seq(S) /\ Extends(s, Append(s, e))
BY AppendProperties, LenProperties DEF Extends

LEMMA SameExtends ==
  ASSUME NEW S, NEW s \in Seq(S)
  PROVE  Extends(s, s)
BY LenProperties DEF Extends

\* What the type invariant says of one branch and of one actor.
LEMMA Types ==
  ASSUME TypeOK
  PROVE  /\ \A b \in Branch : source[b] \in Seq(Argv \cup {People}) /\ Len(source[b]) \in Nat
         /\ \A n \in Cmd : /\ command[n] \in Seq(Commit) /\ Tip(n) \in Nat
                           /\ DOMAIN command[n] = 1..Tip(n)
                           /\ \A i \in 1..Tip(n) : command[n][i] \in Commit
                           /\ (command[n] # <<>> <=> Tip(n) > 0)
         /\ \A n \in Cmd : worker[n] \in Run /\ n[1] \in Number /\ n[2] \in Branch /\ n = <<n[1], n[2]>>
         /\ \A c \in Client : at[c] \in Local
<1>1. \A b \in Branch : source[b] \in Seq(Argv \cup {People}) /\ Len(source[b]) \in Nat
  BY LenProperties DEF TypeOK
<1>2. ASSUME NEW n \in Cmd
      PROVE  /\ command[n] \in Seq(Commit) /\ Tip(n) \in Nat
             /\ DOMAIN command[n] = 1..Tip(n)
             /\ \A i \in 1..Tip(n) : command[n][i] \in Commit
             /\ (command[n] # <<>> <=> Tip(n) > 0)
  <2>1. command[n] \in Seq(Commit)
    BY DEF TypeOK
  <2>2. Tip(n) \in Nat /\ command[n] \in [1..Tip(n) -> Commit] /\ DOMAIN command[n] = 1..Tip(n)
    BY <2>1, LenProperties DEF Tip
  <2>3. command[n] = <<>> <=> Tip(n) = 0
    BY <2>1, EmptySeq DEF Tip
  <2> QED
    BY <2>1, <2>2, <2>3
<1>3. \A n \in Cmd : worker[n] \in Run /\ n[1] \in Number /\ n[2] \in Branch /\ n = <<n[1], n[2]>>
  BY DEF TypeOK, Cmd
<1>4. \A c \in Client : at[c] \in Local
  BY DEF TypeOK
<1> QED
  BY <1>1, <1>2, <1>3, <1>4

LEMMA CommitKinds ==
  /\ \A e \in Commit :
       /\ e.kind \in {"request", "result"}
       /\ e.kind = "request" => e.revision \in Nat /\ e.argv \in Argv /\ e.retry \in Nat
       /\ e.kind = "result" => e.request \in Nat /\ e.status \in 0..2 /\ e.changed \in BOOLEAN
  /\ \A v, r \in Nat, a \in Argv : Request(v, a, r) \in Commit
  /\ \A i \in Nat, s \in 0..2, b \in BOOLEAN : Result(i, s, b) \in Commit
BY DEF Commit, Request, Result

\* A CMD branch starts with a request, and its latest is its tip or right below it.
LEMMA LatestRequest ==
  ASSUME TypeOK, NEW n \in Cmd, Ledger(n), command[n] # <<>>
  PROVE  /\ IsRequest(n, 1) /\ IsRequest(n, Latest(n)) /\ Latest(n) \in 1..Tip(n)
         /\ Completed(n) => command[n][Tip(n)].kind = "result" /\ Latest(n) = Tip(n) - 1
<1> DEFINE S == {i \in DOMAIN command[n] : command[n][i].kind = "request"}
<1>1. /\ Tip(n) \in Nat /\ Tip(n) > 0 /\ DOMAIN command[n] = 1..Tip(n)
      /\ \A i \in 1..Tip(n) : command[n][i].kind \in {"request", "result"}
  BY Types, CommitKinds
<1>2. IsRequest(n, 1)
  BY <1>1 DEF Ledger, IsRequest
<1>3. PICK j \in S : (\A i \in S : j >= i) /\ (j = Tip(n) \/ (j = Tip(n) - 1 /\ command[n][Tip(n)].kind = "result"))
  <2>1. CASE command[n][Tip(n)].kind = "request"
    BY <1>1, <2>1
  <2>2. CASE command[n][Tip(n)].kind = "result"
    <3>1. Tip(n) > 1 /\ IsRequest(n, Tip(n) - 1)
      BY <1>1, <2>2 DEF Ledger
    <3>2. Tip(n) - 1 \in S /\ Tip(n) \notin S
      BY <2>2, <3>1 DEF IsRequest
    <3> QED
      BY <1>1, <2>2, <3>2
  <2> QED
    BY <1>1, <2>1, <2>2
<1>4. Latest(n) \in S /\ \A i \in S : Latest(n) >= i
  BY <1>3 DEF Latest, Max
<1>5. Latest(n) = j
  BY <1>1, <1>3, <1>4
<1> QED
  BY <1>1, <1>2, <1>3, <1>4, <1>5 DEF IsRequest, Completed

\* Only two steps write a source branch, and both put a commit on top of it.
LEMMA PushAppends ==
  ASSUME TypeOK, NEW n \in Cmd, RunIsTrue(n), PushEffect(n), Leased(n)
  PROVE  /\ Of(n).argv \in Argv /\ Of(n).revision = Len(source[n[2]])
         /\ source' = [source EXCEPT ![n[2]] = Append(source[n[2]], Of(n).argv)]
<1>1. IsRequest(n, worker[n].request)
  BY DEF PushEffect, RunIsTrue
<1>2. Of(n) \in Commit /\ Of(n).kind = "request"
  BY <1>1, Types DEF IsRequest, Of
<1>3. n[2] \in Branch /\ source[n[2]] \in Seq(Argv \cup {People})
  BY Types
<1>4. SubSeq(source[n[2]], 1, Of(n).revision) = source[n[2]]
  BY <1>3, SubSeqFull DEF Leased
<1> QED
  BY <1>2, <1>4, CommitKinds DEF PushEffect, Leased

LEMMA SourceStep ==
  ASSUME TypeOK, \A n \in Cmd : RunIsTrue(n), [Next]_vars
  PROVE  /\ source' \in [Branch -> Seq(Argv \cup {People})]
         /\ \A b \in Branch : Extends(source[b], source'[b])
<1>1. source \in [Branch -> Seq(Argv \cup {People})]
  BY DEF TypeOK
<1>2. ASSUME UNCHANGED source
      PROVE  /\ source' \in [Branch -> Seq(Argv \cup {People})]
             /\ \A b \in Branch : Extends(source[b], source'[b])
  <2>1. \A b \in Branch : Extends(source[b], source[b])
    BY <1>1, SameExtends
  <2> QED
    BY <1>1, <1>2, <2>1
<1>3. ASSUME NEW a \in Branch, NEW e \in Argv \cup {People},
             source' = [source EXCEPT ![a] = Append(source[a], e)]
      PROVE  /\ source' \in [Branch -> Seq(Argv \cup {People})]
             /\ \A b \in Branch : Extends(source[b], source'[b])
  <2>1. \A b \in Branch : source[b] \in Seq(Argv \cup {People}) /\ Extends(source[b], source[b])
    BY <1>1, SameExtends
  <2>2. Append(source[a], e) \in Seq(Argv \cup {People}) /\ Extends(source[a], Append(source[a], e))
    BY <1>1, AppendExtends
  <2> QED
    BY <1>1, <1>3, <2>1, <2>2
<1>4. CASE \E c \in Client : ClientStep(c)
  BY <1>2, <1>4 DEF ClientStep, Submit, FindCommand, Allocate, Reuse, Push, GiveUp, Poll, PollFails,
     Switch, Pull
<1>5. ASSUME NEW n \in Cmd, RunStep(n)
      PROVE  UNCHANGED source \/ (PushEffect(n) /\ Leased(n))
  BY <1>5 DEF RunStep, Retry, StartRun, Validate, NotEligible, Execute, EffectRefused,
     CheckDestination, PushEffect, ReadBack, PublishResult, Kill
<1>6. ASSUME NEW n \in Cmd, PushEffect(n), Leased(n)
      PROVE  \E e \in Argv \cup {People} : source' = [source EXCEPT ![n[2]] = Append(source[n[2]], e)]
  BY <1>6, PushAppends
<1>7. \A n \in Cmd : n[2] \in Branch
  BY Types
<1>8. CASE \E b \in Branch : PeopleCommit(b)
  BY <1>3, <1>8 DEF PeopleCommit
<1>9. CASE UNCHANGED vars
  BY <1>2, <1>9 DEF vars
<1> QED
  BY <1>2, <1>3, <1>4, <1>5, <1>6, <1>7, <1>8, <1>9 DEF Next

\* What a step may put on a CMD branch: the first request, one that asks the
\* same again, and the outcome of the run right after the request it executed.
FirstRequest(n, e) == command[n] = <<>> /\ e.kind = "request"
SameRequest(n, e) ==
  /\ command[n] # <<>> /\ e.kind = "request"
  /\ e.revision = command[n][1].revision /\ e.argv = command[n][1].argv
OutcomeOfRun(n, e) ==
  /\ Step(n) = "result" /\ Tip(n) = worker[n].request
  /\ e = Result(worker[n].request, worker[n].status, worker[n].changed)
Allowed(n, e) == FirstRequest(n, e) \/ SameRequest(n, e) \/ OutcomeOfRun(n, e)

LEMMA PushCreates ==
  ASSUME RemoteAssumption, TypeOK, NEW c \in Client, Follows(c), Push(c), ~Moved(c),
         command[Mine(c)] = <<>>
  PROVE  LET e == Request(at[c].asked.revision, at[c].asked.argv, 0)
         IN  /\ Mine(c) \in Cmd /\ e \in Commit /\ FirstRequest(Mine(c), e)
             /\ command' = [command EXCEPT ![Mine(c)] = Append(command[Mine(c)], e)]
             /\ Append(command[Mine(c)], e)[1] = e
<1> DEFINE e == Request(at[c].asked.revision, at[c].asked.argv, 0)
<1>1. at[c].asked \in Question /\ at[c].number \in Number
  BY DEF Push, Follows
<1>2. Mine(c) \in Cmd /\ at[c].asked.revision \in Nat /\ at[c].asked.argv \in Argv
  BY <1>1 DEF Mine, Cmd, Question
<1>3. e \in Commit /\ e.kind = "request"
  BY <1>2, CommitKinds DEF Request
<1>4. Append(command[Mine(c)], e) = <<e>>
  OBVIOUS
<1>5. command' = [command EXCEPT ![Mine(c)] = <<e>>]
  BY DEF Push
<1>6. <<e>>[1] = e
  OBVIOUS
<1> HIDE DEF e
<1>7. /\ Mine(c) \in Cmd /\ e \in Commit /\ FirstRequest(Mine(c), e)
      /\ command' = [command EXCEPT ![Mine(c)] = Append(command[Mine(c)], e)]
      /\ Append(command[Mine(c)], e)[1] = e
  BY <1>2, <1>3, <1>4, <1>5, <1>6 DEF FirstRequest
<1> QED
  BY <1>7 DEF e

LEMMA RetryRepeats ==
  ASSUME RemoteAssumption, TypeOK, NEW n \in Cmd, Ledger(n), Retry(n)
  PROVE  \E e \in Commit : SameRequest(n, e) /\ command' = [command EXCEPT ![n] = Append(command[n], e)]
<1> DEFINE last == command[n][Latest(n)]
           e == Request(last.revision, last.argv, last.retry + 1)
<1>1. command[n] # <<>>
  BY DEF Retry
<1>2. IsRequest(n, 1) /\ IsRequest(n, Latest(n)) /\ Latest(n) \in 1..Tip(n)
  BY <1>1, LatestRequest
<1>3. Asked(n, Latest(n)) = Asked(n, 1)
  BY <1>2 DEF Ledger, IsRequest
<1>4. last.revision = command[n][1].revision /\ last.argv = command[n][1].argv
  BY <1>3 DEF Asked
<1>5. last \in Commit /\ last.kind = "request"
  BY <1>2, Types DEF IsRequest
<1>6. last.revision \in Nat /\ last.argv \in Argv /\ last.retry + 1 \in Nat
  BY <1>5, CommitKinds
<1>7. e \in Commit /\ e.kind = "request" /\ e.revision = last.revision /\ e.argv = last.argv
  BY <1>6, CommitKinds DEF Request
<1>8. command' = [command EXCEPT ![n] = Append(command[n], e)]
  BY DEF Retry
<1> QED
  BY <1>1, <1>4, <1>7, <1>8 DEF SameRequest

LEMMA ResultAnswers ==
  ASSUME TypeOK, NEW n \in Cmd, RunIsTrue(n), PublishResult(n)
  PROVE  \/ UNCHANGED command
         \/ \E e \in Commit : OutcomeOfRun(n, e) /\ command' = [command EXCEPT ![n] = Append(command[n], e)]
<1> DEFINE e == Result(worker[n].request, worker[n].status, worker[n].changed)
<1>1. worker[n].request \in Nat /\ worker[n].status \in 0..2 /\ worker[n].changed \in BOOLEAN
  BY Types DEF Run
<1>2. e \in Commit
  BY <1>1, CommitKinds
<1>3. Tip(n) = worker[n].request => OutcomeOfRun(n, e)
  BY DEF OutcomeOfRun, PublishResult
<1> QED
  BY <1>2, <1>3 DEF PublishResult

\* Every CMD branch stays, or gets one commit that is allowed there.
LEMMA CommandStep ==
  ASSUME RemoteAssumption, TypeOK, \A n \in Cmd : Ledger(n) /\ RunIsTrue(n),
         \A c \in Client : Follows(c), [Next]_vars
  PROVE  /\ command' \in [Cmd -> Seq(Commit)]
         /\ \A n \in Cmd : \/ command'[n] = command[n]
                           \/ \E e \in Commit : Allowed(n, e) /\ command'[n] = Append(command[n], e)
<1>1. command \in [Cmd -> Seq(Commit)]
  BY DEF TypeOK
<1>2. ASSUME NEW m \in Cmd, NEW e \in Commit, Allowed(m, e),
             command' = [command EXCEPT ![m] = Append(command[m], e)]
      PROVE  /\ command' \in [Cmd -> Seq(Commit)]
             /\ \A n \in Cmd : \/ command'[n] = command[n]
                               \/ \E f \in Commit : Allowed(n, f) /\ command'[n] = Append(command[n], f)
  <2>1. Append(command[m], e) \in Seq(Commit)
    BY <1>1, AppendExtends
  <2>2. command' \in [Cmd -> Seq(Commit)]
    BY <1>1, <1>2, <2>1
  <2>3. \A n \in Cmd : command'[n] = IF n = m THEN Append(command[m], e) ELSE command[n]
    BY <1>1, <1>2
  <2> QED
    BY <1>2, <2>2, <2>3
<1>3. UNCHANGED command \/ \E m \in Cmd, e \in Commit :
        Allowed(m, e) /\ command' = [command EXCEPT ![m] = Append(command[m], e)]
  <2>1. ASSUME NEW c \in Client, Push(c)
        PROVE  UNCHANGED command \/ \E m \in Cmd, e \in Commit :
                 Allowed(m, e) /\ command' = [command EXCEPT ![m] = Append(command[m], e)]
    <3>1. CASE ~Moved(c) /\ command[Mine(c)] = <<>>
      BY <2>1, <3>1, PushCreates DEF Allowed
    <3>2. CASE ~(~Moved(c) /\ command[Mine(c)] = <<>>)
      BY <2>1, <3>2 DEF Push
    <3> QED
      BY <3>1, <3>2
  <2>2. ASSUME NEW c \in Client, ClientStep(c), ~Push(c)
        PROVE  UNCHANGED command
    BY <2>2 DEF ClientStep, Submit, FindCommand, Allocate, Reuse, GiveUp, Poll, PollFails, Switch, Pull
  <2>3. ASSUME NEW n \in Cmd, RunStep(n), ~Retry(n), ~PublishResult(n)
        PROVE  UNCHANGED command
    BY <2>3 DEF RunStep, StartRun, Validate, NotEligible, Execute, EffectRefused,
       CheckDestination, PushEffect, ReadBack, Kill
  <2>4. ASSUME NEW n \in Cmd, Retry(n) \/ PublishResult(n)
        PROVE  UNCHANGED command \/ \E m \in Cmd, e \in Commit :
                 Allowed(m, e) /\ command' = [command EXCEPT ![m] = Append(command[m], e)]
    BY <2>4, RetryRepeats, ResultAnswers DEF Allowed
  <2> QED
    BY <2>1, <2>2, <2>3, <2>4 DEF Next, PeopleCommit, vars
<1> QED
  BY <1>1, <1>2, <1>3

\* The same, commit by commit.
LEMMA CommandKeeps ==
  ASSUME RemoteAssumption, IInv, [Next]_vars, NEW n \in Cmd
  PROVE  /\ Tip(n)' \in Nat /\ Tip(n)' >= Tip(n) /\ DOMAIN command'[n] = 1..Tip(n)'
         /\ \A i \in 1..Tip(n) : command'[n][i] = command[n][i] /\ Asked(n, i)' = Asked(n, i)
         /\ \A i : IsRequest(n, i) => IsRequest(n, i)'
         /\ \A i \in DOMAIN command'[n] : i \in 1..Tip(n) \/
              (i = Tip(n) + 1 /\ command'[n][i] \in Commit /\ Allowed(n, command'[n][i]))
<1>1. /\ command[n] \in Seq(Commit) /\ Tip(n) \in Nat /\ DOMAIN command[n] = 1..Tip(n)
  BY Types DEF IInv
<1>2. \/ command'[n] = command[n]
      \/ \E e \in Commit : Allowed(n, e) /\ command'[n] = Append(command[n], e)
  BY CommandStep DEF IInv
<1>3. /\ Tip(n)' \in Nat /\ Tip(n)' >= Tip(n) /\ DOMAIN command'[n] = 1..Tip(n)'
      /\ \A i \in 1..Tip(n) : command'[n][i] = command[n][i]
      /\ \A i \in DOMAIN command'[n] : i \in 1..Tip(n) \/
           (i = Tip(n) + 1 /\ command'[n][i] \in Commit /\ Allowed(n, command'[n][i]))
  <2>1. CASE command'[n] = command[n]
    BY <1>1, <2>1 DEF Tip
  <2>2. ASSUME NEW e \in Commit, Allowed(n, e), command'[n] = Append(command[n], e)
        PROVE  /\ Tip(n)' \in Nat /\ Tip(n)' >= Tip(n) /\ DOMAIN command'[n] = 1..Tip(n)'
               /\ \A i \in 1..Tip(n) : command'[n][i] = command[n][i]
               /\ \A i \in DOMAIN command'[n] : i \in 1..Tip(n) \/
                    (i = Tip(n) + 1 /\ command'[n][i] \in Commit /\ Allowed(n, command'[n][i]))
    <3> DEFINE s == Append(command[n], e)
    <3>1. /\ s \in Seq(Commit) /\ Len(s) = Tip(n) + 1 /\ DOMAIN s = 1..Len(s)
          /\ (\A i \in 1..Tip(n) : s[i] = command[n][i]) /\ s[Tip(n) + 1] = e
      BY <1>1, AppendProperties, LenProperties DEF Tip
    <3>2. command'[n] = s /\ Tip(n)' = Len(s)
      BY <2>2 DEF Tip
    <3> HIDE DEF s
    <3>3. \A i \in DOMAIN s : i \in 1..Tip(n) \/ i = Tip(n) + 1
      BY <1>1, <3>1
    <3> QED
      BY <1>1, <2>2, <3>1, <3>2, <3>3
  <2> QED
    BY <1>2, <2>1, <2>2
<1>4. \A i \in 1..Tip(n) : Asked(n, i)' = Asked(n, i)
  BY <1>3 DEF Asked
<1>5. \A i : IsRequest(n, i) => IsRequest(n, i)'
  BY <1>1, <1>3 DEF IsRequest
<1> QED
  BY <1>3, <1>4, <1>5

\* What is on a source branch stays there.
LEMMA EffectStays ==
  ASSUME RemoteAssumption, IInv, [Next]_vars, NEW q \in Question,
         q.revision < Len(source[q.branch]), source[q.branch][q.revision + 1] = q.argv
  PROVE  q.revision < Len(source'[q.branch]) /\ source'[q.branch][q.revision + 1] = q.argv
<1>1. q.branch \in Branch /\ q.revision \in Nat
  BY DEF Question
<1>2. /\ source[q.branch] \in Seq(Argv \cup {People}) /\ Len(source[q.branch]) \in Nat
      /\ source'[q.branch] \in Seq(Argv \cup {People}) /\ Extends(source[q.branch], source'[q.branch])
  BY <1>1, Types, SourceStep DEF IInv
<1>3. Len(source'[q.branch]) \in Nat
  BY <1>2, LenProperties
<1> QED
  BY <1>1, <1>2, <1>3 DEF Extends

LEMMA AskedType ==
  ASSUME TypeOK, NEW n \in Cmd, NEW i, IsRequest(n, i)
  PROVE  Asked(n, i) \in Question /\ i \in 1..Tip(n)
<1>1. i \in 1..Tip(n) /\ command[n][i] \in Commit /\ n[2] \in Branch
  BY Types DEF IsRequest
<1> QED
  BY <1>1, CommitKinds DEF IsRequest, Asked, Question

LEMMA EffectedStays ==
  ASSUME RemoteAssumption, IInv, [Next]_vars, NEW n \in Cmd, NEW i, IsRequest(n, i), Effected(n, i)
  PROVE  Effected(n, i)'
<1>1. Asked(n, i) \in Question /\ i \in 1..Tip(n)
  BY AskedType DEF IInv
<1>2. Asked(n, i)' = Asked(n, i)
  BY <1>1, CommandKeeps
<1> DEFINE q == Asked(n, i)
<1>3. q.revision < Len(source[q.branch]) /\ source[q.branch][q.revision + 1] = q.argv
  BY DEF Effected
<1>4. q.revision < Len(source'[q.branch]) /\ source'[q.branch][q.revision + 1] = q.argv
  BY <1>1, <1>3, EffectStays
<1> QED
  BY <1>2, <1>4 DEF Effected

\* The ledger of a CMD branch.
LEMMA LedgerStep ==
  ASSUME RemoteAssumption, IInv, [Next]_vars, NEW n \in Cmd
  PROVE  Ledger(n)'
<1>1. Ledger(n) /\ RunIsTrue(n) /\ TypeOK
  BY DEF IInv
<1>2. Tip(n) \in Nat /\ DOMAIN command[n] = 1..Tip(n) /\ (command[n] # <<>> <=> Tip(n) > 0)
  BY <1>1, Types
<1>3. /\ Tip(n)' \in Nat /\ DOMAIN command'[n] = 1..Tip(n)'
      /\ \A i \in 1..Tip(n) : command'[n][i] = command[n][i] /\ Asked(n, i)' = Asked(n, i)
      /\ \A i : IsRequest(n, i) => IsRequest(n, i)'
      /\ \A i \in DOMAIN command'[n] : i \in 1..Tip(n) \/
           (i = Tip(n) + 1 /\ command'[n][i] \in Commit /\ Allowed(n, command'[n][i]))
  BY CommandKeeps
<1> SUFFICES ASSUME NEW i \in DOMAIN command'[n]
             PROVE  /\ command'[n][i].kind = "request" => Asked(n, i)' = Asked(n, 1)'
                    /\ command'[n][i].kind = "result" =>
                         i > 1 /\ IsRequest(n, i - 1)' /\ command'[n][i].request = i - 1
  BY DEF Ledger
<1>4. CASE i \in 1..Tip(n)
  <2>1. 1 \in 1..Tip(n)
    BY <1>2, <1>4
  <2>2. /\ command[n][i].kind = "request" => Asked(n, i) = Asked(n, 1)
        /\ command[n][i].kind = "result" => i > 1 /\ IsRequest(n, i - 1) /\ command[n][i].request = i - 1
    BY <1>1, <1>2, <1>4 DEF Ledger
  <2> QED
    BY <1>3, <1>4, <2>1, <2>2
<1>5. CASE i = Tip(n) + 1 /\ command'[n][i] \in Commit /\ Allowed(n, command'[n][i])
  <2> DEFINE e == command'[n][i]
  <2>1. CASE FirstRequest(n, e)
    <3>1. i = 1 /\ e.kind = "request"
      BY <1>2, <1>5, <2>1 DEF FirstRequest
    <3> QED
      BY <3>1
  <2>2. CASE SameRequest(n, e)
    <3>1. e.kind = "request" /\ 1 \in 1..Tip(n)
      BY <1>2, <2>2 DEF SameRequest
    <3>2. e.revision = command'[n][1].revision /\ e.argv = command'[n][1].argv
      BY <1>3, <2>2, <3>1 DEF SameRequest
    <3> QED
      BY <3>1, <3>2 DEF Asked
  <2>3. CASE OutcomeOfRun(n, e)
    <3>1. e.kind = "result" /\ e.request = Tip(n) /\ IsRequest(n, Tip(n))
      BY <1>1, <2>3 DEF OutcomeOfRun, Result, RunIsTrue
    <3>2. Tip(n) > 0 /\ i - 1 = Tip(n) /\ i > 1
      BY <1>2, <1>5, <3>1 DEF IsRequest
    <3> QED
      BY <1>3, <3>1, <3>2
  <2> QED
    BY <1>5, <2>1, <2>2, <2>3 DEF Allowed
<1> QED
  BY <1>3, <1>4, <1>5

\* A published success is true when it is published, and stays true.
LEMMA ResultsStep ==
  ASSUME RemoteAssumption, IInv, [Next]_vars, NEW n \in Cmd
  PROVE  ResultsAreTrue(n)'
<1>1. Ledger(n) /\ RunIsTrue(n) /\ ResultsAreTrue(n) /\ TypeOK
  BY DEF IInv
<1>2. Tip(n) \in Nat /\ DOMAIN command[n] = 1..Tip(n)
  BY <1>1, Types
<1> SUFFICES ASSUME NEW i \in DOMAIN command'[n], command'[n][i].kind = "result",
                    command'[n][i].status = 0, command'[n][i].changed
             PROVE  Effected(n, i - 1)'
  BY DEF ResultsAreTrue
<1>3. CASE i \in 1..Tip(n)
  <2>1. command'[n][i] = command[n][i]
    BY <1>3, CommandKeeps
  <2>2. Effected(n, i - 1) /\ IsRequest(n, i - 1)
    BY <1>1, <1>2, <1>3, <2>1 DEF ResultsAreTrue, Ledger
  <2> QED
    BY <2>2, EffectedStays
<1>4. CASE i = Tip(n) + 1 /\ Allowed(n, command'[n][i])
  <2>1. OutcomeOfRun(n, command'[n][i])
    BY <1>4 DEF Allowed, FirstRequest, SameRequest
  <2>2. /\ Step(n) = "result" /\ Tip(n) = worker[n].request
        /\ worker[n].status = 0 /\ worker[n].changed
    BY <2>1 DEF OutcomeOfRun, Result
  <2>3. Effected(n, worker[n].request) /\ IsRequest(n, worker[n].request)
    BY <1>1, <2>2 DEF RunIsTrue
  <2>4. i - 1 = worker[n].request
    BY <1>2, <1>4, <2>2
  <2> QED
    BY <2>3, <2>4, EffectedStays
<1> QED
  BY <1>3, <1>4, CommandKeeps

\* One hosted run moves at a time.
RunPCs == {"idle", "validate", "execute", "check", "effect", "readback", "result"}
RunAt(n, to, status, changed) ==
  [worker[n] EXCEPT !.pc = to, !.status = status, !.changed = changed]

LEMMA MovesType ==
  ASSUME TypeOK, NEW n \in Cmd, NEW to \in RunPCs, NEW status \in 0..2, NEW changed \in BOOLEAN,
         Moves(n, to, status, changed)
  PROVE  /\ worker' \in [Cmd -> Run] /\ \A m \in Cmd \ {n} : worker'[m] = worker[m]
         /\ worker'[n] = RunAt(n, to, status, changed)
<1> DEFINE r == RunAt(n, to, status, changed)
<1>1. worker \in [Cmd -> Run] /\ worker[n] \in Run
  BY DEF TypeOK
<1>2. r \in Run
  BY <1>1 DEF Run, RunPCs, RunAt
<1>3. worker' = [worker EXCEPT ![n] = r]
  BY <1>1 DEF Moves, RunAt
<1> HIDE DEF r
<1>4. worker' \in [Cmd -> Run] /\ worker'[n] = r /\ \A m \in Cmd \ {n} : worker'[m] = worker[m]
  BY <1>1, <1>2, <1>3
<1> QED
  BY <1>4 DEF r

LEMMA StopsType ==
  ASSUME TypeOK, NEW n \in Cmd, Stops(n)
  PROVE  /\ worker' \in [Cmd -> Run] /\ \A m \in Cmd \ {n} : worker'[m] = worker[m]
         /\ worker'[n] = Quiet
<1>1. worker \in [Cmd -> Run] /\ Quiet \in Run
  BY DEF TypeOK, Quiet, Run
<1> QED
  BY <1>1 DEF Stops

\* Where a step may take a hosted run.
RunMoves(n) ==
  \/ worker'[n] = Quiet
  \/ \E i \in Nat : IsRequest(n, i) /\ worker'[n] = [Quiet EXCEPT !.pc = "validate", !.request = i]
  \/ /\ Step(n) # "idle"
     /\ \E to \in RunPCs, status \in 0..2, changed \in BOOLEAN :
          /\ worker'[n] = RunAt(n, to, status, changed)
          /\ to = "readback" => Step(n) = "effect" /\ PushEffect(n) /\ Leased(n)
          /\ to = "result" /\ status = 0 /\ changed =>
               Step(n) = "readback" /\ worker[n].status = 0 /\ worker[n].changed

LEMMA RunMovesStep ==
  ASSUME TypeOK, NEW n \in Cmd, RunStep(n), ~Retry(n)
  PROVE  /\ worker' \in [Cmd -> Run] /\ \A m \in Cmd \ {n} : worker'[m] = worker[m]
         /\ RunMoves(n)
<1>1. /\ worker \in [Cmd -> Run] /\ worker[n] \in Run
      /\ worker[n].status \in 0..2 /\ worker[n].changed \in BOOLEAN
  BY DEF TypeOK, Run
<1>2. CASE Stops(n)
  BY <1>2, StopsType DEF RunMoves
<1>3. ASSUME NEW to \in RunPCs, NEW status \in 0..2, NEW changed \in BOOLEAN, Moves(n, to, status, changed),
             Step(n) # "idle",
             to = "readback" => Step(n) = "effect" /\ PushEffect(n) /\ Leased(n),
             to = "result" /\ status = 0 /\ changed =>
               Step(n) = "readback" /\ worker[n].status = 0 /\ worker[n].changed
      PROVE  /\ worker' \in [Cmd -> Run] /\ \A m \in Cmd \ {n} : worker'[m] = worker[m]
             /\ RunMoves(n)
  <2>1. /\ worker' \in [Cmd -> Run] /\ \A m \in Cmd \ {n} : worker'[m] = worker[m]
        /\ worker'[n] = RunAt(n, to, status, changed)
    BY <1>3, MovesType, Zenon
  <2>2. /\ Step(n) # "idle"
        /\ \E t \in RunPCs, st \in 0..2, ch \in BOOLEAN :
             /\ worker'[n] = RunAt(n, t, st, ch)
             /\ t = "readback" => Step(n) = "effect" /\ PushEffect(n) /\ Leased(n)
             /\ t = "result" /\ st = 0 /\ ch =>
                  Step(n) = "readback" /\ worker[n].status = 0 /\ worker[n].changed
    BY <1>3, <2>1, Zenon
  <2> QED
    BY <2>1, <2>2, Zenon DEF RunMoves
<1>a. ASSUME NEW status \in 1..2, NEW changed \in BOOLEAN, Moves(n, "result", status, changed),
             Step(n) # "idle"
      PROVE  /\ worker' \in [Cmd -> Run] /\ \A m \in Cmd \ {n} : worker'[m] = worker[m]
             /\ RunMoves(n)
  <2>1. "result" \in RunPCs /\ status \in 0..2 /\ status # 0 /\ "result" # "readback"
    BY DEF RunPCs
  <2> QED
    BY <1>3, <1>a, <2>1, Zenon
<1>b. 1 \in 1..2 /\ 2 \in 1..2 /\ TRUE \in BOOLEAN /\ FALSE \in BOOLEAN
  OBVIOUS
<1>4. CASE \E i \in 1..(2 * MaxRetry + 1) : StartRun(n, i)
  <2>1. PICK i \in 1..(2 * MaxRetry + 1) : StartRun(n, i)
    BY <1>4
  <2>2. i \in Nat /\ IsRequest(n, i)
    BY <2>1, Types DEF StartRun, IsRequest
  <2>3. [Quiet EXCEPT !.pc = "validate", !.request = i] \in Run
    <3>1. Quiet \in Run
      BY DEF Quiet, Run
    <3> QED
      BY <2>2, <3>1 DEF Run
  <2>4. worker' = [worker EXCEPT ![n] = [Quiet EXCEPT !.pc = "validate", !.request = i]]
    BY <2>1 DEF StartRun
  <2> QED
    BY <1>1, <2>2, <2>3, <2>4 DEF RunMoves
<1>5. CASE Validate(n)
  <2>1. Stops(n) \/ (Moves(n, "execute", worker[n].status, worker[n].changed) /\ Step(n) # "idle")
    BY <1>5 DEF Validate, Proceeds
  <2>2. "execute" \in RunPCs
    BY DEF RunPCs
  <2> QED
    BY <1>1, <1>2, <1>3, <2>1, <2>2
<1>6. CASE NotEligible(n)
  <2>1. Moves(n, "result", 2, FALSE) /\ Step(n) # "idle"
    BY <1>6 DEF NotEligible
  <2> QED
    BY <1>a, <1>b, <2>1, Zenon
<1>7. ASSUME NEW status \in 0..1, NEW changed \in BOOLEAN, Execute(n, status, changed)
      PROVE  /\ worker' \in [Cmd -> Run] /\ \A m \in Cmd \ {n} : worker'[m] = worker[m]
             /\ RunMoves(n)
  <2>1. /\ Step(n) # "idle" /\ "check" \in RunPCs /\ "result" \in RunPCs /\ status \in 0..2
        /\ \/ Stops(n)
           \/ changed /\ Moves(n, "check", status, changed)
           \/ ~changed /\ Moves(n, "result", status, changed)
    BY <1>7 DEF Execute, RunPCs
  <2> QED
    BY <1>2, <1>3, <2>1
<1>8. CASE EffectRefused(n)
  <2>1. Moves(n, "result", 1, worker[n].changed) /\ Step(n) # "idle" /\ "result" \in RunPCs
    BY <1>8 DEF EffectRefused, RunPCs
  <2> QED
    BY <1>1, <1>3, <2>1
<1>9. CASE CheckDestination(n)
  <2>1. /\ Step(n) # "idle" /\ "result" \in RunPCs /\ "effect" \in RunPCs
        /\ \/ Moves(n, "result", 1, worker[n].changed)
           \/ Moves(n, "effect", worker[n].status, worker[n].changed)
    BY <1>9 DEF CheckDestination, Proceeds, RunPCs
  <2> QED
    BY <1>1, <1>3, <2>1
<1>10. CASE PushEffect(n)
  <2>1. /\ Step(n) = "effect" /\ "result" \in RunPCs /\ "readback" \in RunPCs
        /\ \/ Moves(n, "result", 1, TRUE) \/ Moves(n, "result", 1, worker[n].changed)
           \/ Leased(n) /\ Moves(n, "readback", worker[n].status, worker[n].changed)
    BY <1>10 DEF PushEffect, Proceeds, RunPCs
  <2>2. CASE Moves(n, "result", 1, TRUE) \/ Moves(n, "result", 1, worker[n].changed)
    BY <1>1, <1>a, <1>b, <2>1, <2>2, Zenon
  <2>3. CASE Leased(n) /\ Moves(n, "readback", worker[n].status, worker[n].changed)
    BY <1>1, <1>3, <1>10, <2>1, <2>3
  <2> QED
    BY <2>1, <2>2, <2>3
<1>11. CASE ReadBack(n)
  <2>1. /\ Step(n) = "readback" /\ "result" \in RunPCs
        /\ \/ Moves(n, "result", 1, TRUE)
           \/ Moves(n, "result", worker[n].status, worker[n].changed)
    BY <1>11 DEF ReadBack, Proceeds, RunPCs
  <2>2. CASE Moves(n, "result", 1, TRUE)
    BY <1>a, <1>b, <2>1, <2>2, Zenon
  <2>3. CASE Moves(n, "result", worker[n].status, worker[n].changed)
    BY <1>1, <1>3, <2>1, <2>3
  <2> QED
    BY <2>1, <2>2, <2>3
<1>12. CASE PublishResult(n) \/ Kill(n)
  BY <1>2, <1>12 DEF PublishResult, Kill
<1> QED
  BY <1>4, <1>5, <1>6, <1>7, <1>8, <1>9, <1>10, <1>11, <1>12 DEF RunStep

LEMMA WorkerStep ==
  ASSUME TypeOK, [Next]_vars
  PROVE  /\ worker' \in [Cmd -> Run]
         /\ \A n \in Cmd : worker'[n] = worker[n] \/ (RunStep(n) /\ RunMoves(n))
<1>1. worker \in [Cmd -> Run]
  BY DEF TypeOK
<1>2. CASE UNCHANGED worker
  BY <1>1, <1>2
<1>3. ASSUME NEW n \in Cmd, RunStep(n), ~Retry(n)
      PROVE  /\ worker' \in [Cmd -> Run]
             /\ \A m \in Cmd : worker'[m] = worker[m] \/ (RunStep(m) /\ RunMoves(m))
  <2>1. /\ worker' \in [Cmd -> Run] /\ RunMoves(n)
        /\ \A m \in Cmd \ {n} : worker'[m] = worker[m]
    BY <1>3, RunMovesStep
  <2> QED
    BY <1>3, <2>1
<1>4. ASSUME NEW n \in Cmd, Retry(n)
      PROVE  UNCHANGED worker
  BY <1>4 DEF Retry
<1>5. ASSUME NEW c \in Client, ClientStep(c)
      PROVE  UNCHANGED worker
  BY <1>5 DEF ClientStep, Submit, FindCommand, Allocate, Reuse, Push, GiveUp, Poll, PollFails,
     Switch, Pull
<1>6. ASSUME NEW b \in Branch, PeopleCommit(b)
      PROVE  UNCHANGED worker
  BY <1>6 DEF PeopleCommit
<1>7. CASE UNCHANGED vars
  BY <1>2, <1>7 DEF vars
<1> QED
  BY <1>2, <1>3, <1>4, <1>5, <1>6, <1>7 DEF Next

\* A run that read its push back knows that it is there.
LEMMA RunTrueStep ==
  ASSUME RemoteAssumption, IInv, [Next]_vars, NEW n \in Cmd
  PROVE  RunIsTrue(n)'
<1>1. TypeOK /\ RunIsTrue(n)
  BY DEF IInv
<1>2. \A i : IsRequest(n, i) => IsRequest(n, i)' /\ (Effected(n, i) => Effected(n, i)')
  BY CommandKeeps, EffectedStays
<1>3. CASE worker'[n] = worker[n]
  BY <1>1, <1>2, <1>3 DEF RunIsTrue, Step, Effected, Asked, IsRequest
<1>4. CASE worker'[n] = Quiet
  BY <1>4 DEF RunIsTrue, Quiet, Step
<1>5. CASE \E i \in Nat : IsRequest(n, i) /\ worker'[n] = [Quiet EXCEPT !.pc = "validate", !.request = i]
  <2>1. PICK i \in Nat : IsRequest(n, i) /\ worker'[n] = [Quiet EXCEPT !.pc = "validate", !.request = i]
    BY <1>5
  <2>2. worker'[n].pc = "validate" /\ worker'[n].request = i
    BY <2>1 DEF Quiet
  <2> QED
    BY <1>2, <2>1, <2>2 DEF RunIsTrue, Step, IsRequest
<1>6. ASSUME NEW to \in RunPCs, NEW status \in 0..2, NEW changed \in BOOLEAN, Step(n) # "idle",
             worker'[n] = RunAt(n, to, status, changed),
             to = "readback" => Step(n) = "effect" /\ PushEffect(n) /\ Leased(n),
             to = "result" /\ status = 0 /\ changed =>
               Step(n) = "readback" /\ worker[n].status = 0 /\ worker[n].changed
      PROVE  RunIsTrue(n)'
  <2>1. worker[n] \in Run
    BY <1>1 DEF TypeOK
  <2>2. /\ worker'[n].pc = to /\ worker'[n].request = worker[n].request
        /\ worker'[n].status = status /\ worker'[n].changed = changed
    BY <1>6, <2>1 DEF Run, RunAt
  <2>3. IsRequest(n, worker[n].request) /\ IsRequest(n, worker[n].request)'
    <3>1. IsRequest(n, worker[n].request)
      BY <1>1, <1>6 DEF RunIsTrue
    <3>2. IsRequest(n, worker[n].request)'
      BY <1>2, <2>2, <3>1 DEF IsRequest
    <3> QED
      BY <3>1, <3>2
  <2>4. ASSUME to = "readback"
        PROVE  Effected(n, worker[n].request)'
    <3>1. PushEffect(n) /\ Leased(n)
      BY <1>6, <2>4
    <3>2. /\ Of(n).argv \in Argv /\ Of(n).revision = Len(source[n[2]])
          /\ source' = [source EXCEPT ![n[2]] = Append(source[n[2]], Of(n).argv)]
      BY <1>1, <3>1, PushAppends
    <3>3. n[2] \in Branch /\ source[n[2]] \in Seq(Argv \cup {People}) /\ source \in [Branch -> Seq(Argv \cup {People})]
      BY <1>1, Types DEF TypeOK
    <3>4. /\ Len(source'[n[2]]) = Len(source[n[2]]) + 1
          /\ source'[n[2]][Len(source[n[2]]) + 1] = Of(n).argv /\ Len(source[n[2]]) \in Nat
      BY <3>2, <3>3, AppendProperties, LenProperties
    <3>5. Asked(n, worker[n].request)' = [branch |-> n[2], revision |-> Of(n).revision, argv |-> Of(n).argv]
      BY <2>2, <3>1 DEF Asked, Of, PushEffect
    <3> DEFINE q == [branch |-> n[2], revision |-> Of(n).revision, argv |-> Of(n).argv]
    <3>6. q.revision < Len(source'[q.branch]) /\ source'[q.branch][q.revision + 1] = q.argv
      BY <3>2, <3>4
    <3>7. worker'[n].request = worker[n].request
      BY <2>2
    <3> HIDE DEF q
    <3>8. Asked(n, worker[n].request)' = q
      BY <3>5 DEF q
    <3> QED
      BY <3>6, <3>7, <3>8 DEF Effected
  <2>5. ASSUME to = "result", status = 0, changed
        PROVE  Effected(n, worker[n].request)'
    BY <1>1, <1>2, <1>6, <2>2, <2>3, <2>5 DEF RunIsTrue
  <2> QED
    BY <2>2, <2>3, <2>4, <2>5 DEF RunIsTrue, Step
<1> QED
  BY <1>1, <1>3, <1>4, <1>5, <1>6, WorkerStep DEF RunMoves

\* Whom a branch answers: it goes on asking what it asked.
Asks(n, q) == command[n] # <<>> /\ Asked(n, 1) = q

LEMMA AsksStays ==
  ASSUME RemoteAssumption, IInv, [Next]_vars, NEW n \in Cmd, NEW q, Asks(n, q)
  PROVE  Asks(n, q)'
<1>1. Tip(n) \in Nat /\ Tip(n) > 0
  BY Types DEF IInv, Asks
<1>2. Tip(n)' \in Nat /\ Tip(n)' > 0 /\ Asked(n, 1)' = Asked(n, 1)
  BY <1>1, CommandKeeps
<1>3. command'[n] # <<>>
  BY <1>2, EmptySeq DEF Tip
<1> QED
  BY <1>2, <1>3 DEF Asks

\* A client step moves the client that takes it.
LEMMA LocalUpdate ==
  ASSUME TypeOK, NEW c \in Client, NEW l \in Local, at' = [at EXCEPT ![c] = l]
  PROVE  at' \in [Client -> Local] /\ at'[c] = l /\ \A d \in Client \ {c} : at'[d] = at[d]
BY DEF TypeOK

LEMMA IdleType ==
  ASSUME NEW l \in Local
  PROVE  Idle(l.head, l.have) \in Local /\ Idle(l.head, l.have).pc = "idle"
BY DEF Idle, Local

AnswerTrue(c) ==
  answer[c] # Unanswered =>
    /\ answer[c].of = at[c].asked
    /\ answer[c].status = 0 /\ answer[c].changed =>
         LET of == answer[c].of
         IN  of.revision < Len(source[of.branch]) /\ source[of.branch][of.revision + 1] = of.argv

LEMMA AnswerKept ==
  ASSUME RemoteAssumption, IInv, [Next]_vars, NEW c \in Client, answer'[c] = answer[c],
         answer[c] # Unanswered => at'[c].asked = at[c].asked
  PROVE  AnswerTrue(c)'
<1> SUFFICES ASSUME answer[c] # Unanswered
             PROVE  /\ answer[c].of = at'[c].asked
                    /\ answer[c].status = 0 /\ answer[c].changed =>
                         /\ answer[c].of.revision < Len(source'[answer[c].of.branch])
                         /\ source'[answer[c].of.branch][answer[c].of.revision + 1] = answer[c].of.argv
  BY DEF AnswerTrue, Unanswered
<1> DEFINE q == answer[c].of
<1>1. /\ q = at[c].asked /\ at[c].asked \in Question
      /\ answer[c].status = 0 /\ answer[c].changed =>
           q.revision < Len(source[q.branch]) /\ source[q.branch][q.revision + 1] = q.argv
  BY DEF IInv, AnswerIsTrue, Follows
<1> HIDE DEF q
<1>2. answer[c].status = 0 /\ answer[c].changed =>
           q.revision < Len(source'[q.branch]) /\ source'[q.branch][q.revision + 1] = q.argv
  BY <1>1, EffectStays
<1> QED
  BY <1>1, <1>2 DEF q

\* Where a step may leave a client that is not answered by it.
LEMMA ClientKept ==
  ASSUME RemoteAssumption, IInv, [Next]_vars, NEW c \in Client,
         at'[c] = at[c], answer'[c] = answer[c]
  PROVE  Follows(c)' /\ AnswerTrue(c)'
<1>1. AnswerTrue(c)'
  BY AnswerKept
<1>2. Follows(c)
  BY DEF IInv
<1>3. ASSUME pc(c) \in {"reuse", "poll"}
      PROVE  (command[Mine(c)] # <<>> /\ Asked(Mine(c), 1) = at[c].asked)'
  <2> DEFINE m == Mine(c)
             q == at[c].asked
  <2>1. m \in Cmd /\ Asks(m, q)
    BY <1>2, <1>3 DEF Follows, Mine, Cmd, Question, Asks
  <2>2. m' = m /\ q' = q
    BY DEF Mine
  <2>3. \A n \in Cmd : \A r : Asks(n, r) => Asks(n, r)'
    BY AsksStays
  <2> QED
    BY <2>1, <2>2, <2>3 DEF Asks, Asked
<1>4. pc(c)' = pc(c)
  BY DEF pc
<1> QED
  BY <1>1, <1>2, <1>3, <1>4 DEF Follows, Unanswered

LEMMA FollowsBy ==
  ASSUME NEW c \in Client, NEW l \in Local, at'[c] = l,
         l.pc # "idle" => answer'[c] = Unanswered,
         l.pc # "idle" \/ answer'[c] # Unanswered => l.asked \in Question,
         l.pc \in {"reuse", "push", "poll"} => l.number \in Number,
         l.pc \in {"reuse", "poll"} => \E n \in Cmd :
           n = <<l.number, l.asked.branch>> /\ Asks(n, l.asked)'
  PROVE  Follows(c)'
<1>1. pc(c)' = l.pc /\ Mine(c)' = <<l.number, l.asked.branch>>
  BY DEF pc, Mine
<1>2. l.pc \in {"reuse", "poll"} =>
        (command[Mine(c)] # <<>> /\ Asked(Mine(c), 1) = at[c].asked)'
  BY <1>1 DEF Asks, Asked
<1> QED
  BY <1>1, <1>2 DEF Follows, Unanswered

LEMMA SubmitStep ==
  ASSUME RemoteAssumption, IInv, [Next]_vars, NEW c \in Client, NEW argv \in Argv, Submit(c, argv)
  PROVE  /\ at' \in [Client -> Local] /\ (\A d \in Client \ {c} : at'[d] = at[d])
         /\ UNCHANGED answer /\ Follows(c)' /\ AnswerTrue(c)'
<1> DEFINE q == [Source(c) EXCEPT !.argv = argv]
           l == [at[c] EXCEPT !.pc = "list", !.asked = q]
<1>1. at \in [Client -> Local] /\ at[c] \in Local /\ TypeOK
  BY DEF IInv, TypeOK
<1>2. q = [branch |-> at[c].head, revision |-> at[c].have[at[c].head], argv |-> argv]
  BY DEF Source
<1>3. q \in Question
  BY <1>1, <1>2 DEF Question, Local
<1> HIDE DEF q
<1>4. l \in Local /\ l.pc = "list" /\ l.asked = q
  BY <1>1, <1>3 DEF Local
<1>5. at' = [at EXCEPT ![c] = l] /\ UNCHANGED answer /\ answer[c] = Unanswered
  BY <1>1 DEF Submit, q
<1> HIDE DEF l
<1>6. at' \in [Client -> Local] /\ at'[c] = l /\ \A d \in Client \ {c} : at'[d] = at[d]
  BY <1>1, <1>4, <1>5, LocalUpdate
<1>7. Follows(c)'
  BY <1>3, <1>4, <1>5, <1>6, FollowsBy
<1>8. AnswerTrue(c)'
  BY <1>5, AnswerKept
<1> QED
  BY <1>5, <1>6, <1>7, <1>8

\* A step to l of a client that waits for an answer.
LEMMA WaitingStep ==
  ASSUME RemoteAssumption, IInv, [Next]_vars, NEW c \in Client, pc(c) # "idle",
         NEW l \in Local, at' = [at EXCEPT ![c] = l], UNCHANGED answer,
         l.pc # "idle" => l.asked = at[c].asked,
         l.pc \in {"reuse", "push", "poll"} => l.number \in Number,
         l.pc \in {"reuse", "poll"} => \E n \in Cmd :
           n = <<l.number, l.asked.branch>> /\ Asks(n, l.asked)'
  PROVE  /\ at' \in [Client -> Local] /\ (\A d \in Client \ {c} : at'[d] = at[d])
         /\ UNCHANGED answer /\ Follows(c)' /\ AnswerTrue(c)'
<1>1. answer[c] = Unanswered /\ at[c].asked \in Question /\ TypeOK
  BY DEF IInv, Follows
<1>2. at' \in [Client -> Local] /\ at'[c] = l /\ \A d \in Client \ {c} : at'[d] = at[d]
  BY <1>1, LocalUpdate
<1>3. Follows(c)'
  BY <1>1, <1>2, FollowsBy
<1>4. AnswerTrue(c)'
  BY <1>1, AnswerKept
<1> QED
  BY <1>2, <1>3, <1>4

LEMMA DoneStep ==
  ASSUME RemoteAssumption, IInv, [Next]_vars, NEW c \in Client, pc(c) # "idle",
         Ends(c), UNCHANGED answer
  PROVE  /\ at' \in [Client -> Local] /\ (\A d \in Client \ {c} : at'[d] = at[d])
         /\ UNCHANGED answer /\ Follows(c)' /\ AnswerTrue(c)'
<1>1. at[c] \in Local
  BY DEF IInv, TypeOK
<1>2. Done(c) \in Local /\ Done(c).pc = "idle"
  BY <1>1, IdleType DEF Done
<1> QED
  BY <1>2, WaitingStep DEF Ends

\* Back to the list, or on to a number.
LEMMA GotoStep ==
  ASSUME RemoteAssumption, IInv, [Next]_vars, NEW c \in Client, pc(c) # "idle",
         Goto(c, "list"), UNCHANGED answer
  PROVE  /\ at' \in [Client -> Local] /\ (\A d \in Client \ {c} : at'[d] = at[d])
         /\ UNCHANGED answer /\ Follows(c)' /\ AnswerTrue(c)'
<1> DEFINE l == [at[c] EXCEPT !.pc = "list"]
<1>1. at \in [Client -> Local] /\ at[c] \in Local
  BY DEF IInv, TypeOK
<1>2. l \in Local /\ l.pc = "list" /\ l.asked = at[c].asked
  BY <1>1 DEF Local
<1>3. at' = [at EXCEPT ![c] = l]
  BY <1>1 DEF Goto
<1> HIDE DEF l
<1> QED
  BY <1>2, <1>3, WaitingStep

LEMMA FindStep ==
  ASSUME RemoteAssumption, IInv, [Next]_vars, NEW c \in Client, FindCommand(c)
  PROVE  /\ at' \in [Client -> Local] /\ (\A d \in Client \ {c} : at'[d] = at[d])
         /\ UNCHANGED answer /\ Follows(c)' /\ AnswerTrue(c)'
<1>1. PICK n \in Cmd : /\ Matches(n, at[c].asked)
                       /\ at' = [at EXCEPT ![c].pc = "reuse", ![c].number = n[1], ![c].request = Tip(n)]
  BY DEF FindCommand
<1> DEFINE l == [at[c] EXCEPT !.pc = "reuse", !.number = n[1], !.request = Tip(n)]
<1>2. at \in [Client -> Local] /\ at[c] \in Local /\ TypeOK /\ Ledger(n) /\ pc(c) # "idle"
  BY DEF IInv, TypeOK, FindCommand
<1>3. n[1] \in Number /\ Tip(n) \in Nat /\ n = <<n[1], n[2]>> /\ n[1] \in Nat
  BY <1>2, Types DEF Number
<1>4. l \in Local /\ l.pc = "reuse" /\ l.asked = at[c].asked /\ l.number = n[1]
  BY <1>2, <1>3 DEF Local
<1>5. at' = [at EXCEPT ![c] = l]
  BY <1>1, <1>2
<1>6. Asks(n, at[c].asked) /\ n[2] = at[c].asked.branch
  <2>1. command[n] # <<>> /\ n[2] = at[c].asked.branch
    BY <1>1 DEF Matches
  <2>2. IsRequest(n, 1)
    BY <1>2, <2>1, LatestRequest
  <2>3. Asked(n, 1) = at[c].asked
    BY <1>1, <2>2 DEF Matches, IsRequest
  <2> QED
    BY <2>1, <2>3 DEF Asks
<1> HIDE DEF l
<1>7. PICK v \in Local : /\ v.pc = "reuse" /\ v.asked = at[c].asked /\ v.number = n[1]
                        /\ at' = [at EXCEPT ![c] = v]
  BY <1>4, <1>5
<1>8. Asks(n, v.asked)
  BY <1>6, <1>7
<1>9. Asks(n, v.asked)'
  BY <1>8, AsksStays
<1>10. n = <<v.number, v.asked.branch>>
  BY <1>3, <1>6, <1>7
<1>11. UNCHANGED answer
  BY DEF FindCommand
<1> QED
  BY <1>2, <1>3, <1>7, <1>9, <1>10, <1>11, WaitingStep

LEMMA AllocateStep ==
  ASSUME RemoteAssumption, IInv, [Next]_vars, NEW c \in Client, Allocate(c)
  PROVE  /\ at' \in [Client -> Local] /\ (\A d \in Client \ {c} : at'[d] = at[d])
         /\ UNCHANGED answer /\ Follows(c)' /\ AnswerTrue(c)'
<1>1. pc(c) # "idle" /\ UNCHANGED answer
  BY DEF Allocate
<1>2. CASE Moved(c)
  <2>1. Ends(c)
    BY <1>2 DEF Allocate, Ends
  <2> QED
    BY <1>1, <2>1, DoneStep
<1>3. CASE ~Moved(c)
  <2>1. PICK number \in Number : at' = [at EXCEPT ![c] = [at[c] EXCEPT !.pc = "push", !.number = number]]
    BY <1>3 DEF Allocate
  <2> DEFINE l == [at[c] EXCEPT !.pc = "push", !.number = number]
  <2>2. at[c] \in Local /\ number \in Nat
    BY DEF IInv, TypeOK, Number
  <2>3. l \in Local /\ l.pc = "push" /\ l.asked = at[c].asked /\ l.number = number
    BY <2>2 DEF Local
  <2>4. at' = [at EXCEPT ![c] = l]
    BY <2>1
  <2> HIDE DEF l
  <2> QED
    BY <1>1, <2>3, <2>4, WaitingStep
<1> QED
  BY <1>2, <1>3

LEMMA ReuseStep ==
  ASSUME RemoteAssumption, IInv, [Next]_vars, NEW c \in Client, Reuse(c)
  PROVE  /\ at' \in [Client -> Local] /\ (\A d \in Client \ {c} : at'[d] = at[d])
         /\ UNCHANGED answer /\ Follows(c)' /\ AnswerTrue(c)'
<1>1. pc(c) # "idle" /\ UNCHANGED answer /\ pc(c) = "reuse"
  BY DEF Reuse
<1>2. CASE Moved(c)
  <2>1. Ends(c)
    BY <1>2 DEF Reuse, Ends
  <2> QED
    BY <1>1, <2>1, DoneStep
<1>3. CASE ~Moved(c) /\ Tip(Mine(c)) # at[c].request
  <2>1. Goto(c, "list")
    BY <1>3 DEF Reuse, Goto
  <2> QED
    BY <1>1, <2>1, GotoStep
<1>4. CASE ~Moved(c) /\ Tip(Mine(c)) = at[c].request
  <2>1. /\ at[c].asked \in Question /\ at[c].number \in Number
        /\ command[Mine(c)] # <<>> /\ Asked(Mine(c), 1) = at[c].asked
    BY <1>1 DEF IInv, Follows
  <2>2. Mine(c) \in Cmd
    BY <2>1 DEF Mine, Cmd, Question
  <2>3. Ledger(Mine(c)) /\ TypeOK /\ at[c] \in Local
    BY <2>2 DEF IInv, TypeOK
  <2>4. Latest(Mine(c)) \in Nat
    BY <2>1, <2>2, <2>3, LatestRequest, Types
  <2> DEFINE l == [at[c] EXCEPT !.pc = "poll", !.request = Latest(Mine(c))]
  <2>5. l \in Local /\ l.pc = "poll" /\ l.asked = at[c].asked /\ l.number = at[c].number
    BY <2>3, <2>4 DEF Local
  <2>6. at' = [at EXCEPT ![c] = l]
    BY <1>4 DEF Reuse
  <2> HIDE DEF l
  <2>7. PICK v \in Local : /\ v.pc = "poll" /\ v.asked = at[c].asked /\ v.number = at[c].number
                          /\ at' = [at EXCEPT ![c] = v]
    BY <2>5, <2>6
  <2>8. PICK n \in Cmd : n = <<v.number, v.asked.branch>> /\ Asks(n, v.asked)
    BY <2>1, <2>2, <2>7 DEF Mine, Asks
  <2>9. Asks(n, v.asked)'
    BY <2>8, AsksStays
  <2>10. v.number \in Number
    BY <2>1, <2>7
  <2> QED
    BY <1>1, <2>7, <2>8, <2>9, <2>10, WaitingStep
<1> QED
  BY <1>2, <1>3, <1>4

LEMMA PushStep ==
  ASSUME RemoteAssumption, IInv, [Next]_vars, NEW c \in Client, Push(c)
  PROVE  /\ at' \in [Client -> Local] /\ (\A d \in Client \ {c} : at'[d] = at[d])
         /\ UNCHANGED answer /\ Follows(c)' /\ AnswerTrue(c)'
<1>1. pc(c) # "idle" /\ UNCHANGED answer /\ pc(c) = "push"
  BY DEF Push
<1>2. CASE Ends(c)
  BY <1>1, <1>2, DoneStep
<1>3. CASE Goto(c, "list")
  BY <1>1, <1>3, GotoStep
<1>4. CASE /\ ~Moved(c) /\ command[Mine(c)] = <<>>
           /\ at' = [at EXCEPT ![c].pc = "poll", ![c].request = 1]
  <2>1. at[c].asked \in Question /\ at[c].number \in Number /\ Follows(c) /\ TypeOK /\ at[c] \in Local
    BY <1>1 DEF IInv, Follows, TypeOK
  <2> DEFINE e == Request(at[c].asked.revision, at[c].asked.argv, 0)
  <2>2. /\ Mine(c) \in Cmd /\ e \in Commit
        /\ command' = [command EXCEPT ![Mine(c)] = Append(command[Mine(c)], e)]
        /\ Append(command[Mine(c)], e)[1] = e
    BY <1>4, <2>1, PushCreates
  <2>3. e.revision = at[c].asked.revision /\ e.argv = at[c].asked.argv
    BY DEF Request
  <2> HIDE DEF e
  <2>4. command \in [Cmd -> Seq(Commit)] /\ command[Mine(c)] \in Seq(Commit)
    BY <2>1, <2>2 DEF TypeOK
  <2>5. command'[Mine(c)] = Append(command[Mine(c)], e) /\ Append(command[Mine(c)], e) # <<>>
    BY <2>2, <2>4, AppendProperties
  <2> DEFINE l == [at[c] EXCEPT !.pc = "poll", !.request = 1]
  <2>6. l \in Local /\ l.pc = "poll" /\ l.asked = at[c].asked /\ l.number = at[c].number
    BY <2>1 DEF Local
  <2>7. at' = [at EXCEPT ![c] = l]
    BY <1>4, <2>1 DEF TypeOK
  <2> HIDE DEF l
  <2>8. PICK v \in Local : /\ v.pc = "poll" /\ v.asked = at[c].asked /\ v.number = at[c].number
                          /\ at' = [at EXCEPT ![c] = v]
    BY <2>6, <2>7
  <2>9. PICK n \in Cmd : n = <<v.number, v.asked.branch>> /\ n = Mine(c)
    BY <2>2, <2>8 DEF Mine
  <2>10. v.asked = [branch |-> v.asked.branch, revision |-> v.asked.revision, argv |-> v.asked.argv]
    BY <2>1, <2>8 DEF Question
  <2>11. command'[n] # <<>> /\ command'[n][1].revision = v.asked.revision /\ command'[n][1].argv = v.asked.argv
    BY <2>2, <2>3, <2>5, <2>8, <2>9
  <2>12. n[2] = v.asked.branch
    BY <2>9
  <2>13. Asks(n, v.asked)'
    BY <2>10, <2>11, <2>12 DEF Asks, Asked
  <2>14. v.number \in Number
    BY <2>1, <2>8
  <2> QED
    BY <1>1, <2>8, <2>9, <2>13, <2>14, WaitingStep
<1> QED
  BY <1>2, <1>3, <1>4 DEF Push

\* Who is answered polled the attempt that he submitted, and its result is true.
LEMMA PollStep ==
  ASSUME RemoteAssumption, IInv, [Next]_vars, NEW c \in Client, Poll(c)
  PROVE  /\ at' \in [Client -> Local] /\ (\A d \in Client \ {c} : at'[d] = at[d])
         /\ answer' \in [Client -> [of : Question \cup {Nobody}, status : -1..2, changed : BOOLEAN]]
         /\ (\A d \in Client \ {c} : answer'[d] = answer[d]) /\ Follows(c)' /\ AnswerTrue(c)'
<1> DEFINE n == <<at[c].number, at[c].head>>
           result == command[n][Tip(n)]
           a == [of |-> Asked(n, result.request), status |-> result.status, changed |-> result.changed]
           l == [at[c] EXCEPT !.pc = "idle"]
<1>1. /\ pc(c) = "poll" /\ command[n] # <<>> /\ n = Mine(c) /\ Completed(n)
      /\ answer' = [answer EXCEPT ![c] = a] /\ UNCHANGED source
  BY DEF Poll, ExpectedAttempt
<1>2. at' = [at EXCEPT ![c] = l]
  BY DEF Poll, Goto
<1>3. /\ at[c].asked \in Question /\ at[c].number \in Number /\ Asked(Mine(c), 1) = at[c].asked
      /\ at[c] \in Local /\ TypeOK
  BY <1>1 DEF IInv, Follows, TypeOK
<1>4. n \in Cmd /\ Asked(n, 1) = at[c].asked
  BY <1>1, <1>3 DEF Mine, Cmd, Question
<1>5. Ledger(n) /\ ResultsAreTrue(n)
  BY <1>4 DEF IInv
<1>6. result.kind = "result" /\ Tip(n) \in DOMAIN command[n] /\ result \in Commit
  <2>1. result.kind = "result" /\ Latest(n) \in 1..Tip(n)
    BY <1>1, <1>3, <1>4, <1>5, LatestRequest
  <2>2. Tip(n) \in Nat /\ DOMAIN command[n] = 1..Tip(n) /\ \A i \in 1..Tip(n) : command[n][i] \in Commit
    BY <1>3, <1>4, Types
  <2>3. Tip(n) \in 1..Tip(n)
    BY <2>1, <2>2
  <2> QED
    BY <2>1, <2>2, <2>3
<1>7. /\ result.request = Tip(n) - 1 /\ IsRequest(n, Tip(n) - 1)
      /\ (result.status = 0 /\ result.changed => Effected(n, Tip(n) - 1))
  BY <1>5, <1>6 DEF Ledger, ResultsAreTrue
<1>8. result.status \in 0..2 /\ result.changed \in BOOLEAN
  BY <1>6, CommitKinds
<1>9. Asked(n, result.request) = at[c].asked
  BY <1>4, <1>5, <1>7 DEF Ledger, IsRequest
<1> HIDE DEF n, result
<1>10. /\ a.of = at[c].asked /\ a.status = result.status /\ a.changed = result.changed
       /\ a \in [of : Question \cup {Nobody}, status : -1..2, changed : BOOLEAN]
  BY <1>3, <1>8, <1>9
<1>11. l \in Local /\ l.pc = "idle" /\ l.asked = at[c].asked
  BY <1>3 DEF Local
<1>12. a.status = 0 /\ a.changed =>
         /\ a.of.revision < Len(source[a.of.branch]) /\ source[a.of.branch][a.of.revision + 1] = a.of.argv
  BY <1>7, <1>9, <1>10 DEF Effected
<1> HIDE DEF a, l
<1>13. at' \in [Client -> Local] /\ at'[c] = l /\ \A d \in Client \ {c} : at'[d] = at[d]
  BY <1>2, <1>3, <1>11, LocalUpdate
<1>14. answer \in [Client -> [of : Question \cup {Nobody}, status : -1..2, changed : BOOLEAN]]
  BY <1>3 DEF TypeOK
<1>15. /\ answer' \in [Client -> [of : Question \cup {Nobody}, status : -1..2, changed : BOOLEAN]]
       /\ answer'[c] = a /\ \A d \in Client \ {c} : answer'[d] = answer[d]
  BY <1>1, <1>10, <1>14
<1>16. AnswerTrue(c)'
  BY <1>1, <1>10, <1>11, <1>12, <1>13, <1>15 DEF AnswerTrue
<1>17. Follows(c)'
  <2>1. PICK v \in Local : v.pc = "idle" /\ v.asked = at[c].asked /\ at'[c] = v
    BY <1>11, <1>13
  <2> QED
    BY <1>3, <2>1, FollowsBy
<1> QED
  BY <1>13, <1>15, <1>16, <1>17

\* What people do in a clone changes nothing that it asks.
LEMMA PeopleStep ==
  ASSUME RemoteAssumption, IInv, [Next]_vars, NEW c \in Client, NEW b \in Branch,
         Switch(c, b) \/ Pull(c, b)
  PROVE  /\ at' \in [Client -> Local] /\ (\A d \in Client \ {c} : at'[d] = at[d])
         /\ UNCHANGED answer /\ Follows(c)' /\ AnswerTrue(c)'
<1>1. /\ at \in [Client -> Local] /\ at[c] \in Local /\ TypeOK /\ Follows(c) /\ UNCHANGED answer
      /\ Len(source[b]) \in Nat
  BY Types DEF IInv, TypeOK, Switch, Pull
<1>2. PICK v \in Local : /\ v.pc = pc(c) /\ v.asked = at[c].asked /\ v.number = at[c].number
                        /\ at' = [at EXCEPT ![c] = v]
  <2>1. CASE Switch(c, b)
    <3>1. [at[c] EXCEPT !.head = b] \in Local
      BY <1>1 DEF Local
    <3> QED
      BY <1>1, <2>1, <3>1 DEF Switch, pc, Local
  <2>2. CASE Pull(c, b)
    <3> DEFINE l == [at[c] EXCEPT !.have = [at[c].have EXCEPT ![b] = Len(source[b])]]
    <3>1. l \in Local /\ l.pc = pc(c) /\ l.asked = at[c].asked /\ l.number = at[c].number
      BY <1>1 DEF Local, pc
    <3>2. at' = [at EXCEPT ![c] = l]
      BY <1>1, <2>2 DEF Pull
    <3> HIDE DEF l
    <3> QED
      BY <3>1, <3>2
  <2> QED
    BY <2>1, <2>2
<1>3. at' \in [Client -> Local] /\ at'[c] = v /\ \A d \in Client \ {c} : at'[d] = at[d]
  BY <1>1, <1>2, LocalUpdate
<1>4. AnswerTrue(c)'
  BY <1>1, <1>2, <1>3, AnswerKept
<1>5. ASSUME v.pc \in {"reuse", "poll"}
      PROVE  \E n \in Cmd : n = <<v.number, v.asked.branch>> /\ Asks(n, v.asked)'
  <2>1. PICK n \in Cmd : n = <<v.number, v.asked.branch>> /\ Asks(n, v.asked)
    BY <1>1, <1>2, <1>5 DEF Follows, Mine, Cmd, Question, Asks
  <2>2. Asks(n, v.asked)'
    BY <2>1, AsksStays
  <2> QED
    BY <2>1, <2>2
<1>6. Follows(c)'
  <2>1. /\ v.pc # "idle" => answer'[c] = Unanswered
        /\ v.pc # "idle" \/ answer'[c] # Unanswered => v.asked \in Question
        /\ v.pc \in {"reuse", "push", "poll"} => v.number \in Number
    BY <1>1, <1>2 DEF Follows
  <2> QED
    BY <1>3, <1>5, <2>1, FollowsBy
<1> QED
  BY <1>1, <1>3, <1>4, <1>6

LEMMA ClientMoves ==
  ASSUME RemoteAssumption, IInv, [Next]_vars, NEW c \in Client, ClientStep(c)
  PROVE  /\ at' \in [Client -> Local] /\ (\A d \in Client \ {c} : at'[d] = at[d])
         /\ answer' \in [Client -> [of : Question \cup {Nobody}, status : -1..2, changed : BOOLEAN]]
         /\ (\A d \in Client \ {c} : answer'[d] = answer[d]) /\ Follows(c)' /\ AnswerTrue(c)'
<1>1. answer \in [Client -> [of : Question \cup {Nobody}, status : -1..2, changed : BOOLEAN]]
  BY DEF IInv, TypeOK
<1>2. CASE Poll(c)
  BY <1>2, PollStep
<1>3. CASE GiveUp(c) \/ PollFails(c)
  <2>1. pc(c) # "idle" /\ Ends(c) /\ UNCHANGED answer
    BY <1>3 DEF GiveUp, PollFails
  <2> QED
    BY <1>1, <2>1, DoneStep
<1>4. CASE FindCommand(c) \/ Allocate(c) \/ Reuse(c) \/ Push(c)
  BY <1>1, <1>4, FindStep, AllocateStep, ReuseStep, PushStep
<1>5. CASE \E argv \in Argv : Submit(c, argv)
  BY <1>1, <1>5, SubmitStep
<1>6. CASE \E b \in Branch : Switch(c, b) \/ Pull(c, b)
  BY <1>1, <1>6, PeopleStep
<1> QED
  BY <1>2, <1>3, <1>4, <1>5, <1>6 DEF ClientStep

LEMMA ClientsStep ==
  ASSUME RemoteAssumption, IInv, [Next]_vars
  PROVE  /\ at' \in [Client -> Local]
         /\ answer' \in [Client -> [of : Question \cup {Nobody}, status : -1..2, changed : BOOLEAN]]
         /\ \A c \in Client : Follows(c)' /\ AnswerTrue(c)'
<1>1. CASE UNCHANGED <<at, answer>>
  BY <1>1, ClientKept DEF IInv, TypeOK
<1>2. ASSUME NEW c \in Client, ClientStep(c)
      PROVE  /\ at' \in [Client -> Local]
             /\ answer' \in [Client -> [of : Question \cup {Nobody}, status : -1..2, changed : BOOLEAN]]
             /\ \A d \in Client : Follows(d)' /\ AnswerTrue(d)'
  <2>1. /\ at' \in [Client -> Local] /\ (\A d \in Client \ {c} : at'[d] = at[d])
        /\ answer' \in [Client -> [of : Question \cup {Nobody}, status : -1..2, changed : BOOLEAN]]
        /\ (\A d \in Client \ {c} : answer'[d] = answer[d]) /\ Follows(c)' /\ AnswerTrue(c)'
    BY <1>2, ClientMoves
  <2>2. \A d \in Client \ {c} : Follows(d)' /\ AnswerTrue(d)'
    BY <2>1, ClientKept
  <2> QED
    BY <2>1, <2>2
<1>3. ASSUME NEW n \in Cmd, RunStep(n)
      PROVE  UNCHANGED <<at, answer>>
  BY <1>3 DEF RunStep, Retry, StartRun, Validate, NotEligible, Execute, EffectRefused,
     CheckDestination, PushEffect, ReadBack, PublishResult, Kill
<1>4. ASSUME NEW b \in Branch, PeopleCommit(b)
      PROVE  UNCHANGED <<at, answer>>
  BY <1>4 DEF PeopleCommit
<1>5. CASE UNCHANGED vars
  BY <1>1, <1>5 DEF vars
<1> QED
  BY <1>1, <1>2, <1>3, <1>4, <1>5 DEF Next

LEMMA InitIInv == RemoteAssumption /\ Init => IInv
<1> SUFFICES ASSUME RemoteAssumption, Init PROVE IInv
  OBVIOUS
<1>1. \A n \in Cmd : command[n] = <<>> /\ worker[n] = Quiet
  BY DEF Init
<1>2. \A c \in Client : at[c].pc = "idle" /\ answer[c] = Unanswered
  BY DEF Init, Idle
<1>3. TypeOK
  <2>1. source \in [Branch -> Seq(Argv \cup {People})] /\ command \in [Cmd -> Seq(Commit)]
    BY EmptySeq DEF Init
  <2>2. Quiet \in Run
    BY DEF Quiet, Run
  <2>3. \A c \in Client : Idle(Home[c], [b \in Branch |-> 0]) \in Local
    BY DEF RemoteAssumption, Idle, Local
  <2>4. Unanswered \in [of : Question \cup {Nobody}, status : -1..2, changed : BOOLEAN]
    BY DEF Unanswered
  <2> QED
    BY <2>1, <2>2, <2>3, <2>4 DEF TypeOK, Init
<1>4. AnswerIsTrue
  BY <1>2 DEF AnswerIsTrue
<1>5. \A n \in Cmd : DOMAIN command[n] = {} /\ Step(n) = "idle"
  BY <1>1 DEF Quiet, Step
<1>6. \A n \in Cmd : Ledger(n) /\ ResultsAreTrue(n) /\ RunIsTrue(n)
  BY <1>5 DEF Ledger, ResultsAreTrue, RunIsTrue
<1>7. \A c \in Client : Follows(c)
  BY <1>2 DEF Follows, pc
<1> QED
  BY <1>3, <1>4, <1>6, <1>7 DEF IInv

LEMMA StepIInv ==
  ASSUME RemoteAssumption, IInv, [Next]_vars
  PROVE  IInv'
<1>1. /\ at' \in [Client -> Local]
      /\ answer' \in [Client -> [of : Question \cup {Nobody}, status : -1..2, changed : BOOLEAN]]
      /\ \A c \in Client : Follows(c)' /\ AnswerTrue(c)'
  BY ClientsStep
<1>2. /\ source' \in [Branch -> Seq(Argv \cup {People})] /\ command' \in [Cmd -> Seq(Commit)]
      /\ worker' \in [Cmd -> Run]
  BY SourceStep, CommandStep, WorkerStep DEF IInv
<1>3. TypeOK'
  BY <1>1, <1>2 DEF TypeOK
<1>4. AnswerIsTrue'
  BY <1>1 DEF AnswerIsTrue, AnswerTrue
<1>5. \A n \in Cmd : Ledger(n)' /\ ResultsAreTrue(n)' /\ RunIsTrue(n)'
  BY LedgerStep, ResultsStep, RunTrueStep
<1> QED
  BY <1>1, <1>3, <1>4, <1>5 DEF IInv

\* In every reachable state a CMD branch asks one thing, its results answer the
\* requests right below them, and what they call a success is on the source branch.
THEOREM Invariance ==
  ASSUME RemoteAssumption
  PROVE  Spec => []IInv
<1>1. Init => IInv
  BY InitIInv
<1>2. IInv /\ [Next]_vars => IInv'
  BY StepIInv
<1> QED
  BY <1>1, <1>2, PTL DEF Spec

\* Who is told an outcome is told that of his own command on his own source revision,
\* and success means that what it committed is on the source branch, right on top of it.
THEOREM AnswersAreTrue ==
  ASSUME RemoteAssumption
  PROVE  Spec => []AnswerIsTrue
<1>1. IInv => AnswerIsTrue
  BY DEF IInv
<1> QED
  BY <1>1, Invariance, PTL

LEMMA GrowStep == ASSUME RemoteAssumption, IInv, [Next]_vars PROVE SourcesGrow
<1> SUFFICES ASSUME NEW b \in Branch PROVE IsPrefix(source[b], source'[b])
  BY DEF SourcesGrow
<1>1. /\ source[b] \in Seq(Argv \cup {People}) /\ source'[b] \in Seq(Argv \cup {People})
      /\ Extends(source[b], source'[b])
  BY SourceStep, Types DEF IInv
<1> QED
  BY <1>1, PrefixIsExtends

\* No command, repeated or not, and nobody who publishes its outcome ever
\* removes a commit of a source branch.
THEOREM NothingLost ==
  ASSUME RemoteAssumption
  PROVE  Spec => NothingOverwritten
BY Invariance, GrowStep, PTL DEF Spec, NothingOverwritten
=============================================================================

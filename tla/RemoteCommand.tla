--------------------------- MODULE RemoteCommand ---------------------------
(***************************************************************************)
(* A command with --remote.  remote_request.py stores its argv on a branch  *)
(* CMD-<number>-<source branch> of the remote, hosted-rwf-forward.py and    *)
(* remote_invocation.py execute it there in a clone of the source revision  *)
(* and publish what it committed, remote_result.py appends the outcome to   *)
(* the CMD branch, remote_status.py polls for it.                           *)
(* A branch is the sequence of its commits, a revision its length.          *)
(***************************************************************************)
EXTENDS Integers, SequencesExt

CONSTANTS
  Client,     \* clones that submit
  Argv,       \* commands
  Branch,     \* source branches
  Home,       \* the branch each client has checked out first
  Restless,   \* clients that check out other branches
  MaxNumber,  \* bound: numbers of commands
  MaxTip,     \* bound: commits that people push to a source branch
  MaxRetry    \* bound: attempts after the first one

RemoteAssumption ==
  Home \in [Client -> Branch] /\ MaxNumber \in Nat /\ MaxTip \in Nat /\ MaxRetry \in Nat

VARIABLES
  source,   \* the remote: its source branches
  command,  \* the remote: its CMD branches, <<>> where there is none
  worker,   \* the hosted run of each CMD branch, one at a time
  at,       \* each client: its HEAD, what it does and in which step it is
  answer    \* each client: the outcome it was told

vars == <<source, command, worker, at, answer>>

Number == 1..MaxNumber
Cmd == Number \X Branch

\* Commits: of people, by the command argv, and of the two kinds of a CMD branch.
People == "people"
Request(revision, argv, retry) == [kind |-> "request", revision |-> revision, argv |-> argv, retry |-> retry]
Result(request, status, changed) == [kind |-> "result", request |-> request, status |-> status, changed |-> changed]

Nobody == [branch |-> "none", revision |-> 0, argv |-> "none"]
Quiet == [pc |-> "idle", request |-> 0, status |-> 0, changed |-> FALSE]
Idle(head, have) == [pc |-> "idle", head |-> head, have |-> have, asked |-> Nobody, number |-> 0, request |-> 0]
Unanswered == [of |-> Nobody, status |-> -1, changed |-> FALSE]

pc(c) == at[c].pc
Step(n) == worker[n].pc

Init ==
  /\ source = [b \in Branch |-> <<>>]
  /\ command = [n \in Cmd |-> <<>>]
  /\ worker = [n \in Cmd |-> Quiet]
  /\ at = [c \in Client |-> Idle(Home[c], [b \in Branch |-> 0])]
  /\ answer = [c \in Client |-> Unanswered]

Tip(n) == Len(command[n])
\* The latest request of a branch, and what a request of it asks for.
Latest(n) == Max({i \in DOMAIN command[n] : command[n][i].kind = "request"})
Asked(n, i) == [branch |-> n[2], revision |-> command[n][i].revision, argv |-> command[n][i].argv]

-----------------------------------------------------------------------------
\* The client: submit_request.

Goto(c, to) == at' = [at EXCEPT ![c].pc = to]
Done(c) == Idle(at[c].head, at[c].have)
Ends(c) == at' = [at EXCEPT ![c] = Done(c)]

\* HEAD and its local tip.
Source(c) == [branch |-> at[c].head, revision |-> at[c].have[at[c].head], argv |-> at[c].asked.argv]
Moved(c) == Source(c) # at[c].asked

Submit(c, argv) ==
  /\ pc(c) = "idle" /\ answer[c] = Unanswered
  /\ at' = [at EXCEPT ![c].pc = "list", ![c].asked = [Source(c) EXCEPT !.argv = argv]]
  /\ UNCHANGED <<source, command, worker, answer>>

\* _matches: requests of this very argv and source, and their results.
Matches(n, asked) ==
  /\ n[2] = asked.branch /\ command[n] # <<>>
  /\ \A i \in DOMAIN command[n] : command[n][i].kind = "request" => Asked(n, i) = asked

\* A matching branch is used again; otherwise the next number over all source branches.
FindCommand(c) ==
  /\ pc(c) = "list"
  /\ \E n \in Cmd :
       /\ Matches(n, at[c].asked)
       /\ at' = [at EXCEPT ![c].pc = "reuse", ![c].number = n[1], ![c].request = Tip(n)]
  /\ UNCHANGED <<source, command, worker, answer>>

Allocate(c) ==
  /\ pc(c) = "list" /\ ~\E n \in Cmd : Matches(n, at[c].asked)
  /\ LET number == Max({0} \cup {n[1] : n \in {m \in Cmd : command[m] # <<>>}}) + 1
     IN  /\ number \in Number
         /\ at' = [at EXCEPT ![c] = IF Moved(c) THEN Done(c) ELSE [@ EXCEPT !.pc = "push", !.number = number]]
  /\ UNCHANGED <<source, command, worker, answer>>

Mine(c) == <<at[c].number, at[c].asked.branch>>

\* The source and the branch are as they were listed, else list again.
Reuse(c) ==
  /\ pc(c) = "reuse"
  /\ at' = [at EXCEPT ![c] =
       IF Moved(c) THEN Done(c)
       ELSE IF Tip(Mine(c)) # @.request THEN [@ EXCEPT !.pc = "list"]
       ELSE [@ EXCEPT !.pc = "poll", !.request = Latest(Mine(c))]]
  /\ UNCHANGED <<source, command, worker, answer>>

\* The push creates the branch or finds it taken; its answer may be lost, then it looks
\* taken.
Push(c) ==
  /\ pc(c) = "push"
  /\ IF Moved(c) THEN Ends(c) /\ UNCHANGED command
     ELSE IF command[Mine(c)] # <<>> THEN Goto(c, "list") /\ UNCHANGED command
     ELSE /\ command' = [command EXCEPT ![Mine(c)] = <<Request(at[c].asked.revision, at[c].asked.argv, 0)>>]
          /\ \/ at' = [at EXCEPT ![c].pc = "poll", ![c].request = 1]
             \/ Goto(c, "list")
  /\ UNCHANGED <<source, worker, answer>>

\* Rejected, no connection, killed, or no patience left.
GiveUp(c) == pc(c) # "idle" /\ Ends(c) /\ UNCHANGED <<source, command, worker, answer>>

\* retry_request, for an owner of the status who permits it.
Retry(n) ==
  /\ command[n] # <<>> /\ command[n][Latest(n)].retry < MaxRetry
  /\ LET last == command[n][Latest(n)]
     IN  command' = [command EXCEPT ![n] = Append(@, Request(last.revision, last.argv, last.retry + 1))]
  /\ UNCHANGED <<source, worker, at, answer>>

-----------------------------------------------------------------------------
\* The client: remote_status.  A snapshot that moves while it is read is read again.

\* Mutant: the number alone selects the attempt.
AnyAttempt(c, n) == TRUE
\* The polled attempt is the one that was submitted.
ExpectedAttempt(c, n) == n = Mine(c) /\ Latest(n) = at[c].request

Completed(n) == Tip(n) > Latest(n)

\* The number is looked up among those of the branch that HEAD names now.
Poll(c) ==
  LET n == <<at[c].number, at[c].head>>
      result == command[n][Tip(n)]
  IN  /\ pc(c) = "poll" /\ command[n] # <<>> /\ ExpectedAttempt(c, n) /\ Completed(n)
      /\ answer' = [answer EXCEPT ![c] = [of |-> Asked(n, result.request),
                                          status |-> result.status, changed |-> result.changed]]
      /\ Goto(c, "idle") /\ UNCHANGED <<source, command, worker>>

\* Superseded, or no such number.
PollFails(c) ==
  LET n == <<at[c].number, at[c].head>>
  IN  /\ pc(c) = "poll" /\ (command[n] = <<>> \/ ~ExpectedAttempt(c, n))
      /\ Ends(c) /\ UNCHANGED <<source, command, worker, answer>>

\* People, in the clone and elsewhere.
Switch(c, b) ==
  /\ c \in Restless /\ b # at[c].head
  /\ at' = [at EXCEPT ![c].head = b] /\ UNCHANGED <<source, command, worker, answer>>
Pull(c, b) ==
  /\ at[c].have[b] # Len(source[b])
  /\ at' = [at EXCEPT ![c].have[b] = Len(source[b])] /\ UNCHANGED <<source, command, worker, answer>>
PeopleCommit(b) ==
  /\ Len(source[b]) < MaxTip
  /\ source' = [source EXCEPT ![b] = Append(@, People)] /\ UNCHANGED <<command, worker, at, answer>>

-----------------------------------------------------------------------------
\* The hosted run: invoke_numbered.

Moves(n, to, status, changed) ==
  worker' = [worker EXCEPT ![n] = [@ EXCEPT !.pc = to, !.status = status, !.changed = changed]]
Proceeds(n, to) == Moves(n, to, worker[n].status, worker[n].changed)
Stops(n) == worker' = [worker EXCEPT ![n] = Quiet]
Of(n) == command[n][worker[n].request]

\* A push starts it, anyone repeats it.
StartRun(n, i) ==
  /\ Step(n) = "idle" /\ i \in DOMAIN command[n] /\ command[n][i].kind = "request"
  /\ worker' = [worker EXCEPT ![n] = [Quiet EXCEPT !.pc = "validate", !.request = i]]
  /\ UNCHANGED <<source, command, at, answer>>

\* The request is the tip of its branch, the source where it was then.
Valid(n) ==
  /\ Tip(n) = worker[n].request
  /\ Len(source[n[2]]) = Of(n).revision
  /\ \A i \in 1..Tip(n) : command[n][i].kind = "request" => Asked(n, i) = Asked(n, Tip(n))

Validate(n) ==
  /\ Step(n) = "validate"
  /\ IF Valid(n) THEN Proceeds(n, "execute") ELSE Stops(n)
  /\ UNCHANGED <<source, command, at, answer>>

\* The grammar of the source revision does not admit the command.
NotEligible(n) ==
  /\ Step(n) = "execute" /\ Moves(n, "result", 2, FALSE)
  /\ UNCHANGED <<source, command, at, answer>>

\* In a clone of the source revision, where it commits or not.
Execute(n, status, changed) ==
  /\ Step(n) = "execute"
  /\ IF Tip(n) = worker[n].request
     THEN Moves(n, IF changed THEN "check" ELSE "result", status, changed)
     ELSE Stops(n)
  /\ UNCHANGED <<source, command, at, answer>>

\* Uncommitted changes, rewritten history: status 1, nothing is published.
EffectRefused(n) ==
  /\ Step(n) = "check" /\ Moves(n, "result", 1, worker[n].changed)
  /\ UNCHANGED <<source, command, at, answer>>

\* The destination is where the clone had it.
CheckDestination(n) ==
  /\ Step(n) = "check"
  /\ IF Len(source[n[2]]) = Of(n).revision THEN Proceeds(n, "effect") ELSE Moves(n, "result", 1, worker[n].changed)
  /\ UNCHANGED <<source, command, at, answer>>

\* Mutant: the check before is trusted, the push forces.
Forced(n) == TRUE
\* --force-with-lease.
Leased(n) == Len(source[n[2]]) = Of(n).revision

PushEffect(n) ==
  /\ Step(n) = "effect"
  /\ IF Leased(n)
     THEN /\ source' = [source EXCEPT ![n[2]] = Append(SubSeq(@, 1, Of(n).revision), Of(n).argv)]
          /\ \/ Proceeds(n, "readback")
             \/ Moves(n, "result", 1, TRUE)   \* the answer is lost
     ELSE Moves(n, "result", 1, worker[n].changed) /\ UNCHANGED source
  /\ UNCHANGED <<command, at, answer>>

\* What is there now is exactly what was pushed.
ReadBack(n) ==
  /\ Step(n) = "readback"
  /\ IF Len(source[n[2]]) = Of(n).revision + 1 THEN Proceeds(n, "result") ELSE Moves(n, "result", 1, TRUE)
  /\ UNCHANGED <<source, command, at, answer>>

\* publish_result: onto this request or not at all.
PublishResult(n) ==
  /\ Step(n) = "result" /\ Stops(n)
  /\ command' = IF Tip(n) = worker[n].request
                THEN [command EXCEPT ![n] = Append(@, Result(worker[n].request, worker[n].status, worker[n].changed))]
                ELSE command
  /\ UNCHANGED <<source, at, answer>>

Kill(n) == Step(n) # "idle" /\ Stops(n) /\ UNCHANGED <<source, command, at, answer>>

ClientStep(c) ==
  \/ \E argv \in Argv : Submit(c, argv)
  \/ FindCommand(c) \/ Allocate(c) \/ Reuse(c) \/ Push(c) \/ GiveUp(c) \/ Poll(c) \/ PollFails(c)
  \/ \E b \in Branch : Switch(c, b) \/ Pull(c, b)

RunStep(n) ==
  \/ Retry(n) \/ \E i \in 1..(2 * MaxRetry + 1) : StartRun(n, i)
  \/ Validate(n) \/ NotEligible(n) \/ \E status \in 0..1, changed \in BOOLEAN : Execute(n, status, changed)
  \/ EffectRefused(n) \/ CheckDestination(n) \/ PushEffect(n) \/ ReadBack(n) \/ PublishResult(n) \/ Kill(n)

Next ==
  \/ \E c \in Client : ClientStep(c)
  \/ \E n \in Cmd : RunStep(n)
  \/ \E b \in Branch : PeopleCommit(b)

Spec == Init /\ [][Next]_vars

-----------------------------------------------------------------------------
\* Who is told an outcome is told that of his own command on his own source
\* revision; success means that what the command committed is on the source branch, right
\* on top of that revision.
AnswerIsTrue ==
  \A c \in Client : answer[c] # Unanswered =>
    /\ answer[c].of = at[c].asked
    /\ answer[c].status = 0 /\ answer[c].changed =>
         LET of == answer[c].of
         IN  of.revision < Len(source[of.branch]) /\ source[of.branch][of.revision + 1] = of.argv

SourcesGrow == \A b \in Branch : IsPrefix(source[b], source'[b])

\* Whatever commands execute at a time, repeat, or race with people, no commit
\* of a source branch is ever lost.
NothingOverwritten == [][SourcesGrow]_vars

-----------------------------------------------------------------------------
(***************************************************************************)
(* The inductive invariant                                                  *)
(***************************************************************************)

Commit ==
  [kind : {"request"}, revision : Nat, argv : Argv, retry : Nat] \cup
  [kind : {"result"}, request : Nat, status : 0..2, changed : BOOLEAN]
Question == [branch : Branch, revision : Nat, argv : Argv]
Run == [pc : {"idle", "validate", "execute", "check", "effect", "readback", "result"},
        request : Nat, status : 0..2, changed : BOOLEAN]
Local == [pc : {"idle", "list", "reuse", "push", "poll"}, head : Branch, have : [Branch -> Nat],
          asked : Question \cup {Nobody}, number : Nat, request : Nat]

TypeOK ==
  /\ source \in [Branch -> Seq(Argv \cup {People})]
  /\ command \in [Cmd -> Seq(Commit)]
  /\ worker \in [Cmd -> Run]
  /\ at \in [Client -> Local]
  /\ answer \in [Client -> [of : Question \cup {Nobody}, status : -1..2, changed : BOOLEAN]]

IsRequest(n, i) == i \in DOMAIN command[n] /\ command[n][i].kind = "request"

\* A CMD branch asks one thing; a result follows the request that it answers.
Ledger(n) ==
  \A i \in DOMAIN command[n] :
    /\ command[n][i].kind = "request" => Asked(n, i) = Asked(n, 1)
    /\ command[n][i].kind = "result" => i > 1 /\ IsRequest(n, i - 1) /\ command[n][i].request = i - 1

\* What the request i of n commits is on its source branch, on top of its revision.
Effected(n, i) ==
  LET of == Asked(n, i)
  IN  of.revision < Len(source[of.branch]) /\ source[of.branch][of.revision + 1] = of.argv

\* Success is published, or about to be, where the effect is there.
ResultsAreTrue(n) ==
  \A i \in DOMAIN command[n] :
    command[n][i].kind = "result" /\ command[n][i].status = 0 /\ command[n][i].changed => Effected(n, i - 1)

RunIsTrue(n) ==
  Step(n) # "idle" =>
    /\ IsRequest(n, worker[n].request)
    /\ Step(n) = "readback" \/ (Step(n) = "result" /\ worker[n].status = 0 /\ worker[n].changed) =>
         Effected(n, worker[n].request)

\* Who polls, or is about to, has the number of a branch that asks what he asked.
Follows(c) ==
  /\ pc(c) # "idle" => answer[c] = Unanswered
  /\ pc(c) # "idle" \/ answer[c] # Unanswered => at[c].asked \in Question
  /\ pc(c) \in {"reuse", "push", "poll"} => at[c].number \in Number
  /\ pc(c) \in {"reuse", "poll"} => command[Mine(c)] # <<>> /\ Asked(Mine(c), 1) = at[c].asked

IInv ==
  /\ TypeOK /\ AnswerIsTrue
  /\ \A n \in Cmd : Ledger(n) /\ ResultsAreTrue(n) /\ RunIsTrue(n)
  /\ \A c \in Client : Follows(c)
=============================================================================

------------------------------ MODULE Planner ------------------------------
(***************************************************************************)
(* The workflow of a candidate: workflow_transitions.py validates HEAD,     *)
(* notes the outcome in a local cache (.git/repoworkflow/state.json) and    *)
(* advances the version when it failed; workflow_state.py derives from the  *)
(* cache which transitions are legal at HEAD.                               *)
(* Commits are numbered in the order in which they were made.               *)
(***************************************************************************)
EXTENDS Integers

CONSTANTS
  Meanwhile,   \* people commit and check out while a command runs
  MaxCommits   \* bound: commits

VARIABLES
  head,      \* the checked out commit
  commits,   \* how many there are
  holds,     \* the policies that hold at HEAD: of the branch, of the version
  cache,     \* state.json
  cmd,       \* the command that is running
  passed,    \* commits whose regression has passed, whatever the cache says
  accepted   \* commits whose integration was reported to have succeeded

vars == <<head, commits, holds, cache, cmd, passed, accepted>>

Policies == {"branch", "version"}
Outcomes == {"PASS", "FAIL", "INCOMPLETE"}

Empty == [candidate |-> 0, regression |-> "missing", integration |-> "none"]
NoCommand == [pc |-> "idle", outcome |-> "none", old |-> 0]
pc == cmd.pc

Init ==
  /\ head = 1 /\ commits = 1 /\ holds = Policies
  /\ cache = Empty /\ cmd = NoCommand /\ passed = {} /\ accepted = {}

-----------------------------------------------------------------------------
\* The cache is of one candidate; that of another one is as good as none.

\* Mutant: the cache is of whatever is checked out.
LoadAny(candidate) == cache
LoadLocalState(candidate) == IF cache.candidate = candidate THEN cache ELSE Empty

\* save_local_state merges into what is there for the candidate.
Saved(candidate, regression, integration) ==
  [LoadLocalState(candidate) EXCEPT !.candidate = candidate, !.regression = regression, !.integration = integration]

DiscoverFacts ==
  [branch |-> "branch" \in holds, version |-> "version" \in holds,
   regression |-> LoadLocalState(head).regression, integration |-> LoadLocalState(head).integration,
   prelim |-> "absent", authorized |-> FALSE]

DerivePlan(facts) ==
  IF ~facts.branch \/ ~facts.version THEN {}
  ELSE IF facts.prelim = "stale" THEN {"reintegrate"}
  ELSE IF facts.regression # "PASS" THEN {"test regression"}
  ELSE IF facts.integration = "none" THEN {"test integration"}
  ELSE IF facts.integration = "failed" THEN {"test regression"}
  ELSE IF facts.authorized THEN {"integrate"} ELSE {}

StateName(facts) ==
  IF ~facts.branch \/ ~facts.version THEN "workflow state invalid"
  ELSE IF facts.prelim = "stale" THEN "preliminary integration stale"
  ELSE IF facts.regression # "PASS" \/ facts.integration = "failed" THEN "regression required"
  ELSE IF facts.integration = "none" THEN "integration result pending"
  ELSE IF facts.authorized THEN "integration authorized" ELSE "integration accepted; authorization pending"

-----------------------------------------------------------------------------
\* validate_regression.

Goto(to) == cmd' = [cmd EXCEPT !.pc = to]
NewCommit == commits < MaxCommits /\ commits' = commits + 1 /\ head' = commits + 1

\* verify_local commits what it prepares, or finds it prepared, and tests HEAD.
VerifyLocal(outcome) ==
  /\ pc = "idle"
  /\ NewCommit \/ UNCHANGED <<head, commits>>
  /\ cmd' = [pc |-> "verified", outcome |-> outcome, old |-> head']
  /\ passed' = IF outcome = "PASS" THEN passed \cup {head'} ELSE passed
  /\ UNCHANGED <<holds, cache, accepted>>

\* The outcome is noted for what is HEAD by now.
SaveOutcome ==
  /\ pc = "verified"
  /\ cache' = Saved(head, cmd.outcome, "none")
  /\ cmd' = IF cmd.outcome = "FAIL" THEN [cmd EXCEPT !.pc = "iterate", !.old = head] ELSE NoCommand
  /\ UNCHANGED <<head, commits, holds, passed, accepted>>

\* The version advances, a commit requests its test.
AdvanceIteration ==
  /\ pc = "iterate" /\ NewCommit
  /\ Goto("iterated") /\ UNCHANGED <<holds, cache, passed, accepted>>

SaveIteration ==
  /\ pc = "iterated" /\ cmd' = NoCommand
  /\ cache' = Saved(head, "missing", "none")
  /\ UNCHANGED <<head, commits, holds, passed, accepted>>

-----------------------------------------------------------------------------
\* validate_integration.

ReportSucceeded ==
  /\ pc = "idle" /\ DiscoverFacts.regression = "PASS"
  /\ cmd' = [NoCommand EXCEPT !.pc = "succeeded", !.old = head] /\ accepted' = accepted \cup {head}
  /\ UNCHANGED <<head, commits, holds, cache, passed>>

SaveSucceeded ==
  /\ pc = "succeeded" /\ cmd' = NoCommand
  /\ cache' = Saved(head, LoadLocalState(head).regression, "succeeded")
  /\ UNCHANGED <<head, commits, holds, passed, accepted>>

ReportFailed ==
  /\ pc = "idle" /\ DiscoverFacts.regression = "PASS" /\ NewCommit
  /\ cmd' = [NoCommand EXCEPT !.pc = "failed", !.old = head]
  /\ UNCHANGED <<holds, cache, passed, accepted>>

SaveFailed ==
  /\ pc = "failed" /\ cmd' = NoCommand
  /\ cache' = Saved(head, "missing", "failed")
  /\ UNCHANGED <<head, commits, holds, passed, accepted>>

\* Something raises: the repository is put back, the cache stays.
Restore ==
  /\ pc \in {"iterate", "iterated", "failed"}
  /\ head' = cmd.old /\ cmd' = NoCommand /\ UNCHANGED <<commits, holds, cache, passed, accepted>>

\* Killed, perhaps while it writes the cache, which nobody can read then.
Kill ==
  /\ pc # "idle" /\ cmd' = NoCommand /\ cache' \in {cache, Empty}
  /\ UNCHANGED <<head, commits, holds, passed, accepted>>

-----------------------------------------------------------------------------
\* People.

MayMove == pc = "idle" \/ Meanwhile

PeopleCommit == MayMove /\ NewCommit /\ UNCHANGED <<holds, cache, cmd, passed, accepted>>
Checkout(commit) == MayMove /\ head' = commit /\ UNCHANGED <<commits, holds, cache, cmd, passed, accepted>>
PolicyChanges(policies) == MayMove /\ holds' = policies /\ UNCHANGED <<head, commits, cache, cmd, passed, accepted>>

Next ==
  \/ \E outcome \in Outcomes : VerifyLocal(outcome)
  \/ SaveOutcome \/ AdvanceIteration \/ SaveIteration
  \/ ReportSucceeded \/ SaveSucceeded \/ ReportFailed \/ SaveFailed \/ Restore \/ Kill
  \/ PeopleCommit \/ \E commit \in 1..commits : Checkout(commit) \/ \E policies \in SUBSET Policies : PolicyChanges(policies)

Spec == Init /\ [][Next]_vars

-----------------------------------------------------------------------------
\* What the plan rests on, while HEAD stays where a command left it.

TypeOK ==
  /\ head \in Nat /\ commits \in Nat /\ holds \subseteq Policies
  /\ cache \in [candidate : Nat, regression : Outcomes \cup {"missing"}, integration : {"none", "failed", "succeeded"}]
  /\ cmd \in [pc : {"idle", "verified", "iterate", "iterated", "succeeded", "failed"},
             outcome : Outcomes \cup {"none"}, old : Nat]

\* The cache claims nothing of its candidate that did not happen to it.
CacheIsEarned ==
  /\ cache.regression = "PASS" => cache.candidate \in passed
  /\ cache.integration = "succeeded" => cache.candidate \in accepted

\* What a command is about to note did happen to the commit that is HEAD.
NoteIsEarned ==
  /\ pc = "verified" => cmd.outcome \in Outcomes /\ (cmd.outcome = "PASS" => head \in passed)
  /\ pc = "succeeded" => head \in accepted

IInv == TypeOK /\ CacheIsEarned /\ NoteIsEarned

\* Between commands, whatever was tested, checked out, committed, killed or put back
\* before, the legal transitions at HEAD are earned by HEAD itself: integration needs
\* a regression that has passed on this very commit, acceptance a reported success
\* of it as well.
PlanIsEarned ==
  pc = "idle" =>
    /\ "test integration" \in DerivePlan(DiscoverFacts) => head \in passed
    /\ StateName(DiscoverFacts) = "integration accepted; authorization pending" => head \in passed \cap accepted
=============================================================================

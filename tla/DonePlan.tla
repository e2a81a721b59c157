------------------------------ MODULE DonePlan ------------------------------
(***************************************************************************)
(* done_planner.py decides from a snapshot whether a candidate may be       *)
(* merged into its parent branch; pre_merge_gate.py checks, at the merge,   *)
(* what is then checked out and the tip that it is merged into.  What the   *)
(* snapshot reports was observed while both branches, the candidate and the *)
(* release wanted were other ones.                                          *)
(***************************************************************************)
EXTENDS Integers, Sequences

CONSTANTS
  GateNames,   \* GATE_NAMES
  Releases,    \* RELEASES
  Unmet,       \* bound: the facts that a snapshot may report as unmet, "none"
  Runs,        \* bound: how a run of a gate ends, <<passed, authenticated>>
  Answers,     \* bound: what a required manual test comes to
  MaxRuns,     \* bound: runs of a gate that are reported together
  MaxTip       \* bound: commits on each branch

DoneAssumption == Runs \subseteq BOOLEAN \X BOOLEAN /\ Answers \subseteq {"pending", "passed", "failed", "timeout"}

VARIABLES
  world,       \* the tips of both branches, the parent tip the source contains
  pinned,      \* the candidate, the parent tip recorded with it
  validation,  \* per gate, the observations reported
  grants,      \* the authorization, the manual test (MIT), and the candidates whose last
               \* integration in the testing log is a pass
  plan,        \* what the last plan allows, or lets into the queue to be merged
  merged,      \* the commit that was merged, the parent tip it contains, the tip it was
               \* really merged into, and the release
  earned       \* history: what happened, for which candidate and parent tip

vars == <<world, pinned, validation, grants, plan, merged, earned>>

NoCommit == 0
Nothing == [candidate |-> NoCommit, parent |-> NoCommit, release |-> "none"]
NotPinned == [candidate |-> NoCommit, parent |-> NoCommit]
MitStatus == {"not-required", "pending", "passed", "failed", "timeout"}
NoGrants(mit) ==
  [authorization |-> Nothing, mit |-> [status |-> mit, candidate |-> NoCommit], integrated |-> {}]

Init ==
  /\ world = [source |-> 1, contains |-> 1, parent |-> 1]
  /\ pinned = NotPinned /\ plan = Nothing /\ merged = Nothing
  /\ validation = [name \in GateNames |-> <<>>]
  /\ \E mit \in {"not-required", "pending"} : grants = NoGrants(mit)
  /\ earned = {}

-----------------------------------------------------------------------------
\* plan_done, from the facts of a snapshot.

GateMatches(gate, facts) ==
  gate.passed /\ gate.authenticated /\ gate.candidate = facts.candidate /\ gate.parent = facts.parent

AuthorizationMatches(auth, facts) ==
  auth = [candidate |-> facts.candidate, parent |-> facts.parent, release |-> facts.release]

Stale(facts) == facts.recorded # NoCommit /\ facts.recorded # facts.parent

\* What the state of the manual test blocks.
MitBlocks(facts) ==
  CASE facts.mit = "failed" -> TRUE
    [] facts.mit = "timeout" -> facts.mitCandidate # facts.candidate
    [] facts.mit = "pending" -> facts.mitCandidate # facts.candidate \/ ~facts.mitScheduled
    [] facts.mit = "passed" -> facts.mitCandidate # facts.candidate \/ ~facts.mitAuthenticated
    [] OTHER -> FALSE

Blocks(facts) ==
  [relationship |-> ~facts.target, candidate |-> facts.candidate = NoCommit,
   source |-> facts.candidate # facts.source, tip |-> facts.recorded = NoCommit,
   lifecycle |-> ~facts.accepted, revision |-> ~facts.currentRelations, dependencies |-> ~facts.dependencies,
   gates |-> \E name \in GateNames : ~(Len(facts.validation[name]) = 1 /\ GateMatches(facts.validation[name][1], facts)),
   authorization |-> ~AuthorizationMatches(facts.authorization, facts),
   stale |-> Stale(facts), policy |-> ~facts.policy, mit |-> MitBlocks(facts),
   coordination |-> facts.contenders >= 2 /\ ~facts.coordinator]

Missing(facts) == {reason \in DOMAIN Blocks(facts) : Blocks(facts)[reason]}

Disposition(facts) ==
  IF Stale(facts) THEN "STALE_BASE"
  ELSE IF Missing(facts) # {} THEN "BLOCKED"
  ELSE IF facts.mit = "pending" THEN "MIT_REQUIRED"
  ELSE IF facts.mit = "timeout" THEN "DEFERRED_MIT"
  ELSE IF facts.contenders >= 2 THEN "QUEUE_ELIGIBLE" ELSE "ALLOWED"

Allowed(facts) == Disposition(facts) \in {"ALLOWED", "QUEUE_ELIGIBLE"} /\ facts.mit \in {"not-required", "passed"}

QueueTrack(facts) ==
  IF facts.mit = "timeout" THEN "deferred-mit"
  ELSE IF Missing(facts) = {} /\ facts.contenders >= 2 /\ facts.coordinator /\ facts.mit # "failed"
       THEN IF facts.mit = "pending" THEN "manual-scheduling" ELSE "runnable"
       ELSE "none"

\* A snapshot of the world as it is; one fact of the rest, or none, is not as it should
\* be.  A manual test that nobody has authenticated may be claimed to have passed, and
\* one whose policy nobody has verified not to be required.
Snapshot(release, contenders, unmet) ==
  [release |-> release, candidate |-> pinned.candidate, recorded |-> pinned.parent,
   source |-> world.source, parent |-> world.parent, validation |-> validation, authorization |-> grants.authorization,
   mit |-> CASE unmet = "policy" -> "not-required" [] unmet = "mitAuthenticated" -> "passed" [] OTHER -> grants.mit.status,
   mitCandidate |-> IF unmet = "mitAuthenticated" THEN pinned.candidate ELSE grants.mit.candidate,
   contenders |-> contenders,
   target |-> unmet # "target", accepted |-> unmet # "accepted", currentRelations |-> unmet # "currentRelations",
   dependencies |-> unmet # "dependencies", policy |-> unmet # "policy", mitScheduled |-> unmet # "mitScheduled",
   mitAuthenticated |-> unmet # "mitAuthenticated", coordinator |-> unmet # "coordinator"]

PlanDone(facts) ==
  /\ plan' = IF Allowed(facts) \/ QueueTrack(facts) = "runnable"
             THEN [candidate |-> facts.candidate, parent |-> facts.parent, release |-> facts.release] ELSE Nothing
  /\ UNCHANGED <<world, pinned, validation, grants, merged, earned>>

-----------------------------------------------------------------------------
\* check_pre_merge_candidate, later, for the candidate of the plan.  The server repeats
\* the check atomically at the merge, so the gate is the guard of the merge; what it
\* merges is what is checked out, and the parent branch advances by it.

\* Mutant: the tip recorded with the candidate is not compared with the present one.
PreMergeAcceptsAnyTip ==
  /\ world.source = plan.candidate
  /\ world.contains >= plan.parent
  /\ plan.candidate \in grants.integrated

PreMergeAccepts ==
  /\ plan.parent = world.parent          \* the destination has not advanced
  /\ world.source = plan.candidate       \* HEAD is the candidate ...
  /\ world.contains >= plan.parent       \* ... and includes the parent tip
  /\ plan.candidate \in grants.integrated

Merge ==
  /\ plan # Nothing /\ PreMergeAccepts
  /\ merged' = [candidate |-> world.source, contains |-> world.contains, parent |-> world.parent, release |-> plan.release]
  /\ world' = [world EXCEPT !.parent = @ + 1]
  /\ plan' = Nothing
  /\ UNCHANGED <<pinned, validation, grants, earned>>

-----------------------------------------------------------------------------
\* Meanwhile: commits, validation on what is pinned and the parent as it is,
\* decisions of people.

Elsewhere == UNCHANGED <<plan, merged>>
Commit(tips) == world' = tips /\ UNCHANGED <<pinned, validation, grants, earned>> /\ Elsewhere

SourceAdvances == world.source < MaxTip /\ Commit([world EXCEPT !.source = @ + 1])
ParentAdvances == world.parent < MaxTip /\ Commit([world EXCEPT !.parent = @ + 1])
ParentIsMergedIn == world.source < MaxTip /\ Commit([world EXCEPT !.source = @ + 1, !.contains = world.parent])

Pin ==
  /\ pinned' = [candidate |-> world.source, parent |-> world.parent]
  /\ UNCHANGED <<world, validation, grants, earned>> /\ Elsewhere

\* History keeps what was really done for this candidate and this parent tip.
Earn(what, parent, release) == earned' = earned \cup {<<what, pinned.candidate, parent, release>>}

RunGate(name, passed, authenticated) ==
  LET observation == [candidate |-> pinned.candidate, parent |-> world.parent, passed |-> passed, authenticated |-> authenticated]
  IN /\ pinned # NotPinned
     /\ Len(validation[name]) < MaxRuns
     /\ validation' = [validation EXCEPT ![name] = Append(@, observation)]
     /\ IF passed /\ authenticated THEN Earn(name, world.parent, "none") ELSE UNCHANGED earned
     /\ grants' = [grants EXCEPT !.integrated =
                     IF name # "integration" THEN @
                     ELSE IF passed /\ authenticated THEN @ \cup {pinned.candidate} ELSE @ \ {pinned.candidate}]
     /\ UNCHANGED <<world, pinned>> /\ Elsewhere

\* The observations are collected anew, as they are for a report of the last run only.
Recollect(name) ==
  /\ validation' = [validation EXCEPT ![name] = <<>>]
  /\ UNCHANGED <<world, pinned, grants, earned>> /\ Elsewhere

Authorize(release) ==
  /\ pinned # NotPinned /\ Earn("authorization", world.parent, release)
  /\ grants' = [grants EXCEPT !.authorization = [candidate |-> pinned.candidate, parent |-> world.parent, release |-> release]]
  /\ UNCHANGED <<world, pinned, validation>> /\ Elsewhere

\* A required manual test is scheduled, answered, or not answered in time.
TestManually(status) ==
  /\ pinned # NotPinned /\ grants.mit.status # "not-required"
  /\ grants' = [grants EXCEPT !.mit = [status |-> status, candidate |-> pinned.candidate]]
  /\ IF status = "passed" THEN Earn("manual test", NoCommit, "none") ELSE UNCHANGED earned
  /\ UNCHANGED <<world, pinned, validation>> /\ Elsewhere

Next ==
  \/ \E release \in Releases, contenders \in {1, 2}, unmet \in Unmet : PlanDone(Snapshot(release, contenders, unmet))
  \/ Merge
  \/ SourceAdvances \/ ParentAdvances \/ ParentIsMergedIn \/ Pin
  \/ \E name \in GateNames, run \in Runs : RunGate(name, run[1], run[2])
  \/ \E name \in GateNames : Recollect(name)
  \/ \E release \in Releases : Authorize(release)
  \/ \E status \in Answers : TestManually(status)

Spec == Init /\ [][Next]_vars

-----------------------------------------------------------------------------
Observation == [candidate : Nat, parent : Nat, passed : BOOLEAN, authenticated : BOOLEAN]

TypeOK ==
  /\ world \in [source : Nat, contains : Nat, parent : Nat]
  /\ pinned \in [candidate : Nat, parent : Nat]
  /\ validation \in [GateNames -> Seq(Observation)]
  /\ grants \in [authorization : [candidate : Nat, parent : Nat, release : Releases \cup {"none"}],
                 mit : [status : MitStatus, candidate : Nat], integrated : SUBSET Nat]

\* What a snapshot may report as passed or authorized did happen, for what it names.
ReportsAreEarned ==
  /\ \A name \in GateNames : \A i \in 1..Len(validation[name]) :
       LET gate == validation[name][i]
       IN  gate.passed /\ gate.authenticated => <<name, gate.candidate, gate.parent, "none">> \in earned
  /\ LET auth == grants.authorization
     IN  auth # Nothing => <<"authorization", auth.candidate, auth.parent, auth.release>> \in earned
  /\ grants.mit.status = "passed" => <<"manual test", grants.mit.candidate, NoCommit, "none">> \in earned

\* Every gate passed and the release was authorized for this very candidate on this very
\* parent tip, and the manual test, if one is required, passed for this very candidate.
Earned(what) ==
  /\ \A name \in GateNames : <<name, what.candidate, what.parent, "none">> \in earned
  /\ <<"authorization", what.candidate, what.parent, what.release>> \in earned
  /\ grants.mit.status # "not-required" => <<"manual test", what.candidate, NoCommit, "none">> \in earned

\* What was merged was earned, by the commit that was really merged on the tip that it
\* was really merged into, and that commit contains this tip: however the branches, the
\* candidate, the observations and the decisions moved before the plan, and between the
\* plan and the merge.
MergedIsEarned == merged # Nothing => Earned(merged) /\ merged.contains >= merged.parent

IInv == TypeOK /\ ReportsAreEarned /\ MergedIsEarned /\ (plan # Nothing => Earned(plan))
=============================================================================

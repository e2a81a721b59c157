---------------------------- MODULE HostedStage ----------------------------
(***************************************************************************)
(* A test stage on the hosted provider: test_cli.py requests it with a      *)
(* marker commit on the issue branch, on-demand-ci.yml tests the commit     *)
(* under the marker, publish-hosted-result.py appends the observation to    *)
(* the branch, publish-hosted-terminal.py and terminal_tag.py turn that of  *)
(* a terminal stage into an immutable tag of the version.  Runs of one      *)
(* branch exclude each other; anyone may repeat or cancel one.              *)
(* A commit is its position in the history of the branch or of the clone.   *)
(***************************************************************************)
EXTENDS Integers, Sequences

CONSTANTS
  Stage,       \* stages that are requested
  Locally,     \* stages that are tested in the clone as well
  Outcomes,    \* what a test can end with: its result, in a clean checkout or not
  MaxVersion,  \* bound: development versions
  MaxCommits   \* bound: commits of the branch

Result == {"succeeded", "failed", "incomplete"}
HostedAssumption == Outcomes \subseteq Result \X BOOLEAN

VARIABLES
  mine,     \* the developer's clone: its history
  loose,    \* its observations that are not committed
  local,    \* its terminal tags
  branch,   \* the remote: the history of the branch
  invoked,  \* pushed tips that started the workflow
  tags,     \* the remote: terminal tags
  run       \* the workflow run that is under way

vars == <<mine, loose, local, branch, invoked, tags, run>>

Terminal == {"regression", "integration"}
Untested == [candidate |-> 0, kind |-> "none", version |-> 0, result |-> "incomplete", clean |-> FALSE]

\* Source changes, request markers, published observations ("publish hosted
\* evidence") and those of local runs ("record ... outcome").
\* Each holds the test log, oldest observation first.
Commit(kind, version, stage, bound, log) ==
  [kind |-> kind, version |-> version, stage |-> stage, bound |-> bound, log |-> log]
Source(version, log) == Commit("source", version, "none", TRUE, log)
Marker(version, stage, bound, log) == Commit("marker", version, stage, bound, log)
Evidence(version, log) == Commit("evidence", version, "none", TRUE, log)
Recorded(version, log) == Commit("recorded", version, "none", TRUE, log)

Record(candidate, kind, version, result, clean) ==
  [candidate |-> candidate, kind |-> kind, version |-> version, result |-> result, clean |-> clean]

Version(h) == h[Len(h)].version
Upto(h, n) == SubSeq(h, 1, n)
LogOf(h) == h[Len(h)].log
Members(log) == {log[i] : i \in DOMAIN log}
Precedes(h, other) == Len(h) <= Len(other) /\ \A i \in DOMAIN h : h[i] = other[i]

Idle == [pc |-> "idle", tip |-> 0, candidate |-> 0, record |-> Untested]
pc == run.pc

Init ==
  /\ mine = <<Source(1, <<>>)>> /\ branch = mine
  /\ loose = <<>> /\ local = {} /\ invoked = {} /\ tags = {} /\ run = Idle

-----------------------------------------------------------------------------
\* Histories.

\* Mutant: published observations are taken for source changes.
MarkerOnly(commit) == commit.kind = "marker"

\* Requests and published observations change no source.
Bookkeeping(commit) == commit.kind \in {"marker", "evidence"}

\* original_candidate: back over bookkeeping commits; a marker on the way must
\* name its parent.
Candidate(h, n) == CHOOSE i \in 1..n : ~Bookkeeping(h[i]) /\ \A j \in (i + 1)..n : Bookkeeping(h[j])
Traceable(h, n) == \A i \in (Candidate(h, n) + 1)..n : h[i].bound

\* resolve_invocation walks again, from the invocation itself.
ResolveInvocation(h, n) ==
  LET walk[i \in 1..n] == IF Bookkeeping(h[i]) THEN walk[i - 1] ELSE i
      candidate == walk[n]
  IN  IF Bookkeeping(h[n]) /\ h[n].kind = "marker" /\ \A i \in (candidate + 1)..n : h[i].bound
      THEN candidate ELSE 0

\* _evidence_source_sha: back over the observations of local runs.
EvidenceSource(h, n) ==
  CHOOSE i \in 1..n : h[i].kind # "recorded" /\ \A j \in (i + 1)..n : h[j].kind = "recorded"

-----------------------------------------------------------------------------
\* prepare_engine_request: a version that failed is never tested again.
Tag(phase, version, outcome, candidate) ==
  [phase |-> phase, version |-> version, outcome |-> outcome, candidate |-> candidate]
HasTag(set, phase, version, outcome) ==
  \E t \in set : t.phase = phase /\ t.version = version /\ t.outcome = outcome

NextVersion(set, version, stage) ==
  IF \/ stage \in Terminal /\ HasTag(set, "integration", version, "FAIL")
     \/ stage = "regression" /\ HasTag(set, "regression", version, "FAIL")
  THEN version + 1 ELSE version

Prepared(stage) ==
  LET version == NextVersion(tags \cup local, Version(mine), stage)
  IN  IF version = Version(mine) THEN mine ELSE Append(mine, Source(version, LogOf(mine)))

\* request_remote: the marker names the commit that was HEAD when it was read;
\* another commit may have come between.
Requested(stage, between) ==
  LET h == Prepared(stage)
      before == IF between THEN Append(h, Source(Version(h), LogOf(h))) ELSE h
  IN  Append(before, Marker(Version(h), stage, ~between, LogOf(h)))

MayGrow(h) == Len(h) <= MaxCommits /\ Version(h) <= MaxVersion

Request(stage) ==
  \E between \in BOOLEAN :
    /\ mine' = Requested(stage, between) /\ MayGrow(mine')
    /\ \/ Precedes(branch, mine) /\ branch' = mine' /\ invoked' = invoked \cup {Len(mine')}
       \/ UNCHANGED <<branch, invoked>>   \* rejected, or no connection
    /\ UNCHANGED <<loose, local, tags, run>>

CommitSource ==
  /\ mine' = Append(mine, Source(Version(mine), LogOf(mine))) /\ MayGrow(mine')
  /\ UNCHANGED <<loose, local, branch, invoked, tags, run>>

\* git push, and git reset to what the remote has.
PushBranch ==
  /\ Precedes(branch, mine) /\ mine # branch
  /\ branch' = mine
  /\ invoked' = IF \E i \in (Len(branch) + 1)..Len(mine) : mine[i].kind = "marker"
                THEN invoked \cup {Len(mine)} ELSE invoked
  /\ UNCHANGED <<mine, loose, local, tags, run>>

Pull ==
  /\ mine # branch /\ mine' = branch
  /\ UNCHANGED <<loose, local, branch, invoked, tags, run>>

-----------------------------------------------------------------------------
\* The terminal tag.

Opposite(outcome) == IF outcome = "PASS" THEN "FAIL" ELSE "PASS"
Expected(outcome) == IF outcome = "PASS" THEN "succeeded" ELSE "failed"
OutcomeOf(record) == IF record.result = "succeeded" THEN "PASS" ELSE "FAIL"
Decided(record) == record.result # "incomplete"

\* verify_phase_evidence: every observation of the version is of this phase
\* and candidate, all that are decided agree, none is incomplete after one that is
\* decided, and one is clean.
PhaseEvidence(log, phase, version, candidate, outcome) ==
  LET own == {i \in DOMAIN log : log[i].kind \in Terminal /\ log[i].version = version}
      observed == {log[i] : i \in own}
  IN  /\ \A r \in observed : r.kind = phase /\ r.candidate = candidate
      /\ \A i, j \in own : i < j /\ Decided(log[i]) => Decided(log[j])
      /\ {r.result : r \in {s \in observed : Decided(s)}} = {Expected(outcome)}
      /\ \E r \in observed : Decided(r) /\ r.clean

\* publish_terminal_tag, up to the push: neither the opposite outcome nor this
\* one of another candidate.
TagAllowed(set, log, phase, version, candidate, outcome) ==
  /\ PhaseEvidence(log, phase, version, candidate, outcome)
  /\ ~HasTag(set, phase, version, Opposite(outcome))
  /\ \A t \in set : t.phase = phase /\ t.version = version /\ t.outcome = outcome => t.candidate = candidate

\* rwf test regression in the clone: observed, tagged here only, committed.
\* When the tag is refused the command raises before it commits.
TestLocally(stage, result, clean) ==
  LET h == Prepared(stage)
      record == Record(Len(h), stage, Version(h), result, clean)
      log == Append(LogOf(h) \o loose, record)
      wanted == Decided(record) /\ clean
      allowed == TagAllowed(local, log, stage, Version(h), Len(h), OutcomeOf(record))
  IN  /\ stage \in Terminal
      /\ IF wanted /\ ~allowed
         THEN mine' = h /\ loose' = Append(loose, record)
         ELSE mine' = Append(h, Recorded(Version(h), log)) /\ loose' = <<>>
      /\ MayGrow(mine') /\ Len(loose') < 2
      /\ local' = IF wanted /\ allowed
                  THEN local \cup {Tag(stage, Version(h), OutcomeOf(record), Len(h))} ELSE local
      /\ UNCHANGED <<branch, invoked, tags, run>>

-----------------------------------------------------------------------------
\* A run of the workflow.

Ends == run' = Idle /\ UNCHANGED <<mine, loose, local, branch, invoked, tags>>

StartRun(tip) ==
  /\ pc = "idle" /\ run' = [Idle EXCEPT !.pc = "plan", !.tip = tip]
  /\ UNCHANGED <<mine, loose, local, branch, invoked, tags>>

\* verify_invocation and original_candidate.
Planned == branch[run.tip].kind = "marker" /\ branch[run.tip].bound /\ Traceable(branch, run.tip - 1)

Plan ==
  /\ pc = "plan" /\ Planned
  /\ run' = [run EXCEPT !.pc = "test", !.candidate = Candidate(branch, run.tip - 1)]
  /\ UNCHANGED <<mine, loose, local, branch, invoked, tags>>

PlanRefuses == pc = "plan" /\ ~Planned /\ Ends

\* The same command in a checkout of the candidate.  If a tag calls for a new
\* version by now, its preparation commits, and the observation is of that
\* commit; group stages name the source under local observations.
Observes(stage, candidate) ==
  IF stage \notin Terminal THEN EvidenceSource(branch, candidate)
  ELSE IF NextVersion(tags, branch[candidate].version, stage) = branch[candidate].version
       THEN candidate ELSE 0

TestHosted(result, clean) ==
  LET stage == branch[run.tip].stage
  IN  /\ pc = "test"
      /\ run' = [run EXCEPT !.pc = "check",
                   !.record = Record(Observes(stage, run.candidate), stage,
                                     branch[run.candidate].version, result, clean)]
      /\ UNCHANGED <<mine, loose, local, branch, invoked, tags>>

\* publish: the observation is of the candidate, and the branch is where the
\* request has left it; then, later, the push.
Publishable == run.record.candidate = run.candidate /\ Len(branch) = run.tip

CheckPublication ==
  /\ pc = "check" /\ Publishable
  /\ run' = [run EXCEPT !.pc = "publish"]
  /\ UNCHANGED <<mine, loose, local, branch, invoked, tags>>

PublicationRefused == pc = "check" /\ ~Publishable /\ Ends

PushEvidence ==
  /\ pc = "publish" /\ Len(branch) = run.tip
  /\ branch' = Append(branch, Evidence(Version(branch), Append(LogOf(branch), run.record)))
  /\ \/ run.record.kind \in Terminal /\ run' = [run EXCEPT !.pc = "bind"]
     \/ run' = Idle   \* a group stage, or the answer is lost
  /\ UNCHANGED <<mine, loose, local, invoked, tags>>

EvidenceRejected == pc = "publish" /\ Ends

\* resolve_hosted_version: nothing in the log contradicts that this candidate
\* alone owns the version in this phase.
Owned(log, version, phase, candidate) ==
  LET decided == {r \in Members(log) : r.kind \in Terminal /\ Decided(r)}
      same(r, s) == r.kind = s.kind /\ r.version = s.version
      own == {r \in decided : r.candidate = candidate /\ r.kind = phase}
  IN  /\ \A i, j \in DOMAIN log :
           i < j /\ same(log[i], log[j]) /\ log[i] \in decided => Decided(log[j])
      /\ \A r, s \in decided : same(r, s) => r.result = s.result
      /\ \A r \in own : r.clean /\ \A s \in decided : same(r, s) => s.candidate = candidate
      /\ {r.version : r \in own} = {version}

\* bind_hosted_terminal, and the checks of publish_hosted_terminal: the branch
\* ends with this very observation.
Bindable ==
  LET h == Upto(branch, run.tip + 1)
  IN  /\ Decided(run.record) /\ run.record.clean
      /\ ResolveInvocation(branch, run.tip) = run.candidate
      /\ Owned(LogOf(h), run.record.version, run.record.kind, run.candidate)
      /\ Len(branch) = run.tip + 1

Bind ==
  /\ pc = "bind" /\ Bindable
  /\ run' = [run EXCEPT !.pc = "tag"]
  /\ UNCHANGED <<mine, loose, local, branch, invoked, tags>>

BindRefused == pc = "bind" /\ ~Bindable /\ Ends

MyTag == Tag(run.record.kind, run.record.version, OutcomeOf(run.record), run.candidate)

\* publish_terminal_tag: already published, pushed (the answer may be lost), or
\* refused here or there.
PublishTag ==
  /\ pc = "tag"
  /\ TagAllowed(tags, LogOf(Upto(branch, run.tip + 1)), run.record.kind, run.record.version,
                run.candidate, OutcomeOf(run.record))
  /\ tags' = tags \cup {MyTag}
  /\ run' = Idle /\ UNCHANGED <<mine, loose, local, branch, invoked>>

TagFails == pc = "tag" /\ Ends

\* Cancelled, timed out, or out of machines.
Cancel == pc # "idle" /\ Ends

Develop ==
  \/ CommitSource \/ PushBranch \/ Pull
  \/ \E stage \in Stage : Request(stage)
  \/ \E stage \in Locally, outcome \in Outcomes : TestLocally(stage, outcome[1], outcome[2])

Workflow ==
  \/ \E tip \in invoked : StartRun(tip)
  \/ Plan \/ PlanRefuses
  \/ \E outcome \in Outcomes : TestHosted(outcome[1], outcome[2])
  \/ CheckPublication \/ PublicationRefused \/ PushEvidence \/ EvidenceRejected
  \/ Bind \/ BindRefused \/ PublishTag \/ TagFails \/ Cancel

Next == Develop \/ Workflow

Spec == Init /\ [][Next]_vars

-----------------------------------------------------------------------------
\* A published tag names a commit that changes source, of the tag's version,
\* and the branch holds a clean observation of the outcome on exactly that commit;
\* a version has one outcome per phase.
TagIsEvidence ==
  \A t \in tags :
    /\ ~(branch[t.candidate].kind \in {"marker", "evidence"})
    /\ branch[t.candidate].version = t.version
    /\ Record(t.candidate, t.phase, t.version, Expected(t.outcome), TRUE) \in Members(LogOf(branch))
    /\ \A s \in tags : s.phase = t.phase /\ s.version = t.version => s = t

-----------------------------------------------------------------------------
(***************************************************************************)
(* The inductive invariant.                                                 *)
(***************************************************************************)

Kinds == Stage \cup Locally \cup {"none"}
Observation == [candidate : Nat, kind : Kinds, version : Nat, result : Result, clean : BOOLEAN]
Commits ==
  [kind : {"source", "marker", "evidence", "recorded"}, version : Nat, stage : Kinds, bound : BOOLEAN,
   log : Seq(Observation)]

\* A history begins with a source, and no commit takes an observation from the log.
History(h) ==
  /\ h \in Seq(Commits) /\ Len(h) > 0 /\ h[1].kind = "source"
  /\ \A i \in DOMAIN h : \A j \in 1..i : Members(h[j].log) \subseteq Members(h[i].log)

TypeOK ==
  /\ History(mine) /\ History(branch) /\ loose \in Seq(Observation)
  /\ invoked \subseteq 1..Len(branch)
  /\ tags \subseteq [phase : Terminal, version : Nat, outcome : {"PASS", "FAIL"}, candidate : 1..Len(branch)]
  /\ run \in [pc : {"idle", "plan", "test", "check", "publish", "bind", "tag"},
              tip : Nat, candidate : Nat, record : Observation]

\* A run's candidate is a source below its marker; what it is about to tag is the
\* candidate's version in a terminal phase, and its observation is on the branch.
RunTraced ==
  /\ pc # "idle" => run.tip \in invoked
  /\ pc \notin {"idle", "plan"} =>
       run.candidate \in 1..(run.tip - 1) /\ branch[run.candidate].kind \in {"source", "recorded"}
  /\ pc \notin {"idle", "plan", "test"} => run.record.version = branch[run.candidate].version
  /\ pc \in {"bind", "tag"} => run.record.kind \in Terminal /\ run.tip < Len(branch)

IInv == TypeOK /\ RunTraced /\ TagIsEvidence
=============================================================================

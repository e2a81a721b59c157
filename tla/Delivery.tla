------------------------------ MODULE Delivery ------------------------------
(***************************************************************************)
(* candidate.py, guard.py, artifacts.py, results.py, local.py: how a commit *)
(* becomes a candidate of a version, is tested in the configured            *)
(* environments, and how its outcome is published as a tag of the version.  *)
(* Developers run verify_local in their clones; CI runners finalize in a    *)
(* fresh checkout.  All share one remote, where every push is atomic.       *)
(***************************************************************************)
EXTENDS Integers, Sequences

CONSTANTS
  Clone,       \* developers' clones, one command at a time in each
  Editing,     \* those whose developer edits, commits, pushes and pulls also
               \* while a command runs; in the others only between commands,
               \* and nobody edits
  Runner,      \* CI runners, each with a fresh checkout
  Kinds,       \* per clone: verified with --push, without it, or both
  Env,         \* configured environments
  Nothing,     \* no environment
  Required,    \* those whose result is required
  MaxVersion,  \* bound: CI iterations of the task version
  MaxCommits   \* bound: commits ever made

DeliveryAssumption ==
  Clone \cap Runner = {} /\ \A c \in Clone : Kinds[c] \subseteq {"local", "push"}

VARIABLES
  commits,     \* every commit: its ancestors, version, request, is the request bound to it
  head,        \* per clone and runner: the checked out commit
  edited,      \* per clone: has the worktree work that is not committed?
  tags,        \* per clone and runner: the local terminal tags
  remote,      \* the authoritative remote: branch tip and terminal tags
  at           \* per clone and runner: the command it is in

vars == <<commits, head, edited, tags, remote, at>>

Place == Clone \cup Runner
Artifacts == "artifacts"     \* ARTIFACT_ENVIRONMENT_ID
Checks == Required \cup {Artifacts}
Status == {"PASS", "FAIL", "INCOMPLETE"}

Commit(past, version, request, bound) ==
  [past |-> past, version |-> version, request |-> request, bound |-> bound]
\* commit is where it was found; the record names the candidate.
Result(commit, e, status) == [environment |-> e, status |-> status, commit |-> commit]
Has(results, e, statuses) == \E result \in results : result.environment = e /\ result.status \in statuses

Tip(p) == commits[head[p]]
Descends(new, old) == new = old \/ old \in commits[new].past
Tagged(set, version) == \E t \in set : t.version = version
Without(set, version) == {t \in set : t.version # version}
Pasts(p) == Tip(p).past \cup {head[p]}

\* start and before: the repository's state when the command began, and before what
\* it runs now; prepared: the adapter has advanced the version.
Unborn == [head |-> 1, tags |-> {}]
Idle == [pc |-> "idle", kind |-> "local", start |-> Unborn, before |-> Unborn, version |-> 1,
         prepared |-> FALSE, results |-> {}, left |-> {}, testing |-> Nothing,
         outcome |-> "INCOMPLETE", candidate |-> 1]
pc(p) == at[p].pc
Go(p, to) == at' = [at EXCEPT ![p].pc = to]

Init ==
  /\ \E request \in {0, 1} : commits = <<Commit({}, 1, request, request = 1)>>
  /\ head = [p \in Place |-> 1] /\ tags = [p \in Place |-> {}]
  /\ edited = [c \in Clone |-> FALSE]
  /\ remote = [tip |-> 1, tags |-> {}]
  /\ at = [p \in Place |-> Idle]

-----------------------------------------------------------------------------
\* repository_state: HEAD and every local ref.
Now(p) == [head |-> head[p], tags |-> tags[p]]

\* restore_repository_state: HEAD and the refs as they were, then git reset --hard and
\* git clean -fd.
Restore(p, state) ==
  /\ head' = [head EXCEPT ![p] = state.head]
  /\ tags' = [tags EXCEPT ![p] = state.tags]
  /\ edited' = [c \in Clone |-> edited[c] /\ c # p]

Undo(c) == Restore(c, at[c].start) /\ at' = [at EXCEPT ![c] = Idle]

\* The command raises: a developer's clone is rolled back, a runner's checkout
\* is thrown away.
Raise(p) ==
  /\ IF p \in Clone
     THEN Undo(p)
     ELSE at' = [at EXCEPT ![p] = Idle] /\ UNCHANGED <<head, tags, edited>>
  /\ UNCHANGED <<commits, remote>>

\* verify_local, with or without --push.
Begin(c, kind) ==
  /\ pc(c) = "idle"
  /\ at' = [at EXCEPT ![c] = [Idle EXCEPT !.pc = "policy", !.kind = kind,
                                          !.start = Now(c)]]
  /\ UNCHANGED <<commits, head, edited, tags, remote>>

RepositoryPolicyFails(c) == pc(c) = "policy" /\ Raise(c)

BranchPolicyFails(c) == pc(c) = "policy" /\ Raise(c)

-----------------------------------------------------------------------------
\* prepare_development_candidate.

PrepareRefuses(c) == pc(c) = "policy" /\ edited[c] /\ Raise(c)

Prepare(c) ==
  /\ pc(c) = "policy" /\ ~edited[c]
  /\ at' = [at EXCEPT ![c].pc = "version", ![c].version = Tip(c).version]
  /\ UNCHANGED <<commits, head, edited, tags, remote>>

\* _terminal_tag asks the remote, _advance_ci_iteration runs the adapter: a
\* version that has an outcome is never a candidate again.
AdvanceIteration(c) ==
  /\ pc(c) = "version" /\ Tagged(remote.tags, at[c].version) /\ at[c].version < MaxVersion
  /\ at' = [at EXCEPT ![c].version = @ + 1, ![c].prepared = TRUE]
  /\ UNCHANGED <<commits, head, edited, tags, remote>>

\* The remote does not answer, or the adapter fails or skips an iteration.
PrepareFails(c) == pc(c) = "version" /\ Raise(c)

\* ~_request_needs_refresh
RequestCurrent(c) == Tip(c).request = at[c].version /\ Tip(c).bound

KeepRequest(c) ==
  /\ pc(c) = "version" /\ ~Tagged(remote.tags, at[c].version)
  /\ ~at[c].prepared /\ RequestCurrent(c)
  /\ Go(c, "validate")
  /\ UNCHANGED <<commits, head, edited, tags, remote>>

\* The bookkeeping commit, of an advanced version and of a request for it; git add
\* --all takes what was edited meanwhile too.
CommitRequest(c) ==
  /\ pc(c) = "version" /\ ~Tagged(remote.tags, at[c].version)
  /\ at[c].prepared \/ ~RequestCurrent(c)
  /\ Len(commits) < MaxCommits
  /\ LET version == IF at[c].prepared THEN at[c].version ELSE Tip(c).version
     IN  commits' = Append(commits, Commit(Pasts(c), version, at[c].version, ~RequestCurrent(c)))
  /\ head' = [head EXCEPT ![c] = Len(commits')]
  /\ edited' = [edited EXCEPT ![c] = FALSE]
  /\ Go(c, "validate") /\ UNCHANGED <<tags, remote>>

-----------------------------------------------------------------------------
\* validate_candidate: clean, the request is for this version and bound to
\* this commit, and the remote has no outcome of it.
Valid(p) ==
  /\ p \in Clone => ~edited[p]
  /\ Tip(p).request = Tip(p).version /\ Tip(p).bound
  /\ ~Tagged(remote.tags, Tip(p).version)

\* Local tags of the version that the remote does not have are deleted.
RefreshTags(p) == tags' = [tags EXCEPT ![p] = Without(@, Tip(p).version)]

\* Mutant: any commit will do.
AsAnyCommit(p) == TRUE

\* expected_sha.
AsExpected(p) == head[p] = at[p].candidate

\* Every caller raises when the validation does (or the remote is silent).
ValidateFails(p) ==
  pc(p) \in {"validate", "revalidate", "run", "publish"} /\ Raise(p)

Validate(c) ==
  /\ pc(c) = "validate" /\ Valid(c) /\ RefreshTags(c)
  /\ at' = [at EXCEPT ![c].pc = "artifacts", ![c].candidate = head[c]]
  /\ UNCHANGED <<commits, head, edited, remote>>

-----------------------------------------------------------------------------
\* materialize_artifacts and commit_artifact_changes.

StartArtifacts(c) ==
  /\ pc(c) = "artifacts"
  /\ at' = [at EXCEPT ![c].pc = "generating", ![c].before = Now(c)]
  /\ UNCHANGED <<commits, head, edited, tags, remote>>

\* None is configured, or all are generated and verified while HEAD is here: a move
\* of HEAD under a generator or verifier is a failure.
ArtifactsPass(c) ==
  /\ pc(c) = "generating"
  /\ at' = [at EXCEPT ![c].pc = "collect", ![c].results = {Result(head[c], Artifacts, "PASS")}]
  /\ UNCHANGED <<commits, head, edited, tags, remote>>

\* A generator or verifier fails, lacks its platform, touches what is not its
\* own, or finds the worktree edited: the checkout is restored, the candidate
\* stays and has this result.
ArtifactsFail(c, status) ==
  /\ pc(c) = "generating" /\ status \in {"FAIL", "INCOMPLETE"}
  /\ edited[c] => status = "FAIL"
  /\ Restore(c, at[c].before)
  /\ at' = [at EXCEPT ![c].pc = "run", ![c].left = Env,
                      ![c].results = {Result(at[c].before.head, Artifacts, status)}]
  /\ UNCHANGED <<commits, remote>>

\* Nothing was generated anew: whatever is checked out becomes the candidate.
ArtifactsUnchanged(c) ==
  /\ pc(c) = "collect"
  /\ at' = [at EXCEPT ![c].pc = "revalidate", ![c].candidate = head[c]]
  /\ UNCHANGED <<commits, head, edited, tags, remote>>

\* Only declared outputs are committed, so the request stays bound; the commit is
\* what was verified if it is made on the commit where that was.
CommitArtifacts(c) ==
  LET On(result) == IF result.commit = head[c] THEN Len(commits') ELSE result.commit
  IN  /\ pc(c) = "collect" /\ Len(commits) < MaxCommits
      /\ commits' = Append(commits, [Tip(c) EXCEPT !.past = Pasts(c)])
      /\ head' = [head EXCEPT ![c] = Len(commits')]
      /\ at' = [at EXCEPT ![c].pc = "revalidate", ![c].candidate = Len(commits'),
                          ![c].results = {[r EXCEPT !.commit = On(r)] : r \in @}]
      /\ UNCHANGED <<edited, tags, remote>>

Revalidate(c) ==
  /\ pc(c) = "revalidate" /\ Valid(c) /\ AsExpected(c) /\ RefreshTags(c)
  /\ at' = [at EXCEPT ![c].pc = "run", ![c].left = Env]
  /\ UNCHANGED <<commits, head, edited, remote>>

-----------------------------------------------------------------------------
\* run_environment: the candidate is validated, then the command runs.
StartTest(p, e) ==
  /\ pc(p) = "run" /\ e \in at[p].left /\ Valid(p) /\ AsExpected(p) /\ RefreshTags(p)
  /\ at' = [at EXCEPT ![p].pc = "ready", ![p].testing = e]
  /\ UNCHANGED <<commits, head, edited, remote>>

RunTest(p) ==
  /\ pc(p) = "ready"
  /\ at' = [at EXCEPT ![p].pc = "testing", ![p].before = Now(p)]
  /\ UNCHANGED <<commits, head, edited, tags, remote>>

\* A worktree, HEAD or refs found changed afterwards are a failure, and restored.
EndTest(p, status) ==
  LET e == at[p].testing
  IN  /\ pc(p) = "testing" /\ status \in Status
      /\ (p \in Clone /\ edited[p]) \/ Now(p) # at[p].before => status = "FAIL"
      /\ Restore(p, at[p].before)
      /\ at' = [at EXCEPT ![p].pc = "run", ![p].testing = Nothing, ![p].left = @ \ {e},
                          ![p].results = @ \cup {Result(at[p].before.head, e, status)}]
      /\ UNCHANGED <<commits, remote>>

\* evaluate_results: a required result that is missing or incomplete decides
\* before a failure does.
Outcome(results) ==
  IF \E e \in Checks : ~Has(results, e, {"PASS", "FAIL"}) THEN "INCOMPLETE"
  ELSE IF \E e \in Checks : Has(results, e, {"FAIL"}) THEN "FAIL" ELSE "PASS"

\* finalize_results, up to the tag.
Finalize(p) ==
  /\ pc(p) = "run" /\ at[p].left = {} /\ Valid(p) /\ AsExpected(p) /\ RefreshTags(p)
  /\ LET outcome == Outcome(at[p].results)
         to == IF outcome = "INCOMPLETE" THEN "idle"
               ELSE IF at[p].kind = "push" THEN "publish" ELSE "tag"
     IN  at' = [at EXCEPT ![p] = IF to = "idle" THEN Idle
                                 ELSE [@ EXCEPT !.pc = to, !.outcome = outcome]]
  /\ UNCHANGED <<commits, head, edited, remote>>

\* assert_terminal_tag_available: neither outcome, neither here nor there.
Available(p, version) == ~Tagged(tags[p], version) /\ ~Tagged(remote.tags, version)

\* v<version> or v<version>-CI-FAIL on a commit.  pinned and results are history: did
\* every validation after the artifacts ask for this commit, and what was found.
TagOf(p, commit) ==
  [version |-> commits[commit].version, outcome |-> at[p].outcome, commit |-> commit,
   pinned |-> at[p].kind # "push", results |-> at[p].results]
MyTag(p) == TagOf(p, at[p].candidate)

TagRefused(p) ==
  /\ \/ pc(p) = "tag" /\ ~Available(p, MyTag(p).version)
     \/ pc(p) = "publish" /\ ~Available(p, Tip(p).version)
  /\ Raise(p)

\* finalize_results tags; a runner then pushes the tag.
TagLocally(p) ==
  /\ pc(p) = "tag" /\ Available(p, MyTag(p).version)
  /\ tags' = [tags EXCEPT ![p] = @ \cup {MyTag(p)}]
  /\ at' = [at EXCEPT ![p] = IF p \in Runner THEN [@ EXCEPT !.pc = "push tag"] ELSE Idle]
  /\ UNCHANGED <<commits, head, edited, remote>>

\* verify_local --push validates once more, whatever commit is checked out.
Publish(c) ==
  /\ pc(c) = "publish" /\ Valid(c) /\ Available(c, Tip(c).version)
  /\ tags' = [tags EXCEPT ![c] = Without(@, Tip(c).version) \cup {TagOf(c, head[c])}]
  /\ at' = [at EXCEPT ![c].pc = "push", ![c].candidate = head[c]]
  /\ UNCHANGED <<commits, head, edited, remote>>

-----------------------------------------------------------------------------
\* The remote.  It takes a branch forward only, and no tag twice.

TagFree(tag) ==
  \A t \in remote.tags : t.version # tag.version \/ t.outcome # tag.outcome

\* Mutant: without --atomic the tag is taken even if the branch is refused.
EachOnItsOwn(c) ==
  /\ TagFree(MyTag(c))
  /\ remote' = [tip |-> IF Descends(head[c], remote.tip) THEN head[c] ELSE remote.tip,
                tags |-> remote.tags \cup {MyTag(c)}]

\* push --atomic: what is checked out as the branch and the outcome, or neither.
BranchAndTag(c) ==
  /\ Descends(head[c], remote.tip) /\ TagFree(MyTag(c))
  /\ remote' = [tip |-> head[c], tags |-> remote.tags \cup {MyTag(c)}]

Push(c) ==
  /\ pc(c) = "push" /\ BranchAndTag(c)
  /\ at' = [at EXCEPT ![c] = Idle]
  /\ UNCHANGED <<commits, head, edited, tags>>

\* Rejected, or no connection: everything is rolled back.
PushRejected(c) == pc(c) = "push" /\ Raise(c)

\* Accepted, but the answer is lost: rolled back here, published there.
PushUnanswered(c) ==
  pc(c) = "push" /\ BranchAndTag(c) /\ Undo(c) /\ UNCHANGED commits

PushTag(r) ==
  /\ pc(r) = "push tag" /\ TagFree(MyTag(r))
  /\ remote' = [remote EXCEPT !.tags = @ \cup {MyTag(r)}]
  /\ at' = [at EXCEPT ![r] = Idle]
  /\ UNCHANGED <<commits, head, edited, tags>>

PushTagFails(r) ==
  /\ pc(r) = "push tag" /\ tags' = [tags EXCEPT ![r] = Without(@, MyTag(r).version)]
  /\ at' = [at EXCEPT ![r] = Idle]
  /\ UNCHANGED <<commits, head, edited, remote>>

\* A CI job checks the branch out afresh and validates it.
Checkout(r) ==
  /\ pc(r) = "idle"
  /\ head' = [head EXCEPT ![r] = remote.tip] /\ tags' = [tags EXCEPT ![r] = {}]
  /\ at' = [at EXCEPT ![r] = [Idle EXCEPT !.pc = "run", !.kind = "ci", !.left = Env,
                                          !.results = {Result(remote.tip, Artifacts, "PASS")},
                                          !.candidate = remote.tip]]
  /\ UNCHANGED <<commits, edited, remote>>

-----------------------------------------------------------------------------
\* The developer.

Edits(c) ==
  /\ c \in Editing /\ ~edited[c] /\ edited' = [edited EXCEPT ![c] = TRUE]
  /\ UNCHANGED <<commits, head, tags, remote, at>>

\* The developer goes on while a command runs, or only between commands.
Free(c) == pc(c) = "idle" \/ c \in Editing

\* A commit of sources, which the request is not bound to, or of declared outputs.
Commits(c) ==
  /\ Free(c) /\ edited[c] /\ Len(commits) < MaxCommits
  /\ \E bound \in {FALSE, Tip(c).bound} :
       commits' = Append(commits, [Tip(c) EXCEPT !.past = Pasts(c), !.bound = bound])
  /\ head' = [head EXCEPT ![c] = Len(commits')]
  /\ edited' = [edited EXCEPT ![c] = FALSE]
  /\ UNCHANGED <<tags, remote, at>>

PushesBranch(c) ==
  /\ Free(c) /\ head[c] # remote.tip /\ Descends(head[c], remote.tip)
  /\ remote' = [remote EXCEPT !.tip = head[c]]
  /\ UNCHANGED <<commits, head, edited, tags, at>>

\* git pull --ff-only, with the tags.
Pulls(c) ==
  /\ Free(c) /\ head[c] # remote.tip /\ Descends(remote.tip, head[c])
  /\ head' = [head EXCEPT ![c] = remote.tip]
  /\ tags' = [tags EXCEPT ![c] = @ \cup remote.tags]
  /\ UNCHANGED <<commits, edited, remote, at>>

Verify(c) ==
  \/ \E kind \in Kinds[c] : Begin(c, kind)
  \/ RepositoryPolicyFails(c) \/ BranchPolicyFails(c)
  \/ PrepareRefuses(c) \/ Prepare(c) \/ AdvanceIteration(c) \/ PrepareFails(c)
  \/ KeepRequest(c) \/ CommitRequest(c) \/ Validate(c)
  \/ StartArtifacts(c) \/ ArtifactsPass(c) \/ \E status \in Status : ArtifactsFail(c, status)
  \/ ArtifactsUnchanged(c) \/ CommitArtifacts(c) \/ Revalidate(c)
  \/ Publish(c) \/ Push(c) \/ PushRejected(c) \/ PushUnanswered(c)

Test(p) ==
  \/ ValidateFails(p) \/ (\E e \in Env : StartTest(p, e)) \/ RunTest(p)
  \/ \E status \in Status : EndTest(p, status)
  \/ Finalize(p) \/ TagRefused(p) \/ TagLocally(p)

Develop(c) == Edits(c) \/ Commits(c) \/ PushesBranch(c) \/ Pulls(c)

Next ==
  \/ \E p \in Place : Test(p)
  \/ \E c \in Clone : Verify(c) \/ Develop(c)
  \/ \E r \in Runner : Checkout(r) \/ PushTag(r) \/ PushTagFails(r)

Spec == Init /\ [][Next]_vars

-----------------------------------------------------------------------------
\* Wherever an outcome of a version is found, it belongs to a commit of that version,
\* and rests on what was found on it or on commits before it: for a pass every required
\* check passed, for a failure one failed.  Where the command has asked for this commit
\* to the end, its environments have tested exactly this commit, however HEAD moved.
Had(tag, e, status) ==
  \E result \in tag.results :
    /\ result.environment = e /\ result.status = status
    /\ Descends(tag.commit, result.commit)
    /\ tag.pinned /\ e # Artifacts => result.commit = tag.commit
Tested(tag) ==
  /\ tag.commit \in DOMAIN commits /\ commits[tag.commit].version = tag.version
  /\ tag.outcome = "PASS" => \A e \in Checks : Had(tag, e, "PASS")
  /\ tag.outcome = "FAIL" => \E e \in Checks : Had(tag, e, "FAIL")

TagIsTested == \A tag \in remote.tags \cup UNION {tags[p] : p \in Place} : Tested(tag)

\* TEST_STRATEGY.md: evidence for SHA A is rejected for changed SHA B.  What the
\* environments found stands only for the commit where they found it.
EvidenceOfTagged ==
  \A tag \in remote.tags : \A result \in tag.results :
    result.environment \in Env => result.commit = tag.commit

\* A published outcome is of a commit on the published branch, whatever was
\* rejected, lost on the way or rolled back.
OutcomeOnBranch == \A t \in remote.tags : Descends(remote.tip, t.commit)

-----------------------------------------------------------------------------
(***************************************************************************)
(* The inductive invariant.                                                 *)
(***************************************************************************)

Made == 1..Len(commits)
PCs == {"idle", "policy", "version", "validate", "artifacts", "generating", "collect", "revalidate",
        "run", "ready", "testing", "publish", "tag", "push", "push tag"}

Results == SUBSET [environment : Env \cup {Artifacts}, status : Status, commit : Nat]
Tag == [version : Nat, outcome : Status, commit : Nat, pinned : BOOLEAN, results : Results]
State == [head : Nat, tags : SUBSET Tag]
Local ==
  [pc : PCs, kind : {"local", "push", "ci"}, start : State, before : State, version : Nat,
   prepared : BOOLEAN, results : Results, left : SUBSET Env, testing : Env \cup {Nothing},
   outcome : Status, candidate : Nat]

CommitRecord == [past : SUBSET Nat, version : Nat, request : Nat, bound : BOOLEAN]

TypeOK ==
  /\ commits \in Seq(CommitRecord)
  /\ head \in [Place -> Made] /\ edited \in [Clone -> BOOLEAN] /\ tags \in [Place -> SUBSET Tag]
  /\ remote \in [tip : Made, tags : SUBSET Tag]
  /\ at \in [Place -> Local]
  /\ \A p \in Place : {at[p].start.head, at[p].before.head, at[p].candidate} \subseteq Made

\* The ancestors of an ancestor are ancestors, and older.
Ancestry ==
  \A new \in Made : /\ commits[new].past \subseteq 1..(new - 1)
                    /\ \A old \in commits[new].past : commits[old].past \subseteq commits[new].past

\* While a command runs, HEAD moves forward only: from the candidate over what was found
\* and what a restoration brings back to what is checked out.  Whoever has decided
\* validated the candidate last, at the end of that way.
Validated == {"artifacts", "generating", "collect", "revalidate", "run", "ready", "testing"}
Found == {"collect", "revalidate", "run", "ready", "testing"}
Deciding == {"publish", "tag", "push", "push tag"}
HeadGoesOn(p) ==
  /\ pc(p) \in Validated \cup Deciding => Descends(head[p], at[p].candidate)
  /\ pc(p) \in {"generating", "testing"} =>
       Descends(head[p], at[p].before.head) /\ Descends(at[p].before.head, at[p].candidate)
  /\ pc(p) \in Found => \A r \in at[p].results :
       /\ Descends(head[p], r.commit)
       /\ r.environment # Artifacts => Descends(r.commit, at[p].candidate)
  /\ pc(p) = "testing" => \A r \in at[p].results : Descends(at[p].before.head, r.commit)
  /\ pc(p) \in {"ready", "testing"} => at[p].testing \in Env
  /\ pc(p) \in {"collect", "revalidate"} => \A r \in at[p].results : r.environment = Artifacts
  /\ pc(p) = "publish" => at[p].kind = "push"
  /\ pc(p) \in Deciding =>
       /\ at[p].outcome = Outcome(at[p].results) /\ at[p].outcome # "INCOMPLETE"
       /\ \A r \in at[p].results :
            /\ Descends(at[p].candidate, r.commit)
            /\ at[p].kind # "push" /\ r.environment # Artifacts => r.commit = at[p].candidate

\* The branch has moved on from what a runner has checked out, if at all.
RunnerBehind(p) == p \in Runner /\ pc(p) # "idle" => Descends(remote.tip, head[p])

\* A rollback brings back tags that were tested as well.
AllTested ==
  /\ \A tag \in remote.tags : Tested(tag)
  /\ \A p \in Place : \A tag \in tags[p] \cup at[p].start.tags \cup at[p].before.tags : Tested(tag)

IInv ==
  /\ TypeOK /\ Ancestry /\ AllTested /\ OutcomeOnBranch
  /\ \A p \in Place : HeadGoesOn(p) /\ RunnerBehind(p)
=============================================================================

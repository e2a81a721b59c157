# RepoWorkflow in TLA+

RepoWorkflow (`repo_workflow.py`, `repo_workflow/`) is a repository-local workflow engine.
It starts issues, tracks their lifecycles, hands out worktrees, keeps the dependencies of
tickets, runs test phases and publishes results as git tags.  Many short command-line
processes, of people and of agents, run on one clone at the same time; they share JSON and
CSV files, a git repository and a ticket server, and any of them may be killed.  Several
clones and hosted jobs share a remote.  There is no daemon and no database.  What keeps the
shared state sound are lock directories, compare-and-swap on record revisions, a small
write-ahead protocol, the order of writes, and on the remote atomic and leased pushes.
That is what these modules model, check with TLC and prove with TLAPS.

Paths below are relative to the repository; `src/` in PROJECT.json is its root.

## 1. Inventory

| Component | State it keeps | Operations | Hard behaviour | What makes it correct |
|---|---|---|---|---|
| Record store, `state_store.py` | one JSON file per key, a lock directory per key | read, create, replace | racing writers, kills while the lock is held, failed writes | one winner per revision, an unbroken chain of revisions |
| Transactions, `transaction.py` | a transaction record per identity, the coordinator's lock | prepare, commit, abort, recover | two sessions with conflicting write sets, competing decisions, kill between commit and materialization | exclusive preparation, one decision, only committed effects, completed effects |
| Lifecycle, `lifecycle_store.py`, `high_risk.py` | one record per issue with its history | seven transitions, high-risk sections | stale callers, records of older schemas, a lost file | append-only history, the reviewed candidate is the completed one, no silent reset |
| Issue start, `issue_start.py`, `current_work_store.py`, `parent_branch.py`, `owned_commit.py`, `version_adapter.py` | version file, work branch, lifecycle, current work, transaction | start, replayed start | kills anywhere, several sessions, a moving graph and parent branch | effects in order, quiet replay, a reported start is complete |
| Workspaces, `workspace_*.py` | worktree, branch, directory, claim record and lock | create, claim, release, block, resume, close, list, readiness | two creators, two claimants, undoing a half-made workspace | only complete workspaces are claimed; an owner's claim is its own |
| Tickets, `relationship_store.py`, `dependency_sync_cli.py`, `relationship_bootstrap.py`, `issue_metadata.py` | `tickets.csv` and its lock, the ticket server's rows | refresh of states, synchronization both ways, title refresh, acquisition | minutes between reading and writing, a server without transactions | a valid dependency graph, no lost rows, samples that only move forward |
| Ticket merge driver, `ticket_merge.py`, `scripts/merge-ticket-state.py` | none: three files and the server in, one file out | three-way merge of `tickets.csv` | edits on both branches that contradict each other, rows removed, titles renamed meanwhile | nothing either branch did is lost, the result is a file the store reads |
| Lanes, `lane_*.py` | selection record (by revision), the graph it was made from | select, add, remove, clear, refresh, view | a graph that moves under a selection, two commands, budgets for crossing groups | a stored selection is whole, a drawing shows the dependencies there are |
| Workflow planner, `workflow_state.py`, `workflow_transitions.py` | a local cache, without a lock | validate, derive legal transitions | kills between a commit and the cache, checkouts, restoration | no phase is skipped |
| Done planner, `done_planner.py`, `pre_merge_gate.py` | none: a decision from one snapshot, checked again at the merge | plan, check before the merge | facts observed for other commits than the ones decided about | only what was validated and authorized is merged |
| Delivery, `candidate.py`, `guard.py`, `artifacts.py`, `results.py`, `local.py` | version file, request commit, tags here and on the remote | prepare a candidate, collect results, finalize, publish | two clones of one version, lost answers of a push, rollback | a tag says what was found on its commit |
| Hosted stages, `terminal_tag.py`, `ci_invocation.py`, `hosted_*.py`, `engine_remote.py`, workflows | marker and evidence commits on the branch, terminal tags | request, plan, test, publish evidence, bind, tag | requests on top of evidence, repeated and cancelled runs, local tests beside | a tag rests on an observation of its very source |
| Retry evidence, `retry_evidence.py` | evidence log, journal in the git directory, SQLite lock | isolate, restore, recover | kill while the log is hidden, tests that write what they like | no observation is lost, success means untouched |
| Remote commands, `remote_*.py`, `scripts/hosted-rwf-forward.py` | numbered command branches, result commits | submit, reuse, retry, execute, publish, poll | concurrent requesters, repeated runs, moved branches, lost answers | an answer is of the question, nothing is overwritten |
| Test engine, `test_*.py` | evidence logs | run a phase, reuse an earlier result | stale results | reuse only for the same inputs |
| Dependency library, migration | `tickets.csv` | earlier forms of the synchronization | none that a command still reaches | out of scope |
| Hosted cache, runtime identity | none here (provider answers) | verify | mixed-up answers | out of scope: checks of fields |
| Graph renderer, `graph_*.py` | none | layout and routing of a text drawing | none that is about state | out of scope |
| Command line, grammar, CI plans, configuration, git wrappers | none | parse, complete, dispatch, check | none that is about state | out of scope |

How they interact.  Lifecycles, current work, transactions and lane selections are records
of the record store.  `issue_start` observes five domains, prepares a transaction, and
writes version, branch, lifecycle and current work when it is committed.  Creating a
workspace calls `start_issue` in the new worktree.  Refreshing `tickets.csv` reads
lifecycles; starting an issue reads the revision of `tickets.csv`; lanes are selected from
it; when branches meet, git hands it to the merge driver.  Everything is committed to git
with `commit_owned_files`.  `verify_local` is called by people, by the planner's validation
and, inside the isolation of the evidence log, by a retry.  Hosted stages run the same test
commands in a checkout of the candidate.  Remote commands run any command of the list in a
clone of the remote and push what it committed.

## 2. Modules

| Module | Models | Checked by | Proofs |
|---|---|---|---|
| `RecordTypes`, `RecordStore` | `state_store.py` step by step | `stores` | `RecordStoreProofs` |
| `CasRegister` | what the store promises: an atomic compare-and-swap register | refined by `RecordStore` | |
| `Transaction` | `transaction.py`, driven as `start_issue` drives it | `transaction`, `transaction_stale` | `TransactionProofs` |
| `Lifecycle` | `lifecycle_store.py` | `issue_progress`, `lifecycle_lost` | `IssueProgressProofs` |
| `Planner` | `workflow_state.py`, `workflow_transitions.py` | `issue_progress` | `IssueProgressProofs` |
| `DonePlan` | `done_planner.py`, `pre_merge_gate.py` | `issue_progress` | `IssueProgressProofs` |
| `IssueProgress` | `Lifecycle`, `Planner` and `DonePlan` side by side | `issue_progress` | `IssueProgressProofs` |
| `IssueStart` | `issue_start.py` with everything it writes | `issue_delivery`, `issue_start_live`, `issue_start_killed` | `IssueDeliveryProofs` |
| `RetryEvidence` | `retry_evidence.py` step by step | `issue_delivery` | `RetryEvidenceProofs` |
| `Delivery` | `verify_local` and the CI job: from a commit to the tag of its outcome | `issue_delivery`, `delivery_tag` | `IssueDeliveryProofs` |
| `HostedStage` | a hosted test stage from its request to its terminal tag | `issue_delivery` | `IssueDeliveryProofs` |
| `RemoteCommand` | `remote_*.py`: a command's way to the remote and back | `issue_delivery` | `RemoteCommandProofs` |
| `IssueDelivery` | `IssueStart` and the four above side by side | `issue_delivery` | `IssueDeliveryProofs` |
| `WorkspaceClaim` | what a claim promises: one owner, legal steps | refined by `Workspace` | |
| `Workspace` | `workspace_cli.py`, `workspace_store.py`, `workspace_worktree.py` | `stores`, `workspace_partial` | `WorkspaceProofs` |
| `Tickets` | `relationship_store.py` and the commands that write it | `ticket_graph`, `tickets_partial` | `TicketGraphProofs` |
| `TicketMerge` | `ticket_merge.py` and its script | `ticket_graph` | `TicketGraphProofs` |
| `TicketGraph` | `Tickets`, `TicketMerge` and `Lanes` side by side | `ticket_graph` | `TicketGraphProofs` |
| `Lanes` | the `lane_*` modules behind `rwf lanes` | `ticket_graph` | `TicketGraphProofs` |

The `MC*` modules hold values that a `.cfg` cannot express.  `MCStores` puts `RecordStore` and
`Workspace`, the two stores with a lock directory of their own, into one run.

`IssueProgress`, `IssueDelivery` and `TicketGraph` put neighbouring components into one
behaviour, because together they answer one question about an issue.  Such a module EXTENDS
one component and INSTANCEs the others; its variable `subject`, chosen in the initial
state, says which behaviour this one is.  The variables of an instance are slots that a
different subject leaves alone, and the other components stay as they are.  So a run
explores each component completely and no product of them; they share no state in the code
at the level modelled here.  The constants of an instance are constants of the composing
module (a record each in `IssueDelivery` and `TicketGraph`, where several names can have
several records: `Team`, `Hosted`, `Showing`), so its theorems are about every value of them, and the
`MC*` module chooses the small ones.  A component may have two instances, each with a case
the other lacks.  A property of a subject reads `subject = "..." => M!Property`.

Operators whose comment begins with "Mutant" are plausible bugs, each a changed form of the
definition that follows it; with the mutant in place of that definition TLC refutes the
property they belong to.

State and actions.  A process is a program counter and what it remembers between steps
(`pc`, `call`, `temp` in `RecordStore`; a record `at[p]` elsewhere).  One action is one step
that others can come between: `mkdir` of a lock, a check under the lock, a rename, a git
command, a push, a read before a decision.  Failing is an action of its own at every step
that can raise.  A killed process keeps nothing; its lock directory and the files it has
written stay.  The system layers: `RecordStore` shows that create and replace are an atomic
compare-and-swap, and the modules above use them as one step with a revision check;
`Transaction` shows the protocol in detail, and `IssueStart` uses prepare, validate and
decide as one step each.  What the one step must not hide is the kill inside it: a process
killed in `JsonRecordStore` leaves the key's lock directory (`state_store.py:229-242`),
nothing removes it, and every later write of the record raises.  `Transaction` (`blocked`)
and `IssueStart` (`locked`) have these locks and the writes that they make raise.

- `RecordStore`: `disk` and `lock` are the files, `call` and `result` are arguments and
  return value.  `AcquireLock` to `ReleaseLock` follow `create()` and `replace()`;
  `LockBusy` is the five-second deadline.
- `Transaction`: `txn` holds the records, `current` the revisions of the members,
  `applied` the members a materialization has written.  `blocked` are the records that
  cannot be written: their lock was left by a killed process (`CrashHolding`,
  `CreateRecord`), or something else is wrong with them (`Obstruct`); `Repair` is a person
  putting that right.  `OutsideWrite` is any other command writing a member.
- `Lifecycle`: `record` is the file, `recorded` says whether git history has a version of
  it, which is what `read()` asks git when the file is missing.  `LoseFile` takes the file
  away at any moment, also before git has it and under a running command; `lost` remembers
  that this has happened.  `Inherited` gives the
  histories that schemas 1 and 2 leave behind.
- `Planner`: `cache` is `state.json`, with the candidate it is about; `cmd` is a validation
  between its git commands and its write of the cache; `holds` are the branch and version
  policies.  `passed` and `accepted` are history: what really happened to which commit.
- `DonePlan`: `world` has the tips; `pinned`, `validation`, `grants` are what a snapshot
  reports, observed for a candidate and a parent tip.  `PlanDone` is `plan_done` with all
  its blocks.  `Merge` comes later, for whatever is then checked out, into whatever tip the
  parent branch then has, if `check_pre_merge_candidate` accepts it; `merged` notes what was
  really merged, on which tip, and the parent branch advances.
- `IssueStart`: `version`, `outputs`, `branch`, `head`, `life`, `work` are what
  `_materialize` changes, in its order.  `relation` and `tip` move by other commands.
  `found` is the lifecycle and branch of the beginning: none, or of an issue that was
  started before and is active, aborted (and re-entered) or in review and beyond (refused).
- `RetryEvidence`: `log` and `head` are the evidence log in the worktree and in HEAD,
  `journal` the file in the git directory, `lock` SQLite's exclusive transaction.
  `EnterContext`, `Recover*`, look and inspect, `WriteJournal`, `Hide`, preflight,
  `Operate*` (the verification, which may alter the stand-in, put something else in its
  place or leave files), the restoration, `DropJournal`.  `recorded` is history.
- `Delivery`: a commit knows its ancestors, its version and whether its request is bound to
  it; a result names the commit its command saw.  `head`, `tags`, `edited` are a clone;
  `remote` the branch tip and the tags.  `Begin`
  to `Push` follow `verify_local`; `Raise` is its rollback; a runner begins with `Checkout`.
  The developer of a clone in `Editing` edits, commits, pulls and pushes while a command
  runs there, so that HEAD moves between any two of its steps; `before` and `start` are the
  repository's states that the command compares with and goes back to.
- `HostedStage`: a branch is the sequence of its commits (source, marker, evidence,
  recorded outcome), each with the test log in its tree; `run` the workflow run: plan, test, check, publish, bind, tag.
  `Request` and `TestLocally` are the developer's commands.
- `RemoteCommand`: `command` has the CMD branches as sequences of requests and results,
  `worker` the hosted run of each, `at` each client between listing, pushing and polling.
- `Workspace`: `tree`, `branch`, `directory`, `claim`, `lock`.  Undoing is `Withdraw`,
  `Retire`, `DeleteBranch`, in the code's order, and may be refused.
- `Tickets`: `tickets` is the file (rows and sampled lifecycle revisions), `server` the
  ticket server, `life` the lifecycles.  A command observes issue by issue, plans one new
  file, checks before and under the lock, writes.  Every edit of the server by others is
  `EditTicket`.
- `TicketMerge`: `branch[b]` is the tree of a branch: graph and samples of `tickets.csv`, and
  the lifecycles that git merges on its own.  What merges to a value is a singleton, a
  conflict is the empty set; `MergeTicketCsv` is the driver, `Merge` and `MergeConflict` its
  two ends.
- `Lanes`: `selection` and `revision` are the record, `graph` is `tickets.csv`.  The searches
  (of `dependency_states`, of `_has_alternate_path`) are modelled by what they come to: what
  is in every set that has the start and is closed under the edges (`Reached`).  The loops
  that take the next ready issue and give it to a lane are recursive functions of how many
  were taken (`Left`, `LanesAfter`), tie-breaks included.  That the graphs given have no cycle is
  the reader's check (`_validate_direct_dependencies`), for which `Tickets` has `GraphStaysValid`.

## 3. What the runs check

One run asks everything of its instance that it can, safety and liveness together.  Where
a module has proofs, its run checks the inductive invariant as well (`IInv`, and for the
compositions `ProgressIInv`, `IssueIInv`, `GraphIInv`), so that what the proofs rest on has
been seen to hold on an instance.

`stores`, the two stores with a lock directory.

- Records: three processes, two of them mortal, one key, revisions up to 1, two values;
  fair.  Two racing writers and one reader of each revision fit; three processes are the
  fewest with a holder, a waiter and a latecomer.  Keys do not interact (the proofs are for
  any number).  The inductive invariant; no two calls are told they made the same revision;
  a record advances one revision at a time and names its predecessor; the store implements
  `CasRegister`; a live process removes its lock (`LockReleased`); calls return although a
  killed process has left the lock (`CallReturns`).  What such a lock does to the commands
  above is asked by `CommittedIsMaterialized` and `FinishesUnlessObstructed`.
- Workspaces: two processes, one mortal, two workers, one session, claim revisions up to 2.
  Claims are on complete workspaces only and change as `WorkspaceClaim` says.  Two workers
  suffice for an owner and an intruder.

`transaction` (two transactions that conflict in one member, two processes, one mortal,
outside writes up to revision 1, any lock left behind and any repaired; fair).  No two conflicting transactions are prepared
together, only a committed one has effects, and a decision is final, for commit against
abort, resumption and recovery in any order; a committed transaction is materialized
completely, whoever is killed, when its command is repeated, or comes to a record that it
has still to write and cannot (`CommittedIsMaterialized`).  Locks of records it has written,
the coordinator's, and those of other transactions do not stop it.  `transaction_stale` refutes
what STATE_CONCURRENCY.md asks: see the findings.

`issue_progress`, how far an issue is and what may come next.

- Lifecycle: two processes, two candidates, one high-risk section, revisions up to 3, all
  inherited histories.  Four events on top of an inherited one reach every state, a
  rejection after acceptance and a second candidate.  What the store writes it can read; a
  completed issue was reviewed and accepted with the candidate it completes; history is
  only appended to, as long as the file is not lost.  The file may be lost at any moment.
  Once git has it, and no command is about to write that read before git had it, every
  command raises, and it stays missing until it is restored (`MissingStaysMissing`).
  `lifecycle_lost` is the other case: lost before its first commit, nothing shows that it
  existed and the issue starts over (`NeverReset` is refuted).
- Planner: up to three commits, so that a failed candidate has a successor and people can
  go back; commands that are killed or raise at every step.  What the cache makes legal at
  HEAD, HEAD itself has earned (`PlanIsEarned`).  People leave HEAD alone while a command
  runs (`Meanwhile = FALSE`); with TRUE the property fails, since `verify_local` tests one
  commit and `head_sha` asks again for the one to note it for.
- Done planner: two commits on each branch, every disposition of the manual test, one or
  two contenders, at most one fact unmet (`plan_done` collects its blocks independently, so
  two unmet ones add nothing): the authentication of the manual test or the coordinator,
  which some dispositions look at and others do not, where the rest block always.  Up to
  two runs of a gate, of which all are reported or, collected again, the last one.
  Both branches move between the plan and the merge.  What is merged was validated and
  authorized as the very commit that is merged and on the tip that it is merged into, which
  it contains, and a required manual test passed for it (`MergedIsEarned`).  It is the gate
  at the merge that sees to it: without the comparison of the tips (`pre_merge_gate.py:59`)
  the property fails.  Gate and merge are one step, since the server repeats the gate
  atomically (`pre_merge_gate.py:45-47`).

`issue_delivery`, from the start of an issue to its tags.

- Start: two processes, both mortal, two sessions, one change of the graph, one lock left
  behind, every initial version, a new issue or one aborted before.  Effects appear in
  order, replays advance no revision, a reported start is complete.
- Retry: two observations, two processes, both mortal, every log and HEAD at first.  Two
  processes are a killed one and the one that recovers, or a holder of the lock and one
  that is refused.  No observation is lost (`EvidenceKept`); success means that the
  verification left everything as it was (`SuccessMeansUntouched`).  Observations are
  recorded between verifications (`RecordAnytime = FALSE`): one that is appended to the
  stand-in is lost when the original is put back, and no lock keeps a test run in the same
  worktree from doing so.
- Delivery: two clones that push the same version (three commits: a common one and the
  request of each); a clone beside a CI job with two versions and two commits, so that an
  outcome calls for the next iteration; a clone that verifies while developers commit, push
  and pull, in it and in another (two commits: one is HEAD, the other comes meanwhile); one
  that publishes while its developer goes on (three commits).  In the first two, developers
  work between commands only.
  However HEAD moves, a tag names a commit of its version, its outcome follows from what the
  checks found on that commit or on commits before it, and the environments have tested
  exactly that commit wherever the command asks for it to the end (`TagIsTested`).  The
  artifacts' result may be of an ancestor: HEAD can move between the verifier and
  `head_sha` (`artifacts.py:190`).  A published outcome is on the published branch
  (`OutcomeOnBranch`), also when a push is refused, or accepted without an answer.
  The one command that does not ask to the end is `verify_local --push`: `delivery_tag` (one
  clone, whose developer goes on) refutes that what the environments found is of the commit
  that is tagged (`EvidenceOfTagged`).
- Hosted stages: one version with five commits, which fit a group stage and a terminal one
  with their markers and evidence, or a repeated request on top of the evidence of the
  first; and two versions, four commits with local terminal tests.  A run may be repeated
  or cancelled at any point.  A published tag names a source commit of its version and the
  branch holds a clean observation of its outcome on exactly that commit; a version has one
  outcome per phase (`TagIsEvidence`).
- Remote commands: two clients on two branches with one number, of which one changes
  branches while it polls; and one client whose command is retried, with people pushing to
  the branch.  Both have runs that are repeated and killed.  Who is told an outcome is told
  that of his own command on his own source, and success means that its commits are there
  (`AnswerIsTrue`); no commit of a source branch is lost (`NothingOverwritten`).

`issue_start_live` (two processes, one mortal, one session, every initial version, every
lifecycle and branch from before, one change of the graph, one move of the parent branch, up
to two locks left behind; fair): whoever is killed wherever, a committed start that is issued
again is finished, unless an obstacle stays in its way for ever (`FinishesUnlessObstructed`):
the version is another issue's; the branch was left without identity; the lifecycle is in
review or beyond, which is only looked at after the decision; the graph has changed since the
lifecycle was started, which makes every repetition raise "active lifecycle uses a stale
relationship revision"; or a killed process has left the lock of the lifecycle or of the
current work while that is still to be written.  Without any one of these the property fails.
The locks of the coordinator and of the transaction, which a kill leaves as well, are no
obstacles to a committed start.  Two locks are as many as one mortal process leaves in one
step (of the coordinator and the record).
`issue_start_killed` (two sessions, a new issue) refutes that a committed start is finished
where no lock was left at all (`UnlockedFinishes`): it stays on the branch without identity.

`workspace_partial` refutes all-or-nothing creation.

`ticket_graph`, what becomes of the dependency graph.

- Tickets: two issues, two processes, one mortal.  One refreshes states, acquires the
  missing row and synchronizes one issue from the server; the other refreshes states,
  pushes both issues and refreshes titles, while the server turns its edges into a cycle
  and a lifecycle advances.  The stored graph stays valid, nobody undoes another one's
  rows, samples move forward and never run ahead.  Two issues are the fewest with a cycle;
  larger instances with every command on both processes were too large to finish.
- Merge: three issues, two branches, files with and without samples, edits that contradict
  each other (two rows that form a cycle together, a row removed that the other branch now
  names, a title renamed), the server answering or silent, merges in both directions and
  again on top of a merge.  Three issues are the fewest for two dependencies of one row.
  What either branch added or removed is kept, the file is valid, titles and samples are
  somebody's, and the other direction gives the same graph (`MergeKeepsBoth`).
- Lanes: four issues, one of them a feature, six graphs (a path, diamonds, shortcuts, a
  graph without an issue) and three policies for one command at a time; two graphs for two
  commands at once.  Four issues are the fewest with a diamond.  A stored selection has its
  roots and what they are connected to, all of it as far as no group stops it, one lane per
  issue, and lanes are paths; it can be drawn as long as the graph is the one it was
  selected from; what is drawn, however old the selection, shows a way exactly where the
  graph has one (`LanesAreTrue`).

The run takes about two minutes, most of it for the commands of `Tickets` and for `Lanes`.

`tickets_partial` has one process and refutes that failed replacements change nothing.

Deadlock checking is off in every run: commands end, and bounded instances stop.

Fairness.  Weak fairness of a process's own steps says that a command that is not killed
runs to its end; the code has no unbounded wait, every lock has a deadline.  Strong
fairness of starting a command says that somebody issues it again and again, which is what
STATE_RECOVERY.md prescribes after a failure; it is strong because a process is busy in
between.  No fairness is on the success of a write: whether a repeated materialization gets
through depends on the locks that are in its way, and those appear in the properties.
Nothing forces a mortal process to run, or to die, or a person to remove a lock.

### Findings

- Stale inputs at commit (`transaction_stale`): validation and decision are separate steps
  and the conflict scan ignores committed transactions that are not materialized yet.
- A start that can never finish (`issue_start_killed`): killed between `git branch` and
  the parent identity commit, the branch is refused by every later call.
- Half a workspace (`workspace_partial`): when `start_issue` raises after writing its
  transaction record, undoing refuses the "local work" and leaves worktree and branch.
- A rollback that does not look (`tickets_partial`): an issue whose replacement failed
  half-way is neither reread nor restored.
- A record that never was (`lifecycle_lost`): the lifecycle record is lost after it was
  written and before git has it, and the issue starts over as if it were new.
- A tag for an untested commit (`delivery_tag`): `verify_local --push` validates once more
  before it tags, without the commit whose results it has; a commit made in between is
  tagged and pushed with the outcome of the one before.

One more observation has no run, because no document says otherwise: every failure of
`verify_local` rolls the worktree back with `git reset --hard` and `git clean -fd`
(`local.py:63-65`, `git.py:206-207`), the refusal of an unclean checkout included, which asks to
commit or discard the changes first (`candidate.py:147`).  Uncommitted work is deleted
(`Restore` in `Delivery`).

PROJECT.json quotes the documents these contradict.  Hazards without a property are listed
there with the reason.

## 4. What is proved

All theorems hold for every value of the constants, under the named assumptions of the
modules (bounds are natural numbers, `None` is no process, killed processes are
processes).  For every component the proof has the same shape: the initial states satisfy
`IInv`, every action preserves it (one step per action), and the invariants and action
properties follow from it.

- `RecordStoreProofs`: `Invariance`, `OneWinner`, `Chain`, `Refinement`.  The invariant
  says that one live process is inside a key's lock and that the record it checked is
  still in place when it renames.  Without the second part a stale check could overwrite
  a record; without the first it is not inductive.  `WrittenNotNewer` ties return values to
  the file, for `OneWinner`.  The refinement maps the rename to `Swap`.
- `TransactionProofs`: `Invariance`, `PreparedExclude`, `AppliedAreCommitted`, `Decided`.
  `ScanStaysTrue` is the heart: what a scan found stays true until the record is created,
  because the coordinator's lock keeps others from creating.
- `IssueProgressProofs`: about `Lifecycle`, `Invariance`, `NeverStuck`, `Reviewed`,
  `AppendsOnly`, `NoReset`.  `Underway` says what a process past its check knows of the
  record when its revision is unchanged; once the file has been lost, it says so only of
  types and readability, because a new first record may have the old revision.  `NoReset` is
  of `MissingStaysMissing`, for files lost at any time: a process that is past its check
  with no record in mind is all that could still write one.  About the composition,
  `ProgressInvariance` (of `ProgressIInv`), from which `OffersWhatIsEarned` and
  `MergesWhatIsEarned` follow.  `PlanIsEarned` speaks of idle moments and is not inductive:
  `CacheIsEarned` says that the cache claims nothing of its candidate that did not happen to
  it, whoever is killed before it is written, and `NoteIsEarned` the same of what a command
  is about to note.  The former ties the cache to its candidate and not to HEAD, so a
  checkout or a new commit cannot break it.  `MergedIsEarned` needs that a plan is earned,
  for the tip it names, and `ReportsAreEarned`: a report, however stale, names what did
  pass.  That the tip of the plan is the one merged into is the gate's doing.
- `IssueDeliveryProofs`, the largest, in four parts.
  - `IssueStart`: `Invariance`, `Ordered`, `Quiet`, `Reported`.  `Materializing` says what is
    in place at each step of `_materialize`; `RecordsAgree` that lifecycle and current work
    are written once.
  - `Delivery`, for every team (clones, whoever edits in them, runners, environments,
    versions): `TagsAreTested` and `OutcomesAreOnBranch`.  `AllTested` extends the first to
    the tags a command has set aside, since a rollback brings them back.  `HeadGoesOn` says
    that while a command runs HEAD moves forward only, from the candidate over where each
    result was found to what is checked out; whoever then validates that HEAD is the
    candidate has closed the way, and all results lie on that commit.  `RunnerBehind` says
    that a runner's checkout is an ancestor of the branch tip, with `Ancestry` (the past of
    a commit is closed) as what a fast-forward rests on.
  - `HostedStage`, for every set of stages: `TagsAreEvidence`.  `History` says that each commit
    carries the log of the ones below it, `RunTraced` what a run has established by each of
    its steps: a candidate that is a source below its marker, then a record of that source,
    then the record on the branch.  That among the commits a run looks through there is a last
    one is a lemma (`Greatest`) from the library's theorem on well-founded sets.
  - The composition: `IssueInvariance` (of `IssueIInv`), `EvidenceIsKept`,
    `SuccessIsUntouched`, `AnswersAreTrue`, `SourcesOnlyGrow`, with the step lemmas of
    `RetryEvidenceProofs` and `RemoteCommandProofs` for their subjects.
- `WorkspaceProofs`: `Invariance`, `Claimable`, `Implements`.  `OneCreator` says that one
  process creates at a time, and that nobody can claim before it is through.
- `TicketGraphProofs`: about `Tickets`, `Invariance`, `GraphIsValid`, `OthersRowsKept`,
  `StatesMoveForward`.  `Sound` says what the memory of a process guarantees at each step:
  its base was a valid file with samples of the past (`Observes`), it has read the rows it
  needs (`Collects`), and its goal changes its own rows only and is valid (`Keeps`, `Plans`).
  All of it stays true when others add rows and lifecycles advance (`SoundLater`), so an
  action concerns the process that takes it; only a write under the lock changes the file,
  and there the file is the base (`LockExclusion`).  About the composition,
  `GraphInvariance` (of `GraphIInv`) and `MergesKeepBoth`, for every set of issues, any
  two branches and whatever is edited.  The merge is taken apart row by row: what it makes of
  a row depends on that row in the three files, and swapping the sides makes the same of it.  `Legal` says that each branch's tree is one the store reads, `Since` that on each
  branch lifecycles and samples have only moved forward since the base; without it the
  newer of two samples might be older than the base's.
  About `Lanes`, `LanesShowWhatIs`, for all graphs, titles, policies and commands at once.
  The inductive invariant (`Lanes!IInv`) is small: what is stored, and what a command is
  about to store, is whole (`SelectionIsWhole`); the revision check decides whether it is
  stored and not whether it is whole.  The weight is in what the operators return:
  - What holds of 0 and of each next number holds up to any bound (`UpTo`): a smallest
    counterexample is what the library's theorem on well-founded sets gives.  With it come
    the recursive functions (`Steps`: one exists and has the values its definition says)
    and the order: `Sorted` lists each issue once, after what it depends on (`SortedFacts`,
    `SortedOrder`), and a path in whatever order is found again (`SortedChain`).
  - `Divided` says of the lanes so far that they are paths, disjoint, and of what was
    assigned; `AssignDivided` that the next issue keeps it, `LaneOrder` that sorting a lane
    on its own gives the lane.
  - A closed set is all that is connected to the roots (`ReachedFacts`, `StatesFacts`,
    `ComponentFacts`), so no search is followed step by step.
  - A reduced graph has the same closed sets as the full one (`ReductionFacts`): an edge that
    leaves a set closed under the reduction is left out because of another way, and among
    such edges one that spans the fewest positions of a topological order (`Positions`) has a shorter
    one beside it.  Groups of issues with the same edges draw the reduction and nothing else
    (`DrawnIs`), and what has the same closed sets has the same ways (`SamePaths`).
  - In a view of a graph that has not changed a lane is what it was when it was stored, so
    the drawing is not refused (`FreshIsDrawn`).
- `RetryEvidenceProofs`: `Invariance`, `Kept`, `Untouched`.  `JournalCovers` says that a
  stand-in and HEAD hold no more than was recorded, and that while the stand-in lies there
  the journal's original has everything; `Knows` what a process remembers of log and
  journal at each step (that the journal is empty before it writes its own, that from then
  on it is what the process has read); `Sees` that the comparison at the end still finds
  what the verification has left.  `Kept` and `Untouched` are proved, as checked, for
  observations recorded between verifications.
- `RemoteCommandProofs`: `Invariance`, `AnswersAreTrue`, `NothingLost`.  `Ledger` says that a
  CMD branch asks one thing and that a result lies right on the request it answers;
  `RunIsTrue` that a hosted run which read its push back has put it there, `ResultsAreTrue`
  that this still holds of what was published, `Follows` that who polls has the number of a
  branch that asks what he asked.  Source branches only grow (`SourceStep`), which keeps all
  of this true; and they only grow because the lease holds the very revision of the request.

The theorems about a composition are about its own specification (`ProgressSpec`,
`IssueSpec`, `GraphSpec`), whose constants are those of every component in it, under the
assumptions that each component names.

Every invariant and action property that a passing run checks is proved.  Only
model-checked: liveness (`CallReturns`, `LockReleased`, `CommittedIsMaterialized`,
`FinishesUnlessObstructed`), which under fairness is out of the prover's reach, and the
refuted properties.

## 5. Not modelled

- The dependency synchronization library (`dependency_sync.py` and its like): only tests
  call it since the commands of `Tickets` replaced it.  The migration of older dependency
  records runs once per repository.
- The hosted cache and the runtime identity: field by field checks of a provider's answer,
  without a state of their own.  What an accepted answer leads to is in `HostedStage` and
  `RemoteCommand`.
- The test engine: whether an earlier result is reused is decided by comparing digests of
  whole trees in one process.  The evidence that outlives a process is in `RetryEvidence`,
  `Delivery`, `HostedStage` and `DonePlan`.
- The graph renderer (pure geometry), the GitHub adapter (one call each, an answer or a
  failure in every model), command line and grammar, CI plans and policy checks, wrappers
  of git and of processes.
- Several worktrees sharing one clone: git checkouts that exchange record files under a
  running command, and refs that a rollback in one worktree resets for the others.
  `LoseFile` is what `Lifecycle` sees of it.
- In `Delivery`, people who work in a clone outside `Editing` while a command runs there.
- In `RetryEvidence`, the log of a test run being replaced by the one the branch has published,
  when that covers the groups asked for (`test_cli.py:289-291`).  Observations that only the
  local log had are then in the commits that `run_test` made, unless it was killed before.
- Several issues at a time in `IssueStart`: they meet in transactions (`Transaction`) and
  in the version file (`Versions` has another issue's).
- In `IssueStart`, live processes waiting for a store's lock: their writes are short
  against the five seconds after which a waiter raises (`RecordStore` has the contention).
  `rwf high-risk` writing lifecycle and current work beside a start.  Lifecycle states other
  than new and active come from the beginning (`found`): no command of `IssueStart` makes
  them, and none aborts a transaction other than a stale one.
- In `Lifecycle`, `dependency_satisfied` (a function of the state) and
  `relationship_revision` (stored only).  The second half of `high_risk.py`.
- In `Workspace`, the steps inside `git worktree add` and its removal; a failed `add` is
  taken to be undone completely (`workspace_worktree.py:102-107`, `267-284`).  The lock
  directory of the claim that a killed process leaves is in the module; that it stops every
  later claim has no property, as no document says who removes it.
- In `Tickets`, the steps of one read of the server, lane policies, the display record's
  contents, the commit of the file, and the legacy format.  Its revision, 64 bits of a
  hash, is taken to be its content.
- In `TicketMerge`, the registration of the driver in a clone, and what git does in a clone
  that lacks it.
- In `Lanes`, acquiring missing rows (which `Tickets` has), older schemas of the record,
  labels, lists and the drawing itself.
- In `Delivery`, stable versions and the legacy branch of change classes; policies are checks
  that pass or fail.  In `HostedStage`, runs of several branches and reused results.  In
  `RemoteCommand`, what a command does, other than commit or not.
- In `Planner`, the preliminary integration fields, which nothing writes.
- Formatting, parsing and validation of fields; clock times; permissions.

## 6. What is left

- `RecordAnytime` and `Meanwhile` name two assumptions about people that the code does not
  enforce; each is a constant so that a change of the code can be checked without it.
- The second half of `high_risk.py`: current work lags behind when the second replace fails.
- A composition of `Tickets`, `Lifecycle` and `IssueStart` over one `tickets.csv`.

----------------------------- MODULE Lifecycle -----------------------------
(***************************************************************************)
(* repo_workflow/lifecycle_store.py: LifecycleStore, the durable lifecycle  *)
(* of one issue.  Processes change it concurrently: each knows a revision   *)
(* from an earlier read, reads the record again, checks the transition      *)
(* against what it read and replaces the record by compare-and-swap         *)
(* (CasRegister).  The record may have been written by an older schema, git *)
(* may have recorded it, and its file may be lost from the worktree.        *)
(***************************************************************************)
EXTENDS Integers, Sequences

CONSTANTS
  Proc,         \* processes
  Candidate,    \* exact candidate versions
  Alias,        \* names of high-risk test sections
  None,         \* Python's None
  Inherited,    \* lifecycle values that older schemas may have left
  MaxRevision   \* bound: no request is made against a later revision

VARIABLES
  record,       \* the record file: its revision (-1: no file) and its value
  recorded,     \* git history holds a version of the record file
  lost,         \* the record file has been lost (history variable)
  at            \* at[p]: where process p is and what it remembers

vars == <<record, recorded, lost, at>>

States == {"not_started", "active", "in_review", "accepted", "completed", "aborted"}

Transitions == {
  <<"not_started", "start", "active">>,
  <<"active", "submit-review", "in_review">>,
  <<"in_review", "accept", "accepted">>,
  <<"in_review", "reject/reopen", "active">>,
  <<"accepted", "reject/reopen", "active">>,
  <<"active", "abort", "aborted">>,
  <<"aborted", "re-enter", "active">>,
  <<"accepted", "complete", "completed">>}

LegacyTransitions == {
  <<"unstarted", "start", "active">>,
  <<"active", "abort", "aborted">>,
  <<"aborted", "re-enter", "active">>,
  <<"active", "accept", "accepted">>,
  <<"accepted", "reject/reopen", "active">>,
  <<"accepted", "complete", "completed">>}

Names == {"start", "submit-review", "accept", "reject/reopen", "abort", "re-enter",
          "complete"}

Event == [transition : Names, from : States \cup {"unstarted"}, to : States,
          candidate : Candidate \cup {None}]

\* legacy: how many events at the front of the history an older schema wrote.
Lifecycle == [state : States, history : Seq(Event), legacy : Nat, aliases : SUBSET Alias]

NotStarted == [state |-> "not_started", history |-> <<>>, legacy |-> 0, aliases |-> {}]

----------------------------------------------------------------------------
(***************************************************************************)
(* Validation                                                               *)
(***************************************************************************)

\* Mutant: nothing ties acceptance to the candidate that was reviewed.
CandidateFitsAny(name, candidate, h, n) ==
  name \in {"submit-review", "accept", "complete"} => candidate # None

\* _validate_transition_candidate after the first n events of h: review,
\* acceptance and completion name a candidate, the last two that of event n.
CandidateFits(name, candidate, h, n) ==
  /\ name \in {"submit-review", "accept", "complete"} => candidate # None
  /\ name \in {"accept", "complete"} => n > 0 /\ h[n].candidate = candidate

\* _event and _validate_history: event i follows a transition of its era and
\* starts where the event before it ended.
EventFits(h, legacy, i) ==
  /\ <<h[i].from, h[i].transition, h[i].to>>
       \in (IF i <= legacy THEN LegacyTransitions ELSE Transitions)
  /\ h[i].from = IF i > 1 THEN h[i - 1].to
                 ELSE IF legacy > 0 THEN "unstarted" ELSE "not_started"
  /\ i > legacy => CandidateFits(h[i].transition, h[i].candidate, h, i - 1)

\* from_json_value: what the reader accepts.
Readable(v) ==
  /\ v.legacy <= Len(v.history)
  /\ \A i \in 1..Len(v.history) : EventFits(v.history, v.legacy, i)
  /\ v.state = IF v.history = <<>> THEN "not_started" ELSE v.history[Len(v.history)].to

ASSUME InheritedAssumption ==
  /\ Inherited \subseteq Lifecycle
  /\ \A v \in Inherited : Readable(v)
ASSUME NoneAssumption == None \notin Candidate
ASSUME MaxRevisionAssumption == MaxRevision \in Nat

----------------------------------------------------------------------------
Idle == [pc |-> "idle", op |-> None, candidate |-> None, aliases |-> {},
         expected |-> -1, base |-> NotStarted]

NoRecord == [revision |-> -1, value |-> NotStarted]

Init ==
  /\ \/ record = NoRecord /\ recorded = FALSE
     \/ \E v \in Inherited : record = [revision |-> 0, value |-> v] /\ recorded = TRUE
  /\ lost = FALSE
  /\ at = [p \in Proc |-> Idle]

\* Mutant: read() does not ask git.
ReadRaisesNever == FALSE

\* read() raises when the file is missing although git has recorded it.
ReadRaises == record.revision = -1 /\ recorded

\* A command that has read the lifecycle asks for a transition.
Request(p, name, candidate) ==
  /\ at[p].pc = "idle"
  /\ ~ReadRaises
  /\ record.revision < MaxRevision
  /\ at' = [at EXCEPT ![p] = [Idle EXCEPT !.pc = "check", !.op = name,
                                          !.candidate = candidate,
                                          !.expected = record.revision]]
  /\ UNCHANGED <<record, recorded, lost>>

\* rwf high-risk has read the lifecycle of the current issue and adds test
\* sections to those it names already.
RequestAliases(p, aliases) ==
  /\ at[p].pc = "idle"
  /\ record.revision \in 0..(MaxRevision - 1)
  /\ ~(aliases \subseteq record.value.aliases)
  /\ at' = [at EXCEPT ![p] = [Idle EXCEPT !.pc = "check", !.op = "set-aliases",
                                          !.aliases = record.value.aliases \cup aliases,
                                          !.expected = record.revision]]
  /\ UNCHANGED <<record, recorded, lost>>

\* transition() and set_high_risk_aliases() read the record again and require
\* the revision the caller knows; a transition must be legal there.
Current(p) ==
  /\ ~ReadRaises
  /\ Readable(record.value)
  /\ record.revision = at[p].expected

\* Mutant: acceptance does not look at the candidate.
LegalAnyCandidate(p) ==
  \/ at[p].op = "set-aliases"
  \/ \E to \in States : <<record.value.state, at[p].op, to>> \in Transitions

Legal(p) ==
  \/ at[p].op = "set-aliases"
  \/ /\ \E to \in States : <<record.value.state, at[p].op, to>> \in Transitions
     /\ CandidateFits(at[p].op, at[p].candidate, record.value.history,
                      Len(record.value.history))

Check(p) ==
  /\ at[p].pc = "check"
  /\ Current(p) /\ Legal(p)
  /\ at' = [at EXCEPT ![p] = [@ EXCEPT !.pc = "store", !.base = record.value]]
  /\ UNCHANGED <<record, recorded, lost>>

Refuse(p) ==
  /\ at[p].pc = "check"
  /\ ~(Current(p) /\ Legal(p))
  /\ at' = [at EXCEPT ![p] = Idle]
  /\ UNCHANGED <<record, recorded, lost>>

\* The value the caller has made of what it read.
NextState(v, name) == CHOOSE to \in States : <<v.state, name, to>> \in Transitions

Advanced(v, name, candidate) ==
  [state   |-> NextState(v, name),
   history |-> Append(v.history, [transition |-> name, from |-> v.state,
                                  to |-> NextState(v, name), candidate |-> candidate]),
   legacy  |-> v.legacy,
   aliases |-> v.aliases]

WithAliases(v, aliases) ==
  [state |-> v.state, history |-> v.history, legacy |-> v.legacy, aliases |-> aliases]

\* Mutant: the successor has no older schema's events.
NewValueNewEra(p) ==
  IF at[p].op = "set-aliases" THEN WithAliases(at[p].base, at[p].aliases)
  ELSE [Advanced(at[p].base, at[p].op, at[p].candidate) EXCEPT !.legacy = 0]

\* Mutant: the successor has no test sections.
NewValueForgets(p) ==
  IF at[p].op = "set-aliases" THEN WithAliases(at[p].base, at[p].aliases)
  ELSE [Advanced(at[p].base, at[p].op, at[p].candidate) EXCEPT !.aliases = {}]

NewValue(p) ==
  IF at[p].op = "set-aliases" THEN WithAliases(at[p].base, at[p].aliases)
  ELSE Advanced(at[p].base, at[p].op, at[p].candidate)

\* create() or replace() of the record store.
Store(p) ==
  /\ at[p].pc = "store"
  /\ record.revision = at[p].expected
  /\ record' = [revision |-> record.revision + 1, value |-> NewValue(p)]
  /\ at' = [at EXCEPT ![p] = Idle]
  /\ UNCHANGED <<recorded, lost>>

StoreLost(p) ==
  /\ at[p].pc = "store"
  /\ record.revision # at[p].expected
  /\ at' = [at EXCEPT ![p] = Idle]
  /\ UNCHANGED <<record, recorded, lost>>

\* commit_owned_files: git records the file.
GitCommit ==
  /\ record.revision >= 0
  /\ ~recorded
  /\ recorded' = TRUE
  /\ UNCHANGED <<record, lost, at>>

\* The file is gone from the worktree, whether git has it or not and whoever is using
\* it: deleted, or another branch checked out.
LoseFile ==
  /\ record.revision >= 0
  /\ record' = NoRecord /\ lost' = TRUE
  /\ UNCHANGED <<recorded, at>>

Next ==
  \/ \E p \in Proc :
       \/ \E name \in Names, c \in Candidate \cup {None} : Request(p, name, c)
       \/ \E aliases \in SUBSET Alias : RequestAliases(p, aliases)
       \/ Check(p) \/ Refuse(p) \/ Store(p) \/ StoreLost(p)
  \/ GitCommit
  \/ LoseFile

Spec == Init /\ [][Next]_vars

----------------------------------------------------------------------------
(***************************************************************************)
(* Properties                                                               *)
(***************************************************************************)

TypeOK ==
  /\ record \in [revision : Nat \cup {-1}, value : Lifecycle]
  /\ recorded \in BOOLEAN /\ lost \in BOOLEAN
  /\ at \in [Proc -> [pc : {"idle", "check", "store"},
                      op : Names \cup {"set-aliases", None},
                      candidate : Candidate \cup {None}, aliases : SUBSET Alias,
                      expected : Nat \cup {-1}, base : Lifecycle]]

\* What transition() and set_high_risk_aliases() write is accepted by
\* from_json_value, also on top of a history of an older schema: no issue
\* gets stuck on a record of the tool's own making.
StoredReadable == Readable(record.value)

\* What a process past its check remembers is the record until the record moves on; of
\* a record that was lost it remembers nothing of use.
Underway(p) ==
  /\ at[p].expected >= -1
  /\ at[p].pc \in {"check", "store"} /\ ~lost =>
       /\ at[p].expected <= record.revision
       /\ at[p].op = "set-aliases" /\ at[p].expected = record.revision =>
            record.value.aliases \subseteq at[p].aliases
  /\ at[p].pc = "store" =>
       /\ Readable(at[p].base)
       /\ at[p].op # "set-aliases" =>
            /\ \E to \in States : <<at[p].base.state, at[p].op, to>> \in Transitions
            /\ CandidateFits(at[p].op, at[p].candidate, at[p].base.history,
                             Len(at[p].base.history))
       /\ ~lost /\ at[p].expected = record.revision => at[p].base = record.value

\* Types, the readable record and what underway processes know: the invariant
\* the proofs rest on.
IInv == TypeOK /\ StoredReadable /\ \A p \in Proc : Underway(p)

\* A completed issue was accepted with the very candidate it completed with,
\* and that candidate was submitted for review unless an older schema
\* accepted it.
CompletedAsReviewed ==
  LET v == record.value
      n == Len(v.history)
  IN  v.state = "completed" /\ n > v.legacy =>
        /\ n >= 2
        /\ v.history[n - 1].transition = "accept"
        /\ v.history[n - 1].candidate = v.history[n].candidate
        /\ n - 1 > v.legacy =>
             /\ n >= 3
             /\ v.history[n - 2].transition = "submit-review"
             /\ v.history[n - 2].candidate = v.history[n].candidate

\* ISSUE_LIFECYCLE_STATE.md: a replacement may append one transition and must
\* not delete, reorder or rewrite history, whatever a process with stale
\* knowledge writes; nor does it drop test sections another process added.  The
\* revision says which record it replaces, unless the file has been lost.
OnlyAppends ==
  [][~lost /\ record'.revision > 0 =>
       LET old == record.value.history
           new == record'.value.history
       IN  /\ Len(new) \in {Len(old), Len(old) + 1}
           /\ \A i \in 1..Len(old) : new[i] = old[i]
           /\ record.value.aliases \subseteq record'.value.aliases]_vars

\* Git has a lost record, and no command is about to write that has read before it was
\* recorded.
Missing ==
  record.revision = -1 /\ recorded /\ ~\E p \in Proc : at[p].pc = "store" /\ at[p].expected = -1

\* Then no command gets past it: the lifecycle is not started over, whatever commands
\* are underway or begin.
MissingStaysMissing == [][Missing => Missing']_vars

\* ISSUE_LIFECYCLE_STATE.md: a missing record that should exist is a recovery
\* error, not a reset: a lifecycle that has had a record never gets a first
\* record again.
NeverReset == [][lost /\ record.revision = -1 => record'.revision = -1]_vars
=============================================================================

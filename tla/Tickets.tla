------------------------------ MODULE Tickets ------------------------------
(***************************************************************************)
(* repo_workflow/relationship_store.py and the commands that write it:      *)
(* dependency_sync_cli.py, relationship_bootstrap.py, issue_metadata.py and *)
(* rwf lanes view --current.  One repository's tickets.csv, written by      *)
(* concurrent processes from what they observed before, next to the issues' *)
(* lifecycles and the ticket server, which others change meanwhile.         *)
(***************************************************************************)
EXTENDS Integers

CONSTANTS
  Issue,        \* issue numbers
  Title,        \* titles
  NoRow,        \* no row for an issue
  Proc,         \* processes
  Mortal,       \* the processes that may be killed
  FirstTickets, \* the contents tickets.csv may have at first
  FirstServer,  \* the rows the ticket server may have at first
  Runs,         \* bound: Runs[p] are the commands that p runs, and on which issues
  Edits,        \* bound: <<i, row>> is in it if others may make row the row of i
  MaxLife       \* bound: MaxLife[i] is the last revision of i's lifecycle

VARIABLES
  tickets,      \* tickets.csv, Missing when there is none
  lock,         \* its lock directory exists
  life,         \* life[i]: the revision of i's lifecycle, -1 when it has none
  server,       \* server[i]: title and dependencies on the ticket server
  at            \* at[p]: where process p is and what it remembers

data == <<tickets, lock, life, server>>
vars == <<data, at>>

Row == [title : Title, deps : SUBSET Issue]
Revision == Nat \cup {-1}
Unsampled == -2

\* graph: the rows; states: the lifecycle revision sampled for each row, none
\* while the file has no state columns.
Tickets == [graph : [Issue -> Row \cup {NoRow}], states : [Issue -> Revision \cup {Unsampled}]]
NoRows == [i \in Issue |-> NoRow]
NoStates == [i \in Issue |-> Unsampled]
Missing == [graph |-> NoRows, states |-> NoStates]

Rows(g) == {i \in Issue : g[i] # NoRow}
Known(t) == Rows(t.graph)
Sampled(states) == {i \in Issue : states[i] # Unsampled}

\* The revision of the file is a hash of its text: equal revisions are taken
\* to be equal contents.

\* _validate_direct_dependencies: no unknown, own or cyclic dependencies.
ValidGraph(g) ==
  /\ \A i \in Rows(g) : g[i].deps \subseteq Rows(g) \ {i}
  /\ \A S \in SUBSET Rows(g) : S # {} => \E i \in S : g[i].deps \cap S = {}

\* States are sampled for every row or for none.
ValidTickets(t) == ValidGraph(t.graph) /\ Sampled(t.states) \in {Known(t), {}}

Ops == {"states", "from", "to", "titles", "acquire", "undo"}
Options == {"none", "--replace", "--replace-title"}

ASSUME ProcAssumption == Mortal \subseteq Proc
ASSUME RowAssumption == NoRow \notin Row
ASSUME BoundAssumption ==
  /\ Runs \in [Proc -> SUBSET (Ops \X SUBSET Issue)]
  /\ MaxLife \in [Issue -> Revision] /\ Edits \subseteq Issue \X Row
ASSUME FirstAssumption ==
  /\ \A t \in FirstTickets : t \in Tickets /\ ValidTickets(t)
  /\ FirstServer \subseteq [Issue -> Row]

\* base: the file the command has read; left: the issues it has still to look
\* at; rows and revs: what it saw of them; goal: the file it wants to write;
\* pushed: the issues it has changed on the server.
Idle == [pc |-> "idle", op |-> "states", option |-> "none", base |-> Missing,
         scope |-> {}, left |-> {}, rows |-> NoRows, revs |-> NoStates, goal |-> Missing,
         pushed |-> {}]

Init ==
  /\ tickets \in FirstTickets
  /\ \A i \in Sampled(tickets.states) : tickets.states[i] = -1
  /\ lock = FALSE
  /\ life = [i \in Issue |-> -1]
  /\ server \in FirstServer
  /\ at = [p \in Proc |-> Idle]

pc(p) == at[p].pc
Goto(p, from, to) == pc(p) = from /\ at' = [at EXCEPT ![p] = [@ EXCEPT !.pc = to]]
Return(p, from) == pc(p) = from /\ at' = [at EXCEPT ![p] = Idle]
Fail(p, from) == pc(p) = from /\ at' = [at EXCEPT ![p] = [Idle EXCEPT !.pc = "unlock"]]
Start(p, op, option, scope) ==
  /\ pc(p) = "idle" /\ <<op, scope>> \in Runs[p]
  /\ at' = [at EXCEPT ![p] = [Idle EXCEPT !.pc = "observe", !.op = op, !.option = option,
                                          !.base = tickets, !.scope = scope, !.left = scope]]
  /\ UNCHANGED data

Propose(p, from, to, goal) ==
  /\ pc(p) = from
  /\ at' = [at EXCEPT ![p] = [@ EXCEPT !.pc = to, !.goal = goal, !.option = "none",
                                       !.rows = NoRows, !.revs = NoStates]]

----------------------------------------------------------------------------
(***************************************************************************)
(* The commands up to what they want to write                               *)
(***************************************************************************)

\* rwf lanes view --current: refresh_states samples every lifecycle.
BeginStates(p) ==
  tickets # Missing /\ Start(p, "states", "none", Known(tickets))

SampleState(p, i) ==
  /\ pc(p) = "observe" /\ at[p].op = "states" /\ i \in at[p].left
  /\ at' = [at EXCEPT ![p] = [at[p] EXCEPT !.left = @ \ {i},
                                           !.revs = [@ EXCEPT ![i] = life[i]]]]
  /\ UNCHANGED data

PlanStates(p) ==
  /\ at[p].op = "states" /\ at[p].left = {}
  /\ Propose(p, "observe", "lock", [graph |-> at[p].base.graph, states |-> at[p].revs])
  /\ UNCHANGED data

\* rwf issue ... dependency from-tickets and to-tickets read the rows of the
\* named issues on the server, a title refresh their titles.
BeginSync(p, scope, op, option) ==
  /\ scope \subseteq Known(tickets)
  /\ op \in {"from", "to", "titles"}
  /\ CASE op = "from" -> option \in Options
       [] op = "to" -> option \in {"none", "--replace"}
       [] OTHER -> option = "none"
  /\ Start(p, op, option, scope)

\* ensure_relationship_graph reads the rows that the file has not, beginning
\* with an issue and following dependencies both ways.
BeginAcquire(p, i) == i \notin Known(tickets) /\ Start(p, "acquire", "none", {i})

Unread(p, i) ==
  (server[i].deps \cup {j \in Issue : i \in server[j].deps})
    \ (Known(at[p].base) \cup Rows(at[p].rows))

ReadRow(p, i) ==
  /\ pc(p) = "observe" /\ at[p].op # "states" /\ i \in at[p].left
  /\ LET more == IF at[p].op = "acquire" THEN Unread(p, i) ELSE {}
     IN  at' = [at EXCEPT ![p] = [at[p] EXCEPT !.left = (@ \cup more) \ {i},
                                               !.scope = @ \cup more,
                                               !.rows = [@ EXCEPT ![i] = server[i]]]]
  /\ UNCHANGED data

\* The row of issue i the command wants, from the local row and the server's.
Wanted(op, option, local, theirs) ==
  LET keep == \/ op = "titles"
              \/ op = "from" /\ option = "--replace-title" /\ local.deps # {}
  IN  [title |-> theirs.title, deps |-> IF keep THEN local.deps ELSE theirs.deps]

\* from-tickets refuses to replace dependencies unless told to.
Conflict(p) ==
  /\ at[p].op = "from" /\ at[p].option = "none"
  /\ \E i \in at[p].scope :
       LET local == at[p].base.graph[i] IN
       local.deps # {} /\ local.deps # at[p].rows[i].deps

\* Mutant: the new graph begins without the rows of other issues.
NewGraphOwnRows(p) ==
  LET g == at[p].base.graph IN
  [i \in Issue |->
     IF i \notin at[p].scope THEN NoRow
     ELSE IF g[i] = NoRow THEN at[p].rows[i]
     ELSE Wanted(at[p].op, at[p].option, g[i], at[p].rows[i])]

NewGraph(p) ==
  LET g == at[p].base.graph IN
  [i \in Issue |->
     IF i \notin at[p].scope THEN g[i]
     ELSE IF g[i] = NoRow THEN at[p].rows[i]
     ELSE Wanted(at[p].op, at[p].option, g[i], at[p].rows[i])]

Observed(p) ==
  pc(p) = "observe" /\ at[p].op \in {"from", "titles", "acquire"} /\ at[p].left = {}

\* RelationshipGraph.from_json_value validates the new graph.
PlanRefused(p) ==
  /\ Observed(p)
  /\ Return(p, "observe")
  /\ Conflict(p) \/ ~ValidGraph(NewGraph(p))
  /\ UNCHANGED data

\* Nothing to write; a title refresh goes on to the display values.
PlanUnchanged(p) ==
  /\ Observed(p)
  /\ IF at[p].op = "titles" THEN Propose(p, "observe", "display", Missing)
                            ELSE Return(p, "observe")
  /\ ~Conflict(p) /\ NewGraph(p) = at[p].base.graph
  /\ UNCHANGED data

\* Mutant: the new graph is not validated.
PlanChangeAny(p) ==
  /\ Observed(p)
  /\ Propose(p, "observe", "recheck",
             [graph |-> NewGraph(p), states |-> at[p].base.states])
  /\ ~Conflict(p) /\ NewGraph(p) # at[p].base.graph
  /\ UNCHANGED data

\* replace() keeps the sampled states.
PlanChange(p) ==
  /\ Observed(p)
  /\ Propose(p, "observe", "recheck",
             [graph |-> NewGraph(p), states |-> at[p].base.states])
  /\ ~Conflict(p) /\ ValidGraph(NewGraph(p)) /\ NewGraph(p) # at[p].base.graph
  /\ UNCHANGED data

\* The ticket server does not answer.
ReadFails(p) == Return(p, "observe") /\ UNCHANGED data

----------------------------------------------------------------------------
(***************************************************************************)
(* Writing the file: RelationshipStore.create, replace and refresh_states   *)
(***************************************************************************)

\* replace() compares before it takes the lock, and again under the lock.
Recheck(p) ==
  /\ Goto(p, "recheck", "lock")
  /\ tickets = at[p].base
  /\ UNCHANGED data

RecheckStale(p) ==
  /\ Return(p, "recheck")
  /\ tickets # at[p].base
  /\ UNCHANGED data

\* Mutant: an existing lock directory is fine.
AcquireLockExistOk(p) ==
  /\ Goto(p, "lock", "check")
  /\ lock' = TRUE
  /\ UNCHANGED <<tickets, life, server>>

AcquireLock(p) ==
  /\ Goto(p, "lock", "check")
  /\ ~lock
  /\ lock' = TRUE
  /\ UNCHANGED <<tickets, life, server>>

\* Five seconds have passed.
LockBusy(p) ==
  /\ Return(p, "lock")
  /\ lock
  /\ UNCHANGED data

\* The goal with the lifecycles of new rows sampled, if states are kept.
Completed(goal) ==
  IF goal.states = NoStates THEN goal
  ELSE [goal EXCEPT !.states = [i \in Issue |->
          IF i \in Known(goal) /\ @[i] = Unsampled THEN life[i] ELSE @[i]]]

\* Mutant: the check before the lock is enough.
AdmitUnchecked(p) ==
  /\ Propose(p, "check", "write", Completed(at[p].goal))
  /\ UNCHANGED data

Admit(p) ==
  /\ Propose(p, "check", "write", Completed(at[p].goal))
  /\ tickets = at[p].base
  /\ UNCHANGED data

AdmitStale(p) ==
  /\ Fail(p, "check")
  /\ tickets # at[p].base
  /\ UNCHANGED data

WriteTickets(p) ==
  /\ Goto(p, "write", "written")
  /\ tickets' = at[p].goal
  /\ UNCHANGED <<lock, life, server>>

WriteFails(p) == Fail(p, "write") /\ UNCHANGED data

ReleaseFailed(p) ==
  /\ Return(p, "unlock")
  /\ lock' = FALSE
  /\ UNCHANGED <<tickets, life, server>>

ReleaseWritten(p) ==
  /\ IF at[p].op = "titles" THEN Goto(p, "written", "display") ELSE Return(p, "written")
  /\ lock' = FALSE
  /\ UNCHANGED <<tickets, life, server>>

----------------------------------------------------------------------------
(***************************************************************************)
(* The second half of a title refresh                                       *)
(***************************************************************************)

\* _write_display stores state and link of the tickets ...
StoreDisplay(p) == Return(p, "display") /\ UNCHANGED data

\* ... or raises: new titles are replaced by the old ones.
UndoTitles(p) ==
  /\ pc(p) = "display" /\ at[p].goal # Missing
  /\ at' = [at EXCEPT ![p] = [Idle EXCEPT !.pc = "recheck", !.op = "undo",
                                          !.base = at[p].goal, !.scope = at[p].scope,
                                          !.goal = [graph  |-> at[p].base.graph,
                                                    states |-> at[p].goal.states]]]
  /\ UNCHANGED data

DisplayFails(p) ==
  /\ Return(p, "display")
  /\ at[p].goal = Missing
  /\ UNCHANGED data

----------------------------------------------------------------------------
(***************************************************************************)
(* to-tickets on the server                                                 *)
(***************************************************************************)

Local(p, i) == at[p].base.graph[i]

PushAllowed(p) ==
  \A i \in at[p].scope :
    LET theirs == at[p].rows[i] IN
    /\ theirs.title = Local(p, i).title
    /\ theirs.deps \in {{}, Local(p, i).deps} \/ at[p].option = "--replace"

PlanPush(p) ==
  /\ pc(p) = "observe" /\ at[p].op = "to" /\ at[p].left = {}
  /\ PushAllowed(p)
  /\ at' = [at EXCEPT ![p] = [@ EXCEPT !.pc = "push",
                                !.left = {i \in at[p].scope :
                                            at[p].rows[i].deps # Local(p, i).deps}]]
  /\ UNCHANGED data

PushRefused(p) ==
  /\ at[p].op = "to" /\ at[p].left = {}
  /\ Return(p, "observe")
  /\ ~PushAllowed(p)
  /\ UNCHANGED data

SetDeps(i, deps) ==
  /\ server' = [server EXCEPT ![i] = [@ EXCEPT !.deps = deps]]
  /\ UNCHANGED <<tickets, lock, life>>

Push(p, i) ==
  /\ pc(p) = "push" /\ i \in at[p].left
  /\ SetDeps(i, Local(p, i).deps)
  /\ at' = [at EXCEPT ![p] = [at[p] EXCEPT !.pc = "readback", !.pushed = @ \cup {i}]]

\* The adapter removes, then adds dependencies, and may fail at any point.
ReplaceFails(i, wanted) ==
  \E deps \in {server[i].deps, server[i].deps \cap wanted, wanted} : SetDeps(i, deps)

PushFails(p, i) ==
  /\ Goto(p, "push", "restore")
  /\ i \in at[p].left
  /\ ReplaceFails(i, Local(p, i).deps)

ReadBack(p, i) ==
  /\ pc(p) = "readback" /\ i \in at[p].left \cap at[p].pushed
  /\ server[i] = Local(p, i)
  /\ at' = [at EXCEPT ![p] = [at[p] EXCEPT !.pc = "push", !.left = @ \ {i}]]
  /\ UNCHANGED data

\* It differs, or the server does not answer.
ReadBackFails(p, i) ==
  /\ pc(p) = "readback" /\ i \in at[p].left \cap at[p].pushed
  /\ at' = [at EXCEPT ![p] = [at[p] EXCEPT !.pc = "restore", !.left = @ \ {i}]]
  /\ UNCHANGED data

\* Every issue that was replaced gets its old dependencies back, if possible.
Restore(p, i) ==
  /\ pc(p) = "restore" /\ i \in at[p].pushed
  /\ SetDeps(i, at[p].rows[i].deps)
  /\ at' = [at EXCEPT ![p] = [at[p] EXCEPT !.pushed = @ \ {i}]]

RestoreFails(p, i) ==
  /\ pc(p) = "restore" /\ i \in at[p].pushed
  /\ ReplaceFails(i, at[p].rows[i].deps)
  /\ at' = [at EXCEPT ![p] = [at[p] EXCEPT !.pushed = @ \ {i}]]

PushUndone(p) ==
  /\ Return(p, "restore")
  /\ at[p].pushed = {}
  /\ UNCHANGED data

\* All are in place: the command refreshes the titles.
PushDone(p) ==
  /\ pc(p) = "push" /\ at[p].left = {}
  /\ at' = [at EXCEPT ![p] = [Idle EXCEPT !.pc = "observe", !.op = "titles",
                                          !.base = tickets, !.scope = at[p].scope,
                                          !.left = at[p].scope]]
  /\ UNCHANGED data

----------------------------------------------------------------------------
(***************************************************************************)
(* Everybody else                                                           *)
(***************************************************************************)

\* A lifecycle command advances an issue.
AdvanceLife(i) ==
  /\ life[i] < MaxLife[i]
  /\ life' = [life EXCEPT ![i] = @ + 1]
  /\ UNCHANGED <<tickets, lock, server, at>>

\* Somebody edits a ticket on the server.
EditTicket(i, row) ==
  /\ row # server[i]
  /\ server' = [server EXCEPT ![i] = row]
  /\ UNCHANGED <<tickets, lock, life, at>>

Crash(p) ==
  /\ p \in Mortal
  /\ pc(p) # "idle"
  /\ at' = [at EXCEPT ![p] = Idle]
  /\ UNCHANGED data

Step(p) ==
  \/ PlanStates(p) \/ PlanRefused(p) \/ PlanUnchanged(p) \/ PlanChange(p) \/ ReadFails(p)
  \/ Recheck(p) \/ RecheckStale(p) \/ AcquireLock(p) \/ LockBusy(p)
  \/ Admit(p) \/ AdmitStale(p) \/ WriteTickets(p) \/ WriteFails(p)
  \/ ReleaseFailed(p) \/ ReleaseWritten(p)
  \/ StoreDisplay(p) \/ UndoTitles(p) \/ DisplayFails(p)
  \/ PlanPush(p) \/ PushRefused(p) \/ PushUndone(p) \/ PushDone(p)
  \/ \E i \in Issue : \/ SampleState(p, i) \/ ReadRow(p, i)
                      \/ Push(p, i) \/ PushFails(p, i) \/ ReadBack(p, i)
                      \/ ReadBackFails(p, i) \/ Restore(p, i) \/ RestoreFails(p, i)

Next ==
  \/ \E p \in Proc :
       \/ BeginStates(p)
       \/ \E command \in Runs[p], option \in Options :
            BeginSync(p, command[2], command[1], option)
       \/ \E i \in Issue : BeginAcquire(p, i)
       \/ Step(p)
       \/ Crash(p)
  \/ \E i \in Issue : AdvanceLife(i)
  \/ \E edit \in Edits : EditTicket(edit[1], edit[2])

Spec == Init /\ [][Next]_vars

----------------------------------------------------------------------------
(***************************************************************************)
(* Properties                                                               *)
(***************************************************************************)

PCs == {"idle", "observe", "recheck", "lock", "check", "write", "written", "unlock", "display",
        "push", "readback", "restore"}
Memory == [pc : PCs, op : Ops, option : Options, base : Tickets, scope : SUBSET Issue,
           left : SUBSET Issue, rows : [Issue -> Row \cup {NoRow}],
           revs : [Issue -> Revision \cup {Unsampled}], goal : Tickets, pushed : SUBSET Issue]

TypeOK ==
  /\ tickets \in Tickets /\ lock \in BOOLEAN
  /\ life \in [Issue -> Revision] /\ server \in [Issue -> Row]
  /\ at \in [Proc -> Memory]

\* However stale what a command has observed and however others write in
\* between, the stored dependencies name rows, and have no cycle.
GraphStaysValid == ValidTickets(tickets)

\* A write changes the rows its command is about and no others, compared with
\* what is there when it happens: no process undoes another one's rows.
OnlyOwnRows ==
  [][\A p \in Proc : WriteTickets(p) =>
       /\ Known(tickets) \subseteq Known(tickets')
       /\ \A i \in Known(tickets) \ at[p].scope : tickets'.graph[i] = tickets.graph[i]
       /\ at[p].op = "states" => tickets'.graph = tickets.graph]_vars

\* The sampled lifecycle revisions only move forward and never run ahead,
\* although refreshes sample them long before they write.
ProjectionForward ==
  [][\A i \in Sampled(tickets.states) :
       /\ tickets.states[i] <= tickets'.states[i]
       /\ tickets'.states[i] <= life[i]]_vars

\* A rollback leaves alone the issues whose replacement failed.  They have
\* the old dependencies then, which TICKET_DEPENDENCY_ADAPTER.md says a caller
\* must not assume without rereading.  Here nobody else writes.
UnreplacedAreUnchanged ==
  \A p \in Proc : pc(p) = "restore" /\ at[p].pushed = {} =>
    \A i \in at[p].left : server[i].deps = at[p].rows[i].deps

----------------------------------------------------------------------------
(***************************************************************************)
(* The inductive invariant                                                  *)
(***************************************************************************)

Locked == {"check", "write", "written", "unlock"}
Writing == {"recheck", "lock", "check", "write"}

\* Samples are of the past, and newer ones than those of t.
Newer(t, states, f) ==
  \A i \in Issue : t.states[i] <= states[i] /\ states[i] <= f[i]

LockExclusion ==
  /\ \A p \in Proc : pc(p) \in Locked => lock
  /\ \A p, q \in Proc : pc(p) \in Locked /\ pc(q) \in Locked => p = q
  /\ \A p \in Proc : pc(p) = "write" => tickets = at[p].base

\* What a process with memory l may rely on while the file is t and the
\* lifecycles have the revisions f: its base was a valid file, and so far it
\* has sampled every lifecycle not before that file did, ...
Observes(l, f) ==
  /\ ValidTickets(l.base) /\ Newer(l.base, l.base.states, f)
  /\ l.pc = "observe" /\ l.op = "states" =>
       /\ l.left \subseteq Known(l.base) /\ Sampled(l.revs) = Known(l.base) \ l.left
       /\ \A i \in Issue \ l.left : l.base.states[i] <= l.revs[i] /\ l.revs[i] <= f[i]

\* ... the issues it was given have rows and it has read those it needs, ...
Collects(l, t) ==
  /\ l.pc # "idle" /\ l.op \in {"from", "to", "titles"} =>
       l.scope \subseteq Known(l.base) \cap Known(t)
  /\ l.pc = "observe" /\ l.op # "states" => l.scope \ l.left \subseteq Rows(l.rows)
  /\ l.pc \in {"push", "readback", "restore"} =>
       l.op = "to" /\ l.left \subseteq l.scope /\ l.scope \subseteq Rows(l.rows)
  /\ l.pushed \subseteq l.scope

\* ... and its goal differs from its base in its own rows only, ...
Keeps(l) ==
  /\ Known(l.base) \subseteq Known(l.goal)
  /\ \A i \in Known(l.base) \ l.scope : l.goal.graph[i] = l.base.graph[i]
  /\ l.op = "titles" => Known(l.goal) \subseteq Known(l.base)

\* ... is a valid file once it is completed, and newer than the base.
Plans(l, f) ==
  /\ l.pc \in Writing =>
       /\ Keeps(l) /\ ValidGraph(l.goal.graph) /\ Newer(l.base, l.goal.states, f)
       /\ l.op = "states" => l.goal.graph = l.base.graph
  /\ l.pc \in Writing \ {"write"} => Sampled(l.goal.states) \in {Known(l.base), {}}
  /\ l.pc \in {"write", "written"} \/ (l.pc = "display" /\ l.goal # Missing) =>
       Keeps(l) /\ ValidTickets(l.goal) /\ Newer(l.goal, l.goal.states, f)
  /\ l.pc = "display" => l.op = "titles"

Sound(l, t, f) == Observes(l, f) /\ Collects(l, t) /\ Plans(l, f)

IInv ==
  /\ TypeOK /\ LockExclusion
  /\ GraphStaysValid /\ Newer(tickets, tickets.states, life)
  /\ \A p \in Proc : Sound(at[p], tickets, life)
=============================================================================

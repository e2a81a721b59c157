---------------------------- MODULE TicketMerge ----------------------------
(***************************************************************************)
(* ticket_merge.py and scripts/merge-ticket-state.py: the driver that git   *)
(* runs on tickets.csv when both branches of a merge have changed it, next  *)
(* to the lifecycle records, which git merges on its own.                   *)
(***************************************************************************)
EXTENDS Integers

CONSTANTS
  Issue,       \* issue numbers
  Title,       \* titles
  NoRow,       \* no row for an issue
  Branch,      \* two branches of the repository
  FirstTree,   \* the trees they may start from
  FirstServer, \* the titles on the ticket server at first
  Renames,     \* bound: <<i, title>> is in it if people may rename i so
  Edits,       \* bound: <<i, row>> is in it if a command may make row the row of i
  MaxLife      \* bound: MaxLife[i] is the last revision of i's lifecycle

VARIABLES
  branch,    \* branch[b]: the tree at its tip; graph and states are tickets.csv
  base,      \* the tree where they parted
  server     \* server[i]: the title on the ticket server

vars == <<branch, base, server>>

Unsampled == -2
Row == [title : Title, deps : SUBSET Issue]
Rows(g) == {i \in Issue : g[i] # NoRow}
Sampled(states) == {i \in Issue : states[i] # Unsampled}

ValidGraph(g) ==
  /\ \A i \in Rows(g) : g[i].deps \subseteq Rows(g) \ {i}
  /\ \A S \in SUBSET Rows(g) : S # {} => \E i \in S : g[i].deps \cap S = {}

ValidTickets(t) == ValidGraph(t.graph) /\ Sampled(t.states) \in {Rows(t.graph), {}}

\* graph: the rows; states: the lifecycle revision sampled for each row, never ahead of
\* the lifecycle, whose revision is -1 when there is none.
Tree ==
  [graph : [Issue -> Row \cup {NoRow}], states : [Issue -> Int], life : [Issue -> Int]]
Legal(t) ==
  /\ t \in Tree /\ ValidTickets(t)
  /\ \A i \in Issue : Unsampled <= t.states[i] /\ t.states[i] <= t.life[i] /\ -1 <= t.life[i]

MergeAssumption ==
  /\ NoRow \notin Row /\ \E b, other \in Branch : b # other /\ Branch = {b, other}
  /\ \A t \in FirstTree : Legal(t)
  /\ FirstServer \in [Issue -> Title] /\ Renames \subseteq Issue \X Title
  /\ Edits \subseteq Issue \X (Row \cup {NoRow}) /\ MaxLife \in [Issue -> Int]

Init ==
  /\ base \in FirstTree /\ branch = [b \in Branch |-> base]
  /\ server = FirstServer

-----------------------------------------------------------------------------
\* What happens on a branch.

Completed(t, g) ==
  [i \in Issue |-> IF i \notin Rows(g) \/ Sampled(t.states) = {} THEN Unsampled
                   ELSE IF t.states[i] = Unsampled THEN t.life[i] ELSE t.states[i]]

Edit(b, edit) ==
  LET g == [branch[b].graph EXCEPT ![edit[1]] = edit[2]] IN
  /\ g # branch[b].graph /\ ValidGraph(g)
  /\ branch' = [branch EXCEPT ![b] = [graph |-> g, states |-> Completed(@, g), life |-> @.life]]
  /\ UNCHANGED <<base, server>>

RefreshStates(b) ==
  /\ branch' = [branch EXCEPT ![b].states = [i \in Issue |-> IF branch[b].graph[i] = NoRow THEN Unsampled ELSE branch[b].life[i]]]
  /\ UNCHANGED <<base, server>>

AdvanceLife(b, i) ==
  /\ branch[b].life[i] < MaxLife[i]
  /\ branch' = [branch EXCEPT ![b].life[i] = @ + 1]
  /\ UNCHANGED <<base, server>>

Rename(i, title) ==
  /\ server' = [server EXCEPT ![i] = title]
  /\ UNCHANGED <<branch, base>>

-----------------------------------------------------------------------------
\* The driver. What it merges is a set, empty when it is a conflict.

ThreeWay(old, ours, theirs) ==
  {x \in {ours, theirs} : ours = theirs \/ (ours = old /\ x = theirs) \/ (theirs = old /\ x = ours)}

\* Mutant: changed on both sides, ours is taken.
OursWins(old, ours, theirs) == IF old # NoRow /\ ours.deps = old.deps THEN {theirs.deps} ELSE {ours.deps}
MergedDeps(old, ours, theirs) ==
  IF old = NoRow THEN {ours.deps} \cap {theirs.deps} ELSE ThreeWay(old.deps, ours.deps, theirs.deps)

\* The server is asked whenever the titles differ, also when only one side changed it.
MergedTitle(ours, theirs, answer) == IF ours.title = theirs.title THEN {ours.title} ELSE answer

MergedRecord(old, ours, theirs, answer) ==
  IF NoRow \in {ours, theirs} THEN ThreeWay(old, ours, theirs)
  ELSE {[title |-> title, deps |-> deps] : title \in MergedTitle(ours, theirs, answer), deps \in MergedDeps(old, ours, theirs)}

\* Without a conflict, what was not sampled on a side gives way; what is sampled on none
\* is read from the lifecycle, at a time when the tree is still ours.
MergedState(old, ours, theirs, life) ==
  LET kept == IF ThreeWay(old, ours, theirs) # {} THEN ThreeWay(old, ours, theirs)
              ELSE IF ours = Unsampled THEN {theirs} ELSE IF theirs = Unsampled THEN {ours} ELSE {}
  IN {IF state = Unsampled THEN life ELSE state : state \in kept}

\* The only function into the sets, if they have one.
Chosen(sets) == IF \E i \in Issue : sets[i] = {} THEN {} ELSE {[i \in Issue |-> CHOOSE x \in sets[i] : TRUE]}

MergedStates(old, ours, theirs, g) ==
  IF \A t \in {old, ours, theirs} : Sampled(t.states) = {} THEN {[i \in Issue |-> Unsampled]}
  ELSE Chosen([i \in Issue |-> IF g[i] = NoRow THEN {Unsampled}
                               ELSE MergedState(old.states[i], ours.states[i], theirs.states[i], ours.life[i])])

\* merge_ticket_csv, with what the server answers for each issue; _render_csv validates.
MergedGraphs(old, ours, theirs, answers) ==
  Chosen([i \in Issue |-> MergedRecord(old.graph[i], ours.graph[i], theirs.graph[i], answers[i])])
MergeTicketCsv(old, ours, theirs, answers) ==
  LET files(g) == {[graph |-> g, states |-> states] : states \in MergedStates(old, ours, theirs, g)}
  IN {file \in UNION {files(g) : g \in MergedGraphs(old, ours, theirs, answers)} : ValidTickets(file)}

\* git runs the driver when both have changed the file; two new contents of a record are a conflict.
Diverged(ours, theirs) ==
  LET file(t) == <<t.graph, t.states>> IN file(ours) # file(theirs) /\ file(ours) # file(base) /\ file(theirs) # file(base)
MergedLife(old, ours, theirs) ==
  Chosen([i \in Issue |-> {max \in {ours[i], theirs[i]} : old[i] \in {ours[i], theirs[i]} /\ max >= ours[i] /\ max >= theirs[i]}])

Merge(b, other, answers) ==
  /\ b # other /\ Diverged(branch[b], branch[other])
  /\ \E file \in MergeTicketCsv(base, branch[b], branch[other], answers),
        life \in MergedLife(base.life, branch[b].life, branch[other].life) :
       branch' = [branch EXCEPT ![b] = [graph |-> file.graph, states |-> file.states, life |-> life]]
  /\ base' = branch[other] /\ UNCHANGED server

MergeConflict(b, other, answers) ==
  /\ b # other /\ Diverged(branch[b], branch[other])
  /\ MergeTicketCsv(base, branch[b], branch[other], answers) = {} \/ MergedLife(base.life, branch[b].life, branch[other].life) = {}
  /\ UNCHANGED vars

Answers == {[i \in Issue |-> {server[i]}], [i \in Issue |-> {}]}

Next ==
  \/ \E b \in Branch : \/ \E edit \in Edits : Edit(b, edit)
                       \/ RefreshStates(b) \/ \E i \in Issue : AdvanceLife(b, i)
  \/ \E rename \in Renames : Rename(rename[1], rename[2])
  \/ \E b, other \in Branch, answers \in Answers : Merge(b, other, answers) \/ MergeConflict(b, other, answers)

Spec == Init /\ [][Next]_vars

-----------------------------------------------------------------------------
Edges(t) == {edge \in Issue \X Issue : edge[1] \in Rows(t.graph) /\ edge[2] \in t.graph[edge[1]].deps}

\* merged has what a side added since the branches parted and not what it removed.
Keeps(merged, side) ==
  /\ Edges(side) \ Edges(base) \subseteq Edges(merged) /\ Edges(merged) \cap (Edges(base) \ Edges(side)) = {}
  /\ Rows(side.graph) \ Rows(base.graph) \subseteq Rows(merged.graph)
  /\ Rows(merged.graph) \cap (Rows(base.graph) \ Rows(side.graph)) = {}

KeepsBoth ==
  \A b, other \in Branch, answers \in Answers : Merge(b, other, answers) =>
    LET merged == branch'[b]
        sides == {branch[b], branch[other]}
    IN /\ ValidTickets(merged)
       /\ \A side \in sides : Keeps(merged, side)
       /\ \A i \in Rows(merged.graph) :
            /\ merged.graph[i].title \in {side.graph[i].title : side \in {s \in sides : i \in Rows(s.graph)}} \cup answers[i]
            /\ merged.states[i] <= merged.life[i]
            /\ \A side \in sides : merged.states[i] >= side.states[i]
       /\ \E file \in MergeTicketCsv(base, branch[other], branch[b], answers) : file.graph = merged.graph

\* A merge (each one moves the base) keeps every dependency and every row that either
\* branch added or removed, and leaves a file that the store reads, with titles from a
\* branch or the server and no state older than either branch had or newer than the
\* lifecycle; the graph is the one that the merge in the other direction gives.
MergeKeepsBoth == [][KeepsBoth]_base

-----------------------------------------------------------------------------
(***************************************************************************)
(* The inductive invariant.                                                 *)
(***************************************************************************)

\* On a branch lifecycles and samples move forward; a row that was removed and is back
\* is sampled anew.
Since(t, old) ==
  \A i \in Issue : old.life[i] <= t.life[i] /\ (t.states[i] = Unsampled \/ old.states[i] <= t.states[i])

IInv ==
  /\ Legal(base) /\ \A b \in Branch : Legal(branch[b]) /\ Since(branch[b], base)
  /\ branch \in [Branch -> Tree] /\ server \in [Issue -> Title]
=============================================================================

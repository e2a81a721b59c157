------------------------------- MODULE Lanes -------------------------------
(***************************************************************************)
(* rwf lanes: lane_selection_cli.py, lane_inspection.py and                 *)
(* lane_selection.py keep a selection of issues, expanded and divided into  *)
(* lanes by lane_traversal.py and lane_decomposition.py from the dependency *)
(* graph as it was; lane_render.py and lane_graph_adapter.py draw it with   *)
(* the graph as it is.                                                      *)
(***************************************************************************)
EXTENDS Integers, Sequences, FiniteSets, Functions

CONSTANTS
  Issue,      \* issue numbers
  Kind,       \* Kind[i]: the group kind that the title of i names, or "none"
  Proc,       \* commands at the same time
  GraphsOf,   \* bound: the graphs that tickets.csv may hold; g[i] is what i depends on
  Words,      \* bound: the sets of issues named in a command
  Asked,      \* bound: the traversal policies asked for
  MaxRevision \* bound: revisions of the selection record

VARIABLES
  graph,      \* the dependency graph in tickets.csv
  selection,  \* the value of the selection record
  revision,   \* its revision, 0 when there is no record
  at          \* at[p]: where command p is and what it remembers

vars == <<graph, selection, revision, at>>

GroupKinds == {"feature", "epic", "initiative"}
\* What a policy may name: a kind, or a group of any kind.
PolicyKinds == GroupKinds \cup {"group"}
Policies ==
  {policy \in [follow : [PolicyKinds -> Nat], children : SUBSET PolicyKinds] :
     policy.follow["group"] > 0 => \A kind \in GroupKinds : policy.follow[kind] = 0}
\* How many groups of each kind a path may cross; whose neighbours are shown though not crossed.
DefaultPolicy == [follow |-> [kind \in PolicyKinds |-> 0], children |-> {}]

NoSelection == [roots |-> {}, closure |-> {}, lane |-> <<>>, graph |-> <<>>, policy |-> DefaultPolicy]
Idle == [pc |-> "idle", op |-> "none", roots |-> {}, policy |-> DefaultPolicy, expected |-> 0, value |-> NoSelection]

\* A graph that tickets.csv may hold: what issues depend on has rows, and there is no cycle.
IsGraph(g) ==
  /\ DOMAIN g \subseteq Issue /\ IsFiniteSet(DOMAIN g)
  /\ \A issue \in DOMAIN g : g[issue] \subseteq DOMAIN g
  /\ \A S \in SUBSET DOMAIN g : S # {} => \E issue \in S : g[issue] \cap S = {}

LanesAssumption ==
  /\ Issue \subseteq Nat /\ \A issue \in Issue : Kind[issue] \in GroupKinds \cup {"none"}
  /\ \A g \in GraphsOf : IsGraph(g)
  /\ \A words \in Words : words \subseteq Issue
  /\ Asked \subseteq Policies /\ MaxRevision \in Nat

Init ==
  /\ graph \in GraphsOf
  /\ selection = NoSelection /\ revision = 0 /\ at = [p \in Proc |-> Idle]

-----------------------------------------------------------------------------
\* Traversal and decomposition.

Neighbours(g, issue) == g[issue] \cup {other \in DOMAIN g : issue \in g[other]}

\* FollowPolicy.cross: the budgets left beyond the issue, none if the path stops at it.
Cross(follow, kind, remaining) ==
  LET budget == IF follow["group"] > 0 THEN "group" ELSE kind IN
  IF kind = "none" THEN {remaining}
  ELSE IF remaining[budget] < 1 THEN {}
  ELSE {[remaining EXCEPT ![budget] = @ - 1]}

Matches(children, kind) == kind \in GroupKinds /\ children \cap {"group", kind} # {}

Beyond(g, roots, follow, state) ==
  LET crossed == IF state.issue \in roots THEN {state.remaining} ELSE Cross(follow, Kind[state.issue], state.remaining)
  IN {[issue |-> other, remaining |-> left] : other \in Neighbours(g, state.issue), left \in crossed}

\* A search from start comes to all that is in every set that has start and what its
\* members have edges to.
Closed(edges, C) == \A edge \in edges : edge[1] \in C => edge[2] \in C
Reached(edges, nodes, start) ==
  LET closed == {C \in SUBSET nodes : start \subseteq C /\ Closed(edges, C)} IN {node \in nodes : \A C \in closed : node \in C}

\* The groups that the path to an issue may still cross.
Budgets(follow) ==
  {left \in [PolicyKinds -> UNION {0..follow[kind] : kind \in PolicyKinds}] : \A kind \in PolicyKinds : left[kind] <= follow[kind]}

DependencyStates(g, roots, follow) ==
  LET all == [issue : DOMAIN g, remaining : Budgets(follow)]
      edges == UNION {{state} \X Beyond(g, roots, follow, state) : state \in all}
  IN Reached(edges, all, {[issue |-> root, remaining |-> follow] : root \in roots})

DependencyComponent(g, roots, policy) ==
  LET states == DependencyStates(g, roots, policy.follow)
      stops == {state \in states : /\ state.issue \notin roots /\ Matches(policy.children, Kind[state.issue])
                                   /\ Cross(policy.follow, Kind[state.issue], state.remaining) = {}}
  IN {state.issue : state \in states} \cup UNION {Neighbours(g, state.issue) : state \in stops}

\* Dependencies first, smaller numbers first.  A graph that was read has no cycle, so that
\* one of some issues is always ready.
First(g, issues) ==
  LET ready == {issue \in issues : g[issue] \cap issues = {}}
  IN CHOOSE issue \in ready : \A other \in ready : issue <= other

Rest(g, issues) == issues \ {First(g, issues)}
\* What is left after n of them.
Left(g, issues) ==
  LET left[n \in 0..Cardinality(issues)] == IF n = 0 THEN issues ELSE Rest(g, left[n - 1]) IN left

Sorted(g, issues) == [n \in 1..Cardinality(issues) |-> First(g, Left(g, issues)[n - 1])]

End(lane) == lane[Len(lane)]

\* An issue extends the lane whose last issue it depends on, or begins one.
Assign(g, lanes, issue) ==
  LET open == {k \in DOMAIN lanes : End(lanes[k]) \in g[issue]}
      chosen == CHOOSE k \in open : \A other \in open : End(lanes[k]) <= End(lanes[other])
  IN IF open = {} THEN Append(lanes, <<issue>>) ELSE [lanes EXCEPT ![chosen] = Append(@, issue)]

LanesAfter(g, order) ==
  LET lanes[n \in 0..Len(order)] == IF n = 0 THEN <<>> ELSE Assign(g, lanes[n - 1], order[n]) IN lanes

DecomposeLanes(g, closure) == LanesAfter(g, Sorted(g, closure))[Cardinality(closure)]

Project(g, roots, policy) ==
  LET closure == DependencyComponent(g, roots, policy)
      lanes == DecomposeLanes(g, closure)
  IN [roots |-> roots, closure |-> closure, graph |-> g, policy |-> policy,
      lane |-> [issue \in closure |-> CHOOSE k \in DOMAIN lanes : issue \in Range(lanes[k])]]

-----------------------------------------------------------------------------
\* Commands.

pc(p) == at[p].pc
Return(p) == at' = [at EXCEPT ![p] = Idle]

Begin(p, op, roots, policy) ==
  /\ pc(p) = "idle"
  /\ at' = [at EXCEPT ![p] = [Idle EXCEPT !.pc = "prepare", !.op = op, !.roots = roots, !.policy = policy, !.expected = revision]]
  /\ UNCHANGED <<graph, selection, revision>>

Selected == selection # NoSelection
Select(p, words, policy) == Begin(p, "select", words, policy)
\* Policies are kept unless others are asked for.
AddRoots(p, words, policies) ==
  Selected /\ \E policy \in policies : Begin(p, "change", selection.roots \cup words, policy)
\* Nothing is prepared, and the store refuses, when no root would remain.
RemoveRoots(p, words, policies) ==
  Selected /\ selection.roots \ words # {} /\ \E policy \in policies : Begin(p, "change", selection.roots \ words, policy)
Refresh(p) == Selected /\ Begin(p, "select", selection.roots, selection.policy)

\* The rows that are missing, and with --refresh those that have changed, are acquired
\* (Tickets has the steps; here GraphChanges), then what is displayed of the issues.
Prepare(p) ==
  /\ pc(p) = "prepare" /\ at[p].roots \subseteq DOMAIN graph
  /\ at' = [at EXCEPT ![p].pc = "project"]
  /\ UNCHANGED <<graph, selection, revision>>

\* An issue has no row, a read fails, or --count wants no more than the number.
GiveUp(p) == pc(p) \in {"prepare", "project"} /\ Return(p) /\ UNCHANGED <<graph, selection, revision>>

\* Roots are added to and removed from the record that the command has read.
ProjectSelection(p) ==
  /\ pc(p) = "project" /\ at[p].roots \subseteq DOMAIN graph
  /\ at[p].op = "change" => Selected /\ revision = at[p].expected
  /\ at' = [at EXCEPT ![p].pc = "write", ![p].value = Project(graph, at[p].roots, at[p].policy)]
  /\ UNCHANGED <<graph, selection, revision>>

Write(p) ==
  /\ pc(p) = "write" /\ revision = at[p].expected /\ revision < MaxRevision
  /\ selection' = at[p].value /\ revision' = revision + 1
  /\ Return(p) /\ UNCHANGED graph

WriteStale(p) == pc(p) = "write" /\ revision # at[p].expected /\ Return(p) /\ UNCHANGED <<graph, selection, revision>>

Clear == Selected /\ revision < MaxRevision /\ selection' = NoSelection /\ revision' = revision + 1 /\ UNCHANGED <<graph, at>>

\* Other commands change the dependencies.
GraphChanges(g) == graph' = g /\ UNCHANGED <<selection, revision, at>>

Next ==
  \/ \E p \in Proc :
       \/ \E words \in Words, policy \in Asked :
            \/ Select(p, words, policy) \/ AddRoots(p, words, {policy, selection.policy}) \/ RemoveRoots(p, words, {policy, selection.policy})
       \/ Refresh(p) \/ Prepare(p) \/ GiveUp(p) \/ ProjectSelection(p) \/ Write(p) \/ WriteStale(p)
  \/ Clear
  \/ \E g \in GraphsOf : GraphChanges(g)

Spec == Init /\ [][Next]_vars

-----------------------------------------------------------------------------
\* Drawing, of all that is selected or of one lane.

Edges(g, visible) == {edge \in visible \X visible : edge[1] \in g[edge[2]]}
InLane(lane, visible, k) == {issue \in visible : lane[issue] = k}

Views(s) == {s.closure} \cup {InLane(s.lane, s.closure, s.lane[issue]) : issue \in s.closure}

\* Mutant: any order of a lane will do.
AnyPath(g, path) == TRUE
\* Consecutive issues of a lane depend on each other.
IsPath(g, path) == \A n \in 1..Len(path) - 1 : path[n] \in g[path[n + 1]]

Drawable(g, lane, visible) ==
  visible \subseteq DOMAIN g /\ \A issue \in visible : IsPath(g, Sorted(g, InLane(lane, visible, lane[issue])))

Paths(edges, visible) == UNION {{from} \X Reached(edges, visible, {from}) : from \in visible}

\* An edge is left out when there is another way, except within a lane.
TransitiveReduction(g, lane, visible) ==
  LET edges == Edges(g, visible)
      protected(edge) == lane[edge[1]] = lane[edge[2]] /\
        LET path == Sorted(g, InLane(lane, visible, lane[edge[1]])) IN \E n \in 1..Len(path) - 1 : edge = <<path[n], path[n + 1]>>
      alternate(edge) == edge[2] \in Reached(edges, visible, {via \in visible \ {edge[2]} : <<edge[1], via>> \in edges})
  IN {edge \in edges : protected(edge) \/ ~alternate(edge)}

\* Issues with the same edges are drawn as one group, edges from group to group.
Drawn(g, lane, visible) ==
  LET reduced == TransitiveReduction(g, lane, visible)
      ends == [issue \in visible |-> [to |-> {other \in visible : <<issue, other>> \in reduced},
                                      from |-> {other \in visible : <<other, issue>> \in reduced}]]
      alike(a, b) == ends[a] = ends[b]
  IN {pair \in visible \X visible : \E edge \in reduced : alike(edge[1], pair[1]) /\ alike(edge[2], pair[2])}

-----------------------------------------------------------------------------
\* In a stored selection lanes are paths of dependencies, all is connected to what is
\* selected, and with an issue that is selected or no group there is all that it is
\* connected to.
SelectionIsWhole(s) ==
  /\ s.roots \subseteq s.closure /\ s.closure \subseteq DOMAIN s.graph
  /\ \A issue \in s.closure : LET path == Sorted(s.graph, InLane(s.lane, s.closure, s.lane[issue])) IN
       \A n \in 1..Len(path) - 1 : path[n] \in s.graph[path[n + 1]]
  /\ \A C \in SUBSET s.closure :
       s.roots \subseteq C /\ (\A issue \in C : Neighbours(s.graph, issue) \cap s.closure \subseteq C) => C = s.closure
  /\ s.policy.children = {} =>
       \A issue \in s.closure : issue \in s.roots \/ Kind[issue] = "none" => Neighbours(s.graph, issue) \subseteq s.closure

\* Whatever is drawn of it, however old its graph is, shows between the issues drawn the
\* dependencies that there are now: lanes as paths, and a way exactly where there is one.
DrawingIsTrue(s, visible) ==
  Drawable(graph, s.lane, visible) =>
    LET drawn == Drawn(graph, s.lane, visible) IN
    /\ \A issue \in visible : LET path == Sorted(graph, InLane(s.lane, visible, s.lane[issue])) IN
         \A n \in 1..Len(path) - 1 : <<path[n], path[n + 1]>> \in drawn
    /\ Paths(drawn, visible) = Paths(Edges(graph, visible), visible)

\* What is stored, and what a command is about to store, is whole.
Chosen(s) == s.roots \subseteq Issue /\ s.policy \in Policies
Sound(step) ==
  /\ step = [pc |-> step.pc, op |-> step.op, roots |-> step.roots, policy |-> step.policy,
             expected |-> step.expected, value |-> step.value]
  /\ Chosen(step) /\ Chosen(step.value)
  /\ step.pc = "write" => SelectionIsWhole(step.value)

IInv ==
  /\ graph \in GraphsOf /\ revision \in 0..MaxRevision /\ DOMAIN at = Proc
  /\ Chosen(selection) /\ SelectionIsWhole(selection)
  /\ \A p \in Proc : Sound(at[p])

\* The lanes that are stored are whole, can be drawn as long as the dependencies are those
\* they were selected from, and what is shown of them between commands is true, while
\* commands race and the graph moves.
LanesAreTrue ==
  Selected /\ at = [p \in Proc |-> Idle] =>
    /\ SelectionIsWhole(selection)
    /\ selection.graph = graph => \A visible \in Views(selection) : Drawable(graph, selection.lane, visible)
    /\ \A visible \in Views(selection) : DrawingIsTrue(selection, visible)
=============================================================================

-------------------------- MODULE TicketGraphProofs --------------------------
(***************************************************************************)
(* Proofs about Tickets for every set of issues, titles and processes,      *)
(* whatever commands they run, whoever is killed and however the lifecycles *)
(* and the ticket server change meanwhile; about TicketMerge, for whatever  *)
(* happened on two branches; about Lanes, whatever the graphs, the commands *)
(* that race and the policies asked for; at the end, about TicketGraph.     *)
(***************************************************************************)
EXTENDS TicketGraph, Sequences, FiniteSetTheorems, WellFoundedInduction, TLAPS


LEMMA RevisionOrder ==
  /\ Revision \cup {Unsampled} \subseteq Int
  /\ \A r \in Revision : Unsampled < r
BY DEF Revision, Unsampled

\* A process at rest relies on nothing.
LEMMA MissingType == Missing \in Tickets /\ ValidTickets(Missing) /\ Known(Missing) = {}
BY DEF Missing, Tickets, NoRows, NoStates, ValidTickets, ValidGraph, Known, Rows, Sampled

LEMMA RestSound ==
  ASSUME NEW t \in Tickets, NEW f \in [Issue -> Revision], NEW pc0 \in {"idle", "unlock"},
         NEW l, l = [Idle EXCEPT !.pc = pc0]
  PROVE  l \in Memory /\ l.pc = pc0 /\ Sound(l, t, f)
<1>1. l \in Memory
  BY MissingType DEF Idle, Memory, PCs, Ops, Options, NoRows, NoStates
<1>2. /\ l.pc = pc0 /\ l.op = "states" /\ l.base = Missing
      /\ l.scope = {} /\ l.pushed = {}
  BY DEF Idle
<1>3. Newer(Missing, Missing.states, f)
  BY RevisionOrder DEF Newer, Missing, NoStates, Revision, Unsampled
<1>4. Observes(l, f) /\ Collects(l, t)
  BY <1>2, <1>3, MissingType DEF Observes, Collects
<1>5. Plans(l, f)
  BY <1>2 DEF Plans, Writing
<1> QED
  BY <1>1, <1>2, <1>4, <1>5 DEF Sound

LEMMA IdleSound ==
  ASSUME NEW t \in Tickets, NEW f \in [Issue -> Revision]
  PROVE  Idle \in Memory /\ Idle.pc = "idle" /\ Sound(Idle, t, f)
<1>1. Idle = [Idle EXCEPT !.pc = "idle"]
  BY DEF Idle
<1> QED
  BY <1>1, RestSound

LEMMA NewerLater ==
  ASSUME NEW t \in Tickets, NEW states \in [Issue -> Revision \cup {Unsampled}],
         NEW f \in [Issue -> Revision], NEW f2 \in [Issue -> Revision],
         \A i \in Issue : f[i] <= f2[i], Newer(t, states, f)
  PROVE  Newer(t, states, f2)
<1> SUFFICES ASSUME NEW i \in Issue PROVE t.states[i] <= states[i] /\ states[i] <= f2[i]
  BY DEF Newer
<1>1. states[i] \in Int /\ f[i] \in Int /\ f2[i] \in Int
  BY RevisionOrder
<1> QED
  BY <1>1 DEF Newer

\* What a process relies on stays true when rows are added and lifecycles
\* advance.
LEMMA SoundLater ==
  ASSUME NEW l \in Memory, NEW t \in Tickets, NEW t2 \in Tickets,
         NEW f \in [Issue -> Revision], NEW f2 \in [Issue -> Revision],
         Known(t) \subseteq Known(t2), \A i \in Issue : f[i] <= f2[i], Sound(l, t, f)
  PROVE  Sound(l, t2, f2)
<1>1. /\ l.base \in Tickets /\ l.base.states \in [Issue -> Revision \cup {Unsampled}]
      /\ l.goal \in Tickets /\ l.goal.states \in [Issue -> Revision \cup {Unsampled}]
      /\ l.revs \in [Issue -> Revision \cup {Unsampled}]
  BY DEF Memory, Tickets
<1>2. Observes(l, f2)
  <2>1. Newer(l.base, l.base.states, f2)
    BY <1>1, NewerLater DEF Sound, Observes
  <2>2. ASSUME NEW i \in Issue, l.revs[i] <= f[i] PROVE l.revs[i] <= f2[i]
    <3>1. l.revs[i] \in Int /\ f[i] \in Int /\ f2[i] \in Int
      BY <1>1, RevisionOrder
    <3> QED
      BY <2>2, <3>1
  <2> QED
    BY <2>1, <2>2 DEF Sound, Observes
<1>3. Collects(l, t2)
  BY DEF Sound, Collects
<1>4. Plans(l, f2)
  <2>1. Newer(l.base, l.goal.states, f) => Newer(l.base, l.goal.states, f2)
    BY <1>1, NewerLater
  <2>2. Newer(l.goal, l.goal.states, f) => Newer(l.goal, l.goal.states, f2)
    BY <1>1, NewerLater
  <2> QED
    BY <2>1, <2>2 DEF Sound, Plans
<1> QED
  BY <1>2, <1>3, <1>4 DEF Sound

\* One process moves and only adds rows: the invariant asks for its own part.
LEMMA Move ==
  ASSUME IInv, NEW p \in Proc, NEW m \in Memory, at' = [at EXCEPT ![p] = m],
         UNCHANGED <<tickets, life>>, server' \in [Issue -> Row], lock' \in BOOLEAN,
         Sound(m, tickets, life),
         m.pc \in Locked => lock' /\ (pc(p) \in Locked \/ ~lock),
         lock' = lock \/ (pc(p) \in Locked /\ m.pc \notin Locked) \/ m.pc \in Locked,
         m.pc = "write" => tickets = m.base
  PROVE  IInv'
<1> USE DEF pc
<1>1. /\ at' \in [Proc -> Memory] /\ at'[p] = m
      /\ \A q \in Proc \ {p} : at'[q] = at[q]
  BY DEF IInv, TypeOK
<1>2. TypeOK'
  BY <1>1 DEF IInv, TypeOK
<1>3. LockExclusion'
  <2>1. \A q \in Proc : pc(q)' \in Locked => lock'
    BY <1>1 DEF IInv, LockExclusion
  <2>2. \A q, r \in Proc : pc(q)' \in Locked /\ pc(r)' \in Locked => q = r
    BY <1>1 DEF IInv, LockExclusion
  <2>3. \A q \in Proc : pc(q)' = "write" => tickets' = at'[q].base
    BY <1>1 DEF IInv, LockExclusion
  <2> QED
    BY <2>1, <2>2, <2>3 DEF LockExclusion
<1>4. GraphStaysValid' /\ Newer(tickets, tickets.states, life)'
  BY DEF IInv, GraphStaysValid
<1>5. \A q \in Proc : Sound(at[q], tickets, life)'
  BY <1>1 DEF IInv
<1> QED
  BY <1>2, <1>3, <1>4, <1>5 DEF IInv

\* ... and even less when it moves without the lock and the server.
LEMMA QuietMove ==
  ASSUME IInv, NEW p \in Proc, NEW m \in Memory, at' = [at EXCEPT ![p] = m],
         UNCHANGED data, m.pc \notin Locked, Sound(m, tickets, life)
  PROVE  IInv'
<1>1. /\ UNCHANGED <<tickets, life>> /\ server' \in [Issue -> Row] /\ lock' \in BOOLEAN
      /\ lock' = lock /\ m.pc # "write"
  BY DEF data, IInv, TypeOK, Locked
<1> QED
  BY <1>1, Move

LEMMA Leave ==
  ASSUME IInv, NEW p \in Proc, at' = [at EXCEPT ![p] = Idle], UNCHANGED data
  PROVE  IInv'
<1>1. Idle \in Memory /\ Idle.pc \notin Locked /\ Sound(Idle, tickets, life)
  BY IdleSound DEF IInv, TypeOK, Locked
<1> QED
  BY <1>1, QuietMove

LEMMA ReturnStep ==
  ASSUME IInv, NEW p \in Proc, NEW from, Return(p, from), UNCHANGED data
  PROVE  IInv'
BY Leave DEF Return

\* A failure under the lock.
LEMMA FailStep ==
  ASSUME IInv, NEW p \in Proc, NEW from \in Locked, Fail(p, from), UNCHANGED data
  PROVE  IInv'
<1> DEFINE m == [Idle EXCEPT !.pc = "unlock"]
<1>1. m \in Memory /\ m.pc = "unlock" /\ Sound(m, tickets, life)
  BY RestSound DEF IInv, TypeOK
<1>2. at' = [at EXCEPT ![p] = m] /\ pc(p) \in Locked
  BY DEF Fail
<1>3. lock /\ lock' = lock
  BY <1>2 DEF IInv, LockExclusion, data
<1>4. UNCHANGED <<tickets, life>> /\ server' \in [Issue -> Row]
  BY DEF data, IInv, TypeOK
<1> HIDE DEF m
<1> QED
  BY <1>1, <1>2, <1>3, <1>4, Move

\* What Goto does to it.
Gone(l, to) == [l EXCEPT !.pc = to]

LEMMA GotoFields ==
  ASSUME NEW l \in Memory, NEW to \in PCs
  PROVE  /\ Gone(l, to) \in Memory /\ Gone(l, to).pc = to
         /\ Gone(l, to).op = l.op /\ Gone(l, to).base = l.base
         /\ Gone(l, to).scope = l.scope /\ Gone(l, to).left = l.left
         /\ Gone(l, to).rows = l.rows /\ Gone(l, to).revs = l.revs
         /\ Gone(l, to).goal = l.goal /\ Gone(l, to).pushed = l.pushed
BY DEF Memory, Gone

\* What Propose does to the memory of a process.
Proposed(l, to, goal) ==
  [l EXCEPT !.pc = to, !.goal = goal, !.option = "none", !.rows = NoRows, !.revs = NoStates]

LEMMA ProposeFields ==
  ASSUME NEW l \in Memory, NEW to \in PCs, NEW goal \in Tickets
  PROVE  /\ Proposed(l, to, goal) \in Memory
         /\ Proposed(l, to, goal).pc = to /\ Proposed(l, to, goal).goal = goal
         /\ Proposed(l, to, goal).op = l.op /\ Proposed(l, to, goal).base = l.base
         /\ Proposed(l, to, goal).scope = l.scope /\ Proposed(l, to, goal).left = l.left
         /\ Proposed(l, to, goal).pushed = l.pushed
<1>1. NoRows \in [Issue -> Row \cup {NoRow}]
      /\ NoStates \in [Issue -> Revision \cup {Unsampled}] /\ "none" \in Options
  BY DEF NoRows, NoStates, Options
<1> QED
  BY <1>1 DEF Memory, Proposed

\* No issue without a row has a sampled state.
LEMMA SampledKnown ==
  ASSUME NEW t \in Tickets, ValidTickets(t), NEW i \in Issue \ Known(t)
  PROVE  t.states[i] = Unsampled
BY DEF ValidTickets, Sampled

\* A command that begins observes the stored file.
LEMMA BeginStep ==
  ASSUME IInv, NEW p \in Proc, NEW op \in Ops, NEW option \in Options,
         NEW scope \in SUBSET Issue, Start(p, op, option, scope),
         op \in {"from", "to", "titles"} => scope \subseteq Known(tickets),
         op = "states" => scope = Known(tickets)
  PROVE  IInv'
<1> DEFINE m == [Idle EXCEPT !.pc = "observe", !.op = op, !.option = option,
                             !.base = tickets, !.scope = scope, !.left = scope]
<1>1. tickets \in Tickets /\ life \in [Issue -> Revision]
  BY DEF IInv, TypeOK
<1>2. m \in Memory
  BY <1>1, IdleSound DEF Memory, PCs
<1>3. /\ m.pc = "observe" /\ m.op = op /\ m.base = tickets /\ m.scope = scope
      /\ m.left = scope /\ m.revs = NoStates /\ m.pushed = {}
  BY DEF Idle
<1> HIDE DEF m
<1>4. Observes(m, life)
  <2>1. ValidTickets(tickets) /\ Newer(tickets, tickets.states, life)
    BY DEF IInv, GraphStaysValid
  <2>2. Sampled(NoStates) = {}
    BY DEF Sampled, NoStates
  <2>3. ASSUME NEW i \in Issue \ Known(tickets)
        PROVE  tickets.states[i] <= NoStates[i] /\ NoStates[i] <= life[i]
    <3>1. tickets.states[i] = Unsampled /\ NoStates[i] = Unsampled
      BY <1>1, <2>1, SampledKnown DEF NoStates
    <3> QED
      BY <1>1, <3>1 DEF Revision, Unsampled
  <2> QED
    BY <1>3, <2>1, <2>2, <2>3 DEF Observes
<1>5. Collects(m, tickets)
  BY <1>3 DEF Collects
<1>6. Plans(m, life)
  BY <1>3 DEF Plans, Writing
<1>7. at' = [at EXCEPT ![p] = m] /\ UNCHANGED data
  BY DEF Start, m
<1>8. m.pc \notin Locked
  BY <1>3 DEF Locked
<1> QED
  BY <1>2, <1>4, <1>5, <1>6, <1>7, <1>8, QuietMove DEF Sound

LEMMA SampleStep ==
  ASSUME IInv, NEW p \in Proc, NEW i \in Issue, SampleState(p, i)
  PROVE  IInv'
<1> DEFINE l == at[p]
           m == [l EXCEPT !.left = @ \ {i}, !.revs = [@ EXCEPT ![i] = life[i]]]
<1>1. /\ l \in Memory /\ Sound(l, tickets, life) /\ life \in [Issue -> Revision]
      /\ l.pc = "observe" /\ l.op = "states" /\ i \in l.left
  BY DEF IInv, TypeOK, SampleState, pc
<1>2. at' = [at EXCEPT ![p] = m] /\ UNCHANGED data
  BY DEF SampleState
<1> HIDE DEF l
<1>3. m \in Memory
  BY <1>1 DEF Memory
<1>4. /\ m.pc = l.pc /\ m.op = l.op /\ m.base = l.base /\ m.scope = l.scope
      /\ m.left = l.left \ {i} /\ m.revs = [l.revs EXCEPT ![i] = life[i]]
      /\ m.pushed = l.pushed
  BY <1>1 DEF Memory
<1> HIDE DEF m
<1>5. l.revs \in [Issue -> Revision \cup {Unsampled}] /\ l.base \in Tickets
      /\ l.base.states \in [Issue -> Revision \cup {Unsampled}]
  BY <1>1 DEF Memory, Tickets
<1>6. Observes(m, life)
  <2>1. Sampled(m.revs) = Sampled(l.revs) \cup {i}
    BY <1>1, <1>4, <1>5, RevisionOrder DEF Sampled, Revision, Unsampled
  <2>2. Sampled(m.revs) = Known(m.base) \ m.left /\ m.left \subseteq Known(m.base)
    BY <1>1, <1>4, <2>1 DEF Sound, Observes
  <2>3. ASSUME NEW j \in Issue \ m.left
        PROVE  m.base.states[j] <= m.revs[j] /\ m.revs[j] <= life[j]
    <3>1. CASE j = i
      <4>1. m.revs[j] = life[j] /\ m.base.states[j] <= life[j]
        BY <1>1, <1>4, <1>5, <3>1, RevisionOrder DEF Sound, Observes, Newer
      <4> QED
        BY <1>1, <4>1, RevisionOrder
    <3>2. CASE j # i
      BY <1>1, <1>4, <1>5, <3>2 DEF Sound, Observes
    <3> QED
      BY <3>1, <3>2
  <2> QED
    BY <1>1, <1>4, <2>2, <2>3 DEF Sound, Observes
<1>7. Collects(m, tickets)
  BY <1>1, <1>4 DEF Sound, Collects
<1>8. Plans(m, life) /\ m.pc \notin Locked
  BY <1>1, <1>4 DEF Plans, Writing, Locked
<1> QED
  BY <1>2, <1>3, <1>6, <1>7, <1>8, QuietMove DEF Sound

LEMMA ReadStep ==
  ASSUME IInv, NEW p \in Proc, NEW i \in Issue, ReadRow(p, i)
  PROVE  IInv'
<1> DEFINE l == at[p]
           more == IF l.op = "acquire" THEN Unread(p, i) ELSE {}
           m == [l EXCEPT !.left = (@ \cup more) \ {i}, !.scope = @ \cup more,
                          !.rows = [@ EXCEPT ![i] = server[i]]]
<1>1. /\ l \in Memory /\ Sound(l, tickets, life) /\ server \in [Issue -> Row]
      /\ l.pc = "observe" /\ l.op # "states" /\ i \in l.left
  BY DEF IInv, TypeOK, ReadRow, pc
<1>2. at' = [at EXCEPT ![p] = m] /\ UNCHANGED data
  BY DEF ReadRow
<1>3. more \subseteq Issue /\ (l.op # "acquire" => more = {})
  BY <1>1 DEF Unread, Row
<1> HIDE DEF l, more
<1>4. m \in Memory
  BY <1>1, <1>3 DEF Memory
<1>5. /\ m.pc = l.pc /\ m.op = l.op /\ m.base = l.base /\ m.scope = l.scope \cup more
      /\ m.left = (l.left \cup more) \ {i} /\ m.rows = [l.rows EXCEPT ![i] = server[i]]
      /\ m.pushed = l.pushed
  BY <1>1 DEF Memory
<1> HIDE DEF m
<1>6. Rows(m.rows) = Rows(l.rows) \cup {i}
  <2>1. server[i] # NoRow /\ l.rows \in [Issue -> Row \cup {NoRow}]
    BY <1>1, RowAssumption DEF Memory
  <2> QED
    BY <1>5, <2>1 DEF Rows
<1>7. Observes(m, life)
  BY <1>1, <1>5 DEF Sound, Observes
<1>8. Collects(m, tickets)
  BY <1>1, <1>3, <1>5, <1>6 DEF Sound, Collects
<1>9. Plans(m, life) /\ m.pc \notin Locked
  BY <1>1, <1>5 DEF Plans, Writing, Locked
<1> QED
  BY <1>2, <1>4, <1>7, <1>8, <1>9, QuietMove DEF Sound

\* A refresh has sampled every lifecycle.
LEMMA PlanStatesStep ==
  ASSUME IInv, NEW p \in Proc, PlanStates(p)
  PROVE  IInv'
<1> DEFINE l == at[p]
           goal == [graph |-> l.base.graph, states |-> l.revs]
           m == Proposed(l, "lock", goal)
<1>1. /\ l \in Memory /\ Sound(l, tickets, life)
      /\ l.pc = "observe" /\ l.op = "states" /\ l.left = {}
  BY DEF IInv, TypeOK, PlanStates, Propose, pc
<1>2. at' = [at EXCEPT ![p] = m] /\ UNCHANGED data
  BY DEF PlanStates, Propose, Proposed
<1> HIDE DEF l
<1>3. goal \in Tickets /\ goal.graph = l.base.graph /\ goal.states = l.revs
  BY <1>1 DEF Memory, Tickets
<1> HIDE DEF goal
<1>4. /\ m \in Memory /\ m.pc = "lock" /\ m.goal = goal /\ m.op = l.op /\ m.base = l.base
      /\ m.scope = l.scope /\ m.left = l.left /\ m.pushed = l.pushed
  <2>1. "lock" \in PCs
    BY DEF PCs
  <2> QED
    BY <1>1, <1>3, <2>1, ProposeFields
<1> HIDE DEF m
<1>5. Observes(m, life) /\ Collects(m, tickets)
  BY <1>1, <1>4 DEF Sound, Observes, Collects
<1>6. Known(goal) = Known(l.base)
  BY <1>3 DEF Known
<1>7. Keeps(m) /\ m.goal.graph = m.base.graph
  BY <1>1, <1>3, <1>4, <1>6 DEF Keeps
<1>8. ValidGraph(m.goal.graph) /\ Newer(m.base, m.goal.states, life)
      /\ Sampled(m.goal.states) = Known(m.base)
  BY <1>1, <1>3, <1>4 DEF Sound, Observes, ValidTickets, Newer
<1>9. Plans(m, life) /\ m.pc \notin Locked
  BY <1>4, <1>7, <1>8 DEF Plans, Writing, Locked
<1> QED
  BY <1>2, <1>4, <1>5, <1>9, QuietMove DEF Sound

\* The new graph has the rows that were read, and those of the base.
LEMMA NewGraphFacts ==
  ASSUME IInv, NEW p \in Proc, Observed(p)
  PROVE  /\ NewGraph(p) \in [Issue -> Row \cup {NoRow}]
         /\ Known(at[p].base) \cup at[p].scope = Rows(NewGraph(p))
         /\ \A i \in Issue \ at[p].scope : NewGraph(p)[i] = at[p].base.graph[i]
<1> DEFINE l == at[p]
<1>1. /\ l \in Memory /\ Sound(l, tickets, life)
      /\ l.pc = "observe" /\ l.op # "states" /\ l.left = {}
  BY DEF IInv, TypeOK, Observed, pc
<1>2. l.scope \subseteq Issue /\ l.base.graph \in [Issue -> Row \cup {NoRow}]
      /\ l.rows \in [Issue -> Row \cup {NoRow}]
  BY <1>1 DEF Memory, Tickets
<1>3. \A i \in l.scope : l.rows[i] \in Row
  BY <1>1, <1>2 DEF Sound, Collects, Rows
<1>4. \A local \in Row, theirs \in Row : Wanted(l.op, l.option, local, theirs) \in Row
  BY DEF Wanted, Row
<1>5. NewGraph(p) = [i \in Issue |->
        IF i \notin l.scope THEN l.base.graph[i]
        ELSE IF l.base.graph[i] = NoRow THEN l.rows[i]
        ELSE Wanted(l.op, l.option, l.base.graph[i], l.rows[i])]
  BY DEF NewGraph
<1> HIDE DEF l
<1>6. ASSUME NEW i \in l.scope PROVE NewGraph(p)[i] \in Row
  <2>1. i \in Issue /\ l.rows[i] \in Row /\ l.base.graph[i] \in Row \cup {NoRow}
    BY <1>2, <1>3
  <2>2. NewGraph(p)[i] = IF l.base.graph[i] = NoRow THEN l.rows[i]
                         ELSE Wanted(l.op, l.option, l.base.graph[i], l.rows[i])
    BY <1>5, <2>1
  <2> QED
    BY <1>4, <2>1, <2>2
<1>7. \A i \in Issue \ l.scope : NewGraph(p)[i] = l.base.graph[i]
  BY <1>5
<1>8. NewGraph(p) \in [Issue -> Row \cup {NoRow}]
  <2>1. \A i \in Issue : NewGraph(p)[i] \in Row \cup {NoRow}
    BY <1>2, <1>6, <1>7
  <2>2. NewGraph(p) = [i \in Issue |-> NewGraph(p)[i]]
    BY <1>5
  <2> QED
    BY <2>1, <2>2
<1>9. Known(l.base) \cup l.scope = Rows(NewGraph(p))
  BY <1>2, <1>6, <1>7, RowAssumption DEF Known, Rows
<1> QED
  BY <1>7, <1>8, <1>9 DEF l

LEMMA PlanChangeStep ==
  ASSUME IInv, NEW p \in Proc, PlanChange(p)
  PROVE  IInv'
<1> DEFINE l == at[p]
           goal == [graph |-> NewGraph(p), states |-> l.base.states]
           m == Proposed(l, "recheck", goal)
<1>1. /\ l \in Memory /\ Sound(l, tickets, life)
      /\ l.pc = "observe" /\ l.op \in {"from", "titles", "acquire"} /\ l.left = {}
  BY DEF IInv, TypeOK, PlanChange, Observed, pc
<1>2. /\ at' = [at EXCEPT ![p] = m] /\ UNCHANGED data
      /\ ValidGraph(NewGraph(p))
  BY DEF PlanChange, Propose, Proposed
<1>3. /\ NewGraph(p) \in [Issue -> Row \cup {NoRow}]
      /\ Known(l.base) \cup l.scope = Rows(NewGraph(p))
      /\ \A i \in Issue \ l.scope : NewGraph(p)[i] = l.base.graph[i]
  BY NewGraphFacts DEF PlanChange
<1> HIDE DEF l
<1>4. goal \in Tickets /\ goal.graph = NewGraph(p) /\ goal.states = l.base.states
  BY <1>1, <1>3 DEF Memory, Tickets
<1> HIDE DEF goal
<1>5. /\ m \in Memory /\ m.pc = "recheck" /\ m.goal = goal /\ m.op = l.op /\ m.base = l.base
      /\ m.scope = l.scope /\ m.left = l.left /\ m.pushed = l.pushed
  <2>1. "recheck" \in PCs
    BY DEF PCs
  <2> QED
    BY <1>1, <1>4, <2>1, ProposeFields
<1> HIDE DEF m
<1>6. Observes(m, life) /\ Collects(m, tickets)
  BY <1>1, <1>5 DEF Sound, Observes, Collects
<1>7. Known(goal) = Known(l.base) \cup l.scope
  BY <1>3, <1>4 DEF Known
<1>8. Keeps(m)
  <2>1. l.op = "titles" => l.scope \subseteq Known(l.base)
    BY <1>1 DEF Sound, Collects
  <2>2. Known(l.base) \subseteq Issue
    BY DEF Known, Rows
  <2> QED
    BY <1>3, <1>4, <1>5, <1>7, <2>1, <2>2 DEF Keeps
<1>9. /\ ValidGraph(m.goal.graph) /\ Newer(m.base, m.goal.states, life)
      /\ Sampled(m.goal.states) \in {Known(m.base), {}}
  BY <1>1, <1>2, <1>4, <1>5 DEF Sound, Observes, ValidTickets
<1>10. Plans(m, life) /\ m.pc \notin Locked
  BY <1>1, <1>5, <1>8, <1>9 DEF Plans, Writing, Locked
<1> QED
  BY <1>2, <1>5, <1>6, <1>10, QuietMove DEF Sound

LEMMA PlanUnchangedStep ==
  ASSUME IInv, NEW p \in Proc, PlanUnchanged(p)
  PROVE  IInv'
<1>1. CASE at[p].op # "titles"
  BY <1>1, ReturnStep DEF PlanUnchanged
<1>2. CASE at[p].op = "titles"
  <2> DEFINE l == at[p]
             m == Proposed(l, "display", Missing)
  <2>1. l \in Memory /\ Sound(l, tickets, life) /\ l.pc = "observe" /\ l.op = "titles"
    BY <1>2 DEF IInv, TypeOK, PlanUnchanged, Observed, pc
  <2>2. at' = [at EXCEPT ![p] = m] /\ UNCHANGED data
    BY <1>2 DEF PlanUnchanged, Propose, Proposed
  <2> HIDE DEF l
  <2>3. /\ m \in Memory /\ m.pc = "display" /\ m.goal = Missing /\ m.op = l.op
        /\ m.base = l.base /\ m.scope = l.scope /\ m.left = l.left /\ m.pushed = l.pushed
    <3>1. "display" \in PCs
      BY DEF PCs
    <3> QED
      BY <2>1, <3>1, MissingType, ProposeFields
  <2> HIDE DEF m
  <2>4. Observes(m, life) /\ Collects(m, tickets)
    BY <2>1, <2>3 DEF Sound, Observes, Collects
  <2>5. Plans(m, life) /\ m.pc \notin Locked
    BY <2>1, <2>3 DEF Plans, Writing, Locked
  <2> QED
    BY <2>2, <2>3, <2>4, <2>5, QuietMove DEF Sound
<1> QED
  BY <1>1, <1>2

----------------------------------------------------------------------------

\* The goal passes the check before the lock and takes the lock.
LEMMA GoalOnWay ==
  ASSUME NEW l \in Memory, NEW t \in Tickets, NEW f \in [Issue -> Revision],
         Sound(l, t, f), l.pc \in {"recheck", "lock"}, NEW to \in {"lock", "check"}
  PROVE  Gone(l, to) \in Memory /\ Gone(l, to).pc = to /\ Sound(Gone(l, to), t, f)
<1> DEFINE m == Gone(l, to)
<1>1. to \in PCs
  BY DEF PCs
<1>2. /\ m \in Memory /\ m.pc = to /\ m.op = l.op /\ m.base = l.base
      /\ m.scope = l.scope /\ m.left = l.left /\ m.rows = l.rows /\ m.revs = l.revs
      /\ m.goal = l.goal /\ m.pushed = l.pushed
  BY <1>1, GotoFields
<1> HIDE DEF m
<1>3. Observes(m, f) /\ Collects(m, t)
  BY <1>2 DEF Sound, Observes, Collects
<1>4. Plans(m, f)
  BY <1>2 DEF Sound, Plans, Writing, Keeps
<1> QED
  BY <1>2, <1>3, <1>4 DEF Sound, m

LEMMA RecheckStep ==
  ASSUME IInv, NEW p \in Proc, Recheck(p)
  PROVE  IInv'
<1>1. at[p] \in Memory /\ Sound(at[p], tickets, life) /\ at[p].pc = "recheck"
  BY DEF IInv, TypeOK, Recheck, Goto, pc
<1>2. at' = [at EXCEPT ![p] = Gone(at[p], "lock")] /\ UNCHANGED data
  BY DEF Recheck, Goto, Gone
<1>3. /\ Gone(at[p], "lock") \in Memory /\ Gone(at[p], "lock").pc \notin Locked
      /\ Sound(Gone(at[p], "lock"), tickets, life)
  BY <1>1, GoalOnWay DEF IInv, TypeOK, Locked
<1> QED
  BY <1>2, <1>3, QuietMove

LEMMA AcquireStep ==
  ASSUME IInv, NEW p \in Proc, AcquireLock(p)
  PROVE  IInv'
<1> DEFINE m == Gone(at[p], "check")
<1>1. at[p] \in Memory /\ Sound(at[p], tickets, life) /\ at[p].pc = "lock"
  BY DEF IInv, TypeOK, AcquireLock, Goto, pc
<1>2. /\ at' = [at EXCEPT ![p] = m] /\ UNCHANGED <<tickets, life>>
      /\ server' \in [Issue -> Row] /\ ~lock /\ lock' = TRUE
  BY DEF AcquireLock, Goto, Gone, IInv, TypeOK
<1>3. m \in Memory /\ m.pc = "check" /\ Sound(m, tickets, life)
  BY <1>1, GoalOnWay DEF IInv, TypeOK
<1>4. m.pc \in Locked /\ m.pc # "write"
  BY <1>3 DEF Locked
<1> HIDE DEF m
<1> QED
  BY <1>2, <1>3, <1>4, Move

\* Sampling the lifecycles of the new rows completes a goal.
LEMMA CompletedFacts ==
  ASSUME NEW goal \in Tickets, NEW base \in Tickets, life \in [Issue -> Revision],
         ValidGraph(goal.graph), Newer(base, goal.states, life),
         Known(base) \subseteq Known(goal), Sampled(goal.states) \in {Known(base), {}}
  PROVE  LET done == Completed(goal) IN
         /\ done \in Tickets /\ done.graph = goal.graph
         /\ Sampled(done.states) \in {Known(goal), {}}
         /\ Newer(base, done.states, life) /\ Newer(done, done.states, life)
<1> DEFINE done == Completed(goal)
<1>1. /\ goal.states \in [Issue -> Revision \cup {Unsampled}]
      /\ base.states \in [Issue -> Revision \cup {Unsampled}]
      /\ \A i \in Issue : goal.states[i] \in Int /\ base.states[i] \in Int
                          /\ life[i] \in Int /\ Unsampled \in Int /\ Unsampled < life[i]
  BY RevisionOrder DEF Tickets
<1>2. CASE goal.states = NoStates
  <2>1. done = goal
    BY <1>2 DEF Completed
  <2>2. Sampled(goal.states) = {}
    BY <1>2 DEF Sampled, NoStates
  <2>3. \A i \in Issue : goal.states[i] <= goal.states[i] /\ goal.states[i] <= life[i]
    <3> TAKE i \in Issue
    <3>1. goal.states[i] <= life[i]
      BY DEF Newer
    <3> QED
      BY <1>1, <3>1
  <2>4. Newer(goal, goal.states, life)
    BY <2>3 DEF Newer
  <2> QED
    BY <2>1, <2>2, <2>4
<1>3. CASE goal.states # NoStates
  <2> DEFINE states == [i \in Issue |-> IF i \in Known(goal) /\ goal.states[i] = Unsampled
                                        THEN life[i] ELSE goal.states[i]]
  <2>1. done = [goal EXCEPT !.states = states]
    BY <1>3 DEF Completed
  <2>2. states \in [Issue -> Revision \cup {Unsampled}]
    BY <1>1
  <2>3. done \in Tickets /\ done.graph = goal.graph /\ done.states = states
    BY <2>1, <2>2 DEF Tickets
  <2>4. Sampled(goal.states) = Known(base)
    <3>1. goal.states = [i \in Issue |-> goal.states[i]]
      BY <1>1
    <3>2. Sampled(goal.states) # {}
      BY <1>3, <3>1 DEF Sampled, NoStates
    <3> QED
      BY <3>2
  <2>5. \A i \in Issue : states[i] # Unsampled <=> i \in Known(goal)
    <3> TAKE i \in Issue
    <3>1. CASE i \in Known(goal)
      BY <1>1, <3>1
    <3>2. CASE i \notin Known(goal)
      <4>1. i \notin Sampled(goal.states)
        BY <2>4, <3>2
      <4> QED
        BY <3>2, <4>1 DEF Sampled
    <3> QED
      BY <3>1, <3>2
  <2>6. Sampled(states) = Known(goal)
    BY <2>5 DEF Sampled, Known, Rows
  <2>7. \A i \in Issue : base.states[i] <= states[i] /\ states[i] <= life[i]
    <3> TAKE i \in Issue
    <3>1. base.states[i] <= goal.states[i] /\ goal.states[i] <= life[i]
      BY DEF Newer
    <3>2. CASE i \in Known(goal) /\ goal.states[i] = Unsampled
      BY <1>1, <3>1, <3>2
    <3>3. CASE ~(i \in Known(goal) /\ goal.states[i] = Unsampled)
      BY <3>1, <3>3
    <3> QED
      BY <3>2, <3>3
  <2>8. \A i \in Issue : states[i] \in Int
    BY <2>2, RevisionOrder
  <2> HIDE DEF states, done
  <2> QED
    BY <2>3, <2>6, <2>7, <2>8 DEF Newer, done
<1> QED
  BY <1>2, <1>3

LEMMA AdmitStep ==
  ASSUME IInv, NEW p \in Proc, Admit(p)
  PROVE  IInv'
<1> DEFINE l == at[p]
           done == Completed(l.goal)
           m == Proposed(l, "write", done)
<1>1. l \in Memory /\ Sound(l, tickets, life) /\ l.pc = "check"
  BY DEF IInv, TypeOK, Admit, Propose, pc
<1>2. at' = [at EXCEPT ![p] = m] /\ UNCHANGED data /\ tickets = l.base /\ pc(p) = "check"
  BY DEF Admit, Propose, Proposed
<1> HIDE DEF l
<1>3. l.goal \in Tickets /\ l.base \in Tickets /\ life \in [Issue -> Revision]
  BY <1>1 DEF Memory, IInv, TypeOK
<1>4. /\ Keeps(l) /\ ValidGraph(l.goal.graph) /\ Newer(l.base, l.goal.states, life)
      /\ l.op = "states" => l.goal.graph = l.base.graph
      /\ Sampled(l.goal.states) \in {Known(l.base), {}}
  BY <1>1 DEF Sound, Plans, Writing
<1>5. /\ done \in Tickets /\ done.graph = l.goal.graph
      /\ Sampled(done.states) \in {Known(l.goal), {}}
      /\ Newer(l.base, done.states, life) /\ Newer(done, done.states, life)
  BY <1>3, <1>4, CompletedFacts DEF Keeps
<1> HIDE DEF done
<1>6. "write" \in PCs
  BY DEF PCs
<1>7. /\ m \in Memory /\ m.pc = "write" /\ m.goal = done /\ m.op = l.op /\ m.base = l.base
      /\ m.scope = l.scope /\ m.left = l.left /\ m.pushed = l.pushed
  BY <1>1, <1>5, <1>6, ProposeFields
<1> HIDE DEF m
<1>8. Known(done) = Known(l.goal)
  BY <1>5 DEF Known
<1>9. Keeps(m)
  BY <1>4, <1>5, <1>7, <1>8 DEF Keeps
<1>10. ValidTickets(done)
  BY <1>4, <1>5, <1>8 DEF ValidTickets
<1>11. Observes(m, life) /\ Collects(m, tickets)
  BY <1>1, <1>7 DEF Sound, Observes, Collects
<1>12. Plans(m, life)
  BY <1>4, <1>5, <1>7, <1>9, <1>10 DEF Plans, Writing
<1>13. /\ lock /\ lock' = lock /\ pc(p) \in Locked /\ m.pc \in Locked
       /\ tickets = m.base /\ UNCHANGED <<tickets, life>> /\ server' \in [Issue -> Row]
  BY <1>2, <1>7 DEF IInv, LockExclusion, TypeOK, data, Locked
<1> QED
  BY <1>2, <1>7, <1>11, <1>12, <1>13, Move DEF Sound

\* What is written is based on what is there.
LEMMA WriteFacts ==
  ASSUME IInv, NEW p \in Proc, WriteTickets(p)
  PROVE  /\ tickets = at[p].base /\ Keeps(at[p]) /\ ValidTickets(at[p].goal)
         /\ Newer(tickets, at[p].goal.states, life)
         /\ Newer(at[p].goal, at[p].goal.states, life)
         /\ at[p].op = "states" => at[p].goal.graph = tickets.graph
<1>1. Sound(at[p], tickets, life) /\ at[p].pc = "write"
  BY DEF IInv, WriteTickets, Goto, pc
<1>2. tickets = at[p].base
  BY <1>1 DEF IInv, LockExclusion, pc
<1> QED
  BY <1>1, <1>2 DEF Sound, Plans, Writing

LEMMA WriteStep ==
  ASSUME IInv, NEW p \in Proc, WriteTickets(p)
  PROVE  IInv'
<1> DEFINE l == at[p]
           m == Gone(l, "written")
<1>1. /\ l \in Memory /\ Sound(l, tickets, life) /\ l.pc = "write"
      /\ tickets \in Tickets /\ life \in [Issue -> Revision]
  BY DEF IInv, TypeOK, WriteTickets, Goto, pc
<1>2. /\ at' = [at EXCEPT ![p] = m] /\ tickets' = l.goal /\ UNCHANGED <<lock, life, server>>
  BY DEF WriteTickets, Goto, Gone
<1>3. /\ tickets = l.base /\ Keeps(l) /\ ValidTickets(l.goal)
      /\ Newer(l.goal, l.goal.states, life)
  BY WriteFacts
<1>4. /\ at' \in [Proc -> Memory] /\ at'[p] = m /\ \A q \in Proc \ {p} : at'[q] = at[q]
      /\ m \in Memory /\ m.pc = "written" /\ m.op = l.op /\ m.base = l.base
      /\ m.scope = l.scope /\ m.left = l.left /\ m.goal = l.goal /\ m.pushed = l.pushed
  <2>1. "written" \in PCs
    BY DEF PCs
  <2>2. /\ m \in Memory /\ m.pc = "written" /\ m.op = l.op /\ m.base = l.base
        /\ m.scope = l.scope /\ m.left = l.left /\ m.goal = l.goal /\ m.pushed = l.pushed
    BY <1>1, <2>1, GotoFields
  <2> HIDE DEF m
  <2> QED
    BY <1>2, <2>2 DEF IInv, TypeOK
<1> HIDE DEF m
<1>5. l.goal \in Tickets /\ Known(tickets) \subseteq Known(l.goal)
  BY <1>1, <1>3 DEF Memory, Keeps
<1>6. TypeOK'
  BY <1>2, <1>4, <1>5 DEF IInv, TypeOK
<1>7. LockExclusion'
  <2>1. pc(p) \in Locked /\ lock /\ \A q \in Proc \ {p} : pc(q) \notin Locked
    BY <1>1 DEF IInv, LockExclusion, pc, Locked
  <2>2. pc(p)' = "written" /\ \A q \in Proc \ {p} : pc(q)' \notin Locked
    BY <1>4, <2>1 DEF pc
  <2>3. \A q \in Proc : pc(q)' # "write"
    BY <2>2 DEF Locked
  <2> QED
    BY <1>2, <2>1, <2>2, <2>3 DEF LockExclusion
<1>8. GraphStaysValid' /\ Newer(tickets, tickets.states, life)'
  BY <1>2, <1>3 DEF GraphStaysValid
<1>9. ASSUME NEW q \in Proc PROVE Sound(at[q], tickets, life)'
  <2>1. CASE q = p
    <3>1. Observes(m, life)
      BY <1>1, <1>4 DEF Sound, Observes
    <3>2. Collects(m, l.goal)
      BY <1>1, <1>4, <1>3, <1>5 DEF Sound, Collects, Keeps
    <3>3. Plans(m, life)
      BY <1>3, <1>4 DEF Plans, Writing, Keeps
    <3> QED
      BY <1>2, <1>4, <2>1, <3>1, <3>2, <3>3 DEF Sound
  <2>2. CASE q # p
    <3>1. at[q] \in Memory /\ Sound(at[q], tickets, life)
      BY DEF IInv, TypeOK
    <3>2. \A i \in Issue : life[i] <= life[i]
      BY <1>1, RevisionOrder
    <3>3. Sound(at[q], l.goal, life)
      BY <1>1, <1>5, <3>1, <3>2, SoundLater
    <3> QED
      BY <1>2, <1>4, <2>2, <3>3
  <2> QED
    BY <2>1, <2>2
<1> QED
  BY <1>6, <1>7, <1>8, <1>9 DEF IInv

LEMMA ReleaseFailedStep ==
  ASSUME IInv, NEW p \in Proc, ReleaseFailed(p)
  PROVE  IInv'
<1>1. Idle \in Memory /\ Idle.pc \notin Locked /\ Sound(Idle, tickets, life)
  BY IdleSound DEF IInv, TypeOK, Locked
<1>2. /\ at' = [at EXCEPT ![p] = Idle] /\ pc(p) \in Locked /\ lock' = FALSE
      /\ UNCHANGED <<tickets, life>> /\ server' \in [Issue -> Row] /\ Idle.pc # "write"
  BY <1>1 DEF ReleaseFailed, Return, Locked, IInv, TypeOK
<1> QED
  BY <1>1, <1>2, Move

LEMMA ReleaseWrittenStep ==
  ASSUME IInv, NEW p \in Proc, ReleaseWritten(p)
  PROVE  IInv'
<1>1. /\ lock' = FALSE /\ pc(p) \in Locked
      /\ UNCHANGED <<tickets, life>> /\ server' \in [Issue -> Row]
  BY DEF ReleaseWritten, Goto, Return, Locked, IInv, TypeOK
<1>2. CASE at[p].op = "titles"
  <2> DEFINE l == at[p]
             m == Gone(l, "display")
  <2>1. l \in Memory /\ Sound(l, tickets, life) /\ l.pc = "written" /\ l.op = "titles"
    BY <1>2 DEF IInv, TypeOK, ReleaseWritten, Goto, pc
  <2>2. at' = [at EXCEPT ![p] = m]
    BY <1>2 DEF ReleaseWritten, Goto, Gone
  <2>3. "display" \in PCs
    BY DEF PCs
  <2>4. /\ m \in Memory /\ m.pc = "display" /\ m.op = l.op /\ m.base = l.base
        /\ m.scope = l.scope /\ m.left = l.left /\ m.goal = l.goal /\ m.pushed = l.pushed
    BY <2>1, <2>3, GotoFields
  <2> HIDE DEF m, l
  <2>5. Observes(m, life) /\ Collects(m, tickets)
    BY <2>1, <2>4 DEF Sound, Observes, Collects
  <2>6. Plans(m, life)
    BY <2>1, <2>4 DEF Sound, Plans, Writing, Keeps
  <2>7. m.pc \notin Locked /\ m.pc # "write"
    BY <2>4 DEF Locked
  <2> QED
    BY <1>1, <2>2, <2>4, <2>5, <2>6, <2>7, Move DEF Sound
<1>3. CASE at[p].op # "titles"
  <2>1. Idle \in Memory /\ Idle.pc \notin Locked /\ Sound(Idle, tickets, life)
    BY IdleSound DEF IInv, TypeOK, Locked
  <2>2. at' = [at EXCEPT ![p] = Idle] /\ Idle.pc # "write"
    BY <1>3, <2>1 DEF ReleaseWritten, Return, Locked
  <2> QED
    BY <1>1, <2>1, <2>2, Move
<1> QED
  BY <1>2, <1>3

\* The old titles are a legal goal from the file with the new ones.
LEMMA UndoStep ==
  ASSUME IInv, NEW p \in Proc, UndoTitles(p)
  PROVE  IInv'
<1> DEFINE l == at[p]
           goal == [graph |-> l.base.graph, states |-> l.goal.states]
           m == [Idle EXCEPT !.pc = "recheck", !.op = "undo", !.base = l.goal,
                             !.scope = l.scope, !.goal = goal]
<1>1. /\ l \in Memory /\ Sound(l, tickets, life) /\ l.pc = "display" /\ l.goal # Missing
  BY DEF IInv, TypeOK, UndoTitles, pc
<1>2. at' = [at EXCEPT ![p] = m] /\ UNCHANGED data
  BY DEF UndoTitles
<1> HIDE DEF l
<1>3. /\ Keeps(l) /\ ValidTickets(l.goal) /\ Newer(l.goal, l.goal.states, life)
      /\ l.op = "titles" /\ ValidTickets(l.base)
  BY <1>1 DEF Sound, Plans, Observes
<1>4. goal \in Tickets /\ goal.graph = l.base.graph /\ goal.states = l.goal.states
  BY <1>1 DEF Memory, Tickets
<1> HIDE DEF goal
<1>5. m \in Memory
  <2>1. "recheck" \in PCs /\ "undo" \in Ops
    BY DEF PCs, Ops
  <2>2. l.goal \in Tickets /\ l.scope \in SUBSET Issue
    BY <1>1 DEF Memory
  <2>3. Idle \in Memory
    BY IdleSound DEF IInv, TypeOK
  <2> QED
    BY <1>4, <2>1, <2>2, <2>3 DEF Memory
<1>6. /\ m.pc = "recheck" /\ m.op = "undo" /\ m.base = l.goal /\ m.scope = l.scope
      /\ m.goal = goal /\ m.pushed = {}
  BY DEF Idle
<1> HIDE DEF m
<1>7. Observes(m, life) /\ Collects(m, tickets)
  BY <1>3, <1>6 DEF Observes, Collects
<1>8. Known(l.goal) = Known(l.base) /\ Known(goal) = Known(l.base)
  BY <1>3, <1>4 DEF Keeps, Known
<1>9. Keeps(m)
  BY <1>3, <1>4, <1>6, <1>8 DEF Keeps
<1>10. ValidGraph(m.goal.graph) /\ Sampled(m.goal.states) \in {Known(m.base), {}}
  BY <1>3, <1>4, <1>6 DEF ValidTickets
<1>11. Newer(m.base, m.goal.states, life)
  BY <1>3, <1>4, <1>6
<1>12. Plans(m, life) /\ m.pc \notin Locked
  BY <1>6, <1>9, <1>10, <1>11 DEF Plans, Writing, Locked
<1> QED
  BY <1>2, <1>5, <1>7, <1>12, QuietMove DEF Sound

----------------------------------------------------------------------------

LEMMA PlanPushStep ==
  ASSUME IInv, NEW p \in Proc, PlanPush(p)
  PROVE  IInv'
<1> DEFINE l == at[p]
           left == {i \in l.scope : l.rows[i].deps # Local(p, i).deps}
           m == [l EXCEPT !.pc = "push", !.left = left]
<1>1. /\ l \in Memory /\ Sound(l, tickets, life)
      /\ l.pc = "observe" /\ l.op = "to" /\ l.left = {}
  BY DEF IInv, TypeOK, PlanPush, pc
<1>2. at' = [at EXCEPT ![p] = m] /\ UNCHANGED data
  BY DEF PlanPush
<1>3. left \subseteq l.scope /\ l.scope \subseteq Issue
  BY <1>1 DEF Memory
<1> HIDE DEF l, left
<1>4. /\ m \in Memory /\ m.pc = "push" /\ m.op = l.op /\ m.base = l.base
      /\ m.scope = l.scope /\ m.left = left /\ m.rows = l.rows /\ m.pushed = l.pushed
  BY <1>1, <1>3 DEF Memory, PCs
<1> HIDE DEF m
<1>5. Observes(m, life)
  BY <1>1, <1>4 DEF Sound, Observes
<1>6. Collects(m, tickets)
  BY <1>1, <1>3, <1>4 DEF Sound, Collects
<1>7. Plans(m, life) /\ m.pc \notin Locked
  BY <1>4 DEF Plans, Writing, Locked
<1> QED
  BY <1>2, <1>4, <1>5, <1>6, <1>7, QuietMove DEF Sound

Moved(l, to, left, pushed) == [l EXCEPT !.pc = to, !.left = left, !.pushed = pushed]

\* A step of the transfer changes what is left to do and what has been done.
LEMMA TransferStep ==
  ASSUME IInv, NEW p \in Proc, pc(p) \in {"push", "readback", "restore"},
         NEW to \in {"push", "readback", "restore"},
         NEW left \in SUBSET at[p].left, NEW pushed \in SUBSET at[p].scope,
         at' = [at EXCEPT ![p] = Moved(at[p], to, left, pushed)],
         UNCHANGED <<tickets, lock, life>>, server' \in [Issue -> Row]
  PROVE  IInv'
<1> DEFINE l == at[p]
           m == Moved(l, to, left, pushed)
<1>1. /\ l \in Memory /\ Sound(l, tickets, life) /\ l.pc \in {"push", "readback", "restore"}
  BY DEF IInv, TypeOK, pc
<1>2. left \subseteq l.left /\ pushed \subseteq l.scope
      /\ l.scope \subseteq Issue /\ l.left \subseteq Issue
  BY <1>1 DEF Memory
<1>3. at' = [at EXCEPT ![p] = m]
  OBVIOUS
<1> HIDE DEF l
<1>4. /\ m \in Memory /\ m.pc = to /\ m.op = l.op /\ m.base = l.base
      /\ m.scope = l.scope /\ m.left = left /\ m.rows = l.rows /\ m.pushed = pushed
  BY <1>1, <1>2 DEF Memory, PCs, Moved
<1> HIDE DEF m
<1>5. Observes(m, life)
  BY <1>1, <1>4 DEF Sound, Observes
<1>6. Collects(m, tickets)
  BY <1>1, <1>2, <1>4 DEF Sound, Collects
<1>7. Plans(m, life) /\ m.pc \notin Locked /\ m.pc # "write"
  BY <1>4 DEF Plans, Writing, Locked
<1>8. lock' \in BOOLEAN /\ lock' = lock
  BY DEF IInv, TypeOK
<1> QED
  BY <1>3, <1>4, <1>5, <1>6, <1>7, <1>8, Move DEF Sound

\* The issues a transfer is about have rows here, and it has read theirs.
LEMMA TransferRows ==
  ASSUME IInv, NEW p \in Proc, pc(p) \in {"push", "readback", "restore"},
         NEW i \in Issue, i \in at[p].left \cup at[p].pushed
  PROVE  /\ i \in at[p].scope
         /\ Local(p, i).deps \subseteq Issue /\ at[p].rows[i].deps \subseteq Issue
<1>1. /\ at[p] \in Memory /\ Sound(at[p], tickets, life)
      /\ at[p].pc \in {"push", "readback", "restore"}
  BY DEF IInv, TypeOK, pc
<1>2. at[p].op = "to" /\ i \in at[p].scope /\ i \in Known(at[p].base) /\ i \in Rows(at[p].rows)
  BY <1>1 DEF Sound, Collects
<1>3. at[p].base.graph[i] \in Row /\ at[p].rows[i] \in Row
  BY <1>1, <1>2 DEF Memory, Tickets, Known, Rows
<1> QED
  BY <1>2, <1>3 DEF Local, Row

LEMMA SetDepsType ==
  ASSUME IInv, NEW i \in Issue, NEW deps \in SUBSET Issue, SetDeps(i, deps)
  PROVE  server' \in [Issue -> Row] /\ UNCHANGED <<tickets, lock, life>>
<1>1. server \in [Issue -> Row]
  BY DEF IInv, TypeOK
<1>2. [server[i] EXCEPT !.deps = deps] \in Row
  BY <1>1 DEF Row
<1>3. server' = [server EXCEPT ![i] = [server[i] EXCEPT !.deps = deps]]
  BY DEF SetDeps
<1> QED
  BY <1>1, <1>2, <1>3 DEF SetDeps

LEMMA ReplaceFailsType ==
  ASSUME IInv, NEW i \in Issue, NEW wanted \in SUBSET Issue, ReplaceFails(i, wanted)
  PROVE  server' \in [Issue -> Row] /\ UNCHANGED <<tickets, lock, life>>
<1>1. server[i].deps \in SUBSET Issue /\ server[i].deps \cap wanted \in SUBSET Issue
  BY DEF IInv, TypeOK, Row
<1> QED
  BY <1>1, SetDepsType DEF ReplaceFails

LEMMA TransferMoves ==
  ASSUME IInv, NEW p \in Proc, NEW i \in Issue,
         \/ Push(p, i) \/ PushFails(p, i) \/ ReadBack(p, i) \/ ReadBackFails(p, i)
         \/ Restore(p, i) \/ RestoreFails(p, i)
  PROVE  IInv'
<1> DEFINE l == at[p]
<1>1. l \in Memory /\ (l.pc = pc(p)) /\ l.pushed \subseteq l.scope /\ l.left \subseteq Issue
  BY DEF IInv, TypeOK, pc, Sound, Collects, Memory
<1>2. CASE Push(p, i)
  <2>1. pc(p) = "push" /\ i \in l.left
    BY <1>2 DEF Push
  <2>2. i \in l.scope /\ server' \in [Issue -> Row] /\ UNCHANGED <<tickets, lock, life>>
    BY <1>2, <2>1, TransferRows, SetDepsType DEF Push
  <2>3. Moved(l, "readback", l.left, l.pushed \cup {i})
          = [l EXCEPT !.pc = "readback", !.pushed = @ \cup {i}]
    BY <1>1 DEF Memory, Moved
  <2>4. at' = [at EXCEPT ![p] = Moved(l, "readback", l.left, l.pushed \cup {i})]
    BY <1>2, <2>3 DEF Push
  <2>5. l.pushed \cup {i} \in SUBSET l.scope
    BY <1>1, <2>2
  <2> QED
    BY <2>1, <2>2, <2>4, <2>5, TransferStep
<1>3. CASE PushFails(p, i)
  <2>1. pc(p) = "push" /\ i \in l.left
    BY <1>3 DEF PushFails, Goto
  <2>2. server' \in [Issue -> Row] /\ UNCHANGED <<tickets, lock, life>>
    BY <1>3, <2>1, TransferRows, ReplaceFailsType DEF PushFails
  <2>3. Moved(l, "restore", l.left, l.pushed) = [l EXCEPT !.pc = "restore"]
    BY <1>1 DEF Memory, Moved
  <2>4. at' = [at EXCEPT ![p] = Moved(l, "restore", l.left, l.pushed)]
    BY <1>3, <2>3 DEF PushFails, Goto
  <2> QED
    BY <1>1, <2>1, <2>2, <2>4, TransferStep
<1>4. CASE ReadBack(p, i) \/ ReadBackFails(p, i)
  <2>1. pc(p) = "readback" /\ UNCHANGED <<tickets, lock, life>> /\ server' \in [Issue -> Row]
    BY <1>4 DEF ReadBack, ReadBackFails, data, IInv, TypeOK
  <2>2. PICK to \in {"push", "restore"} :
          at' = [at EXCEPT ![p] = [l EXCEPT !.pc = to, !.left = @ \ {i}]]
    BY <1>4 DEF ReadBack, ReadBackFails
  <2>3. Moved(l, to, l.left \ {i}, l.pushed) = [l EXCEPT !.pc = to, !.left = @ \ {i}]
    BY <1>1 DEF Memory, Moved
  <2>4. at' = [at EXCEPT ![p] = Moved(l, to, l.left \ {i}, l.pushed)]
    BY <2>2, <2>3
  <2> QED
    BY <1>1, <2>1, <2>4, TransferStep
<1>5. CASE Restore(p, i) \/ RestoreFails(p, i)
  <2>1. pc(p) = "restore" /\ i \in l.pushed
    BY <1>5 DEF Restore, RestoreFails
  <2>2. server' \in [Issue -> Row] /\ UNCHANGED <<tickets, lock, life>>
    BY <1>5, <2>1, TransferRows, SetDepsType, ReplaceFailsType DEF Restore, RestoreFails
  <2>3. Moved(l, "restore", l.left, l.pushed \ {i}) = [l EXCEPT !.pushed = @ \ {i}]
    BY <1>1, <2>1 DEF Memory, Moved
  <2>4. at' = [at EXCEPT ![p] = Moved(l, "restore", l.left, l.pushed \ {i})]
    BY <1>5, <2>3 DEF Restore, RestoreFails
  <2>5. l.pushed \ {i} \in SUBSET l.scope /\ l.left \in SUBSET l.left
    BY <1>1
  <2> QED
    BY <2>1, <2>2, <2>4, <2>5, TransferStep
<1> QED
  BY <1>2, <1>3, <1>4, <1>5

LEMMA PushDoneStep ==
  ASSUME IInv, NEW p \in Proc, PushDone(p)
  PROVE  IInv'
<1> DEFINE l == at[p]
           m == [Idle EXCEPT !.pc = "observe", !.op = "titles", !.base = tickets,
                             !.scope = l.scope, !.left = l.scope]
<1>1. /\ l \in Memory /\ Sound(l, tickets, life) /\ l.pc = "push"
      /\ tickets \in Tickets /\ ValidTickets(tickets)
      /\ Newer(tickets, tickets.states, life)
  BY DEF IInv, TypeOK, GraphStaysValid, PushDone, pc
<1>2. at' = [at EXCEPT ![p] = m] /\ UNCHANGED data
  BY DEF PushDone
<1>3. l.scope \in SUBSET Issue /\ l.scope \subseteq Known(tickets)
  BY <1>1 DEF Memory, Sound, Collects
<1> HIDE DEF l
<1>4. m \in Memory
  <2>1. "observe" \in PCs /\ "titles" \in Ops
    BY DEF PCs, Ops
  <2>2. Idle \in Memory
    BY IdleSound DEF IInv, TypeOK
  <2> QED
    BY <1>1, <1>3, <2>1, <2>2 DEF Memory
<1>5. /\ m.pc = "observe" /\ m.op = "titles" /\ m.base = tickets
      /\ m.scope = l.scope /\ m.left = l.scope /\ m.pushed = {}
  BY DEF Idle
<1> HIDE DEF m
<1>6. Observes(m, life)
  BY <1>1, <1>5 DEF Observes
<1>7. Collects(m, tickets)
  BY <1>3, <1>5 DEF Collects
<1>8. Plans(m, life) /\ m.pc \notin Locked
  BY <1>5 DEF Plans, Writing, Locked
<1> QED
  BY <1>2, <1>4, <1>6, <1>7, <1>8, QuietMove DEF Sound

\* Lifecycles advance, and tickets are edited on the server.
LEMMA LaterStep ==
  ASSUME IInv, UNCHANGED <<tickets, lock, at>>, server' \in [Issue -> Row],
         life' \in [Issue -> Revision], \A i \in Issue : life[i] <= life'[i]
  PROVE  IInv'
<1>1. tickets \in Tickets /\ life \in [Issue -> Revision]
      /\ tickets.states \in [Issue -> Revision \cup {Unsampled}]
  BY DEF IInv, TypeOK, Tickets
<1>2. TypeOK' /\ LockExclusion' /\ GraphStaysValid'
  BY DEF IInv, TypeOK, LockExclusion, GraphStaysValid, pc
<1>3. Newer(tickets, tickets.states, life)'
  <2>1. Newer(tickets, tickets.states, life')
    BY <1>1, NewerLater DEF IInv
  <2> QED
    BY <2>1
<1>4. ASSUME NEW q \in Proc PROVE Sound(at[q], tickets, life)'
  <2>1. at[q] \in Memory /\ Sound(at[q], tickets, life)
    BY DEF IInv, TypeOK
  <2>2. Sound(at[q], tickets, life')
    BY <1>1, <2>1, SoundLater
  <2> QED
    BY <2>2
<1> QED
  BY <1>2, <1>3, <1>4 DEF IInv

LEMMA AdvanceStep ==
  ASSUME IInv, NEW i \in Issue, AdvanceLife(i)
  PROVE  IInv'
<1>1. life \in [Issue -> Revision] /\ server \in [Issue -> Row]
  BY DEF IInv, TypeOK
<1>2. life' = [life EXCEPT ![i] = life[i] + 1] /\ UNCHANGED <<tickets, lock, server, at>>
  BY DEF AdvanceLife
<1>3. life[i] + 1 \in Revision /\ \A j \in Issue : life[j] \in Int
  BY <1>1 DEF Revision
<1>4. life' \in [Issue -> Revision] /\ \A j \in Issue : life[j] <= life'[j]
  BY <1>1, <1>2, <1>3
<1> QED
  BY <1>1, <1>2, <1>4, LaterStep

LEMMA EditStep ==
  ASSUME IInv, NEW edit \in Edits, EditTicket(edit[1], edit[2])
  PROVE  IInv'
<1>1. edit[1] \in Issue /\ edit[2] \in Row
  BY BoundAssumption
<1>2. /\ server' \in [Issue -> Row] /\ UNCHANGED <<tickets, lock, life, at>>
      /\ life \in [Issue -> Revision]
  BY <1>1 DEF EditTicket, IInv, TypeOK
<1>3. \A j \in Issue : life[j] <= life'[j]
  BY <1>2, RevisionOrder
<1> QED
  BY <1>2, <1>3, LaterStep

LEMMA InitIInv == ASSUME Init PROVE IInv
<1>1. tickets \in Tickets /\ ValidTickets(tickets) /\ life \in [Issue -> Revision]
  BY FirstAssumption DEF Init, Revision
<1>2. \A p \in Proc : at[p] = Idle /\ pc(p) = "idle"
  BY DEF Init, pc, Idle
<1>3. Idle \in Memory /\ Sound(Idle, tickets, life)
  BY <1>1, IdleSound
<1>4. TypeOK
  BY <1>1, <1>3, FirstAssumption DEF Init, TypeOK
<1>5. LockExclusion
  BY <1>2 DEF LockExclusion, Locked
<1>6. Newer(tickets, tickets.states, life)
  <2> SUFFICES ASSUME NEW i \in Issue
               PROVE  tickets.states[i] <= tickets.states[i] /\ tickets.states[i] <= life[i]
    BY DEF Newer
  <2>1. life[i] = -1 /\ tickets.states[i] \in {Unsampled, -1}
    BY DEF Init, Sampled
  <2> QED
    BY <2>1 DEF Unsampled
<1> QED
  BY <1>1, <1>2, <1>3, <1>4, <1>5, <1>6 DEF IInv, GraphStaysValid

LEMMA NextIInv == ASSUME IInv, [Next]_vars PROVE IInv'
<1>1. CASE UNCHANGED vars
  <2>1. UNCHANGED <<tickets, lock, life, server, at>>
    BY <1>1 DEF vars, data
  <2>2. /\ life \in [Issue -> Revision] /\ server \in [Issue -> Row]
    BY DEF IInv, TypeOK
  <2>3. \A i \in Issue : life[i] <= life'[i]
    BY <2>1, <2>2, RevisionOrder
  <2> QED
    BY <2>1, <2>2, <2>3, LaterStep
<1>2. ASSUME NEW p \in Proc, BeginStates(p) PROVE IInv'
  <2>1. "states" \in Ops /\ "none" \in Options /\ Known(tickets) \in SUBSET Issue
    BY DEF Ops, Options, Known, Rows
  <2> QED
    BY <1>2, <2>1, BeginStep DEF BeginStates
<1>3. ASSUME NEW p \in Proc, NEW command \in Runs[p], NEW option \in Options,
             BeginSync(p, command[2], command[1], option)
      PROVE  IInv'
  <2>1. command[1] \in Ops /\ command[2] \in SUBSET Issue
    BY BoundAssumption
  <2>2. /\ command[2] \subseteq Known(tickets) /\ command[1] # "states"
        /\ Start(p, command[1], option, command[2])
    BY <1>3 DEF BeginSync
  <2> QED
    BY <2>1, <2>2, BeginStep
<1>4. ASSUME NEW p \in Proc, NEW i \in Issue, BeginAcquire(p, i) PROVE IInv'
  <2>1. "acquire" \in Ops /\ "none" \in Options /\ {i} \in SUBSET Issue
    BY DEF Ops, Options
  <2> QED
    BY <1>4, <2>1, BeginStep DEF BeginAcquire
<1>5. ASSUME NEW p \in Proc, PlanStates(p) PROVE IInv'
  BY <1>5, PlanStatesStep
<1>6. ASSUME NEW p \in Proc, PlanRefused(p) PROVE IInv'
  BY <1>6, ReturnStep DEF PlanRefused
<1>7. ASSUME NEW p \in Proc, PlanUnchanged(p) PROVE IInv'
  BY <1>7, PlanUnchangedStep
<1>8. ASSUME NEW p \in Proc, PlanChange(p) PROVE IInv'
  BY <1>8, PlanChangeStep
<1>9. ASSUME NEW p \in Proc, ReadFails(p) PROVE IInv'
  BY <1>9, ReturnStep DEF ReadFails
<1>10. ASSUME NEW p \in Proc, Recheck(p) PROVE IInv'
  BY <1>10, RecheckStep
<1>11. ASSUME NEW p \in Proc, RecheckStale(p) PROVE IInv'
  BY <1>11, ReturnStep DEF RecheckStale
<1>12. ASSUME NEW p \in Proc, AcquireLock(p) PROVE IInv'
  BY <1>12, AcquireStep
<1>13. ASSUME NEW p \in Proc, LockBusy(p) PROVE IInv'
  BY <1>13, ReturnStep DEF LockBusy
<1>14. ASSUME NEW p \in Proc, Admit(p) PROVE IInv'
  BY <1>14, AdmitStep
<1>15. ASSUME NEW p \in Proc, AdmitStale(p) PROVE IInv'
  BY <1>15, FailStep DEF AdmitStale, Locked
<1>16. ASSUME NEW p \in Proc, WriteTickets(p) PROVE IInv'
  BY <1>16, WriteStep
<1>17. ASSUME NEW p \in Proc, WriteFails(p) PROVE IInv'
  BY <1>17, FailStep DEF WriteFails, Locked
<1>18. ASSUME NEW p \in Proc, ReleaseFailed(p) PROVE IInv'
  BY <1>18, ReleaseFailedStep
<1>19. ASSUME NEW p \in Proc, ReleaseWritten(p) PROVE IInv'
  BY <1>19, ReleaseWrittenStep
<1>20. ASSUME NEW p \in Proc, StoreDisplay(p) PROVE IInv'
  BY <1>20, ReturnStep DEF StoreDisplay
<1>21. ASSUME NEW p \in Proc, UndoTitles(p) PROVE IInv'
  BY <1>21, UndoStep
<1>22. ASSUME NEW p \in Proc, DisplayFails(p) PROVE IInv'
  BY <1>22, ReturnStep DEF DisplayFails
<1>23. ASSUME NEW p \in Proc, PlanPush(p) PROVE IInv'
  BY <1>23, PlanPushStep
<1>24. ASSUME NEW p \in Proc, PushRefused(p) PROVE IInv'
  BY <1>24, ReturnStep DEF PushRefused
<1>25. ASSUME NEW p \in Proc, PushUndone(p) PROVE IInv'
  BY <1>25, ReturnStep DEF PushUndone
<1>26. ASSUME NEW p \in Proc, PushDone(p) PROVE IInv'
  BY <1>26, PushDoneStep
<1>27. ASSUME NEW p \in Proc, NEW i \in Issue, SampleState(p, i) PROVE IInv'
  BY <1>27, SampleStep
<1>28. ASSUME NEW p \in Proc, NEW i \in Issue, ReadRow(p, i) PROVE IInv'
  BY <1>28, ReadStep
<1>29. ASSUME NEW p \in Proc, NEW i \in Issue,
              \/ Push(p, i) \/ PushFails(p, i) \/ ReadBack(p, i) \/ ReadBackFails(p, i)
              \/ Restore(p, i) \/ RestoreFails(p, i)
       PROVE  IInv'
  BY <1>29, TransferMoves
<1>30. ASSUME NEW p \in Proc, Crash(p) PROVE IInv'
  BY <1>30, Leave DEF Crash
<1>31. ASSUME NEW i \in Issue, AdvanceLife(i) PROVE IInv'
  BY <1>31, AdvanceStep
<1>32. ASSUME NEW edit \in Edits, EditTicket(edit[1], edit[2]) PROVE IInv'
  BY <1>32, EditStep
<1> QED
  BY <1>1, <1>2, <1>3, <1>4, <1>5, <1>6, <1>7, <1>8, <1>9, <1>10,
     <1>11, <1>12, <1>13, <1>14, <1>15, <1>16, <1>17, <1>18, <1>19, <1>20,
     <1>21, <1>22, <1>23, <1>24, <1>25, <1>26, <1>27, <1>28, <1>29, <1>30,
     <1>31, <1>32
  DEF Next, Step

\* The inductive invariant holds for every set of processes and commands.
THEOREM Invariance == Spec => []IInv
BY InitIInv, NextIInv, PTL DEF Spec

\* However stale what a command has observed, the stored dependencies name rows
\* and have no cycle, and states are sampled for every row or for none.
THEOREM GraphIsValid == Spec => []GraphStaysValid
<1>1. IInv => GraphStaysValid
  BY DEF IInv
<1> QED
  BY <1>1, Invariance, PTL

\* A write changes the rows its command is about and no others, whatever other
\* processes wrote since the command read the file.
THEOREM OthersRowsKept == Spec => OnlyOwnRows
<1>1. ASSUME IInv, NEW p \in Proc, WriteTickets(p)
      PROVE  /\ Known(tickets) \subseteq Known(tickets')
             /\ \A i \in Known(tickets) \ at[p].scope : tickets'.graph[i] = tickets.graph[i]
             /\ at[p].op = "states" => tickets'.graph = tickets.graph
  <2>1. tickets' = at[p].goal
    BY <1>1 DEF WriteTickets
  <2> QED
    BY <1>1, <2>1, WriteFacts DEF Keeps
<1>2. IInv => [\A p \in Proc : WriteTickets(p) =>
                 /\ Known(tickets) \subseteq Known(tickets')
                 /\ \A i \in Known(tickets) \ at[p].scope : tickets'.graph[i] = tickets.graph[i]
                 /\ at[p].op = "states" => tickets'.graph = tickets.graph]_vars
  BY <1>1
<1> QED
  BY <1>2, Invariance, PTL DEF OnlyOwnRows

\* Only a write changes the file.
LEMMA OneWriter ==
  ASSUME [Next]_vars PROVE tickets' = tickets \/ \E p \in Proc : WriteTickets(p)
<1> USE DEF data
<1>1. ASSUME NEW p \in Proc, Step(p) PROVE tickets' = tickets \/ WriteTickets(p)
  <2>1. \/ PlanStates(p) \/ PlanRefused(p) \/ PlanUnchanged(p) \/ PlanChange(p)
        \/ ReadFails(p) \/ StoreDisplay(p) \/ UndoTitles(p) \/ DisplayFails(p)
        \/ PlanPush(p) \/ PushRefused(p) \/ PushUndone(p) \/ PushDone(p)
        => tickets' = tickets
    BY DEF PlanStates, PlanRefused, PlanUnchanged, PlanChange, ReadFails, StoreDisplay,
           UndoTitles, DisplayFails, PlanPush, PushRefused, PushUndone, PushDone
  <2>2. \/ Recheck(p) \/ RecheckStale(p) \/ AcquireLock(p) \/ LockBusy(p) \/ Admit(p)
        \/ AdmitStale(p) \/ WriteFails(p) \/ ReleaseFailed(p) \/ ReleaseWritten(p)
        => tickets' = tickets
    BY DEF Recheck, RecheckStale, AcquireLock, LockBusy, Admit, AdmitStale, WriteFails,
           ReleaseFailed, ReleaseWritten
  <2>3. ASSUME NEW i \in Issue,
               \/ SampleState(p, i) \/ ReadRow(p, i) \/ Push(p, i) \/ PushFails(p, i)
               \/ ReadBack(p, i) \/ ReadBackFails(p, i) \/ Restore(p, i) \/ RestoreFails(p, i)
        PROVE  tickets' = tickets
    BY <2>3 DEF SampleState, ReadRow, Push, PushFails, ReadBack, ReadBackFails, Restore,
                RestoreFails, ReplaceFails, SetDeps
  <2> QED
    BY <1>1, <2>1, <2>2, <2>3 DEF Step
<1>2. ASSUME NEW p \in Proc PROVE Crash(p) => tickets' = tickets
  BY DEF Crash
<1>3. ASSUME NEW p \in Proc, NEW command \in Runs[p], NEW option \in Options
      PROVE  BeginSync(p, command[2], command[1], option) => tickets' = tickets
  BY DEF BeginSync, Start
<1>4. ASSUME NEW p \in Proc, NEW i \in Issue PROVE BeginAcquire(p, i) => tickets' = tickets
  BY DEF BeginAcquire, Start
<1>5. ASSUME NEW p \in Proc PROVE BeginStates(p) => tickets' = tickets
  BY DEF BeginStates, Start
<1>6. ASSUME NEW i \in Issue PROVE AdvanceLife(i) => tickets' = tickets
  BY DEF AdvanceLife
<1>7. ASSUME NEW edit \in Edits PROVE EditTicket(edit[1], edit[2]) => tickets' = tickets
  BY DEF EditTicket
<1>8. UNCHANGED vars => tickets' = tickets
  BY DEF vars
<1> QED
  BY <1>1, <1>2, <1>3, <1>4, <1>5, <1>6, <1>7, <1>8 DEF Next

\* The sampled lifecycle revisions only move forward and never run ahead of the
\* lifecycles, although refreshes sample them long before they write.
THEOREM StatesMoveForward == Spec => ProjectionForward
<1>1. ASSUME IInv, [Next]_vars, NEW i \in Sampled(tickets.states)
      PROVE  tickets.states[i] <= tickets'.states[i] /\ tickets'.states[i] <= life[i]
  <2>1. i \in Issue
    BY DEF Sampled
  <2>2. CASE tickets' = tickets
    BY <1>1, <2>1, <2>2 DEF IInv, Newer
  <2>3. ASSUME NEW p \in Proc, WriteTickets(p)
        PROVE  tickets.states[i] <= tickets'.states[i] /\ tickets'.states[i] <= life[i]
    <3>1. tickets' = at[p].goal /\ Newer(tickets, at[p].goal.states, life)
      BY <1>1, <2>3, WriteFacts DEF WriteTickets
    <3> QED
      BY <2>1, <3>1 DEF Newer
  <2> QED
    BY <1>1, <2>2, <2>3, OneWriter
<1>2. IInv /\ [Next]_vars =>
        [\A i \in Sampled(tickets.states) :
           /\ tickets.states[i] <= tickets'.states[i]
           /\ tickets'.states[i] <= life[i]]_vars
  BY <1>1
<1> QED
  BY <1>2, Invariance, PTL DEF Spec, ProjectionForward

-----------------------------------------------------------------------------
(***************************************************************************)
(* TicketMerge: what a merge keeps, first row by row.                       *)
(***************************************************************************)

\* The chosen function is one into the sets.
LEMMA ChosenFacts ==
  ASSUME NEW sets, NEW f \in TM!Chosen(sets)
  PROVE  /\ f = [i \in Issues |-> f[i]] /\ \A i \in Issues : f[i] \in sets[i]
         /\ \A i \in Issues : sets[i] # {}
<1>1. \A i \in Issues : sets[i] # {}
  BY DEF TM!Chosen
<1>2. f = [i \in Issues |-> CHOOSE x \in sets[i] : TRUE]
  BY <1>1 DEF TM!Chosen
<1>3. ASSUME NEW i \in Issues PROVE f[i] \in sets[i]
  <2>1. PICK x \in sets[i] : TRUE
    BY <1>1
  <2>2. (CHOOSE y \in sets[i] : TRUE) \in sets[i]
    BY <2>1
  <2> QED
    BY <1>2, <2>2
<1> QED
  BY <1>1, <1>2, <1>3

\* What is merged is the same in both directions.
LEMMA ThreeWayFacts ==
  ASSUME NEW old, NEW ours, NEW theirs
  PROVE  /\ TM!ThreeWay(old, ours, theirs) = TM!ThreeWay(old, theirs, ours)
         /\ \A x \in TM!ThreeWay(old, ours, theirs) :
              (x = ours /\ x = theirs) \/ (ours = old /\ x = theirs) \/ (theirs = old /\ x = ours)
<1>1. {ours, theirs} = {theirs, ours}
  OBVIOUS
<1>2. TM!ThreeWay(old, ours, theirs) = TM!ThreeWay(old, theirs, ours)
  BY <1>1, Zenon DEF TM!ThreeWay
<1> QED
  BY <1>2 DEF TM!ThreeWay

Deps(row) == IF row = NoRow THEN {} ELSE row.deps

LEMMA MergedDepsFacts ==
  ASSUME NEW old \in TM!Row \cup {NoRow}, NEW ours \in TM!Row, NEW theirs \in TM!Row, NoRow \notin TM!Row,
         NEW deps \in TM!MergedDeps(old, ours, theirs)
  PROVE  /\ deps \in SUBSET Issues
         /\ \A s \in {ours, theirs} : Deps(s) \ Deps(old) \subseteq deps /\ deps \cap (Deps(old) \ Deps(s)) = {}
<1>1. /\ ours.deps \in SUBSET Issues /\ theirs.deps \in SUBSET Issues
      /\ Deps(ours) = ours.deps /\ Deps(theirs) = theirs.deps
  BY DEF TM!Row, Deps
<1>2. CASE old = NoRow
  BY <1>1, <1>2 DEF TM!MergedDeps, Deps
<1>3. CASE old # NoRow
  <2>1. \/ deps = ours.deps /\ deps = theirs.deps
        \/ ours.deps = old.deps /\ deps = theirs.deps
        \/ theirs.deps = old.deps /\ deps = ours.deps
    BY <1>3, ThreeWayFacts DEF TM!MergedDeps
  <2> QED
    BY <1>1, <1>3, <2>1 DEF Deps
<1> QED
  BY <1>2, <1>3

LEMMA MergedDepsSame ==
  ASSUME NEW old, NEW ours, NEW theirs
  PROVE  TM!MergedDeps(old, ours, theirs) = TM!MergedDeps(old, theirs, ours)
BY ThreeWayFacts DEF TM!MergedDeps

LEMMA MergedTitleFacts ==
  ASSUME NEW ours, NEW theirs, NEW answer
  PROVE  /\ TM!MergedTitle(ours, theirs, answer) = TM!MergedTitle(theirs, ours, answer)
         /\ TM!MergedTitle(ours, theirs, answer) \subseteq {ours.title} \cup answer
BY DEF TM!MergedTitle

LEMMA MergedRecordSame ==
  ASSUME NEW old, NEW ours, NEW theirs, NEW answer
  PROVE  TM!MergedRecord(old, ours, theirs, answer) = TM!MergedRecord(old, theirs, ours, answer)
<1>1. {ours, theirs} = {theirs, ours}
  OBVIOUS
<1> QED
  <2>1. TM!ThreeWay(old, ours, theirs) = TM!ThreeWay(old, theirs, ours)
    BY ThreeWayFacts
  <2>2. TM!MergedTitle(ours, theirs, answer) = TM!MergedTitle(theirs, ours, answer)
    BY MergedTitleFacts
  <2>3. TM!MergedDeps(old, ours, theirs) = TM!MergedDeps(old, theirs, ours)
    BY MergedDepsSame
  <2>4. CASE NoRow \in {ours, theirs}
    BY <1>1, <2>1, <2>4 DEF TM!MergedRecord
  <2>5. CASE NoRow \notin {ours, theirs}
    BY <1>1, <2>2, <2>3, <2>5 DEF TM!MergedRecord
  <2> QED
    BY <2>4, <2>5

\* A merged row has what either side added and not what it removed.
LEMMA MergedRecordFacts ==
  ASSUME NEW old \in TM!Row \cup {NoRow}, NEW ours \in TM!Row \cup {NoRow}, NEW theirs \in TM!Row \cup {NoRow},
         NoRow \notin TM!Row, NEW answer \in SUBSET Title, NEW x \in TM!MergedRecord(old, ours, theirs, answer)
  PROVE  /\ x \in TM!Row \cup {NoRow}
         /\ x # NoRow => x.title \in {s.title : s \in {ours, theirs} \ {NoRow}} \cup answer
         /\ \A s \in {ours, theirs} :
              /\ s # NoRow /\ old = NoRow => x # NoRow
              /\ s = NoRow /\ old # NoRow => x = NoRow
              /\ Deps(s) \ Deps(old) \subseteq Deps(x)
              /\ Deps(x) \cap (Deps(old) \ Deps(s)) = {}
<1>1. CASE NoRow \in {ours, theirs}
  <2>1. \/ (x = ours /\ x = theirs) \/ (ours = old /\ x = theirs) \/ (theirs = old /\ x = ours)
    BY <1>1, ThreeWayFacts DEF TM!MergedRecord
  <2> QED
    BY <1>1, <2>1 DEF Deps
<1>2. CASE NoRow \notin {ours, theirs}
  <2>1. PICK title \in TM!MergedTitle(ours, theirs, answer), deps \in TM!MergedDeps(old, ours, theirs) :
          x = [title |-> title, deps |-> deps]
    BY <1>2 DEF TM!MergedRecord
  <2>2. ours \in TM!Row /\ theirs \in TM!Row
    BY <1>2
  <2>3. title \in {ours.title} \cup answer
    BY MergedTitleFacts
  <2>4. title \in Title
    BY <2>2, <2>3 DEF TM!Row
  <2>5. /\ deps \in SUBSET Issues
        /\ \A s \in {ours, theirs} : Deps(s) \ Deps(old) \subseteq deps /\ deps \cap (Deps(old) \ Deps(s)) = {}
    BY <2>2, MergedDepsFacts
  <2>6. x \in TM!Row
    BY <2>1, <2>4, <2>5 DEF TM!Row
  <2>7. x # NoRow /\ x.title = title /\ Deps(x) = deps
    BY <2>1, <2>6 DEF Deps
  <2> QED
    BY <1>2, <2>3, <2>5, <2>6, <2>7
<1> QED
  BY <1>1, <1>2

\* A state that was sampled is not lost, and the lifecycle is not older than it.
LEMMA MergedStateFacts ==
  ASSUME NEW old \in Int, NEW ours \in Int, NEW theirs \in Int,
         NEW oldLife \in Int, NEW lives \in Int, NEW theirLife \in Int,
         TM!Unsampled <= ours, TM!Unsampled <= theirs, ours <= lives, theirs <= theirLife, -1 <= lives,
         old <= oldLife, oldLife <= lives, oldLife <= theirLife,
         ours = TM!Unsampled \/ old <= ours, theirs = TM!Unsampled \/ old <= theirs,
         NEW state \in TM!MergedState(old, ours, theirs, lives)
  PROVE  /\ state \in Int /\ state # TM!Unsampled /\ TM!Unsampled <= state
         /\ ours <= state /\ theirs <= state /\ (state <= lives \/ state <= theirLife)
<1>1. PICK kept : /\ \/ (kept = ours /\ kept = theirs) \/ (ours = old /\ kept = theirs)
                     \/ (theirs = old /\ kept = ours)
                     \/ ours = TM!Unsampled /\ kept = theirs
                     \/ theirs = TM!Unsampled /\ kept = ours
                  /\ state = (IF kept = TM!Unsampled THEN lives ELSE kept)
  <2>1. CASE TM!ThreeWay(old, ours, theirs) # {}
    BY <2>1, ThreeWayFacts DEF TM!MergedState
  <2>2. CASE TM!ThreeWay(old, ours, theirs) = {}
    BY <2>2 DEF TM!MergedState
  <2> QED
    BY <2>1, <2>2
<1> QED
  BY <1>1 DEF TM!Unsampled

\* In either direction a state is found, or there is a conflict.
LEMMA MergedStateSame ==
  ASSUME NEW old, NEW ours, NEW theirs, NEW lives, NEW other
  PROVE  TM!MergedState(old, ours, theirs, lives) = {} <=> TM!MergedState(old, theirs, ours, other) = {}
<1>1. TM!ThreeWay(old, ours, theirs) = TM!ThreeWay(old, theirs, ours)
  BY ThreeWayFacts
<1>2. CASE TM!ThreeWay(old, ours, theirs) # {}
  <2>1. PICK x : x \in TM!ThreeWay(old, ours, theirs)
    BY <1>2
  <2> QED
    BY <1>1, <1>2, <2>1 DEF TM!MergedState
<1>3. CASE TM!ThreeWay(old, ours, theirs) = {}
  BY <1>1, <1>3 DEF TM!MergedState
<1> QED
  BY <1>2, <1>3

LEMMA MergedLifeFacts ==
  ASSUME NEW old \in [Issues -> Int], NEW ours \in [Issues -> Int], NEW theirs \in [Issues -> Int],
         NEW lives \in TM!MergedLife(old, ours, theirs)
  PROVE  lives \in [Issues -> Int] /\ \A i \in Issues : ours[i] <= lives[i] /\ theirs[i] <= lives[i]
<1> DEFINE sets == [i \in Issues |-> {max \in {ours[i], theirs[i]} :
                      old[i] \in {ours[i], theirs[i]} /\ max >= ours[i] /\ max >= theirs[i]}]
<1>1. lives \in TM!Chosen(sets)
  BY DEF TM!MergedLife
<1>2. lives = [i \in Issues |-> lives[i]] /\ \A i \in Issues : lives[i] \in sets[i]
  BY <1>1, ChosenFacts
<1>3. ASSUME NEW i \in Issues PROVE lives[i] \in Int /\ ours[i] <= lives[i] /\ theirs[i] <= lives[i]
  BY <1>2
<1> QED
  BY <1>2, <1>3

-----------------------------------------------------------------------------
\* What a merge has as it is: the sides are legal and have moved on from the base.
Sides(old, ours, theirs) ==
  /\ TM!Legal(old) /\ TM!Legal(ours) /\ TM!Legal(theirs)
  /\ TM!Since(ours, old) /\ TM!Since(theirs, old)

\* The states of a merged graph are sampled for all of its rows or none, and no side's are newer.
LEMMA MergedStatesFacts ==
  ASSUME NEW old, NEW ours, NEW theirs, Sides(old, ours, theirs), NEW g,
         NEW states \in TM!MergedStates(old, ours, theirs, g)
  PROVE  /\ states \in [Issues -> Int] /\ TM!Sampled(states) \in {TM!Rows(g), {}}
         /\ \A i \in Issues :
              /\ TM!Unsampled <= states[i] /\ (states[i] <= ours.life[i] \/ states[i] <= theirs.life[i])
              /\ i \in TM!Rows(g) => ours.states[i] <= states[i] /\ theirs.states[i] <= states[i]
              /\ states[i] = TM!Unsampled \/ (ours.states[i] <= states[i] /\ theirs.states[i] <= states[i])
<1>1. \A t \in {old, ours, theirs} : /\ t.states \in [Issues -> Int] /\ t.life \in [Issues -> Int]
                                    /\ \A i \in Issues : TM!Unsampled <= t.states[i] /\ t.states[i] <= t.life[i] /\ -1 <= t.life[i]
  BY DEF Sides, TM!Legal, TM!Tree
<1>2. CASE \A t \in {old, ours, theirs} : TM!Sampled(t.states) = {}
  <2>1. states = [i \in Issues |-> TM!Unsampled]
    BY <1>2 DEF TM!MergedStates
  <2>2. \A i \in Issues : ours.states[i] = TM!Unsampled /\ theirs.states[i] = TM!Unsampled
    BY <1>2 DEF TM!Sampled
  <2> QED
    BY <1>1, <2>1, <2>2 DEF TM!Sampled, TM!Unsampled
<1>3. CASE ~\A t \in {old, ours, theirs} : TM!Sampled(t.states) = {}
  <2> DEFINE sets == [i \in Issues |-> IF g[i] = NoRow THEN {TM!Unsampled}
                       ELSE TM!MergedState(old.states[i], ours.states[i], theirs.states[i], ours.life[i])]
  <2>1. states \in TM!Chosen(sets)
    BY <1>3 DEF TM!MergedStates
  <2>2. states = [i \in Issues |-> states[i]] /\ \A i \in Issues : states[i] \in sets[i]
    BY <2>1, ChosenFacts
  <2>3. ASSUME NEW i \in TM!Rows(g)
        PROVE  /\ states[i] \in Int /\ states[i] # TM!Unsampled /\ TM!Unsampled <= states[i]
               /\ states[i] <= ours.life[i] \/ states[i] <= theirs.life[i]
               /\ ours.states[i] <= states[i] /\ theirs.states[i] <= states[i]
    <3>1. i \in Issues /\ g[i] # NoRow
      BY DEF TM!Rows
    <3>2. states[i] \in TM!MergedState(old.states[i], ours.states[i], theirs.states[i], ours.life[i])
      BY <2>2, <3>1
    <3>3. /\ old.states[i] \in Int /\ ours.states[i] \in Int /\ theirs.states[i] \in Int
          /\ old.life[i] \in Int /\ ours.life[i] \in Int /\ theirs.life[i] \in Int
      BY <1>1, <3>1
    <3>4. /\ TM!Unsampled <= ours.states[i] /\ TM!Unsampled <= theirs.states[i]
          /\ ours.states[i] <= ours.life[i] /\ theirs.states[i] <= theirs.life[i] /\ -1 <= ours.life[i]
          /\ old.states[i] <= old.life[i]
      BY <1>1, <3>1
    <3>5. /\ old.life[i] <= ours.life[i] /\ old.life[i] <= theirs.life[i]
          /\ ours.states[i] = TM!Unsampled \/ old.states[i] <= ours.states[i]
          /\ theirs.states[i] = TM!Unsampled \/ old.states[i] <= theirs.states[i]
      BY <3>1 DEF Sides, TM!Since
    <3> QED
      BY <3>2, <3>3, <3>4, <3>5, MergedStateFacts
  <2>4. ASSUME NEW i \in Issues, i \notin TM!Rows(g) PROVE states[i] = TM!Unsampled
    BY <2>2, <2>4 DEF TM!Rows
  <2>5. TM!Sampled(states) = TM!Rows(g)
    BY <2>3, <2>4 DEF TM!Sampled, TM!Rows
  <2>6. ASSUME NEW i \in Issues
        PROVE  /\ states[i] \in Int /\ TM!Unsampled <= states[i]
               /\ states[i] <= ours.life[i] \/ states[i] <= theirs.life[i]
               /\ i \in TM!Rows(g) => ours.states[i] <= states[i] /\ theirs.states[i] <= states[i]
               /\ states[i] = TM!Unsampled \/ (ours.states[i] <= states[i] /\ theirs.states[i] <= states[i])
    <3>1. CASE i \in TM!Rows(g)
      BY <2>3, <3>1
    <3>2. CASE i \notin TM!Rows(g)
      <4>1. states[i] = TM!Unsampled /\ -1 <= ours.life[i] /\ ours.life[i] \in Int
        BY <1>1, <2>4, <3>2
      <4> QED
        BY <3>2, <4>1 DEF TM!Unsampled
    <3> QED
      BY <3>1, <3>2
  <2>7. states \in [Issues -> Int]
    BY <2>2, <2>6
  <2> HIDE DEF sets
  <2> QED
    BY <2>5, <2>6, <2>7
<1> QED
  BY <1>2, <1>3

\* When a graph is merged in one direction, so it is in the other, and its states too.
LEMMA MergedStatesSame ==
  ASSUME NEW old, NEW ours, NEW theirs, NEW g, TM!MergedStates(old, ours, theirs, g) # {}
  PROVE  TM!MergedStates(old, theirs, ours, g) # {}
<1>1. {old, ours, theirs} = {old, theirs, ours}
  OBVIOUS
<1>2. CASE \A t \in {old, ours, theirs} : TM!Sampled(t.states) = {}
  BY <1>1, <1>2 DEF TM!MergedStates
<1>3. CASE ~\A t \in {old, ours, theirs} : TM!Sampled(t.states) = {}
  <2> DEFINE sets == [i \in Issues |-> IF g[i] = NoRow THEN {TM!Unsampled}
                       ELSE TM!MergedState(old.states[i], ours.states[i], theirs.states[i], ours.life[i])]
             other == [i \in Issues |-> IF g[i] = NoRow THEN {TM!Unsampled}
                       ELSE TM!MergedState(old.states[i], theirs.states[i], ours.states[i], theirs.life[i])]
  <2>1. TM!MergedStates(old, ours, theirs, g) = TM!Chosen(sets)
    BY <1>3 DEF TM!MergedStates
  <2>2. TM!MergedStates(old, theirs, ours, g) = TM!Chosen(other)
    BY <1>1, <1>3 DEF TM!MergedStates
  <2>3. \A i \in Issues : sets[i] # {}
    BY <2>1 DEF TM!Chosen
  <2>4. \A i \in Issues : other[i] # {}
    <3> SUFFICES ASSUME NEW i \in Issues PROVE other[i] # {}
      OBVIOUS
    <3>1. CASE g[i] = NoRow
      BY <3>1
    <3>2. CASE g[i] # NoRow
      <4>1. TM!MergedState(old.states[i], ours.states[i], theirs.states[i], ours.life[i]) # {}
        BY <2>3, <3>2
      <4>2. TM!MergedState(old.states[i], theirs.states[i], ours.states[i], theirs.life[i]) # {}
        BY <4>1, MergedStateSame
      <4> QED
        BY <3>2, <4>2
    <3> QED
      BY <3>1, <3>2
  <2>5. \A i \in Issues : ~(other[i] = {})
    BY <2>4
  <2> HIDE DEF sets, other
  <2> QED
    BY <2>2, <2>5 DEF TM!Chosen
<1> QED
  BY <1>2, <1>3

-----------------------------------------------------------------------------
LEMMA MergedGraphsSame ==
  ASSUME NEW old, NEW ours, NEW theirs, NEW answers
  PROVE  TM!MergedGraphs(old, ours, theirs, answers) = TM!MergedGraphs(old, theirs, ours, answers)
<1>1. [i \in Issues |-> TM!MergedRecord(old.graph[i], ours.graph[i], theirs.graph[i], answers[i])]
        = [i \in Issues |-> TM!MergedRecord(old.graph[i], theirs.graph[i], ours.graph[i], answers[i])]
  BY MergedRecordSame
<1> QED
  BY <1>1, Zenon DEF TM!MergedGraphs

LEMMA FileFacts ==
  ASSUME NEW old, NEW ours, NEW theirs, NEW answers, NEW file \in TM!MergeTicketCsv(old, ours, theirs, answers)
  PROVE  /\ file.graph \in TM!MergedGraphs(old, ours, theirs, answers)
         /\ file.states \in TM!MergedStates(old, ours, theirs, file.graph)
         /\ file = [graph |-> file.graph, states |-> file.states] /\ TM!ValidTickets(file)
<1>1. TM!ValidTickets(file) /\ \E g \in TM!MergedGraphs(old, ours, theirs, answers) :
        file \in {[graph |-> g, states |-> states] : states \in TM!MergedStates(old, ours, theirs, g)}
  BY DEF TM!MergeTicketCsv
<1> QED
  BY <1>1

LEMMA FileMade ==
  ASSUME NEW old, NEW ours, NEW theirs, NEW answers,
         NEW g \in TM!MergedGraphs(old, ours, theirs, answers), NEW states \in TM!MergedStates(old, ours, theirs, g),
         NEW file, file = [graph |-> g, states |-> states], TM!ValidTickets(file)
  PROVE  file \in TM!MergeTicketCsv(old, ours, theirs, answers)
<1>1. file \in {[graph |-> g, states |-> s] : s \in TM!MergedStates(old, ours, theirs, g)}
  OBVIOUS
<1> QED
  BY <1>1 DEF TM!MergeTicketCsv

\* What a merge keeps of its sides, and that the other direction gives the same graph.
MergeKeepsSides(old, ours, theirs, answers, merged) ==
  /\ TM!Legal(merged)
  /\ \A side \in {ours, theirs} :
       /\ TM!Since(merged, side)
       /\ \A i \in Issues :
              /\ side.graph[i] # NoRow /\ old.graph[i] = NoRow => merged.graph[i] # NoRow
              /\ side.graph[i] = NoRow /\ old.graph[i] # NoRow => merged.graph[i] = NoRow
              /\ Deps(side.graph[i]) \ Deps(old.graph[i]) \subseteq Deps(merged.graph[i])
              /\ Deps(merged.graph[i]) \cap (Deps(old.graph[i]) \ Deps(side.graph[i])) = {}
  /\ \A i \in TM!Rows(merged.graph) :
       /\ merged.graph[i].title \in {s.title : s \in {ours.graph[i], theirs.graph[i]} \ {NoRow}} \cup answers[i]
       /\ merged.states[i] <= merged.life[i]
       /\ \A side \in {ours, theirs} : merged.states[i] >= side.states[i]
  /\ \E back \in TM!MergeTicketCsv(old, theirs, ours, answers) : back.graph = merged.graph

\* A merge keeps what each side has done, and its file fits the other direction too.
LEMMA MergeFacts ==
  ASSUME NEW old, NEW ours, NEW theirs, Sides(old, ours, theirs), NoRow \notin TM!Row,
         NEW answers \in [Issues -> SUBSET Title], NEW file \in TM!MergeTicketCsv(old, ours, theirs, answers),
         NEW lives \in TM!MergedLife(old.life, ours.life, theirs.life),
         NEW merged, merged = [graph |-> file.graph, states |-> file.states, life |-> lives]
  PROVE  MergeKeepsSides(old, ours, theirs, answers, merged)
<1> DEFINE g == file.graph
           states == file.states
           sets == [i \in Issues |-> TM!MergedRecord(old.graph[i], ours.graph[i], theirs.graph[i], answers[i])]
<1>1. /\ g \in TM!MergedGraphs(old, ours, theirs, answers) /\ states \in TM!MergedStates(old, ours, theirs, g)
      /\ file = [graph |-> g, states |-> states] /\ TM!ValidTickets(file)
  BY FileFacts
<1>2. merged.graph = g /\ merged.states = states /\ merged.life = lives
  OBVIOUS
<1>3. \A t \in {old, ours, theirs} :
        /\ t.graph \in [Issues -> TM!Row \cup {NoRow}] /\ t.states \in [Issues -> Int] /\ t.life \in [Issues -> Int]
        /\ \A i \in Issues : TM!Unsampled <= t.states[i] /\ t.states[i] <= t.life[i] /\ -1 <= t.life[i]
  BY DEF Sides, TM!Legal, TM!Tree
<1>4. g = [i \in Issues |-> g[i]] /\ \A i \in Issues : g[i] \in sets[i]
  <2>1. g \in TM!Chosen(sets)
    BY <1>1 DEF TM!MergedGraphs
  <2> HIDE DEF g, sets
  <2> QED
    BY <2>1, ChosenFacts
<1>5. ASSUME NEW i \in Issues
      PROVE  /\ g[i] \in TM!Row \cup {NoRow}
             /\ g[i] # NoRow => g[i].title \in {s.title : s \in {ours.graph[i], theirs.graph[i]} \ {NoRow}} \cup answers[i]
             /\ \A s \in {ours.graph[i], theirs.graph[i]} :
                  /\ s # NoRow /\ old.graph[i] = NoRow => g[i] # NoRow
                  /\ s = NoRow /\ old.graph[i] # NoRow => g[i] = NoRow
                  /\ Deps(s) \ Deps(old.graph[i]) \subseteq Deps(g[i])
                  /\ Deps(g[i]) \cap (Deps(old.graph[i]) \ Deps(s)) = {}
  <2>1. g[i] \in TM!MergedRecord(old.graph[i], ours.graph[i], theirs.graph[i], answers[i])
    BY <1>4
  <2>2. \A t \in {old, ours, theirs} : t.graph[i] \in TM!Row \cup {NoRow}
    BY <1>3
  <2>3. answers[i] \in SUBSET Title
    OBVIOUS
  <2> DEFINE was == old.graph[i]
             one == ours.graph[i]
             other == theirs.graph[i]
             answer == answers[i]
             x == g[i]
  <2> HIDE DEF was, one, other, answer, x
  <2>4. /\ was \in TM!Row \cup {NoRow} /\ one \in TM!Row \cup {NoRow} /\ other \in TM!Row \cup {NoRow}
        /\ answer \in SUBSET Title /\ x \in TM!MergedRecord(was, one, other, answer)
    BY <2>1, <2>2, <2>3 DEF was, one, other, answer, x
  <2>5. /\ x \in TM!Row \cup {NoRow}
        /\ x # NoRow => x.title \in {s.title : s \in {one, other} \ {NoRow}} \cup answer
        /\ \A s \in {one, other} :
             /\ s # NoRow /\ was = NoRow => x # NoRow
             /\ s = NoRow /\ was # NoRow => x = NoRow
             /\ Deps(s) \ Deps(was) \subseteq Deps(x)
             /\ Deps(x) \cap (Deps(was) \ Deps(s)) = {}
    BY <2>4, MergedRecordFacts
  <2> QED
    BY <2>5 DEF was, one, other, answer, x
<1>6. lives \in [Issues -> Int] /\ \A i \in Issues : ours.life[i] <= lives[i] /\ theirs.life[i] <= lives[i]
  BY <1>3, MergedLifeFacts
<1>7. /\ states \in [Issues -> Int]
      /\ \A i \in Issues :
           /\ TM!Unsampled <= states[i] /\ (states[i] <= ours.life[i] \/ states[i] <= theirs.life[i])
           /\ i \in TM!Rows(g) => ours.states[i] <= states[i] /\ theirs.states[i] <= states[i]
           /\ states[i] = TM!Unsampled \/ (ours.states[i] <= states[i] /\ theirs.states[i] <= states[i])
  BY <1>1, MergedStatesFacts
<1> HIDE DEF g, states, sets
<1>8. ASSUME NEW i \in Issues
      PROVE  TM!Unsampled <= states[i] /\ states[i] <= lives[i] /\ -1 <= lives[i]
  <2>1. ours.life[i] \in Int /\ theirs.life[i] \in Int /\ lives[i] \in Int /\ states[i] \in Int /\ -1 <= ours.life[i]
    BY <1>3, <1>6, <1>7
  <2> QED
    BY <2>1, <1>6, <1>7
<1>9. TM!Legal(merged)
  <2>1. g \in [Issues -> TM!Row \cup {NoRow}]
    BY <1>4, <1>5
  <2>2. merged \in TM!Tree
    BY <2>1, <1>6, <1>7 DEF TM!Tree, g, states
  <2>3. TM!ValidTickets(merged)
    BY <1>1, <1>2 DEF TM!ValidTickets, g, states
  <2> QED
    BY <1>2, <1>8, <2>2, <2>3 DEF TM!Legal
<1>10. ASSUME NEW side \in {ours, theirs} PROVE TM!Since(merged, side)
  BY <1>2, <1>6, <1>7, <1>10 DEF TM!Since
<1>11. ASSUME NEW i \in TM!Rows(g)
       PROVE  /\ g[i].title \in {s.title : s \in {ours.graph[i], theirs.graph[i]} \ {NoRow}} \cup answers[i]
              /\ states[i] <= lives[i] /\ ours.states[i] <= states[i] /\ theirs.states[i] <= states[i]
              /\ states[i] \in Int /\ ours.states[i] \in Int /\ theirs.states[i] \in Int
  <2>1. i \in Issues /\ g[i] # NoRow
    BY DEF TM!Rows
  <2> QED
    BY <1>3, <1>5, <1>7, <1>8, <2>1
<1>12. \E back \in TM!MergeTicketCsv(old, theirs, ours, answers) : back.graph = g
  <2>1. PICK other : other \in TM!MergedStates(old, theirs, ours, g)
    BY <1>1, MergedStatesSame
  <2>2. g \in TM!MergedGraphs(old, theirs, ours, answers)
    BY <1>1, MergedGraphsSame
  <2>3. Sides(old, theirs, ours)
    BY DEF Sides
  <2>4. TM!Sampled(other) \in {TM!Rows(g), {}}
    BY <2>1, <2>3, MergedStatesFacts
  <2> DEFINE back == [graph |-> g, states |-> other]
  <2>5. TM!ValidTickets(back)
    BY <1>1, <2>4 DEF TM!ValidTickets
  <2>6. back \in TM!MergeTicketCsv(old, theirs, ours, answers)
    BY <2>1, <2>2, <2>5, FileMade
  <2> QED
    BY <2>6
<1>13. ASSUME NEW side \in {ours, theirs}, NEW i \in Issues
       PROVE  /\ side.graph[i] # NoRow /\ old.graph[i] = NoRow => g[i] # NoRow
              /\ side.graph[i] = NoRow /\ old.graph[i] # NoRow => g[i] = NoRow
              /\ Deps(side.graph[i]) \ Deps(old.graph[i]) \subseteq Deps(g[i])
              /\ Deps(g[i]) \cap (Deps(old.graph[i]) \ Deps(side.graph[i])) = {}
  BY <1>5, <1>13
<1> QED
  BY <1>2, <1>9, <1>10, <1>11, <1>12, <1>13 DEF MergeKeepsSides

-----------------------------------------------------------------------------
\* The steps.

LEMMA LegalType ==
  ASSUME NEW t, TM!Legal(t)
  PROVE  /\ t = [graph |-> t.graph, states |-> t.states, life |-> t.life] /\ t \in TM!Tree
         /\ t.graph \in [Issues -> TM!Row \cup {NoRow}] /\ t.states \in [Issues -> Int] /\ t.life \in [Issues -> Int]
         /\ TM!ValidTickets(t)
         /\ \A i \in Issues :
                /\ TM!Unsampled <= t.states[i] /\ t.states[i] <= t.life[i] /\ -1 <= t.life[i]
                /\ t.states[i] \in Int /\ t.life[i] \in Int
BY DEF TM!Legal, TM!Tree

LEMMA SinceItself == ASSUME NEW t, TM!Legal(t) PROVE TM!Since(t, t)
BY LegalType DEF TM!Since

LEMMA MergeInit == ASSUME TM!MergeAssumption, TM!Init PROVE TM!IInv
<1>1. TM!Legal(slot2) /\ TM!Since(slot2, slot2) /\ slot2 \in TM!Tree
  BY SinceItself, LegalType DEF TM!MergeAssumption, TM!Init
<1> QED
  BY <1>1 DEF TM!MergeAssumption, TM!Init, TM!IInv

\* Only one branch moves, and from the same base.
LEMMA BranchStep ==
  ASSUME TM!IInv, NEW b \in Branches, NEW t, TM!Legal(t), TM!Since(t, slot2),
         slot1' = [slot1 EXCEPT ![b] = t], UNCHANGED <<slot2, slot3>>
  PROVE  TM!IInv'
<1>1. t \in TM!Tree
  BY LegalType
<1>2. ASSUME NEW c \in Branches PROVE TM!Legal(slot1'[c]) /\ TM!Since(slot1'[c], slot2)
  BY DEF TM!IInv
<1>3. slot1' \in [Branches -> TM!Tree]
  BY <1>1 DEF TM!IInv
<1> QED
  BY <1>2, <1>3 DEF TM!IInv

\* Rows that are changed or sampled keep the file whole.
LEMMA MergeCompletedFacts ==
  ASSUME NEW t, TM!Legal(t), NEW g \in [Issues -> TM!Row \cup {NoRow}], NEW old, TM!Legal(old), TM!Since(t, old)
  PROVE  /\ TM!Completed(t, g) \in [Issues -> Int] /\ TM!Sampled(TM!Completed(t, g)) \in {TM!Rows(g), {}}
         /\ \A i \in Issues :
              /\ TM!Unsampled <= TM!Completed(t, g)[i] /\ TM!Completed(t, g)[i] <= t.life[i]
              /\ TM!Completed(t, g)[i] = TM!Unsampled \/ old.states[i] <= TM!Completed(t, g)[i]
<1> DEFINE c == TM!Completed(t, g)
<1>1. c = [i \in Issues |-> IF i \notin TM!Rows(g) \/ TM!Sampled(t.states) = {} THEN TM!Unsampled
                            ELSE IF t.states[i] = TM!Unsampled THEN t.life[i] ELSE t.states[i]]
  BY DEF TM!Completed
<1>2. \A i \in Issues :
        /\ TM!Unsampled <= t.states[i] /\ t.states[i] <= t.life[i] /\ -1 <= t.life[i]
        /\ t.states[i] \in Int /\ t.life[i] \in Int
        /\ old.states[i] <= old.life[i] /\ old.states[i] \in Int /\ old.life[i] \in Int
        /\ old.life[i] <= t.life[i] /\ (t.states[i] = TM!Unsampled \/ old.states[i] <= t.states[i])
  BY LegalType DEF TM!Since
<1> HIDE DEF c
<1>3. \A i \in Issues :
        /\ c[i] \in Int /\ TM!Unsampled <= c[i] /\ c[i] <= t.life[i]
        /\ c[i] = TM!Unsampled \/ old.states[i] <= c[i]
        /\ c[i] # TM!Unsampled <=> (i \in TM!Rows(g) /\ TM!Sampled(t.states) # {})
  <2> SUFFICES ASSUME NEW i \in Issues
      PROVE  /\ c[i] \in Int /\ TM!Unsampled <= c[i] /\ c[i] <= t.life[i]
             /\ c[i] = TM!Unsampled \/ old.states[i] <= c[i]
             /\ c[i] # TM!Unsampled <=> (i \in TM!Rows(g) /\ TM!Sampled(t.states) # {})
    OBVIOUS
  <2> DEFINE sampled == i \in TM!Rows(g) /\ TM!Sampled(t.states) # {}
             s == t.states[i]
             l == t.life[i]
  <2>1. c[i] = (IF ~sampled THEN TM!Unsampled ELSE IF s = TM!Unsampled THEN l ELSE s)
    BY <1>1
  <2>2. /\ TM!Unsampled <= s /\ s <= l /\ -1 <= l /\ s \in Int /\ l \in Int
        /\ old.states[i] <= old.life[i] /\ old.states[i] \in Int /\ old.life[i] \in Int
        /\ old.life[i] <= l /\ (s = TM!Unsampled \/ old.states[i] <= s)
    BY <1>2
  <2>0. sampled \in BOOLEAN
    OBVIOUS
  <2> HIDE DEF sampled, s, l
  <2>3. /\ c[i] \in Int /\ TM!Unsampled <= c[i] /\ c[i] <= l
        /\ c[i] = TM!Unsampled \/ old.states[i] <= c[i]
        /\ c[i] # TM!Unsampled <=> sampled
    BY <2>0, <2>1, <2>2 DEF TM!Unsampled
  <2> QED
    BY <2>3 DEF sampled, l
<1>4. TM!Sampled(c) \in {TM!Rows(g), {}}
  BY <1>3 DEF TM!Sampled, TM!Rows
<1> QED
  BY <1>1, <1>3, <1>4 DEF c

LEMMA MergeEditStep ==
  ASSUME TM!MergeAssumption, TM!IInv, NEW b \in Branches, NEW edit \in Merging.edits, TM!Edit(b, edit)
  PROVE  TM!IInv'
<1> DEFINE old == slot1[b]
           g == [old.graph EXCEPT ![edit[1]] = edit[2]]
           t == [graph |-> g, states |-> TM!Completed(old, g), life |-> old.life]
<1>1. edit[1] \in Issues /\ edit[2] \in TM!Row \cup {NoRow}
  BY DEF TM!MergeAssumption
<1>2. TM!Legal(old) /\ TM!Since(old, slot2) /\ TM!Legal(slot2)
  BY DEF TM!IInv
<1>3. g \in [Issues -> TM!Row \cup {NoRow}]
  BY <1>1, <1>2, LegalType
<1>4. TM!ValidGraph(g) /\ slot1' = [slot1 EXCEPT ![b] = t] /\ UNCHANGED <<slot2, slot3>>
  BY DEF TM!Edit, TM!IInv
<1> HIDE DEF old, g
<1>5. t = [graph |-> g, states |-> TM!Completed(old, g), life |-> old.life]
  OBVIOUS
<1> HIDE DEF t
<1>6. /\ TM!Completed(old, g) \in [Issues -> Int] /\ TM!Sampled(TM!Completed(old, g)) \in {TM!Rows(g), {}}
      /\ \A i \in Issues :
           /\ TM!Unsampled <= TM!Completed(old, g)[i] /\ TM!Completed(old, g)[i] <= old.life[i]
           /\ TM!Completed(old, g)[i] = TM!Unsampled \/ slot2.states[i] <= TM!Completed(old, g)[i]
  BY <1>2, <1>3, MergeCompletedFacts
<1>7. TM!Legal(t)
  BY <1>2, <1>3, <1>4, <1>5, <1>6, LegalType DEF TM!Legal, TM!Tree, TM!ValidTickets
<1>8. TM!Since(t, slot2)
  BY <1>2, <1>5, <1>6 DEF TM!Since
<1> QED
  BY <1>4, <1>7, <1>8, BranchStep

LEMMA RefreshStep ==
  ASSUME TM!IInv, NEW b \in Branches, TM!RefreshStates(b) PROVE TM!IInv'
<1> DEFINE old == slot1[b]
           states == [i \in Issues |-> IF old.graph[i] = NoRow THEN TM!Unsampled ELSE old.life[i]]
           t == [old EXCEPT !.states = states]
<1>1. TM!Legal(old) /\ TM!Since(old, slot2) /\ TM!Legal(slot2)
  BY DEF TM!IInv
<1>2. slot1' = [slot1 EXCEPT ![b] = t] /\ UNCHANGED <<slot2, slot3>>
  BY DEF TM!RefreshStates, TM!IInv
<1> HIDE DEF old
<1>3. t = [graph |-> old.graph, states |-> states, life |-> old.life]
  BY <1>1, LegalType
<1>4. \A i \in Issues :
        /\ old.states[i] <= old.life[i] /\ -1 <= old.life[i] /\ old.life[i] \in Int
        /\ slot2.states[i] <= slot2.life[i] /\ slot2.states[i] \in Int /\ slot2.life[i] \in Int
        /\ slot2.life[i] <= old.life[i]
  BY <1>1, LegalType DEF TM!Since
<1>5. /\ states \in [Issues -> Int]
      /\ \A i \in Issues :
             /\ states[i] # TM!Unsampled <=> i \in TM!Rows(old.graph)
             /\ TM!Unsampled <= states[i] /\ states[i] <= old.life[i]
             /\ states[i] = TM!Unsampled \/ slot2.states[i] <= states[i]
  BY <1>4 DEF TM!Unsampled, TM!Rows
<1> HIDE DEF states, t
<1>6. TM!Sampled(states) = TM!Rows(old.graph)
  BY <1>5 DEF TM!Sampled, TM!Rows
<1>7. TM!Legal(t)
  BY <1>1, <1>3, <1>5, <1>6, LegalType DEF TM!Legal, TM!Tree, TM!ValidTickets
<1>8. TM!Since(t, slot2)
  BY <1>1, <1>3, <1>5 DEF TM!Since
<1> QED
  BY <1>2, <1>7, <1>8, BranchStep

LEMMA LifeStep ==
  ASSUME TM!IInv, NEW b \in Branches, NEW i \in Issues, TM!AdvanceLife(b, i) PROVE TM!IInv'
<1> DEFINE old == slot1[b]
           lives == [old.life EXCEPT ![i] = @ + 1]
           t == [old EXCEPT !.life = lives]
<1>1. TM!Legal(old) /\ TM!Since(old, slot2) /\ TM!Legal(slot2)
  BY DEF TM!IInv
<1>2. slot1' = [slot1 EXCEPT ![b] = t] /\ UNCHANGED <<slot2, slot3>>
  BY DEF TM!AdvanceLife, TM!IInv
<1> HIDE DEF old
<1>3. t = [graph |-> old.graph, states |-> old.states, life |-> lives]
  BY <1>1, LegalType
<1>4. lives \in [Issues -> Int] /\ \A j \in Issues : old.life[j] <= lives[j]
  BY <1>1, LegalType
<1> HIDE DEF lives, t
<1>5. \A j \in Issues :
          /\ old.life[j] \in Int /\ lives[j] \in Int /\ slot2.life[j] \in Int /\ old.states[j] \in Int
          /\ old.states[j] <= old.life[j] /\ -1 <= old.life[j] /\ slot2.life[j] <= old.life[j]
  BY <1>1, <1>4, LegalType DEF TM!Since
<1>6. ASSUME NEW j \in Issues PROVE old.states[j] <= lives[j] /\ -1 <= lives[j] /\ slot2.life[j] <= lives[j]
  BY <1>4, <1>5
<1>7. TM!Legal(t)
  BY <1>1, <1>3, <1>4, <1>6, LegalType DEF TM!Legal, TM!Tree, TM!ValidTickets
<1>8. TM!Since(t, slot2)
  BY <1>1, <1>3, <1>6 DEF TM!Since
<1> QED
  BY <1>2, <1>7, <1>8, BranchStep

\* What the driver is given by the branches and the server.
LEMMA GivenFacts ==
  ASSUME TM!IInv, NEW b \in Branches, NEW other \in Branches, NEW answers \in TM!Answers
  PROVE  Sides(slot2, slot1[b], slot1[other]) /\ answers \in [Issues -> SUBSET Title]
BY DEF TM!IInv, Sides, TM!Answers

LEMMA MergeStep ==
  ASSUME TM!MergeAssumption, TM!IInv, NEW b \in Branches, NEW other \in Branches, NEW answers \in TM!Answers,
         TM!Merge(b, other, answers)
  PROVE  TM!IInv'
<1>1. PICK file \in TM!MergeTicketCsv(slot2, slot1[b], slot1[other], answers),
           lives \in TM!MergedLife(slot2.life, slot1[b].life, slot1[other].life) :
        slot1' = [slot1 EXCEPT ![b] = [graph |-> file.graph, states |-> file.states, life |-> lives]]
  BY DEF TM!Merge
<1> DEFINE merged == [graph |-> file.graph, states |-> file.states, life |-> lives]
<1>2. b # other /\ slot2' = slot1[other] /\ slot3' = slot3
  BY DEF TM!Merge
<1>3. TM!Legal(merged) /\ TM!Since(merged, slot1[other])
  <2>1. MergeKeepsSides(slot2, slot1[b], slot1[other], answers, merged)
    BY GivenFacts, MergeFacts DEF TM!MergeAssumption
  <2> HIDE DEF merged
  <2> QED
    BY <2>1 DEF MergeKeepsSides
<1> HIDE DEF merged
<1>4. TM!Legal(slot1[other]) /\ TM!Since(slot1[other], slot1[other]) /\ merged \in TM!Tree
  BY <1>3, SinceItself, LegalType DEF TM!IInv
<1>5. slot1' = [slot1 EXCEPT ![b] = merged]
  BY <1>1 DEF merged
<1>6. ASSUME NEW c \in Branches PROVE TM!Legal(slot1'[c]) /\ TM!Since(slot1'[c], slot2')
  <2>1. c = b \/ c = other
    BY <1>2 DEF TM!MergeAssumption
  <2>2. slot1'[b] = merged /\ slot1'[other] = slot1[other]
    BY <1>2, <1>5 DEF TM!IInv
  <2> QED
    BY <1>2, <1>3, <1>4, <2>1, <2>2
<1>7. slot1' \in [Branches -> TM!Tree]
  BY <1>4, <1>5 DEF TM!IInv
<1>8. TM!Legal(slot2') /\ slot3' \in [Issues -> Title]
  BY <1>2, <1>4 DEF TM!IInv
<1> QED
  BY <1>6, <1>7, <1>8 DEF TM!IInv

LEMMA MergeNext == ASSUME TM!MergeAssumption, TM!IInv, TM!Next PROVE TM!IInv'
<1>1. ASSUME NEW rename \in Merging.renames, TM!Rename(rename[1], rename[2]) PROVE TM!IInv'
  <2>1. slot3' \in [Issues -> Title]
    BY <1>1 DEF TM!Rename, TM!MergeAssumption, TM!IInv
  <2> QED
    BY <1>1, <2>1 DEF TM!Rename, TM!IInv
<1>2. ASSUME NEW b \in Branches, NEW other \in Branches, NEW answers \in TM!Answers,
             TM!MergeConflict(b, other, answers)
      PROVE  TM!IInv'
  BY <1>2 DEF TM!MergeConflict, TM!vars, TM!IInv
<1> QED
  BY <1>1, <1>2, MergeEditStep, RefreshStep, LifeStep, MergeStep DEF TM!Next

\* Whatever has happened on the branches, a merge keeps it.
LEMMA MergeKeeps == ASSUME TM!MergeAssumption, TM!IInv PROVE TM!KeepsBoth
<1> SUFFICES ASSUME NEW b \in Branches, NEW other \in Branches, NEW answers \in TM!Answers,
                    TM!Merge(b, other, answers)
    PROVE  LET merged == slot1'[b]
               sides == {slot1[b], slot1[other]}
           IN /\ TM!ValidTickets(merged)
              /\ \A side \in sides : TM!Keeps(merged, side)
              /\ \A i \in TM!Rows(merged.graph) :
                   /\ merged.graph[i].title \in {side.graph[i].title : side \in {s \in sides : i \in TM!Rows(s.graph)}} \cup answers[i]
                   /\ merged.states[i] <= merged.life[i]
                   /\ \A side \in sides : merged.states[i] >= side.states[i]
              /\ \E file \in TM!MergeTicketCsv(slot2, slot1[other], slot1[b], answers) : file.graph = merged.graph
  BY DEF TM!KeepsBoth
<1>1. PICK file \in TM!MergeTicketCsv(slot2, slot1[b], slot1[other], answers),
           lives \in TM!MergedLife(slot2.life, slot1[b].life, slot1[other].life) :
        slot1' = [slot1 EXCEPT ![b] = [graph |-> file.graph, states |-> file.states, life |-> lives]]
  BY DEF TM!Merge
<1> DEFINE merged == [graph |-> file.graph, states |-> file.states, life |-> lives]
           sides == {slot1[b], slot1[other]}
           old == slot2
<1>2. slot1'[b] = merged
  BY <1>1 DEF TM!IInv
<1>3. /\ TM!Legal(merged)
      /\ \A side \in sides : \A i \in Issues :
           /\ side.graph[i] # NoRow /\ old.graph[i] = NoRow => merged.graph[i] # NoRow
           /\ side.graph[i] = NoRow /\ old.graph[i] # NoRow => merged.graph[i] = NoRow
           /\ Deps(side.graph[i]) \ Deps(old.graph[i]) \subseteq Deps(merged.graph[i])
           /\ Deps(merged.graph[i]) \cap (Deps(old.graph[i]) \ Deps(side.graph[i])) = {}
      /\ \A i \in TM!Rows(merged.graph) :
           /\ merged.graph[i].title \in {s.title : s \in {slot1[b].graph[i], slot1[other].graph[i]} \ {NoRow}} \cup answers[i]
           /\ merged.states[i] <= merged.life[i]
           /\ \A side \in sides : merged.states[i] >= side.states[i]
      /\ \E back \in TM!MergeTicketCsv(old, slot1[other], slot1[b], answers) : back.graph = merged.graph
  <2>1. Sides(slot2, slot1[b], slot1[other]) /\ answers \in [Issues -> SUBSET Title] /\ NoRow \notin TM!Row
    BY GivenFacts DEF TM!MergeAssumption
  <2>2. merged = [graph |-> file.graph, states |-> file.states, life |-> lives]
    OBVIOUS
  <2> DEFINE ours == slot1[b]
             theirs == slot1[other]
  <2>3. /\ file \in TM!MergeTicketCsv(old, ours, theirs, answers)
        /\ lives \in TM!MergedLife(old.life, ours.life, theirs.life)
    OBVIOUS
  <2>4. Sides(old, ours, theirs) /\ answers \in [Issues -> SUBSET Title] /\ NoRow \notin TM!Row
    BY <2>1
  <2> HIDE DEF merged, old, ours, theirs
  <2>5. MergeKeepsSides(old, ours, theirs, answers, merged)
    BY <2>2, <2>3, <2>4, MergeFacts
  <2> QED
    BY <2>5 DEF ours, theirs, MergeKeepsSides
<1> HIDE DEF merged, old
<1>4. ASSUME NEW side \in sides PROVE TM!Keeps(merged, side)
  <2>1. \A t : \A edge \in Issues \X Issues : edge \in TM!Edges(t) <=> edge[2] \in Deps(t.graph[edge[1]])
    BY DEF TM!Edges, TM!Rows, Deps
  <2>2. \A edge \in Issues \X Issues :
          /\ edge \in TM!Edges(side) /\ edge \notin TM!Edges(old) => edge \in TM!Edges(merged)
          /\ edge \in TM!Edges(merged) /\ edge \in TM!Edges(old) => edge \in TM!Edges(side)
    <3> SUFFICES ASSUME NEW edge \in Issues \X Issues
        PROVE /\ edge \in TM!Edges(side) /\ edge \notin TM!Edges(old) => edge \in TM!Edges(merged)
              /\ edge \in TM!Edges(merged) /\ edge \in TM!Edges(old) => edge \in TM!Edges(side)
      OBVIOUS
    <3>1. edge[1] \in Issues
      OBVIOUS
    <3>2. /\ Deps(side.graph[edge[1]]) \ Deps(old.graph[edge[1]]) \subseteq Deps(merged.graph[edge[1]])
          /\ Deps(merged.graph[edge[1]]) \cap (Deps(old.graph[edge[1]]) \ Deps(side.graph[edge[1]])) = {}
      BY <1>3, <3>1
    <3> QED
      BY <2>1, <3>2
  <2>3. \A t : TM!Edges(t) \subseteq Issues \X Issues
    BY DEF TM!Edges
  <2>4. /\ TM!Edges(side) \ TM!Edges(old) \subseteq TM!Edges(merged)
        /\ TM!Edges(merged) \cap (TM!Edges(old) \ TM!Edges(side)) = {}
    BY <2>2, <2>3
  <2>5. /\ TM!Rows(side.graph) \ TM!Rows(old.graph) \subseteq TM!Rows(merged.graph)
        /\ TM!Rows(merged.graph) \cap (TM!Rows(old.graph) \ TM!Rows(side.graph)) = {}
    BY <1>3 DEF TM!Rows
  <2> QED
    BY <2>4, <2>5 DEF TM!Keeps, old
<1>5. ASSUME NEW i \in TM!Rows(merged.graph)
      PROVE  merged.graph[i].title \in {side.graph[i].title : side \in {s \in sides : i \in TM!Rows(s.graph)}} \cup answers[i]
  <2>1. i \in Issues
    BY DEF TM!Rows
  <2>2. merged.graph[i].title \in {s.title : s \in {slot1[b].graph[i], slot1[other].graph[i]} \ {NoRow}} \cup answers[i]
    BY <1>3
  <2>3. CASE merged.graph[i].title \in answers[i]
    BY <2>3
  <2>4. CASE merged.graph[i].title \notin answers[i]
    <3>1. PICK side \in sides : side.graph[i] # NoRow /\ merged.graph[i].title = side.graph[i].title
      BY <2>2, <2>4
    <3>2. side \in {s \in sides : i \in TM!Rows(s.graph)}
      BY <2>1, <3>1 DEF TM!Rows
    <3> QED
      BY <3>1, <3>2
  <2> QED
    BY <2>3, <2>4
<1> HIDE DEF sides
<1>6. TM!ValidTickets(merged)
  BY <1>3, LegalType
<1> QED
  BY <1>2, <1>3, <1>4, <1>5, <1>6 DEF old, sides

-----------------------------------------------------------------------------
(***************************************************************************)
(* Lanes: what is stored divides the closure into paths, and what is drawn  *)
(* of it shows the dependencies there are.  First what follows from the     *)
(* definitions for every graph, set of roots and policy.                    *)
(***************************************************************************)

\* A set of numbers has a smallest one.
LEMMA Smallest ==
  ASSUME NEW S, S \subseteq Nat, S # {}
  PROVE  \E x \in S : \A y \in S : x <= y
<1>1. PICK x \in S : \A y \in S : ~(<<y, x>> \in OpToRel(<, Nat))
  BY NatLessThanWellFounded, WFMin
<1>2. \A y \in S : ~(y < x)
  BY <1>1 DEF OpToRel
<1> QED
  BY <1>2

\* What holds of 0, and of n if it does of n - 1, holds of all numbers up to N.
LEMMA UpTo ==
  ASSUME NEW N \in Nat, NEW T, 0 \in T, \A n \in 1..N : n - 1 \in T => n \in T
  PROVE  \A n \in 0..N : n \in T
<1> DEFINE bad == {n \in 0..N : n \notin T}
<1>1. SUFFICES ASSUME bad # {} PROVE FALSE
  OBVIOUS
<1>2. PICK x \in bad : \A y \in bad : x <= y
  <2>1. bad \subseteq Nat
    OBVIOUS
  <2> HIDE DEF bad
  <2> QED
    BY <1>1, <2>1, Smallest
<1>3. x \in 1..N /\ x - 1 \in 0..N
  BY <1>2
<1>4. x - 1 \notin bad
  BY <1>2, <1>3
<1> QED
  BY <1>2, <1>3, <1>4

\* A function is defined by its value at 0 and by the step from each value to the next.
StepsOf(N, S, first, f) == {h \in [0..N -> S] : h[0] = first /\ \A n \in 1..N : h[n] = f[<<n, h[n - 1]>>]}

LEMMA Steps ==
  ASSUME NEW N \in Nat, NEW S, NEW first \in S, NEW f \in [(1..N) \X S -> S]
  PROVE  StepsOf(N, S, first, f) # {}
<1> DEFINE H(k, h) == h[0] = first /\ \A n \in 1..k : h[n] = f[<<n, h[n - 1]>>]
           T == {k \in 0..N : \E h \in [0..k -> S] : H(k, h)}
<1>1. 0 \in T
  <2> DEFINE start == [n \in 0..0 |-> first]
  <2>1. start \in [0..0 -> S] /\ H(0, start)
    OBVIOUS
  <2> HIDE DEF start
  <2> QED
    BY <2>1
<1>2. ASSUME NEW k \in 1..N, k - 1 \in T PROVE k \in T
  <2>1. PICK h \in [0..(k - 1) -> S] : H(k - 1, h)
    BY <1>2
  <2> DEFINE new == [n \in 0..k |-> IF n = k THEN f[<<k, h[k - 1]>>] ELSE h[n]]
  <2>2. f[<<k, h[k - 1]>>] \in S
    OBVIOUS
  <2>3. new \in [0..k -> S]
    BY <2>2
  <2>4. \A n \in 0..(k - 1) : new[n] = h[n]
    OBVIOUS
  <2>5. new[k] = f[<<k, new[k - 1]>>]
    <3>1. new[k] = f[<<k, h[k - 1]>>]
      OBVIOUS
    <3>2. new[k - 1] = h[k - 1]
      BY <2>4
    <3> QED
      BY <3>1, <3>2
  <2>6. H(k, new)
    <3>1. new[0] = first
      BY <2>1, <2>4
    <3>2. ASSUME NEW n \in 1..k PROVE new[n] = f[<<n, new[n - 1]>>]
      <4>1. CASE n = k
        BY <4>1, <2>5
      <4>2. CASE n # k
        <5>1. n \in 1..(k - 1) /\ n \in 0..(k - 1) /\ n - 1 \in 0..(k - 1)
          BY <4>2
        <5> HIDE DEF new
        <5> QED
          BY <5>1, <2>1, <2>4
      <4> QED
        BY <4>1, <4>2
    <3> HIDE DEF new
    <3> QED
      BY <3>1, <3>2
  <2> HIDE DEF new
  <2> QED
    BY <2>3, <2>6
<1>3. N \in T
  <2> HIDE DEF T
  <2>1. \A n \in 0..N : n \in T
    BY <1>1, <1>2, UpTo
  <2> QED
    BY <2>1
<1>4. PICK h \in [0..N -> S] : H(N, h)
  BY <1>3
<1> QED
  BY <1>4 DEF StepsOf

-----------------------------------------------------------------------------
\* What Lanes says of finite sets is what the library's theorems say of them.
LEMMA SameFinite ==
  ASSUME NEW t
  PROVE  \A S : L(t)!Cardinality(S) = Cardinality(S) /\ (L(t)!IsFiniteSet(S) <=> IsFiniteSet(S))
BY Zenon DEF L!Cardinality, Cardinality, L!IsFiniteSet, IsFiniteSet

\* Some issue of a graph without cycles is ready.
LEMMA FirstFacts ==
  ASSUME NEW t, L(t)!LanesAssumption, NEW g, L(t)!IsGraph(g), NEW S, S \subseteq DOMAIN g, S # {}
  PROVE  L(t)!First(g, S) \in S /\ g[L(t)!First(g, S)] \cap S = {}
<1> DEFINE ready == {issue \in S : g[issue] \cap S = {}}
<1>1. ready # {} /\ ready \subseteq Nat
  BY DEF L!IsGraph, L!LanesAssumption
<1>2. \E issue \in ready : \A other \in ready : issue <= other
  <2> HIDE DEF ready
  <2> QED
    BY <1>1, Smallest
<1> QED
  BY <1>2 DEF L!First

\* Issues are taken one by one.
LEMMA LeftFacts ==
  ASSUME NEW t, L(t)!LanesAssumption, NEW g, L(t)!IsGraph(g), NEW S, S \subseteq DOMAIN g
  PROVE  /\ IsFiniteSet(S) /\ Cardinality(S) \in Nat
         /\ L(t)!Left(g, S)[0] = S
         /\ \A n \in 1..Cardinality(S) : L(t)!Left(g, S)[n] = L(t)!Rest(g, L(t)!Left(g, S)[n - 1])
         /\ \A n \in 0..Cardinality(S) : L(t)!Left(g, S)[n] \subseteq S
<1>1. IsFiniteSet(S) /\ Cardinality(S) \in Nat
  <2>1. IsFiniteSet(DOMAIN g)
    BY SameFinite DEF L!IsGraph
  <2> QED
    BY <2>1, FS_Subset, FS_CardinalityType
<1> DEFINE K == Cardinality(S)
           V == SUBSET S
           f == [x \in (1..K) \X V |-> L(t)!Rest(g, x[2])]
           left == L(t)!Left(g, S)
<1>2. left = CHOOSE h : h = [n \in 0..K |-> IF n = 0 THEN S ELSE L(t)!Rest(g, h[n - 1])]
  BY SameFinite, Zenon DEF L!Left
<1> HIDE DEF left
<1>3. K \in Nat
  BY <1>1
<1> HIDE DEF K
<1>4. f \in [(1..K) \X V -> V] /\ S \in V
  BY DEF L!Rest
<1>5. PICK h \in [0..K -> V] : h[0] = S /\ \A n \in 1..K : h[n] = f[<<n, h[n - 1]>>]
  <2> HIDE DEF f, V
  <2>1. StepsOf(K, V, S, f) # {}
    BY <1>3, <1>4, Steps
  <2> QED
    BY <2>1 DEF StepsOf
<1>6. \A n \in 1..K : h[n] = L(t)!Rest(g, h[n - 1])
  <2> SUFFICES ASSUME NEW n \in 1..K PROVE h[n] = L(t)!Rest(g, h[n - 1])
    OBVIOUS
  <2>1. n - 1 \in 0..K
    BY <1>3
  <2>2. <<n, h[n - 1]>> \in (1..K) \X V
    BY <2>1
  <2>3. f[<<n, h[n - 1]>>] = L(t)!Rest(g, h[n - 1])
    BY <2>2
  <2> QED
    BY <1>5, <2>3
<1>7. h = [n \in 0..K |-> IF n = 0 THEN S ELSE L(t)!Rest(g, h[n - 1])]
  <2>1. \A n \in 0..K : h[n] = IF n = 0 THEN S ELSE L(t)!Rest(g, h[n - 1])
    BY <1>3, <1>5, <1>6
  <2> QED
    BY <2>1
<1>8. left = [n \in 0..K |-> IF n = 0 THEN S ELSE L(t)!Rest(g, left[n - 1])]
  BY <1>2, <1>7, Zenon
<1>9. left[0] = S /\ \A n \in 1..K : left[n] = L(t)!Rest(g, left[n - 1])
  BY <1>3, <1>8
<1>10. \A n \in 0..K : left[n] \subseteq S
  <2> DEFINE T == {n \in 0..K : left[n] \subseteq S}
  <2>1. 0 \in T
    BY <1>3, <1>9
  <2>2. \A n \in 1..K : n - 1 \in T => n \in T
    BY <1>3, <1>9 DEF L!Rest
  <2>3. \A n \in 0..K : n \in T
    <3> HIDE DEF T
    <3> QED
      BY <1>3, <2>1, <2>2, UpTo
  <2> QED
    BY <2>3
<1> QED
  BY <1>1, <1>9, <1>10 DEF K, left

\* The order has each issue once, after those of its dependencies that are in it.
LEMMA SortedFacts ==
  ASSUME NEW t, L(t)!LanesAssumption, NEW g, L(t)!IsGraph(g), NEW S, S \subseteq DOMAIN g
  PROVE  /\ Cardinality(S) \in Nat /\ L(t)!Sorted(g, S) \in [1..Cardinality(S) -> S]
         /\ L(t)!Sorted(g, S) \in Seq(S) /\ Len(L(t)!Sorted(g, S)) = Cardinality(S)
         /\ L(t)!Left(g, S)[Cardinality(S)] = {}
         /\ \A n \in 1..Cardinality(S) :
              /\ L(t)!Left(g, S)[n] = L(t)!Left(g, S)[n - 1] \ {L(t)!Sorted(g, S)[n]}
              /\ L(t)!Sorted(g, S)[n] \in L(t)!Left(g, S)[n - 1]
              /\ g[L(t)!Sorted(g, S)[n]] \cap L(t)!Left(g, S)[n - 1] = {}
              /\ L(t)!Left(g, S)[n - 1] \subseteq S
<1> DEFINE K == Cardinality(S)
           left == L(t)!Left(g, S)
           order == L(t)!Sorted(g, S)
<1>1. /\ K \in Nat /\ IsFiniteSet(S) /\ left[0] = S
      /\ \A n \in 1..K : left[n] = L(t)!Rest(g, left[n - 1])
      /\ \A n \in 0..K : left[n] \subseteq S
  BY LeftFacts
<1>2. order = [n \in 1..K |-> L(t)!First(g, left[n - 1])]
  BY SameFinite, Zenon DEF L!Sorted
<1> DEFINE size(n) == IsFiniteSet(left[n]) /\ Cardinality(left[n]) = K - n
<1>3. size(0)
  BY <1>1
<1> HIDE DEF left, order
<1>4. ASSUME NEW n \in 1..K, size(n - 1)
      PROVE  /\ left[n] = left[n - 1] \ {order[n]} /\ order[n] \in left[n - 1]
             /\ g[order[n]] \cap left[n - 1] = {} /\ size(n)
  <2>1. left[n - 1] \subseteq S /\ left[n - 1] # {}
    <3>1. n - 1 \in 0..K /\ K - (n - 1) # 0
      BY <1>1
    <3> QED
      BY <3>1, <1>1, <1>4, FS_EmptySet
  <2>2. order[n] = L(t)!First(g, left[n - 1])
    BY <1>2
  <2>3. order[n] \in left[n - 1] /\ g[order[n]] \cap left[n - 1] = {}
    BY <2>1, <2>2, FirstFacts
  <2>4. left[n] = left[n - 1] \ {order[n]}
    BY <1>1, <2>2 DEF L!Rest
  <2>5. size(n)
    <3>1. IsFiniteSet(left[n]) /\ Cardinality(left[n]) = Cardinality(left[n - 1]) - 1
      BY <1>4, <2>3, <2>4, FS_RemoveElement
    <3>2. K - (n - 1) - 1 = K - n
      BY <1>1
    <3> QED
      BY <3>1, <3>2, <1>4
  <2> QED
    BY <2>3, <2>4, <2>5
<1>5. \A n \in 0..K : size(n)
  <2> DEFINE T == {n \in 0..K : size(n)}
  <2> HIDE DEF size
  <2>1. 0 \in T
    BY <1>1, <1>3
  <2>2. \A n \in 1..K : n - 1 \in T => n \in T
    BY <1>1, <1>4
  <2>3. \A n \in 0..K : n \in T
    <3> HIDE DEF T
    <3> QED
      BY <1>1, <2>1, <2>2, UpTo
  <2> QED
    BY <2>3
<1>6. \A n \in 1..K : n - 1 \in 0..K /\ size(n - 1)
  BY <1>1, <1>5
<1> HIDE DEF K
<1>7. \A n \in 1..K : /\ left[n] = left[n - 1] \ {order[n]} /\ order[n] \in left[n - 1]
                      /\ g[order[n]] \cap left[n - 1] = {} /\ left[n - 1] \subseteq S
  BY <1>1, <1>4, <1>6
<1>8. order \in [1..K -> S]
  BY <1>2, <1>7
<1>9. order \in Seq(S) /\ Len(order) = K
  BY <1>1, <1>8
<1>10. left[K] = {}
  <2>1. K \in 0..K /\ K - K = 0
    BY <1>1
  <2>2. IsFiniteSet(left[K]) /\ Cardinality(left[K]) = 0
    BY <1>5, <2>1 DEF size
  <2> QED
    BY <2>2, FS_EmptySet
<1> QED
  BY <1>1, <1>7, <1>8, <1>9, <1>10 DEF K, left, order

\* It has all of them, and an issue comes after what it depends on.
LEMMA SortedOrder ==
  ASSUME NEW t, L(t)!LanesAssumption, NEW g, L(t)!IsGraph(g), NEW S, S \subseteq DOMAIN g
  PROVE  /\ \A issue \in S : \E n \in 1..Cardinality(S) : L(t)!Sorted(g, S)[n] = issue
         /\ \A m, n \in 1..Cardinality(S) : m < n => L(t)!Sorted(g, S)[m] # L(t)!Sorted(g, S)[n]
         /\ \A m, n \in 1..Cardinality(S) : L(t)!Sorted(g, S)[m] \in g[L(t)!Sorted(g, S)[n]] => m < n
<1> DEFINE K == Cardinality(S)
           left == L(t)!Left(g, S)
           order == L(t)!Sorted(g, S)
<1>1. /\ K \in Nat /\ left[0] = S /\ left[K] = {}
      /\ \A n \in 1..K : /\ left[n] = left[n - 1] \ {order[n]} /\ order[n] \in left[n - 1]
                         /\ g[order[n]] \cap left[n - 1] = {} /\ left[n - 1] \subseteq S
  BY LeftFacts, SortedFacts
<1> HIDE DEF K, left, order
<1> DEFINE T == {n \in 0..K : left[n] = S \ {order[m] : m \in 1..n}}
<1>2. 0 \in T
  BY <1>1
<1>3. ASSUME NEW n \in 1..K, n - 1 \in T PROVE n \in T
  <2>1. left[n] = left[n - 1] \ {order[n]} /\ left[n - 1] = S \ {order[m] : m \in 1..(n - 1)}
    BY <1>1, <1>3
  <2>2. 1..n = 1..(n - 1) \cup {n}
    BY <1>1
  <2> QED
    BY <2>1, <2>2, <1>1
<1>4. \A n \in 0..K : n \in T
  <2> HIDE DEF T
  <2> QED
    BY <1>1, <1>2, <1>3, UpTo
<1>5. \A n \in 0..K : left[n] = S \ {order[m] : m \in 1..n}
  BY <1>4
<1>6. \A issue \in S : \E n \in 1..K : order[n] = issue
  <2>1. {} = S \ {order[m] : m \in 1..K}
    BY <1>1, <1>5
  <2> QED
    BY <2>1
<1>7. \A m, n \in 1..K : m < n => order[m] # order[n]
  <2> SUFFICES ASSUME NEW m \in 1..K, NEW n \in 1..K, m < n PROVE order[m] # order[n]
    OBVIOUS
  <2>1. n - 1 \in 0..K /\ m \in 1..(n - 1)
    BY <1>1
  <2>2. order[m] \notin left[n - 1] /\ order[n] \in left[n - 1]
    BY <1>1, <1>5, <2>1
  <2> QED
    BY <2>2
<1>8. \A m, n \in 1..K : order[m] \in g[order[n]] => m < n
  <2> SUFFICES ASSUME NEW m \in 1..K, NEW n \in 1..K, order[m] \in g[order[n]], ~(m < n) PROVE FALSE
    OBVIOUS
  <2>1. \A k \in 1..(n - 1) : order[k] # order[m]
    <3> SUFFICES ASSUME NEW k \in 1..(n - 1) PROVE order[k] # order[m]
      OBVIOUS
    <3>1. k \in 1..K /\ k < m
      BY <1>1
    <3> QED
      BY <1>7, <3>1
  <2>2. n - 1 \in 0..K /\ m - 1 \in 0..K
    BY <1>1
  <2>3. order[m] \in S
    BY <1>1, <2>2
  <2>4. order[m] \in left[n - 1]
    BY <1>5, <2>1, <2>2, <2>3
  <2> QED
    BY <1>1, <2>4
<1> QED
  BY <1>6, <1>7, <1>8 DEF K, order

\* Issues of which each depends on the one before are in that order.
LEMMA SortedChain ==
  ASSUME NEW t, L(t)!LanesAssumption, NEW g, L(t)!IsGraph(g), NEW S, S \subseteq DOMAIN g,
         NEW c \in [1..Cardinality(S) -> S], \A issue \in S : \E n \in 1..Cardinality(S) : c[n] = issue,
         \A m, n \in 1..Cardinality(S) : c[m] = c[n] => m = n,
         \A n \in 1..Cardinality(S) - 1 : c[n] \in g[c[n + 1]]
  PROVE  \A n \in 1..Cardinality(S) : L(t)!Sorted(g, S)[n] = c[n]
<1> DEFINE K == Cardinality(S)
           left == L(t)!Left(g, S)
           order == L(t)!Sorted(g, S)
<1>1. /\ K \in Nat /\ left[0] = S
      /\ \A n \in 1..K : /\ left[n] = left[n - 1] \ {order[n]} /\ order[n] \in left[n - 1]
                         /\ g[order[n]] \cap left[n - 1] = {}
  <2>1. K \in Nat /\ left[0] = S
    BY LeftFacts
  <2> QED
    BY <2>1, SortedFacts, SMTT(30)
<1>2. c \in [1..K -> S] /\ S = {c[m] : m \in 1..K} /\ \A m, n \in 1..K : c[m] = c[n] => m = n
  OBVIOUS
<1>3. \A n \in 1..K - 1 : c[n] \in g[c[n + 1]]
  OBVIOUS
<1> HIDE DEF K, left, order
<1> DEFINE T == {n \in 0..K : left[n] = {c[m] : m \in (n + 1)..K}}
<1>4. ASSUME NEW n \in 1..K, n - 1 \in T PROVE order[n] = c[n] /\ n \in T
  <2>1. n - 1 + 1 = n /\ left[n - 1] = {c[m] : m \in (n - 1 + 1)..K}
    BY <1>1, <1>4
  <2>2. left[n - 1] = {c[m] : m \in n..K}
    BY <2>1
  <2>3. PICK m \in n..K : order[n] = c[m]
    BY <1>1, <2>2
  <2>4. m = n
    <3> SUFFICES ASSUME m # n PROVE FALSE
      OBVIOUS
    <3>1. m - 1 \in n..K /\ m - 1 \in 1..K - 1 /\ m - 1 + 1 = m
      BY <1>1
    <3>2. c[m - 1] \in g[c[m]]
      BY <1>3, <3>1
    <3>3. c[m - 1] \in left[n - 1]
      BY <2>2, <3>1
    <3>4. g[order[n]] \cap left[n - 1] = {}
      BY <1>1
    <3>5. c[m - 1] \in g[order[n]]
      BY <2>3, <3>2
    <3> QED
      BY <3>3, <3>4, <3>5
  <2>5. left[n] = {c[k] : k \in n..K} \ {c[n]}
    BY <1>1, <2>2, <2>3, <2>4
  <2>6. n \in 1..K /\ \A k \in n..K : k \in 1..K
    BY <1>1
  <2>7. \A k \in n..K : c[k] # c[n] <=> k \in (n + 1)..K
    <3> SUFFICES ASSUME NEW k \in n..K PROVE c[k] # c[n] <=> k # n
      BY <1>1
    <3>1. k \in 1..K
      BY <2>6
    <3> QED
      BY <1>2, <3>1
  <2>8. \A k \in (n + 1)..K : k \in n..K
    BY <1>1
  <2>9. left[n] = {c[k] : k \in (n + 1)..K}
    BY <2>5, <2>7, <2>8
  <2> QED
    BY <1>1, <2>3, <2>4, <2>9
<1>5. 0 \in T
  <2>1. left[0] = {c[m] : m \in (0 + 1)..K}
    <3>1. left[0] = {c[m] : m \in 1..K}
      BY <1>1, <1>2, Zenon
    <3> QED
      BY <3>1
  <2>2. 0 \in 0..K
    BY <1>1
  <2> QED
    BY <2>1, <2>2
<1>6. \A n \in 0..K : n \in T
  <2> HIDE DEF T
  <2> QED
    BY <1>1, <1>4, <1>5, UpTo
<1>7. \A n \in 1..K : n - 1 \in 0..K
  BY <1>1
<1> HIDE DEF T
<1> QED
  BY <1>4, <1>6, <1>7 DEF K, order

-----------------------------------------------------------------------------
\* A search finds its start, all that it has edges to, and nothing that is not in every
\* set that has those.
LEMMA ReachedFacts ==
  ASSUME NEW t, NEW edges, NEW nodes, NEW start, start \subseteq nodes
  PROVE  LET found == L(t)!Reached(edges, nodes, start) IN
         /\ start \subseteq found /\ found \subseteq nodes
         /\ \A edge \in edges : edge[1] \in found /\ edge[2] \in nodes => edge[2] \in found
         /\ \A C : C \subseteq nodes /\ start \subseteq C /\ L(t)!Closed(edges, C) => found \subseteq C
<1> DEFINE found == L(t)!Reached(edges, nodes, start)
           closed == {C \in SUBSET nodes : start \subseteq C /\ L(t)!Closed(edges, C)}
<1>1. found = {node \in nodes : \A C \in closed : node \in C}
  BY DEF L!Reached
<1>2. ASSUME NEW edge \in edges, edge[1] \in found, edge[2] \in nodes PROVE edge[2] \in found
  <2>1. \A C \in closed : edge[2] \in C
    BY <1>1, <1>2 DEF L!Closed
  <2> HIDE DEF closed, found
  <2> QED
    BY <1>1, <1>2, <2>1
<1>3. \A C : C \subseteq nodes /\ start \subseteq C /\ L(t)!Closed(edges, C) => C \in closed
  OBVIOUS
<1>4. \A C \in closed : start \subseteq C
  OBVIOUS
<1> HIDE DEF closed, found
<1>5. start \subseteq found /\ found \subseteq nodes
  BY <1>1, <1>4
<1>6. \A C : C \subseteq nodes /\ start \subseteq C /\ L(t)!Closed(edges, C) => found \subseteq C
  BY <1>1, <1>3
<1> QED
  BY <1>2, <1>5, <1>6 DEF found

LEMMA BudgetIs ==
  ASSUME NEW t, NEW follow \in [L(t)!PolicyKinds -> Nat], NEW left
  PROVE  left \in L(t)!Budgets(follow) <=> left \in [L(t)!PolicyKinds -> Nat] /\ \A kind \in L(t)!PolicyKinds : left[kind] <= follow[kind]
<1> DEFINE kinds == L(t)!PolicyKinds
           numbers == UNION {0..follow[kind] : kind \in kinds}
<1>1. L(t)!Budgets(follow) = {b \in [kinds -> numbers] : \A kind \in kinds : b[kind] <= follow[kind]}
  BY DEF L!Budgets
<1> HIDE DEF kinds
<1>2. numbers \subseteq Nat
  BY DEF kinds
<1>3. ASSUME left \in [kinds -> Nat], \A kind \in kinds : left[kind] <= follow[kind] PROVE left \in [kinds -> numbers]
  <2>1. \A kind \in kinds : left[kind] \in 0..follow[kind]
    BY <1>3 DEF kinds
  <2>2. \A kind \in kinds : left[kind] \in numbers
    BY <2>1
  <2> QED
    BY <1>3, <2>2
<1> HIDE DEF numbers
<1>4. left \in [kinds -> numbers] => left \in [kinds -> Nat]
  BY <1>2
<1>5. left \in {b \in [kinds -> numbers] : \A kind \in kinds : b[kind] <= follow[kind]}
      <=> left \in [kinds -> numbers] /\ \A kind \in kinds : left[kind] <= follow[kind]
  OBVIOUS
<1> QED
  BY <1>1, <1>3, <1>4, <1>5 DEF kinds

\* What a path may still cross beyond an issue is no more than before it.
LEMMA CrossFacts ==
  ASSUME NEW t, NEW follow \in [L(t)!PolicyKinds -> Nat], NEW kind \in L(t)!GroupKinds \cup {"none"},
         NEW left \in L(t)!Budgets(follow)
  PROVE  \A beyond \in L(t)!Cross(follow, kind, left) : beyond \in L(t)!Budgets(follow)
<1>1. left \in [L(t)!PolicyKinds -> Nat] /\ \A k \in L(t)!PolicyKinds : left[k] <= follow[k]
  BY BudgetIs
<1> DEFINE b == IF follow["group"] > 0 THEN "group" ELSE kind
           less == [left EXCEPT ![b] = @ - 1]
<1>2. \A beyond \in L(t)!Cross(follow, kind, left) :
         beyond = left \/ (kind # "none" /\ ~(left[b] < 1) /\ beyond = less)
  BY DEF L!Cross
<1>3. kind # "none" => b \in L(t)!PolicyKinds
  BY DEF L!PolicyKinds
<1> HIDE DEF b
<1>4. ASSUME b \in L(t)!PolicyKinds, ~(left[b] < 1) PROVE less \in L(t)!Budgets(follow)
  <2>1. left[b] - 1 \in Nat /\ left[b] - 1 <= follow[b]
    BY <1>1, <1>4
  <2>2. less \in [L(t)!PolicyKinds -> Nat] /\ \A k \in L(t)!PolicyKinds : less[k] <= follow[k]
    BY <1>1, <1>4, <2>1
  <2> HIDE DEF less
  <2> QED
    BY <2>2, BudgetIs
<1> HIDE DEF less
<1> QED
  BY <1>2, <1>3, <1>4

\* The issues of a traversal: those selected, with an issue that a path crosses all that it
\* is connected to, and nothing else.
LEMMA StatesFacts ==
  ASSUME NEW t, L(t)!LanesAssumption, NEW g, L(t)!IsGraph(g), NEW roots, roots \subseteq DOMAIN g,
         NEW follow \in [L(t)!PolicyKinds -> Nat]
  PROVE  LET states == L(t)!DependencyStates(g, roots, follow) IN
         /\ \A root \in roots : \E state \in states : state.issue = root
         /\ \A state \in states : state.issue \in DOMAIN g
         /\ \A state \in states : state.issue \in roots \/ Showing[t].kinds[state.issue] = "none" =>
              \A other \in L(t)!Neighbours(g, state.issue) : \E next \in states : next.issue = other
         /\ \A C : /\ roots \subseteq C
                   /\ \A state \in states : state.issue \in C =>
                        \A next \in states : next.issue \in L(t)!Neighbours(g, state.issue) => next.issue \in C
                   => \A state \in states : state.issue \in C
<1> DEFINE budgets == L(t)!Budgets(follow)
           all == [issue : DOMAIN g, remaining : budgets]
           beyond(state) == L(t)!Beyond(g, roots, follow, state)
           edges == UNION {{state} \X beyond(state) : state \in all}
           start == {[issue |-> root, remaining |-> follow] : root \in roots}
           states == L(t)!Reached(edges, all, start)
<1>1. L(t)!DependencyStates(g, roots, follow) = states
  BY DEF L!DependencyStates
<1>2. start \subseteq all
  <2>1. follow \in budgets
    BY BudgetIs
  <2> HIDE DEF budgets
  <2> QED
    BY <2>1
<1>3. \A state \in all : /\ state.issue \in DOMAIN g /\ state.remaining \in budgets
                         /\ Showing[t].kinds[state.issue] \in L(t)!GroupKinds \cup {"none"}
                         /\ L(t)!Neighbours(g, state.issue) \subseteq DOMAIN g
  <2>1. \A issue \in DOMAIN g : /\ Showing[t].kinds[issue] \in L(t)!GroupKinds \cup {"none"}
                                /\ L(t)!Neighbours(g, issue) \subseteq DOMAIN g
    BY DEF L!IsGraph, L!LanesAssumption, L!Neighbours
  <2> HIDE DEF budgets
  <2> QED
    BY <2>1
<1>4. ASSUME NEW state \in all PROVE \A next \in beyond(state) : next \in all /\ next.issue \in L(t)!Neighbours(g, state.issue)
  <2> DEFINE crossed == IF state.issue \in roots THEN {state.remaining}
                        ELSE L(t)!Cross(follow, Showing[t].kinds[state.issue], state.remaining)
  <2>1. beyond(state) = {[issue |-> other, remaining |-> left] : other \in L(t)!Neighbours(g, state.issue), left \in crossed}
    BY DEF L!Beyond
  <2>2. \A left \in crossed : left \in budgets
    BY <1>3, CrossFacts
  <2> HIDE DEF beyond, crossed, budgets
  <2>3. L(t)!Neighbours(g, state.issue) \subseteq DOMAIN g
    BY <1>3
  <2> QED
    BY <2>1, <2>2, <2>3
<1>5. ASSUME NEW state \in all, state.issue \in roots \/ Showing[t].kinds[state.issue] = "none", NEW other \in L(t)!Neighbours(g, state.issue)
      PROVE  [issue |-> other, remaining |-> state.remaining] \in beyond(state)
  BY <1>5 DEF L!Beyond, L!Cross
<1>6. \A state \in all : \A next \in beyond(state) : <<state, next>> \in edges
  <2> HIDE DEF beyond, all
  <2> QED
    OBVIOUS
<1>7. \A edge \in edges : edge[1] \in all /\ edge[2] \in beyond(edge[1])
  <2> HIDE DEF beyond, all
  <2> QED
    OBVIOUS
<1> HIDE DEF budgets, all, beyond, edges, start, states
<1>8. /\ start \subseteq states /\ states \subseteq all
      /\ \A edge \in edges : edge[1] \in states /\ edge[2] \in all => edge[2] \in states
      /\ \A C : C \subseteq all /\ start \subseteq C /\ L(t)!Closed(edges, C) => states \subseteq C
  BY <1>2, ReachedFacts DEF states
<1>9. \A root \in roots : \E state \in states : state.issue = root
  <2> SUFFICES ASSUME NEW root \in roots PROVE \E state \in states : state.issue = root
    OBVIOUS
  <2>1. [issue |-> root, remaining |-> follow] \in start
    BY DEF start
  <2> QED
    BY <1>8, <2>1
<1>10. ASSUME NEW state \in states, state.issue \in roots \/ Showing[t].kinds[state.issue] = "none", NEW other \in L(t)!Neighbours(g, state.issue)
       PROVE  \E next \in states : next.issue = other
  <2> DEFINE next == [issue |-> other, remaining |-> state.remaining]
  <2>1. state \in all /\ next \in beyond(state)
    BY <1>5, <1>8, <1>10
  <2> HIDE DEF next
  <2>2. next \in all /\ <<state, next>> \in edges
    BY <1>4, <1>6, <2>1
  <2>3. next \in states
    BY <1>8, <2>2
  <2> QED
    BY <2>3 DEF next
<1>11. ASSUME NEW C, roots \subseteq C,
              \A state \in states : state.issue \in C =>
                \A next \in states : next.issue \in L(t)!Neighbours(g, state.issue) => next.issue \in C
       PROVE  \A state \in states : state.issue \in C
  <2> DEFINE within == {state \in states : state.issue \in C}
  <2>1. within \subseteq all /\ start \subseteq within
    BY <1>8, <1>11 DEF start
  <2>2. ASSUME NEW edge \in edges, edge[1] \in within PROVE edge[2] \in within
    <3>1. edge[1] \in states /\ edge[1].issue \in C /\ edge[1] \in all /\ edge[2] \in beyond(edge[1])
      BY <1>7, <2>2
    <3>2. edge[2] \in all /\ edge[2].issue \in L(t)!Neighbours(g, edge[1].issue)
      BY <1>4, <3>1
    <3>3. edge[2] \in states
      BY <1>8, <3>1, <3>2
    <3> QED
      BY <1>11, <3>1, <3>2, <3>3
  <2>3. L(t)!Closed(edges, within)
    BY <2>2 DEF L!Closed
  <2> HIDE DEF within
  <2>4. states \subseteq within
    BY <1>8, <2>1, <2>3
  <2> QED
    BY <2>4 DEF within
<1>12. \A state \in states : state.issue \in DOMAIN g
  BY <1>3, <1>8
<1> QED
  BY <1>1, <1>9, <1>10, <1>11, <1>12

LEMMA ComponentFacts ==
  ASSUME NEW t, L(t)!LanesAssumption, NEW g, L(t)!IsGraph(g), NEW roots, roots \subseteq DOMAIN g,
         NEW policy \in L(t)!Policies
  PROVE  LET closure == L(t)!DependencyComponent(g, roots, policy) IN
         /\ roots \subseteq closure /\ closure \subseteq DOMAIN g
         /\ \A C \in SUBSET closure :
              roots \subseteq C /\ (\A issue \in C : L(t)!Neighbours(g, issue) \cap closure \subseteq C) => C = closure
         /\ policy.children = {} =>
              \A issue \in closure : issue \in roots \/ Showing[t].kinds[issue] = "none" => L(t)!Neighbours(g, issue) \subseteq closure
<1> DEFINE states == L(t)!DependencyStates(g, roots, policy.follow)
           stops == {state \in states : /\ state.issue \notin roots /\ L(t)!Matches(policy.children, Showing[t].kinds[state.issue])
                                        /\ L(t)!Cross(policy.follow, Showing[t].kinds[state.issue], state.remaining) = {}}
           closure == L(t)!DependencyComponent(g, roots, policy)
<1>1. closure = {state.issue : state \in states} \cup UNION {L(t)!Neighbours(g, state.issue) : state \in stops}
  BY DEF L!DependencyComponent
<1>2. policy.children = {} => stops = {}
  BY DEF L!Matches
<1>3. stops \subseteq states
  OBVIOUS
<1>4. policy.follow \in [L(t)!PolicyKinds -> Nat]
  BY DEF L!Policies
<1>5. \A issue \in DOMAIN g : L(t)!Neighbours(g, issue) \subseteq DOMAIN g
  BY DEF L!Neighbours, L!IsGraph
<1> HIDE DEF states, stops, closure
<1>6. /\ \A root \in roots : \E state \in states : state.issue = root
      /\ \A state \in states : state.issue \in DOMAIN g
      /\ \A state \in states : state.issue \in roots \/ Showing[t].kinds[state.issue] = "none" =>
           \A other \in L(t)!Neighbours(g, state.issue) : \E next \in states : next.issue = other
      /\ \A C : /\ roots \subseteq C
                /\ \A state \in states : state.issue \in C =>
                     \A next \in states : next.issue \in L(t)!Neighbours(g, state.issue) => next.issue \in C
                => \A state \in states : state.issue \in C
  BY <1>4, StatesFacts DEF states
<1>7. roots \subseteq closure /\ closure \subseteq DOMAIN g
  BY <1>1, <1>3, <1>5, <1>6
<1>8. ASSUME NEW C \in SUBSET closure, roots \subseteq C, \A issue \in C : L(t)!Neighbours(g, issue) \cap closure \subseteq C
      PROVE  C = closure
  <2>1. \A state \in states : state.issue \in C =>
          \A next \in states : next.issue \in L(t)!Neighbours(g, state.issue) => next.issue \in C
    BY <1>1, <1>8
  <2>2. \A state \in states : state.issue \in C
    BY <1>6, <1>8, <2>1
  <2>3. \A state \in stops : L(t)!Neighbours(g, state.issue) \subseteq C
    BY <1>1, <1>3, <1>8, <2>2
  <2> QED
    BY <1>1, <2>2, <2>3
<1>9. ASSUME policy.children = {}, NEW issue \in closure, issue \in roots \/ Showing[t].kinds[issue] = "none"
      PROVE  L(t)!Neighbours(g, issue) \subseteq closure
  <2>1. PICK state \in states : state.issue = issue
    BY <1>1, <1>2, <1>9
  <2> QED
    BY <1>1, <1>6, <1>9, <2>1
<1> QED
  BY <1>7, <1>8, <1>9 DEF closure

-----------------------------------------------------------------------------
\* The edges that are left out.
LEMMA Positions ==
  ASSUME NEW t, L(t)!LanesAssumption, NEW g, L(t)!IsGraph(g), NEW S, S \subseteq DOMAIN g
  PROVE  \E pos \in [S -> Nat] : /\ \A a, b \in S : pos[a] = pos[b] => a = b
                                 /\ \A a, b \in S : a \in g[b] => pos[a] < pos[b]
<1> DEFINE K == Cardinality(S)
           order == L(t)!Sorted(g, S)
           pos == [issue \in S |-> CHOOSE n \in 1..K : order[n] = issue]
<1>1. /\ K \in Nat /\ \A issue \in S : \E n \in 1..K : order[n] = issue
      /\ \A m, n \in 1..K : order[m] \in g[order[n]] => m < n
  BY SortedFacts, SortedOrder
<1> HIDE DEF K, order
<1>2. \A issue \in S : pos[issue] \in 1..K /\ order[pos[issue]] = issue
  BY <1>1
<1>3. pos \in [S -> Nat]
  BY <1>1, <1>2
<1> HIDE DEF pos
<1>4. \A a, b \in S : pos[a] = pos[b] => a = b
  BY <1>2
<1>5. \A a, b \in S : a \in g[b] => pos[a] < pos[b]
  BY <1>1, <1>2
<1> QED
  BY <1>3, <1>4, <1>5

\* An edge whose start is in a set without its end is not left out: if there were another
\* way, then on it an edge like it whose ends are nearer to each other.
LEMMA ReductionFacts ==
  ASSUME NEW t, L(t)!LanesAssumption, NEW g, L(t)!IsGraph(g), NEW lane, NEW visible, visible \subseteq DOMAIN g
  PROVE  LET edges == L(t)!Edges(g, visible)
             reduced == L(t)!TransitiveReduction(g, lane, visible) IN
         /\ reduced \subseteq edges
         /\ \A C \in SUBSET visible : L(t)!Closed(reduced, C) <=> L(t)!Closed(edges, C)
<1> DEFINE edges == L(t)!Edges(g, visible)
           reduced == L(t)!TransitiveReduction(g, lane, visible)
           vias(edge) == {via \in visible \ {edge[2]} : <<edge[1], via>> \in edges}
           found(edge) == L(t)!Reached(edges, visible, vias(edge))
<1>1. edges = {edge \in visible \X visible : edge[1] \in g[edge[2]]}
  BY DEF L!Edges
<1>2. reduced \subseteq edges /\ \A edge \in edges : edge \notin reduced => edge[2] \in found(edge)
  BY DEF L!TransitiveReduction
<1>3. \A edge \in edges : vias(edge) \subseteq visible
  OBVIOUS
<1>4. \A edge \in edges : \A via \in vias(edge) : via \in visible /\ via # edge[2] /\ <<edge[1], via>> \in edges
  OBVIOUS
<1> HIDE DEF edges, reduced, vias
<1>5. PICK pos \in [visible -> Nat] : /\ \A a, b \in visible : pos[a] = pos[b] => a = b
                                      /\ \A a, b \in visible : a \in g[b] => pos[a] < pos[b]
  BY Positions, SMTT(30)
<1>6. \A edge \in edges : /\ edge[1] \in visible /\ edge[2] \in visible /\ edge = <<edge[1], edge[2]>>
                          /\ pos[edge[1]] \in Nat /\ pos[edge[2]] \in Nat /\ pos[edge[1]] < pos[edge[2]]
  BY <1>1, <1>5
<1>7. ASSUME NEW C \in SUBSET visible, L(t)!Closed(reduced, C) PROVE L(t)!Closed(edges, C)
  <2> DEFINE bad == {edge \in edges : edge[1] \in C /\ edge[2] \notin C}
             length(edge) == pos[edge[2]] - pos[edge[1]]
             lengths == {length(edge) : edge \in bad}
  <2>1. SUFFICES ASSUME bad # {} PROVE FALSE
    BY DEF L!Closed
  <2>2. PICK edge \in bad : \A other \in bad : length(edge) <= length(other)
    <3>1. lengths \subseteq Nat /\ lengths # {}
      BY <1>6, <2>1
    <3>2. PICK x \in lengths : \A y \in lengths : x <= y
      <4> HIDE DEF lengths
      <4> QED
        BY <3>1, Smallest
    <3> QED
      BY <3>2
  <2> DEFINE from == edge[1]
             to == edge[2]
             D == {z \in visible : pos[from] < pos[z] /\ (pos[z] <= pos[to] => z \in C)}
  <2>3. edge \in edges /\ from \in C /\ to \notin C /\ edge \notin reduced
    BY <1>7, <2>2 DEF L!Closed
  <2>4. to \in found(edge)
    BY <1>2, <2>3
  <2>5. from \in visible /\ to \in visible /\ pos[from] \in Nat /\ pos[to] \in Nat /\ \A z \in visible : pos[z] \in Nat
    BY <1>6, <2>3
  <2>6. ASSUME NEW a \in C, NEW b \in visible, <<a, b>> \in edges, pos[from] <= pos[a], pos[b] <= pos[to],
               pos[from] < pos[a] \/ pos[b] < pos[to]
        PROVE  b \in C
    <3> SUFFICES ASSUME b \notin C PROVE FALSE
      OBVIOUS
    <3>1. <<a, b>> \in bad
      BY <2>6
    <3>2. pos[to] - pos[from] <= pos[b] - pos[a]
      BY <2>2, <3>1
    <3>3. pos[a] \in Nat /\ pos[b] \in Nat
      BY <2>5
    <3> QED
      BY <2>5, <2>6, <3>2, <3>3
  <2>7. ASSUME NEW via \in vias(edge) PROVE via \in D
    <3>1. via \in visible /\ via # to /\ <<from, via>> \in edges
      BY <1>4, <2>3
    <3>2. pos[from] < pos[via] /\ pos[via] # pos[to]
      BY <1>5, <1>6, <2>5, <3>1
    <3>3. pos[via] <= pos[to] => via \in C
      BY <2>3, <2>5, <2>6, <3>1, <3>2
    <3> QED
      BY <3>1, <3>2, <3>3
  <2>8. ASSUME NEW e \in edges, e[1] \in D PROVE e[2] \in D
    <3>1. e[1] \in visible /\ e[2] \in visible /\ e = <<e[1], e[2]>> /\ pos[e[1]] < pos[e[2]]
      BY <1>6
    <3>2. pos[from] < pos[e[1]] /\ (pos[e[1]] <= pos[to] => e[1] \in C)
      BY <2>8
    <3>3. pos[from] < pos[e[2]]
      BY <2>5, <3>1, <3>2
    <3>4. ASSUME pos[e[2]] <= pos[to] PROVE e[2] \in C
      <4>1. e[1] \in C /\ <<e[1], e[2]>> \in edges /\ pos[from] <= pos[e[1]]
        BY <2>5, <3>1, <3>2, <3>4
      <4> QED
        BY <2>6, <3>1, <3>2, <3>4, <4>1
    <3> QED
      BY <3>1, <3>3, <3>4
  <2>9. D \subseteq visible /\ vias(edge) \subseteq D /\ L(t)!Closed(edges, D)
    BY <2>7, <2>8 DEF L!Closed
  <2>10. found(edge) \subseteq D
    <3> HIDE DEF D
    <3> QED
      BY <1>3, <2>3, <2>9, ReachedFacts
  <2>11. to \in D
    BY <2>4, <2>10
  <2> QED
    BY <2>3, <2>5, <2>11
<1>8. ASSUME NEW C \in SUBSET visible, L(t)!Closed(edges, C) PROVE L(t)!Closed(reduced, C)
  BY <1>2, <1>8 DEF L!Closed
<1> QED
  BY <1>2, <1>7, <1>8 DEF edges, reduced

\* Issues are grouped that have the same edges, so that groups have edges where their issues do.
LEMMA DrawnIs ==
  ASSUME NEW t, NEW g, NEW lane, NEW visible, L(t)!TransitiveReduction(g, lane, visible) \subseteq visible \X visible
  PROVE  L(t)!Drawn(g, lane, visible) = L(t)!TransitiveReduction(g, lane, visible)
<1> DEFINE reduced == L(t)!TransitiveReduction(g, lane, visible)
           to(issue) == {other \in visible : <<issue, other>> \in reduced}
           from(issue) == {other \in visible : <<other, issue>> \in reduced}
           ends == [issue \in visible |-> [to |-> to(issue), from |-> from(issue)]]
<1>1. L(t)!Drawn(g, lane, visible) =
        {pair \in visible \X visible : \E edge \in reduced : ends[edge[1]] = ends[pair[1]] /\ ends[edge[2]] = ends[pair[2]]}
  BY Zenon DEF L!Drawn
<1> HIDE DEF reduced
<1>2. \A a, b \in visible : ends[a] = ends[b] => to(a) = to(b) /\ from(a) = from(b)
  <2> HIDE DEF to, from
  <2> QED
    OBVIOUS
<1>3. \A a, b \in visible : (b \in to(a) <=> <<a, b>> \in reduced) /\ (a \in from(b) <=> <<a, b>> \in reduced)
  OBVIOUS
<1> HIDE DEF to, from, ends
<1>4. ASSUME NEW edge \in reduced, NEW pair \in visible \X visible, ends[edge[1]] = ends[pair[1]], ends[edge[2]] = ends[pair[2]]
      PROVE  pair \in reduced
  <2>1. edge \in visible \X visible
    BY DEF reduced
  <2>2. /\ edge[1] \in visible /\ edge[2] \in visible /\ pair[1] \in visible /\ pair[2] \in visible
        /\ edge = <<edge[1], edge[2]>> /\ pair = <<pair[1], pair[2]>>
    BY <2>1
  <2>3. <<pair[1], edge[2]>> \in reduced
    BY <1>2, <1>3, <1>4, <2>2
  <2>4. <<pair[1], pair[2]>> \in reduced
    BY <1>2, <1>3, <1>4, <2>2, <2>3
  <2> QED
    BY <2>2, <2>4
<1>5. reduced \subseteq visible \X visible
  BY DEF reduced
<1> QED
  BY <1>1, <1>4, <1>5 DEF reduced

\* Where there is a way in the graph, there is one in what is drawn of it, and conversely.
LEMMA SamePaths ==
  ASSUME NEW t, NEW visible, NEW edges, NEW others,
         \A C \in SUBSET visible : L(t)!Closed(edges, C) <=> L(t)!Closed(others, C)
  PROVE  L(t)!Paths(edges, visible) = L(t)!Paths(others, visible)
<1>1. ASSUME NEW start PROVE L(t)!Reached(edges, visible, start) = L(t)!Reached(others, visible, start)
  <2>1. {C \in SUBSET visible : start \subseteq C /\ L(t)!Closed(edges, C)}
          = {C \in SUBSET visible : start \subseteq C /\ L(t)!Closed(others, C)}
    OBVIOUS
  <2> QED
    BY <2>1, Zenon DEF L!Reached
<1>2. \A from \in visible : {from} \X L(t)!Reached(edges, visible, {from}) = {from} \X L(t)!Reached(others, visible, {from})
  BY <1>1
<1>3. {{from} \X L(t)!Reached(edges, visible, {from}) : from \in visible}
        = {{from} \X L(t)!Reached(others, visible, {from}) : from \in visible}
  BY <1>2, Zenon
<1> QED
  BY <1>3, Zenon DEF L!Paths

\* What is drawn is true, whatever was stored.
LEMMA Drawings ==
  ASSUME NEW t, L(t)!LanesAssumption, L(t)!IsGraph(slot1), NEW s, NEW visible
  PROVE  L(t)!DrawingIsTrue(s, visible)
<1> DEFINE edges == L(t)!Edges(slot1, visible)
           reduced == L(t)!TransitiveReduction(slot1, s.lane, visible)
           drawn == L(t)!Drawn(slot1, s.lane, visible)
           inlane(k) == L(t)!InLane(s.lane, visible, k)
           path(k) == L(t)!Sorted(slot1, inlane(k))
<1> SUFFICES ASSUME L(t)!Drawable(slot1, s.lane, visible)
             PROVE  /\ \A issue \in visible : \A n \in 1..Len(path(s.lane[issue])) - 1 :
                         <<path(s.lane[issue])[n], path(s.lane[issue])[n + 1]>> \in drawn
                    /\ L(t)!Paths(drawn, visible) = L(t)!Paths(edges, visible)
  BY Zenon DEF L!DrawingIsTrue
<1>1. /\ visible \subseteq DOMAIN slot1
      /\ \A issue \in visible : \A n \in 1..Len(path(s.lane[issue])) - 1 :
           path(s.lane[issue])[n] \in slot1[path(s.lane[issue])[n + 1]]
  BY Zenon DEF L!Drawable, L!IsPath
<1>2. edges = {edge \in visible \X visible : edge[1] \in slot1[edge[2]]}
  BY DEF L!Edges
<1>3. /\ reduced \subseteq edges
      /\ \A C \in SUBSET visible : L(t)!Closed(reduced, C) <=> L(t)!Closed(edges, C)
  BY <1>1, ReductionFacts
<1>4. drawn = reduced
  BY <1>2, <1>3, DrawnIs
<1>5. \A k : inlane(k) = {issue \in visible : s.lane[issue] = k}
  BY DEF L!InLane
<1>6. ASSUME NEW edge \in edges, s.lane[edge[1]] = s.lane[edge[2]],
             NEW n \in 1..Len(path(s.lane[edge[1]])) - 1,
             edge = <<path(s.lane[edge[1]])[n], path(s.lane[edge[1]])[n + 1]>>
      PROVE  edge \in reduced
  BY <1>6 DEF L!TransitiveReduction
<1> HIDE DEF edges, reduced, drawn, inlane, path
<1>7. ASSUME NEW issue \in visible, NEW n \in 1..Len(path(s.lane[issue])) - 1
      PROVE  <<path(s.lane[issue])[n], path(s.lane[issue])[n + 1]>> \in reduced
  <2> DEFINE k == s.lane[issue]
             a == path(k)[n]
             b == path(k)[n + 1]
             K == Cardinality(inlane(k))
  <2>1. inlane(k) \subseteq DOMAIN slot1
    BY <1>1, <1>5
  <2>2. K \in Nat /\ path(k) \in [1..K -> inlane(k)] /\ Len(path(k)) = K
    BY <2>1, SortedFacts DEF path
  <2> HIDE DEF K
  <2>3. n \in 1..K - 1 /\ n \in 1..K /\ n + 1 \in 1..K
    BY <2>2
  <2>4. a \in inlane(k) /\ b \in inlane(k)
    BY <2>2, <2>3
  <2>5. a \in visible /\ b \in visible /\ s.lane[a] = k /\ s.lane[b] = k
    BY <1>5, <2>4
  <2>6. a \in slot1[b]
    BY <1>1 DEF path
  <2>7. <<a, b>> \in edges
    BY <1>2, <2>5, <2>6
  <2> QED
    BY <1>6, <2>5, <2>7
<1>8. L(t)!Paths(reduced, visible) = L(t)!Paths(edges, visible)
  BY <1>3, SamePaths
<1> QED
  BY <1>4, <1>7, <1>8

-----------------------------------------------------------------------------
\* Lanes are paths that have each of some issues once.
SomeLanes == {lanes \in Seq(Seq(Nat)) : \A k \in DOMAIN lanes : Len(lanes[k]) > 0}
Divided(g, lanes, issues) ==
  /\ lanes \in SomeLanes
  /\ \A k \in DOMAIN lanes : \A n \in 1..Len(lanes[k]) - 1 : lanes[k][n] \in g[lanes[k][n + 1]]
  /\ \A k, l \in DOMAIN lanes : \A m \in DOMAIN lanes[k], n \in DOMAIN lanes[l] : lanes[k][m] = lanes[l][n] => k = l /\ m = n
  /\ \A k \in DOMAIN lanes : \A n \in DOMAIN lanes[k] : lanes[k][n] \in issues
  /\ \A issue \in issues : \E k \in DOMAIN lanes : \E n \in DOMAIN lanes[k] : lanes[k][n] = issue

Begun(lanes, issue) == Append(lanes, <<issue>>)
Extended(lanes, k, issue) == [lanes EXCEPT ![k] = Append(lanes[k], issue)]

\* An issue begins a lane or extends one that ends in what it depends on.
LEMMA AssignIs ==
  ASSUME NEW t, NEW g, NEW lanes \in SomeLanes, NEW issue \in Nat
  PROVE  \/ L(t)!Assign(g, lanes, issue) = Begun(lanes, issue)
         \/ \E k \in DOMAIN lanes : /\ lanes[k][Len(lanes[k])] \in g[issue]
                                    /\ L(t)!Assign(g, lanes, issue) = Extended(lanes, k, issue)
<1> DEFINE open == {k \in DOMAIN lanes : L(t)!End(lanes[k]) \in g[issue]}
           chosen == CHOOSE k \in open : \A other \in open : L(t)!End(lanes[k]) <= L(t)!End(lanes[other])
           ends == {L(t)!End(lanes[k]) : k \in open}
<1>1. L(t)!Assign(g, lanes, issue) = IF open = {} THEN Begun(lanes, issue) ELSE Extended(lanes, chosen, issue)
  BY Zenon DEF L!Assign, Begun, Extended
<1>2. ASSUME open # {} PROVE chosen \in open
  <2>1. \A k \in DOMAIN lanes : L(t)!End(lanes[k]) \in Nat
    BY <1>2 DEF L!End, SomeLanes
  <2>2. ends \subseteq Nat /\ ends # {}
    BY <1>2, <2>1
  <2>3. PICK x \in ends : \A y \in ends : x <= y
    <3> HIDE DEF ends
    <3> QED
      BY <2>2, Smallest
  <2>4. \E k \in open : \A other \in open : L(t)!End(lanes[k]) <= L(t)!End(lanes[other])
    BY <2>3
  <2> QED
    BY <2>4
<1>3. \A k \in open : k \in DOMAIN lanes /\ lanes[k][Len(lanes[k])] \in g[issue]
  BY DEF L!End
<1> HIDE DEF open, chosen
<1> QED
  BY <1>1, <1>2, <1>3

\* What Append does to a sequence, element by element.
LEMMA AppendFacts ==
  ASSUME NEW V, NEW s \in Seq(V), NEW x \in V
  PROVE  /\ Append(s, x) \in Seq(V) /\ Len(s) \in Nat /\ DOMAIN s = 1..Len(s) /\ Len(s) + 1 \notin DOMAIN s
         /\ Len(Append(s, x)) = Len(s) + 1 /\ DOMAIN Append(s, x) = DOMAIN s \cup {Len(s) + 1}
         /\ Append(s, x)[Len(s) + 1] = x /\ \A n \in DOMAIN s : Append(s, x)[n] = s[n]
OBVIOUS

\* Lanes after an issue was assigned are lanes of what has been assigned.
LEMMA AssignType ==
  ASSUME NEW t, NEW g, NEW lanes \in SomeLanes, NEW issue \in Nat
  PROVE  L(t)!Assign(g, lanes, issue) \in SomeLanes
<1> DEFINE new == L(t)!Assign(g, lanes, issue)
           one == <<issue>>
           longer(k) == Append(lanes[k], issue)
<1>1. lanes \in Seq(Seq(Nat)) /\ \A k \in DOMAIN lanes : lanes[k] \in Seq(Nat) /\ Len(lanes[k]) > 0
  BY DEF SomeLanes
<1>2. one \in Seq(Nat) /\ Len(one) > 0
  OBVIOUS
<1>3. \A k \in DOMAIN lanes : longer(k) \in Seq(Nat) /\ Len(longer(k)) > 0
  BY <1>1
<1>4. new = Append(lanes, one) \/ \E k \in DOMAIN lanes : new = [lanes EXCEPT ![k] = longer(k)]
  <2>1. new = Begun(lanes, issue) \/ \E k \in DOMAIN lanes : new = Extended(lanes, k, issue)
    BY AssignIs
  <2> QED
    BY <2>1, Zenon DEF Begun, Extended
<1> HIDE DEF new, one, longer
<1>5. CASE new = Append(lanes, one)
  <2>1. new \in Seq(Seq(Nat)) /\ \A k \in DOMAIN new : new[k] = one \/ (k \in DOMAIN lanes /\ new[k] = lanes[k])
    BY <1>1, <1>2, <1>5, AppendFacts
  <2>2. \A k \in DOMAIN new : Len(new[k]) > 0
    BY <1>1, <1>2, <2>1
  <2> QED
    BY <2>1, <2>2 DEF SomeLanes, new
<1>6. CASE \E k \in DOMAIN lanes : new = [lanes EXCEPT ![k] = longer(k)]
  <2>1. PICK c \in DOMAIN lanes : new = [lanes EXCEPT ![c] = longer(c)]
    BY <1>6
  <2>2. new \in Seq(Seq(Nat)) /\ \A k \in DOMAIN new : k \in DOMAIN lanes /\ (new[k] = longer(k) \/ new[k] = lanes[k])
    BY <1>1, <1>3, <2>1
  <2>3. \A k \in DOMAIN new : Len(new[k]) > 0
    BY <1>1, <1>3, <2>2
  <2> QED
    BY <2>2, <2>3 DEF SomeLanes, new
<1> QED
  BY <1>4, <1>5, <1>6

\* An issue that depends on nothing assigned later keeps every lane a path.
LEMMA AssignDivided ==
  ASSUME NEW t, NEW g, NEW lanes, NEW issues, Divided(g, lanes, issues), NEW issue \in Nat, issue \notin issues
  PROVE  Divided(g, L(t)!Assign(g, lanes, issue), issues \cup {issue})
<1> DEFINE new == L(t)!Assign(g, lanes, issue)
           K == Len(lanes) + 1
           one == <<issue>>
<1>0. lanes \in SomeLanes
  BY DEF Divided
<1>1. /\ lanes \in SomeLanes
      /\ \A k \in DOMAIN lanes : \A n \in 1..Len(lanes[k]) - 1 : lanes[k][n] \in g[lanes[k][n + 1]]
      /\ \A k, l \in DOMAIN lanes : \A m \in DOMAIN lanes[k], n \in DOMAIN lanes[l] : lanes[k][m] = lanes[l][n] => k = l /\ m = n
      /\ \A k \in DOMAIN lanes : \A n \in DOMAIN lanes[k] : lanes[k][n] \in issues
      /\ \A i \in issues : \E k \in DOMAIN lanes : \E n \in DOMAIN lanes[k] : lanes[k][n] = i
  BY DEF Divided
<1>2. lanes \in Seq(Seq(Nat)) /\ \A k \in DOMAIN lanes : lanes[k] \in Seq(Nat) /\ Len(lanes[k]) > 0
  BY <1>1 DEF SomeLanes
<1>3. CASE new = Append(lanes, one)
  <2>1. one \in Seq(Nat) /\ DOMAIN one = {1} /\ one[1] = issue /\ Len(one) = 1
    OBVIOUS
  <2> HIDE DEF one
  <2>2. /\ new \in Seq(Seq(Nat)) /\ DOMAIN new = DOMAIN lanes \cup {K} /\ K \notin DOMAIN lanes
        /\ new[K] = one /\ \A k \in DOMAIN lanes : new[k] = lanes[k]
    BY <1>2, <1>3, <2>1, AppendFacts
  <2> HIDE DEF K, new
  <2>3. \A k \in DOMAIN new : k = K \/ k \in DOMAIN lanes
    BY <2>2
  <2>4. new \in SomeLanes
    BY <1>0, AssignType DEF new
  <2>5. \A k \in DOMAIN new : \A n \in 1..Len(new[k]) - 1 : new[k][n] \in g[new[k][n + 1]]
    BY <1>1, <2>1, <2>2, <2>3
  <2>6. \A k \in DOMAIN new : \A n \in DOMAIN new[k] :
          \/ k \in DOMAIN lanes /\ n \in DOMAIN lanes[k] /\ new[k][n] = lanes[k][n] /\ new[k][n] \in issues
          \/ k = K /\ n = 1 /\ new[k][n] = issue
    BY <1>1, <2>1, <2>2, <2>3
  <2>7. \A k, l \in DOMAIN new : \A m \in DOMAIN new[k], n \in DOMAIN new[l] : new[k][m] = new[l][n] => k = l /\ m = n
    BY <1>1, <2>6
  <2>8. \A i \in issues \cup {issue} : \E k \in DOMAIN new : \E n \in DOMAIN new[k] : new[k][n] = i
    BY <1>1, <2>1, <2>2
  <2>9. \A k \in DOMAIN new : \A n \in DOMAIN new[k] : new[k][n] \in issues \cup {issue}
    BY <2>6
  <2> QED
    BY <2>4, <2>5, <2>7, <2>8, <2>9 DEF Divided, new
<1>4. CASE \E k \in DOMAIN lanes : lanes[k][Len(lanes[k])] \in g[issue] /\ new = [lanes EXCEPT ![k] = Append(lanes[k], issue)]
  <2>1. PICK c \in DOMAIN lanes : lanes[c][Len(lanes[c])] \in g[issue] /\ new = [lanes EXCEPT ![c] = Append(lanes[c], issue)]
    BY <1>4
  <2> DEFINE N == Len(lanes[c])
             longer == Append(lanes[c], issue)
  <2>2. /\ longer \in Seq(Nat) /\ N \in Nat /\ N > 0 /\ Len(longer) = N + 1
        /\ DOMAIN lanes[c] = 1..N /\ N + 1 \notin DOMAIN lanes[c] /\ DOMAIN longer = DOMAIN lanes[c] \cup {N + 1}
        /\ longer[N + 1] = issue /\ \A n \in DOMAIN lanes[c] : longer[n] = lanes[c][n]
    BY <1>2, AppendFacts
  <2>3. lanes[c][N] \in g[issue]
    BY <2>1
  <2> HIDE DEF longer
  <2>4. new \in Seq(Seq(Nat)) /\ DOMAIN new = DOMAIN lanes /\ new[c] = longer /\ \A k \in DOMAIN lanes : k # c => new[k] = lanes[k]
    BY <1>2, <2>1, <2>2 DEF longer
  <2> HIDE DEF N, new
  <2>5. new \in SomeLanes
    BY <1>0, AssignType DEF new
  <2>6. \A n \in 1..Len(longer) - 1 : longer[n] \in g[longer[n + 1]]
    <3> SUFFICES ASSUME NEW n \in 1..N PROVE longer[n] \in g[longer[n + 1]]
      BY <2>2
    <3>1. CASE n = N
      BY <2>2, <2>3, <3>1
    <3>2. CASE n # N
      <4>1. n \in 1..N - 1 /\ n \in 1..N /\ n + 1 \in 1..N
        BY <2>2, <3>2
      <4>2. lanes[c][n] \in g[lanes[c][n + 1]]
        BY <1>1, <4>1 DEF N
      <4> QED
        BY <2>2, <4>1, <4>2
    <3> QED
      BY <3>1, <3>2
  <2>7. \A k \in DOMAIN new : \A n \in 1..Len(new[k]) - 1 : new[k][n] \in g[new[k][n + 1]]
    <3> SUFFICES ASSUME NEW k \in DOMAIN new, NEW n \in 1..Len(new[k]) - 1 PROVE new[k][n] \in g[new[k][n + 1]]
      OBVIOUS
    <3>1. CASE k = c
      BY <2>4, <2>6, <3>1
    <3>2. CASE k # c
      BY <1>1, <2>4, <3>2
    <3> QED
      BY <3>1, <3>2
  <2>8. \A k \in DOMAIN new : \A n \in DOMAIN new[k] :
          \/ n \in DOMAIN lanes[k] /\ new[k][n] = lanes[k][n] /\ new[k][n] \in issues
          \/ k = c /\ n = N + 1 /\ new[k][n] = issue
    <3> SUFFICES ASSUME NEW k \in DOMAIN new, NEW n \in DOMAIN new[k]
                 PROVE  \/ n \in DOMAIN lanes[k] /\ new[k][n] = lanes[k][n] /\ new[k][n] \in issues
                        \/ k = c /\ n = N + 1 /\ new[k][n] = issue
      OBVIOUS
    <3>1. CASE k = c
      <4>1. n = N + 1 \/ n \in DOMAIN lanes[c]
        BY <2>2, <2>4, <3>1
      <4>2. new[k][n] = longer[n]
        BY <2>4, <3>1
      <4> QED
        BY <1>1, <2>2, <3>1, <4>1, <4>2
    <3>2. CASE k # c
      BY <1>1, <2>4, <3>2
    <3> QED
      BY <3>1, <3>2
  <2>9. \A k, l \in DOMAIN new : \A m \in DOMAIN new[k], n \in DOMAIN new[l] : new[k][m] = new[l][n] => k = l /\ m = n
    <3> SUFFICES ASSUME NEW k \in DOMAIN new, NEW l \in DOMAIN new, NEW m \in DOMAIN new[k], NEW n \in DOMAIN new[l],
                        new[k][m] = new[l][n]
                 PROVE  k = l /\ m = n
      OBVIOUS
    <3>1. \/ m \in DOMAIN lanes[k] /\ new[k][m] = lanes[k][m] /\ new[k][m] \in issues
          \/ k = c /\ m = N + 1 /\ new[k][m] = issue
      BY <2>8
    <3>2. \/ n \in DOMAIN lanes[l] /\ new[l][n] = lanes[l][n] /\ new[l][n] \in issues
          \/ l = c /\ n = N + 1 /\ new[l][n] = issue
      BY <2>8
    <3>3. k \in DOMAIN lanes /\ l \in DOMAIN lanes
      BY <2>4
    <3> QED
      BY <1>1, <3>1, <3>2, <3>3
  <2>10. \A k \in DOMAIN lanes : \A n \in DOMAIN lanes[k] : n \in DOMAIN new[k] /\ new[k][n] = lanes[k][n]
    <3> SUFFICES ASSUME NEW k \in DOMAIN lanes, NEW n \in DOMAIN lanes[k] PROVE n \in DOMAIN new[k] /\ new[k][n] = lanes[k][n]
      OBVIOUS
    <3>1. CASE k = c
      BY <2>2, <2>4, <3>1
    <3>2. CASE k # c
      BY <2>4, <3>2
    <3> QED
      BY <3>1, <3>2
  <2>11. N + 1 \in DOMAIN new[c] /\ new[c][N + 1] = issue
    BY <2>2, <2>4
  <2>12. \A i \in issues \cup {issue} : \E k \in DOMAIN new : \E n \in DOMAIN new[k] : new[k][n] = i
    BY <1>1, <2>4, <2>10, <2>11
  <2>13. \A k \in DOMAIN new : \A n \in DOMAIN new[k] : new[k][n] \in issues \cup {issue}
    BY <2>8
  <2> QED
    BY <2>5, <2>7, <2>9, <2>12, <2>13 DEF Divided, new
<1>5. \/ new = Append(lanes, one)
      \/ \E k \in DOMAIN lanes : lanes[k][Len(lanes[k])] \in g[issue] /\ new = [lanes EXCEPT ![k] = Append(lanes[k], issue)]
  <2>1. \/ new = Begun(lanes, issue)
        \/ \E k \in DOMAIN lanes : lanes[k][Len(lanes[k])] \in g[issue] /\ new = Extended(lanes, k, issue)
    BY <1>0, AssignIs
  <2> QED
    BY <2>1, Zenon DEF Begun, Extended
<1> QED
  BY <1>3, <1>4, <1>5

\* What a decomposition has done after n issues of an order.
LEMMA LanesAfterIs ==
  ASSUME NEW t, NEW g, NEW order \in Seq(Nat)
  PROVE  /\ L(t)!LanesAfter(g, order)[0] = <<>>
         /\ \A n \in 1..Len(order) : L(t)!LanesAfter(g, order)[n] = L(t)!Assign(g, L(t)!LanesAfter(g, order)[n - 1], order[n])
<1> DEFINE N == Len(order)
           V == SomeLanes
           f == [x \in (1..N) \X V |-> L(t)!Assign(g, x[2], order[x[1]])]
           after == L(t)!LanesAfter(g, order)
           none == <<>>
<1>1. after = CHOOSE h : h = [n \in 0..N |-> IF n = 0 THEN <<>> ELSE L(t)!Assign(g, h[n - 1], order[n])]
  BY Zenon DEF L!LanesAfter
<1>2. N \in Nat /\ none \in V /\ \A n \in 1..N : order[n] \in Nat
  BY DEF SomeLanes
<1> HIDE DEF after, N
<1>3. \A lanes \in V, n \in 1..N : L(t)!Assign(g, lanes, order[n]) \in V
  BY <1>2, AssignType
<1>4. f \in [(1..N) \X V -> V]
  <2> HIDE DEF V
  <2> QED
    BY <1>3
<1>5. PICK h \in [0..N -> V] : h[0] = none /\ \A n \in 1..N : h[n] = f[<<n, h[n - 1]>>]
  <2> HIDE DEF f, V, none
  <2>1. StepsOf(N, V, none, f) # {}
    BY <1>2, <1>4, Steps
  <2> QED
    BY <2>1 DEF StepsOf
<1>6. \A n \in 1..N : h[n] = L(t)!Assign(g, h[n - 1], order[n])
  <2> SUFFICES ASSUME NEW n \in 1..N PROVE h[n] = L(t)!Assign(g, h[n - 1], order[n])
    OBVIOUS
  <2>1. n - 1 \in 0..N
    BY <1>2
  <2> HIDE DEF V
  <2>2. <<n, h[n - 1]>> \in (1..N) \X V
    BY <2>1
  <2>3. f[<<n, h[n - 1]>>] = L(t)!Assign(g, h[n - 1], order[n])
    BY <2>2
  <2> QED
    BY <1>5, <2>3
<1>7. h = [n \in 0..N |-> IF n = 0 THEN <<>> ELSE L(t)!Assign(g, h[n - 1], order[n])]
  <2> HIDE DEF V
  <2>1. \A n \in 0..N : h[n] = IF n = 0 THEN <<>> ELSE L(t)!Assign(g, h[n - 1], order[n])
    BY <1>2, <1>5, <1>6
  <2> QED
    BY <2>1
<1>8. after = [n \in 0..N |-> IF n = 0 THEN <<>> ELSE L(t)!Assign(g, after[n - 1], order[n])]
  BY <1>1, <1>7, Zenon
<1>9. after[0] = <<>> /\ \A n \in 1..N : after[n] = L(t)!Assign(g, after[n - 1], order[n])
  BY <1>2, <1>8
<1> QED
  BY <1>9 DEF after, N

\* A decomposition divides the issues of the graph into lanes.
LEMMA DecomposeFacts ==
  ASSUME NEW t, L(t)!LanesAssumption, NEW g, L(t)!IsGraph(g), NEW closure, closure \subseteq DOMAIN g
  PROVE  Divided(g, L(t)!DecomposeLanes(g, closure), closure)
<1> DEFINE K == Cardinality(closure)
           order == L(t)!Sorted(g, closure)
           after == L(t)!LanesAfter(g, order)
           done(n) == {order[m] : m \in 1..n}
<1>1. closure \subseteq Nat
  BY DEF L!IsGraph, L!LanesAssumption
<1>2. K \in Nat /\ order \in Seq(closure) /\ order \in [1..K -> closure] /\ Len(order) = K
  BY SortedFacts
<1>3. /\ \A issue \in closure : \E n \in 1..K : order[n] = issue
      /\ \A m, n \in 1..K : m < n => order[m] # order[n]
  BY SortedOrder
<1>4. L(t)!DecomposeLanes(g, closure) = after[K]
  BY SameFinite, Zenon DEF L!DecomposeLanes
<1> HIDE DEF K, order
<1>5. order \in Seq(Nat)
  BY <1>1, <1>2
<1>6. after[0] = <<>> /\ \A n \in 1..K : after[n] = L(t)!Assign(g, after[n - 1], order[n])
  BY <1>2, <1>5, LanesAfterIs
<1> HIDE DEF after
<1> DEFINE T == {n \in 0..K : Divided(g, after[n], done(n))}
<1>7. 0 \in T
  <2>1. <<>> \in SomeLanes /\ DOMAIN <<>> = {}
    BY DEF SomeLanes
  <2>2. Divided(g, <<>>, {})
    BY <2>1 DEF Divided
  <2>3. done(0) = {} /\ 0 \in 0..K
    BY <1>2
  <2> QED
    BY <1>6, <2>2, <2>3
<1>8. ASSUME NEW n \in 1..K, n - 1 \in T PROVE n \in T
  <2>1. Divided(g, after[n - 1], done(n - 1))
    BY <1>8
  <2>2. order[n] \in Nat
    BY <1>1, <1>2
  <2>3. order[n] \notin done(n - 1)
    <3>1. \A m \in 1..(n - 1) : m \in 1..K /\ m < n
      BY <1>2
    <3> QED
      BY <1>3, <3>1
  <2>4. done(n) = done(n - 1) \cup {order[n]}
    <3>1. 1..n = 1..(n - 1) \cup {n}
      BY <1>2
    <3> QED
      BY <3>1
  <2>5. n \in 0..K
    BY <1>2
  <2> HIDE DEF done
  <2>6. Divided(g, after[n], done(n))
    BY <1>6, <2>1, <2>2, <2>3, <2>4, AssignDivided
  <2> QED
    BY <2>5, <2>6
<1>9. \A n \in 0..K : n \in T
  <2> HIDE DEF T
  <2> QED
    BY <1>2, <1>7, <1>8, UpTo
<1>10. K \in 0..K /\ done(K) = closure
  BY <1>2, <1>3
<1>11. Divided(g, after[K], done(K))
  BY <1>9, <1>10
<1> QED
  BY <1>4, <1>10, <1>11

\* What is in a lane, in order, is the lane.
LEMMA LaneOrder ==
  ASSUME NEW t, L(t)!LanesAssumption, NEW g, L(t)!IsGraph(g), NEW path \in Seq(Nat), NEW S, S \subseteq DOMAIN g,
         S = {path[n] : n \in DOMAIN path},
         \A m, n \in DOMAIN path : path[m] = path[n] => m = n,
         \A n \in 1..Len(path) - 1 : path[n] \in g[path[n + 1]]
  PROVE  /\ Len(L(t)!Sorted(g, S)) = Len(path)
         /\ \A n \in 1..Len(path) : L(t)!Sorted(g, S)[n] = path[n]
<1> DEFINE N == Len(path)
<1>1. N \in Nat /\ path \in [1..N -> S] /\ DOMAIN path = 1..N
  OBVIOUS
<1>2. \A m, n \in 1..N : path[m] = path[n] => m = n
  BY <1>1
<1>3. \A issue \in S : \E n \in 1..N : path[n] = issue
  BY <1>1
<1>4. Cardinality(S) = N
  <2>1. path \in Bijection(1..N, S)
    BY <1>1, <1>2, <1>3 DEF Bijection, Injection, IsInjective, Surjection
  <2>2. ExistsBijection(1..N, S)
    BY <2>1 DEF ExistsBijection
  <2>3. IsFiniteSet(1..N) /\ Cardinality(1..N) = N
    BY <1>1, FS_Interval
  <2> QED
    BY <2>2, <2>3, FS_Bijection
<1>5. \A n \in 1..N - 1 : path[n] \in g[path[n + 1]]
  OBVIOUS
<1> HIDE DEF N
<1>6. \A n \in 1..N : L(t)!Sorted(g, S)[n] = path[n]
  BY <1>1, <1>2, <1>3, <1>4, <1>5, SortedChain, SMTT(30)
<1>7. Len(L(t)!Sorted(g, S)) = N
  BY <1>4, SortedFacts
<1> QED
  BY <1>6, <1>7 DEF N

\* What is selected and divided is whole.
LEMMA ProjectWhole ==
  ASSUME NEW t, L(t)!LanesAssumption, NEW g, L(t)!IsGraph(g), NEW roots, roots \subseteq DOMAIN g, NEW policy \in L(t)!Policies
  PROVE  L(t)!SelectionIsWhole(L(t)!Project(g, roots, policy))
<1> DEFINE closure == L(t)!DependencyComponent(g, roots, policy)
           lanes == L(t)!DecomposeLanes(g, closure)
           lane == [issue \in closure |-> CHOOSE k \in DOMAIN lanes : issue \in L(t)!Range(lanes[k])]
           s == L(t)!Project(g, roots, policy)
           inlane(k) == L(t)!InLane(lane, closure, k)
<1>1. s = [roots |-> roots, closure |-> closure, graph |-> g, policy |-> policy, lane |-> lane]
  BY Zenon DEF L!Project
<1>2. /\ roots \subseteq closure /\ closure \subseteq DOMAIN g
      /\ \A C \in SUBSET closure :
           roots \subseteq C /\ (\A issue \in C : L(t)!Neighbours(g, issue) \cap closure \subseteq C) => C = closure
      /\ policy.children = {} =>
           \A issue \in closure : issue \in roots \/ Showing[t].kinds[issue] = "none" => L(t)!Neighbours(g, issue) \subseteq closure
  BY ComponentFacts
<1>3. Divided(g, lanes, closure)
  BY <1>2, DecomposeFacts
<1>10. \A k \in DOMAIN lanes : lanes[k] \in Seq(Nat) /\ \A n \in 1..Len(lanes[k]) - 1 : lanes[k][n] \in g[lanes[k][n + 1]]
  BY <1>3 DEF Divided, SomeLanes
<1>11. \A k, l \in DOMAIN lanes : \A m \in DOMAIN lanes[k], n \in DOMAIN lanes[l] : lanes[k][m] = lanes[l][n] => k = l /\ m = n
  BY <1>3 DEF Divided
<1>12. \A k \in DOMAIN lanes : \A n \in DOMAIN lanes[k] : lanes[k][n] \in closure
  BY <1>3 DEF Divided
<1>13. \A issue \in closure : \E k \in DOMAIN lanes : \E n \in DOMAIN lanes[k] : lanes[k][n] = issue
  BY <1>3 DEF Divided
<1>4. \A k : L(t)!Range(lanes[k]) = {lanes[k][n] : n \in DOMAIN lanes[k]}
  BY DEF L!Range
<1>5. \A k : inlane(k) = {issue \in closure : lane[issue] = k}
  BY DEF L!InLane
<1> HIDE DEF closure, lanes, s, inlane
<1>6. \A issue \in closure : lane[issue] \in DOMAIN lanes /\ issue \in L(t)!Range(lanes[lane[issue]])
  <2> SUFFICES ASSUME NEW issue \in closure PROVE lane[issue] \in DOMAIN lanes /\ issue \in L(t)!Range(lanes[lane[issue]])
    OBVIOUS
  <2>1. \E k \in DOMAIN lanes : issue \in L(t)!Range(lanes[k])
    BY <1>4, <1>13
  <2>2. lane[issue] = CHOOSE k \in DOMAIN lanes : issue \in L(t)!Range(lanes[k])
    OBVIOUS
  <2> QED
    BY <2>1, <2>2, Zenon
<1> HIDE DEF lane
<1>7. ASSUME NEW i \in closure
      PROVE  \A n \in 1..Len(L(t)!Sorted(g, inlane(lane[i]))) - 1 :
               L(t)!Sorted(g, inlane(lane[i]))[n] \in g[L(t)!Sorted(g, inlane(lane[i]))[n + 1]]
  <2> DEFINE path == lanes[lane[i]]
             order == L(t)!Sorted(g, inlane(lane[i]))
  <2>1. /\ path \in Seq(Nat) /\ \A m, n \in DOMAIN path : path[m] = path[n] => m = n
        /\ \A n \in 1..Len(path) - 1 : path[n] \in g[path[n + 1]]
    BY <1>6, <1>10, <1>11
  <2>2. inlane(lane[i]) = {path[n] : n \in DOMAIN path}
    <3>1. ASSUME NEW issue \in inlane(lane[i]) PROVE issue \in {path[n] : n \in DOMAIN path}
      BY <1>4, <1>5, <1>6, <3>1
    <3>2. ASSUME NEW n \in DOMAIN path PROVE path[n] \in inlane(lane[i])
      <4>1. path[n] \in closure
        BY <1>6, <1>12
      <4>2. lane[path[n]] \in DOMAIN lanes /\ path[n] \in L(t)!Range(lanes[lane[path[n]]])
        BY <1>6, <4>1
      <4>3. PICK m \in DOMAIN lanes[lane[path[n]]] : lanes[lane[path[n]]][m] = path[n]
        <5> HIDE DEF path
        <5>1. path[n] \in {lanes[lane[path[n]]][m] : m \in DOMAIN lanes[lane[path[n]]]}
          BY <1>4, <4>2
        <5> QED
          BY <5>1
      <4>4. lane[path[n]] = lane[i]
        BY <1>6, <1>11, <4>2, <4>3
      <4> QED
        BY <1>5, <4>1, <4>4
    <3> QED
      BY <3>1, <3>2
  <2>3. inlane(lane[i]) \subseteq DOMAIN g
    BY <1>2, <1>5
  <2> HIDE DEF path
  <2>4. Len(order) = Len(path) /\ \A n \in 1..Len(path) : order[n] = path[n]
    BY <2>1, <2>2, <2>3, LaneOrder, SMTT(30)
  <2>5. Len(path) \in Nat
    BY <2>1
  <2> HIDE DEF order
  <2>6. \A n \in 1..Len(order) - 1 : order[n] \in g[order[n + 1]]
    BY <2>1, <2>4, <2>5
  <2> QED
    BY <2>6 DEF order
<1>8. s.roots = roots /\ s.closure = closure /\ s.graph = g /\ s.policy = policy /\ s.lane = lane
  BY <1>1
<1>9. L(t)!SelectionIsWhole(s)
  BY <1>2, <1>7, <1>8, Zenon DEF L!SelectionIsWhole, inlane
<1> QED
  BY <1>9 DEF s

-----------------------------------------------------------------------------
\* Nothing is whole, and so is a command that has not begun.
LEMMA NothingWhole ==
  ASSUME NEW t
  PROVE  /\ L(t)!Chosen(L(t)!NoSelection) /\ L(t)!SelectionIsWhole(L(t)!NoSelection)
         /\ L(t)!Sound(L(t)!Idle)
<1> DEFINE none == L(t)!NoSelection
<1>1. none = [roots |-> {}, closure |-> {}, lane |-> <<>>, graph |-> <<>>, policy |-> L(t)!DefaultPolicy]
  BY DEF L!NoSelection
<1>2. L(t)!DefaultPolicy \in L(t)!Policies
  <2> DEFINE zero == [kind \in L(t)!PolicyKinds |-> 0]
  <2>1. zero \in [L(t)!PolicyKinds -> Nat] /\ zero["group"] = 0
    BY DEF L!PolicyKinds
  <2>2. L(t)!DefaultPolicy = [follow |-> zero, children |-> {}]
    BY DEF L!DefaultPolicy
  <2> HIDE DEF zero
  <2> QED
    BY <2>1, <2>2 DEF L!Policies
<1> HIDE DEF none
<1>3. none.roots = {} /\ none.closure = {} /\ none.policy \in L(t)!Policies
  BY <1>1, <1>2
<1>4. L(t)!Chosen(none)
  BY <1>3 DEF L!Chosen
<1>5. L(t)!SelectionIsWhole(none)
  BY <1>3 DEF L!SelectionIsWhole
<1>6. L(t)!Idle = [pc |-> "idle", op |-> "none", roots |-> {}, policy |-> L(t)!DefaultPolicy, expected |-> 0, value |-> none]
  BY DEF L!Idle, none
<1>7. L(t)!Sound(L(t)!Idle)
  BY <1>2, <1>4, <1>6 DEF L!Sound, L!Chosen
<1> QED
  BY <1>4, <1>5, <1>7 DEF none

\* Nothing is stored or about to be at first.
LEMMA LanesInit == ASSUME NEW t, L(t)!LanesAssumption, L(t)!Init PROVE L(t)!IInv
<1>1. L(t)!Chosen(slot2) /\ L(t)!SelectionIsWhole(slot2) /\ \A p \in Showing[t].procs : L(t)!Sound(slot4[p])
  BY NothingWhole DEF L!Init
<1> QED
  BY <1>1 DEF L!Init, L!IInv, L!LanesAssumption

\* The invariant of the next state.
LEMMA LanesLater ==
  ASSUME NEW t, slot1' \in Showing[t].graphs, slot3' \in 0..Showing[t].revisions, DOMAIN slot4' = Showing[t].procs,
         L(t)!Chosen(slot2'), L(t)!SelectionIsWhole(slot2'), \A p \in Showing[t].procs : L(t)!Sound(slot4'[p])
  PROVE  L(t)!IInv'
<1>1. (\A p \in Showing[t].procs : L(t)!Sound(slot4[p]))'
  BY DEF L!Sound, L!Chosen, L!SelectionIsWhole
<1>2. L(t)!Chosen(slot2)' /\ L(t)!SelectionIsWhole(slot2)'
  BY DEF L!Chosen, L!SelectionIsWhole
<1> QED
  BY <1>1, <1>2 DEF L!IInv

\* A command takes a step, the record and the graph stay.
LEMMA LanesMove ==
  ASSUME NEW t, L(t)!IInv, NEW p \in Showing[t].procs, NEW step, L(t)!Sound(step),
         slot4' = [slot4 EXCEPT ![p] = step], UNCHANGED <<slot1, slot2, slot3>>
  PROVE  L(t)!IInv'
<1>1. DOMAIN slot4' = Showing[t].procs /\ \A q \in Showing[t].procs : slot4'[q] = IF q = p THEN step ELSE slot4[q]
  BY DEF L!IInv
<1>2. \A q \in Showing[t].procs : L(t)!Sound(slot4'[q])
  BY <1>1 DEF L!IInv
<1> QED
  BY <1>1, <1>2, LanesLater DEF L!IInv

\* What a command remembers when it begins, and what it is about to store.
Began(old, op, roots, policy, expected) ==
  [old EXCEPT !.pc = "prepare", !.op = op, !.roots = roots, !.policy = policy, !.expected = expected]
Projected(old, value) == [old EXCEPT !.pc = "write", !.value = value]

LEMMA BeginFields ==
  ASSUME NEW old, old = [pc |-> old.pc, op |-> old.op, roots |-> old.roots, policy |-> old.policy, expected |-> old.expected, value |-> old.value],
         NEW op, NEW roots, NEW policy, NEW expected
  PROVE  Began(old, op, roots, policy, expected)
           = [pc |-> "prepare", op |-> op, roots |-> roots, policy |-> policy, expected |-> expected, value |-> old.value]
<1> DEFINE new == Began(old, op, roots, policy, expected)
<1>1. old \in [pc : {old.pc}, op : {old.op}, roots : {old.roots}, policy : {old.policy}, expected : {old.expected}, value : {old.value}]
  OBVIOUS
<1>2. new \in [pc : {"prepare"}, op : {op}, roots : {roots}, policy : {policy}, expected : {expected}, value : {old.value}]
  BY <1>1 DEF Began
<1> HIDE DEF new
<1>3. new = [pc |-> "prepare", op |-> op, roots |-> roots, policy |-> policy, expected |-> expected, value |-> old.value]
  BY <1>2
<1> QED
  BY <1>3 DEF new

LEMMA ProjectFields ==
  ASSUME NEW old, old = [pc |-> old.pc, op |-> old.op, roots |-> old.roots, policy |-> old.policy, expected |-> old.expected, value |-> old.value],
         NEW value
  PROVE  Projected(old, value)
           = [pc |-> "write", op |-> old.op, roots |-> old.roots, policy |-> old.policy, expected |-> old.expected, value |-> value]
<1> DEFINE new == Projected(old, value)
<1>1. old \in [pc : {old.pc}, op : {old.op}, roots : {old.roots}, policy : {old.policy}, expected : {old.expected}, value : {old.value}]
  OBVIOUS
<1>2. new \in [pc : {"write"}, op : {old.op}, roots : {old.roots}, policy : {old.policy}, expected : {old.expected}, value : {value}]
  BY <1>1 DEF Projected
<1> HIDE DEF new
<1>3. new = [pc |-> "write", op |-> old.op, roots |-> old.roots, policy |-> old.policy, expected |-> old.expected, value |-> value]
  BY <1>2
<1> QED
  BY <1>3 DEF new

\* A command begins with roots and a policy that may be asked for.
LEMMA LanesBegin ==
  ASSUME NEW t, L(t)!IInv, NEW p \in Showing[t].procs, NEW op, NEW roots, roots \subseteq Showing[t].issues,
         NEW policy \in L(t)!Policies, L(t)!Begin(p, op, roots, policy)
  PROVE  L(t)!IInv'
<1> DEFINE none == L(t)!NoSelection
           idle == L(t)!Idle
           step == [idle EXCEPT !.pc = "prepare", !.op = op, !.roots = roots, !.policy = policy, !.expected = slot3]
<1>1. step = [pc |-> "prepare", op |-> op, roots |-> roots, policy |-> policy, expected |-> slot3, value |-> none]
  <2>1. idle = [pc |-> idle.pc, op |-> idle.op, roots |-> idle.roots, policy |-> idle.policy, expected |-> idle.expected, value |-> idle.value]
        /\ idle.value = none
    BY DEF L!Idle
  <2>2. step = Began(idle, op, roots, policy, slot3)
    BY DEF Began
  <2> HIDE DEF none, idle, step
  <2> QED
    BY <2>1, <2>2, BeginFields
<1>2. slot4' = [slot4 EXCEPT ![p] = step] /\ UNCHANGED <<slot1, slot2, slot3>>
  BY DEF L!Begin
<1>3. L(t)!Chosen(none)
  BY NothingWhole
<1> HIDE DEF step, none
<1>4. L(t)!Sound(step)
  BY <1>1, <1>3 DEF L!Sound, L!Chosen
<1> QED
  BY <1>2, <1>4, LanesMove

\* A command that is over is about to store nothing.
LEMMA LanesReturn ==
  ASSUME NEW t, L(t)!IInv, NEW p \in Showing[t].procs, L(t)!Return(p), UNCHANGED <<slot1, slot2, slot3>>
  PROVE  L(t)!IInv'
<1> DEFINE step == L(t)!Idle
<1>1. L(t)!Sound(step) /\ slot4' = [slot4 EXCEPT ![p] = step]
  BY NothingWhole DEF L!Return
<1> HIDE DEF step
<1> QED
  BY <1>1, LanesMove

\* Each step of a command, and a clear.
LEMMA PrepareStep ==
  ASSUME NEW t, L(t)!IInv, NEW p \in Showing[t].procs, L(t)!Prepare(p)
  PROVE  L(t)!IInv'
<1> DEFINE old == slot4[p]
           step == [old EXCEPT !.pc = "project"]
<1>1. L(t)!Sound(old)
  BY DEF L!IInv
<1>2. slot4' = [slot4 EXCEPT ![p] = step] /\ UNCHANGED <<slot1, slot2, slot3>>
  BY DEF L!Prepare
<1> HIDE DEF old
<1>3. L(t)!Sound(step)
  BY <1>1 DEF L!Sound, L!Chosen
<1> HIDE DEF step
<1> QED
  BY <1>2, <1>3, LanesMove

LEMMA ProjectStep ==
  ASSUME NEW t, L(t)!LanesAssumption, L(t)!IInv, NEW p \in Showing[t].procs, L(t)!ProjectSelection(p)
  PROVE  L(t)!IInv'
<1> DEFINE old == slot4[p]
           value == L(t)!Project(slot1, old.roots, old.policy)
           step == [old EXCEPT !.pc = "write", !.value = value]
<1>1. L(t)!Sound(old) /\ L(t)!IsGraph(slot1)
  BY DEF L!IInv, L!LanesAssumption
<1>2. old.roots \subseteq Showing[t].issues /\ old.policy \in L(t)!Policies
  BY <1>1 DEF L!Sound, L!Chosen
<1>3. slot4' = [slot4 EXCEPT ![p] = step] /\ UNCHANGED <<slot1, slot2, slot3>> /\ old.roots \subseteq DOMAIN slot1
  BY DEF L!ProjectSelection
<1>4. L(t)!SelectionIsWhole(value)
  BY <1>1, <1>2, <1>3, ProjectWhole
<1>5. value.roots = old.roots /\ value.policy = old.policy
  BY DEF L!Project
<1> HIDE DEF old, value
<1>6. L(t)!Chosen(value)
  BY <1>2, <1>5 DEF L!Chosen
<1>7. L(t)!Sound(step)
  <2>1. old = [pc |-> old.pc, op |-> old.op, roots |-> old.roots, policy |-> old.policy, expected |-> old.expected, value |-> old.value]
    BY <1>1 DEF L!Sound
  <2>2. step = [pc |-> "write", op |-> old.op, roots |-> old.roots, policy |-> old.policy, expected |-> old.expected, value |-> value]
    <3>1. step = Projected(old, value)
      BY DEF Projected
    <3> HIDE DEF step
    <3> QED
      BY <2>1, <3>1, ProjectFields
  <2>3. L(t)!Chosen(step)
    BY <1>2, <2>2 DEF L!Chosen
  <2> HIDE DEF step
  <2> QED
    BY <1>4, <1>6, <2>2, <2>3 DEF L!Sound
<1> HIDE DEF step
<1> QED
  BY <1>3, <1>7, LanesMove

LEMMA StoreStep ==
  ASSUME NEW t, L(t)!LanesAssumption, L(t)!IInv, NEW p \in Showing[t].procs, L(t)!Write(p)
  PROVE  L(t)!IInv'
<1> DEFINE old == slot4[p]
<1>1. L(t)!Sound(old) /\ old.pc = "write"
  BY DEF L!IInv, L!Write, L!pc
<1>2. L(t)!Chosen(old.value) /\ L(t)!SelectionIsWhole(old.value)
  BY <1>1 DEF L!Sound
<1>3. slot2' = old.value /\ slot1' = slot1 /\ slot4' = [slot4 EXCEPT ![p] = L(t)!Idle] /\ slot3' = slot3 + 1 /\ slot3 < Showing[t].revisions
  BY DEF L!Write, L!Return
<1>4. DOMAIN slot4' = Showing[t].procs /\ \A q \in Showing[t].procs : slot4'[q] = L(t)!Idle \/ slot4'[q] = slot4[q]
  BY <1>3 DEF L!IInv
<1>5. \A q \in Showing[t].procs : L(t)!Sound(slot4'[q])
  BY <1>4, NothingWhole DEF L!IInv
<1>6. slot3' \in 0..Showing[t].revisions
  BY <1>3 DEF L!IInv, L!LanesAssumption
<1>7. slot1' \in Showing[t].graphs
  BY <1>3 DEF L!IInv
<1> HIDE DEF old
<1> QED
  BY <1>2, <1>3, <1>4, <1>5, <1>6, <1>7, LanesLater

LEMMA ClearStep ==
  ASSUME NEW t, L(t)!LanesAssumption, L(t)!IInv, L(t)!Clear
  PROVE  L(t)!IInv'
<1>1. slot2' = L(t)!NoSelection /\ slot3' = slot3 + 1 /\ slot3 < Showing[t].revisions /\ slot1' = slot1 /\ slot4' = slot4
  BY DEF L!Clear
<1>2. slot3' \in 0..Showing[t].revisions
  BY <1>1 DEF L!IInv, L!LanesAssumption
<1>3. slot1' \in Showing[t].graphs /\ DOMAIN slot4' = Showing[t].procs /\ \A p \in Showing[t].procs : L(t)!Sound(slot4'[p])
  BY <1>1 DEF L!IInv
<1>4. L(t)!Chosen(slot2') /\ L(t)!SelectionIsWhole(slot2')
  BY <1>1, NothingWhole
<1> QED
  BY <1>2, <1>3, <1>4, LanesLater

\* The invariant of the lanes holds in every behaviour.
LEMMA LanesNext ==
  ASSUME NEW t, L(t)!LanesAssumption, L(t)!IInv, L(t)!Next
  PROVE  L(t)!IInv'
<1>1. L(t)!Chosen(slot2) /\ slot2.roots \subseteq Showing[t].issues /\ slot2.policy \in L(t)!Policies
  BY DEF L!IInv, L!Chosen
<1>2. ASSUME NEW p \in Showing[t].procs, NEW words \in Showing[t].words, NEW policy \in Showing[t].asked,
             L(t)!Select(p, words, policy) \/ L(t)!AddRoots(p, words, {policy, slot2.policy})
               \/ L(t)!RemoveRoots(p, words, {policy, slot2.policy})
      PROVE  L(t)!IInv'
  <2>1. words \subseteq Showing[t].issues /\ policy \in L(t)!Policies
    BY DEF L!LanesAssumption
  <2>2. CASE L(t)!Select(p, words, policy)
    BY <2>1, <2>2, LanesBegin DEF L!Select
  <2>3. CASE L(t)!AddRoots(p, words, {policy, slot2.policy})
    <3>1. PICK which \in {policy, slot2.policy} : L(t)!Begin(p, "change", slot2.roots \cup words, which)
      BY <2>3 DEF L!AddRoots
    <3> QED
      BY <1>1, <2>1, <3>1, LanesBegin
  <2>4. CASE L(t)!RemoveRoots(p, words, {policy, slot2.policy})
    <3>1. PICK which \in {policy, slot2.policy} : L(t)!Begin(p, "change", slot2.roots \ words, which)
      BY <2>4 DEF L!RemoveRoots
    <3> QED
      BY <1>1, <2>1, <3>1, LanesBegin
  <2> QED
    BY <1>2, <2>2, <2>3, <2>4
<1>3. ASSUME NEW p \in Showing[t].procs, L(t)!Refresh(p) PROVE L(t)!IInv'
  BY <1>1, <1>3, LanesBegin DEF L!Refresh
<1>4. ASSUME NEW p \in Showing[t].procs, L(t)!GiveUp(p) \/ L(t)!WriteStale(p) PROVE L(t)!IInv'
  BY <1>4, LanesReturn DEF L!GiveUp, L!WriteStale
<1>5. ASSUME NEW g \in Showing[t].graphs, L(t)!GraphChanges(g) PROVE L(t)!IInv'
  <2>1. slot1' = g /\ slot2' = slot2 /\ slot3' = slot3 /\ slot4' = slot4
    BY <1>5 DEF L!GraphChanges
  <2> QED
    BY <2>1, LanesLater DEF L!IInv
<1> QED
  BY <1>2, <1>3, <1>4, <1>5, PrepareStep, ProjectStep, StoreStep, ClearStep DEF L!Next

\* A selection whose graph is as it was can be drawn, all of it and lane by lane.
LEMMA FreshIsDrawn ==
  ASSUME NEW t, NEW s, L(t)!SelectionIsWhole(s), NEW visible \in L(t)!Views(s)
  PROVE  L(t)!Drawable(s.graph, s.lane, visible)
<1> DEFINE inlane(k) == L(t)!InLane(s.lane, s.closure, k)
           path(k) == L(t)!Sorted(s.graph, inlane(k))
<1>1. s.closure \subseteq DOMAIN s.graph /\ \A issue \in s.closure : L(t)!IsPath(s.graph, path(s.lane[issue]))
  BY DEF L!SelectionIsWhole, L!IsPath
<1>2. visible \subseteq s.closure /\ \A issue \in visible : L(t)!InLane(s.lane, visible, s.lane[issue]) = inlane(s.lane[issue])
  BY DEF L!Views, L!InLane
<1>3. \A issue \in visible : L(t)!IsPath(s.graph, L(t)!Sorted(s.graph, L(t)!InLane(s.lane, visible, s.lane[issue])))
  BY <1>1, <1>2
<1> QED
  BY <1>1, <1>2, <1>3 DEF L!Drawable

\* What is selected is whole, and what is drawn of it true.
LEMMA LanesTrue ==
  ASSUME NEW t, L(t)!LanesAssumption, L(t)!IInv
  PROVE  L(t)!LanesAreTrue
<1>1. L(t)!SelectionIsWhole(slot2) /\ L(t)!IsGraph(slot1)
  BY DEF L!IInv, L!LanesAssumption
<1>2. \A visible \in L(t)!Views(slot2) : L(t)!DrawingIsTrue(slot2, visible)
  BY <1>1, Drawings
<1>3. slot2.graph = slot1 => \A visible \in L(t)!Views(slot2) : L(t)!Drawable(slot1, slot2.lane, visible)
  BY <1>1, FreshIsDrawn
<1> QED
  BY <1>1, <1>2, <1>3 DEF L!LanesAreTrue

\* The invariant says nothing but of the slots.
LEMMA LanesStay ==
  ASSUME NEW t, L(t)!IInv, UNCHANGED slots
  PROVE  L(t)!IInv'
<1>1. slot1' = slot1 /\ slot2' = slot2 /\ slot3' = slot3 /\ slot4' = slot4
  BY DEF slots
<1> QED
  BY <1>1, LanesLater DEF L!IInv

-----------------------------------------------------------------------------
(***************************************************************************)
(* TicketGraph: the behaviour's subject takes its steps.                    *)
(***************************************************************************)

\* The first states of each subject have its invariant.
LEMMA GraphBegins == GraphInit => GraphIInv
<1> SUFFICES ASSUME GraphInit PROVE GraphIInv
  OBVIOUS
<1>1. IInv
  BY InitIInv DEF GraphInit
<1>2. subject = Merges => TM!IInv
  BY MergeInit, MergeAssumed DEF GraphInit, Writes, Merges, Shows
<1>3. ASSUME NEW t \in DOMAIN Showing, subject = Shows(t) PROVE L(t)!IInv
  <2>1. L(t)!Init
    BY <1>3 DEF GraphInit, Writes, Merges, Shows
  <2> QED
    BY <2>1, LanesInit, LanesAssumed
<1> QED
  BY <1>1, <1>2, <1>3 DEF GraphIInv

\* Nothing happens to a subject that is not the behaviour's own.
LEMMA TicketsStay == ASSUME IInv, UNCHANGED vars PROVE IInv'
<1>1. [Next]_vars
  OBVIOUS
<1> QED
  BY <1>1, NextIInv

LEMMA MergeStays == ASSUME TM!IInv, UNCHANGED slots PROVE TM!IInv'
<1>1. UNCHANGED <<slot1, slot2, slot3>>
  BY DEF slots
<1> QED
  BY <1>1 DEF TM!IInv

\* The inductive invariant of the subject holds in every behaviour: of the commands that
\* write tickets.csv, of two branches and their merges, and of every use of the lanes.
THEOREM GraphInvariance == GraphSpec => []GraphIInv
<1>1. ASSUME GraphIInv, [GraphNext]_<<vars, subject, slots>> PROVE GraphIInv'
  <2>1. CASE subject = Writes /\ Next /\ UNCHANGED <<subject, slots>>
    <3>1. IInv'
      BY <1>1, <2>1, NextIInv DEF GraphIInv
    <3> QED
      BY <2>1, <3>1 DEF GraphIInv, Writes, Merges, Shows
  <2>2. CASE subject = Merges /\ TM!Next /\ UNCHANGED <<subject, vars, slot4>>
    <3>1. TM!IInv'
      BY <1>1, <2>2, MergeNext, MergeAssumed DEF GraphIInv
    <3>2. IInv'
      BY <1>1, <2>2, TicketsStay DEF GraphIInv
    <3> QED
      BY <2>2, <3>1, <3>2 DEF GraphIInv, Merges, Shows
  <2>3. ASSUME NEW t \in DOMAIN Showing, subject = Shows(t), L(t)!Next, UNCHANGED <<subject, vars>> PROVE GraphIInv'
    <3>1. L(t)!IInv'
      BY <1>1, <2>3, LanesNext, LanesAssumed DEF GraphIInv
    <3>2. IInv'
      BY <1>1, <2>3, TicketsStay DEF GraphIInv
    <3>3. subject' = Shows(t) /\ subject' # Merges
      BY <2>3 DEF Merges, Shows
    <3>4. \A other \in DOMAIN Showing : subject' = Shows(other) => other = t
      BY <3>3 DEF Shows
    <3> QED
      BY <3>1, <3>2, <3>3, <3>4 DEF GraphIInv
  <2>4. CASE UNCHANGED <<vars, subject, slots>>
    <3>1. IInv'
      BY <1>1, <2>4, TicketsStay DEF GraphIInv
    <3>2. subject = Merges => TM!IInv'
      BY <1>1, <2>4, MergeStays DEF GraphIInv
    <3>3. \A t \in DOMAIN Showing : subject = Shows(t) => L(t)!IInv'
      BY <1>1, <2>4, LanesStay DEF GraphIInv
    <3> QED
      BY <2>4, <3>1, <3>2, <3>3 DEF GraphIInv
  <2> QED
    BY <1>1, <2>1, <2>2, <2>3, <2>4 DEF GraphNext
<1> QED
  BY <1>1, GraphBegins, PTL DEF GraphSpec

\* Whatever commands did on the two branches, and in whichever direction they are merged,
\* however often: a merge keeps every dependency and row that either branch added or
\* removed, and its file is one that the store reads.
THEOREM MergesKeepBoth == GraphSpec => MergeKeepsBoth
<1>1. GraphIInv => [subject = Merges => TM!KeepsBoth]_slot2
  BY MergeKeeps, MergeAssumed DEF GraphIInv
<1> QED
  BY <1>1, GraphInvariance, PTL DEF MergeKeepsBoth

\* Whatever commands race, whenever the dependencies change and however old a selection
\* is: what is stored holds its roots and all that they are connected to as far as the
\* policy goes, divided into lanes that are paths of dependencies and can be drawn while these
\* are the dependencies there are, and whatever is drawn of it shows a way between two issues exactly where there is one now.
THEOREM LanesShowWhatIs == GraphSpec => []LanesAreTrue
<1>1. ASSUME GraphIInv PROVE LanesAreTrue
  BY <1>1, LanesTrue, LanesAssumed DEF GraphIInv, LanesAreTrue
<1> QED
  BY <1>1, GraphInvariance, PTL
=============================================================================

----------------------------- MODULE TicketGraph -----------------------------
\* What becomes of the dependency graph: the commands that write it, its merge when two
\* branches have changed it, and the lanes that are selected from it, one subject for each
\* behaviour.  The subjects that are not the behaviour's own stay as they are; slots are the
\* variables of the one that is, if it is not the commands that write the graph.
EXTENDS Tickets

CONSTANTS
  Merging,   \* the constants of TicketMerge
  Showing    \* per name, the constants of Lanes

VARIABLES subject, slot1, slot2, slot3, slot4

slots == <<slot1, slot2, slot3, slot4>>

Issues == Merging.issues
Branches == Merging.branches

TM == INSTANCE TicketMerge WITH
  Issue <- Issues, Branch <- Branches, FirstTree <- Merging.trees,
  FirstServer <- Merging.server, Renames <- Merging.renames, Edits <- Merging.edits,
  MaxLife <- Merging.life,
  branch <- slot1, base <- slot2, server <- slot3

L(t) == INSTANCE Lanes WITH
  Issue <- Showing[t].issues, Kind <- Showing[t].kinds, Proc <- Showing[t].procs, GraphsOf <- Showing[t].graphs,
  Words <- Showing[t].words, Asked <- Showing[t].asked, MaxRevision <- Showing[t].revisions,
  graph <- slot1, selection <- slot2, revision <- slot3, at <- slot4

ASSUME MergeAssumed == TM!MergeAssumption
ASSUME LanesAssumed == \A t \in DOMAIN Showing : L(t)!LanesAssumption

-----------------------------------------------------------------------------
Writes == <<"tickets", "alone">>
Merges == <<"merge", "alone">>
Shows(t) == <<"lanes", t>>

GraphInit ==
  /\ Init
  /\ \/ subject = Writes /\ slot1 = 0 /\ slot2 = 0 /\ slot3 = 0 /\ slot4 = 0
     \/ subject = Merges /\ TM!Init /\ slot4 = 0
     \/ \E t \in DOMAIN Showing : subject = Shows(t) /\ L(t)!Init

GraphNext ==
  \/ subject = Writes /\ Next /\ UNCHANGED <<subject, slots>>
  \/ subject = Merges /\ TM!Next /\ UNCHANGED <<subject, vars, slot4>>
  \/ \E t \in DOMAIN Showing : subject = Shows(t) /\ L(t)!Next /\ UNCHANGED <<subject, vars>>

GraphSpec == GraphInit /\ [][GraphNext]_<<vars, subject, slots>>

-----------------------------------------------------------------------------
\* The inductive invariant of the behaviour's subject.
GraphIInv ==
  /\ IInv
  /\ subject = Merges => TM!IInv
  /\ \A t \in DOMAIN Showing : subject = Shows(t) => L(t)!IInv

\* TicketMerge: a merge keeps what either branch added or removed, and its file is valid.
MergeKeepsBoth == [][subject = Merges => TM!KeepsBoth]_slot2

\* Lanes: stored selections are whole, drawings show the dependencies there are.
LanesAreTrue == \A t \in DOMAIN Showing : subject = Shows(t) => L(t)!LanesAreTrue
=============================================================================

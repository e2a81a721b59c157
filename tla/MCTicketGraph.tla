--------------------------- MODULE MCTicketGraph ---------------------------
\* Instances of TicketGraph for TLC, of Tickets as in MCTickets, of Lanes for one command with
\* many graphs and policies and for two commands with few.
EXTENDS TicketGraph, MCTickets

-----------------------------------------------------------------------------
\* Three issues, each of the two with a row to change to one that contradicts it.
All(x) == [i \in 1..3 |-> x]
MergeTree(state) == [graph |-> All(R(old, {})), states |-> All(state), life |-> All(-1)]

MCMerging ==
  [issues |-> 1..3, branches |-> {"ours", "theirs"}, trees |-> {MergeTree(-2), MergeTree(-1)},
   server |-> All(old), renames |-> {<<2, new>>},
   edits |-> {<<1, R(old, {2})>>, <<1, R(old, {3})>>, <<2, R(new, {1})>>, <<2, NoRow>>},
   life |-> <<0, -1, -1>>]

-----------------------------------------------------------------------------
\* Four issues, of which 2 is a feature: a path, diamonds, shortcuts, a graph without 4.
G(a, b, c, d) == <<a, b, c, d>>
Diamonds == {G({}, {1}, {2}, {3}), G({}, {1}, {1}, {2, 3})}
Many == Diamonds \cup {G({}, {1}, {1, 2}, {1, 3}), G({2}, {}, {1, 2}, {1}), <<{}, {1}, {1, 2}>>, G({}, {}, {}, {3})}
Feature == <<"none", "feature", "none", "none">>

Follow(features) == [kind \in {"feature", "epic", "initiative", "group"} |-> IF kind = "feature" THEN features ELSE 0]
Policy(features, children) == [follow |-> Follow(features), children |-> children]

MCShowing ==
  "one" :> [issues |-> 1..4, kinds |-> Feature, procs |-> {"one"}, graphs |-> Many, words |-> {{1}, {4}},
            asked |-> {Policy(0, {}), Policy(1, {}), Policy(0, {"group"})}, revisions |-> 2] @@
  "racing" :> [issues |-> 1..4, kinds |-> Feature, procs |-> {"one", "other"}, graphs |-> Diamonds, words |-> {{1}, {4}},
               asked |-> {Policy(0, {})}, revisions |-> 2]
=============================================================================

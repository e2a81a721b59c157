----------------------------- MODULE MCTickets -----------------------------
\* Two issues on the server, of which the file has one row.
EXTENDS Tickets, TLC

CONSTANTS old, new, p1, p2

R(title, deps) == [title |-> title, deps |-> deps]
T(row1, row2, state) == [graph |-> 1 :> row1 @@ 2 :> row2, states |-> 1 :> state @@ 2 :> state]

MCFirstTickets == {T(R(old, {}), NoRow, -2)}
MCFirstServer == {1 :> R(old, {2}) @@ 2 :> R(new, {})}
MCEdits == {<<2, R(old, {1})>>}
MCMaxLife == 1 :> 0 @@ 2 :> -1
MCRuns ==
  p1 :> {<<"states", {1}>>, <<"states", {1, 2}>>, <<"from", {1}>>, <<"acquire", {2}>>} @@
  p2 :> {<<"states", {1, 2}>>, <<"to", {1, 2}>>}

\* One process with both rows pushes their dependencies to the server.
BothRows == {T(R(old, {}), R(new, {1}), -1)}
PushOnly == p2 :> {<<"to", {1, 2}>>}
=============================================================================

---------------------------- MODULE MCIssueStart ----------------------------
\* Instances of IssueStart for TLC.
EXTENDS IssueStart, TLC

\* Issues from before: aborted, in review or active, on branches of their own.
Before(state) == [life |-> [revision |-> 0, state |-> state, relation |-> 0], branch |-> "marked"]
MCFresh == {Fresh}
MCAborted == {Fresh, Before("aborted")}
MCInherited == {Fresh} \cup {Before(state) : state \in {"active", "aborted", "closed"}}

Symmetry == Permutations(Session) \cup Permutations(Proc)
=============================================================================

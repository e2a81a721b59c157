---------------------------- MODULE MCLifecycle ----------------------------
\* Instances of Lifecycle for TLC.
EXTENDS Lifecycle, TLC

Old(transition, from, to, candidate) ==
  [transition |-> transition, from |-> from, to |-> to, candidate |-> candidate]

\* What schemas 1 and 2 may have left: nothing started, work underway, work
\* accepted without review (with and without a candidate), work completed.
MCInherited ==
  LET started == <<Old("start", "unstarted", "active", None)>>
      Past(state, events) ==
        [state |-> state, history |-> events, legacy |-> Len(events), aliases |-> {}]
      accepted(c) == Append(started, Old("accept", "active", "accepted", c))
  IN  {NotStarted, Past("active", started)}
        \cup {Past("accepted", accepted(c)) : c \in Candidate \cup {None}}
        \cup {Past("completed", Append(accepted(c), Old("complete", "accepted", "completed", c))) :
                c \in Candidate}

Symmetry == Permutations(Proc) \cup Permutations(Candidate)
=============================================================================

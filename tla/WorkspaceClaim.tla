--------------------------- MODULE WorkspaceClaim ---------------------------
(***************************************************************************)
(* What WorkspaceStore.update_claim promises: a claim is changed in one     *)
(* step, by one revision, along a legal transition, and while a worker owns *)
(* it by that worker only.                                                  *)
(***************************************************************************)
EXTENDS Integers

CONSTANTS Worker, Session, None

VARIABLE claim   \* the claim record, NoClaim before the workspace is created

Owned == {"claimed", "blocked"}
Claim == [status : Owned \cup {"available", "closed"}, revision : Nat,
          worker : Worker \cup {None}, session : Session \cup {None}]
NoClaim == [status |-> "none", revision |-> -1, worker |-> None, session |-> None]
Available == [status |-> "available", revision |-> 0, worker |-> None, session |-> None]

Legal(source) ==
  CASE source = "available" -> {"claimed", "closed"}
    [] source = "claimed"   -> {"available", "claimed", "blocked", "closed"}
    [] source = "blocked"   -> {"claimed", "closed"}
    [] OTHER                -> {}

\* Whether a worker that knows a revision may change claim c to a status.
Admits(c, expected, status, worker) ==
  /\ c.revision = expected
  /\ status \in Legal(c.status)
  /\ c.status \in Owned => worker = c.worker

Updated(c, status, worker, session) ==
  [status   |-> status,
   revision |-> c.revision + 1,
   worker   |-> IF status \in Owned THEN worker ELSE None,
   session  |-> IF status \in Owned THEN session ELSE None]

Init == claim = NoClaim

Create == claim = NoClaim /\ claim' = Available

Update(status, worker, session) ==
  /\ claim # NoClaim
  /\ Admits(claim, claim.revision, status, worker)
  /\ claim' = Updated(claim, status, worker, session)

Next ==
  \/ Create
  \/ \E status \in Owned \cup {"available", "closed"}, worker \in Worker,
        session \in Session \cup {None} : Update(status, worker, session)

Spec == Init /\ [][Next]_claim
=============================================================================

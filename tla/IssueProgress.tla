--------------------------- MODULE IssueProgress ---------------------------
\* How far an issue is and what may be done next, one subject for each behaviour: the
\* lifecycle, the workflow planner, and the done planner.  The subjects that are not
\* the behaviour's own stay as they are; slots are the variables of the one that is, if
\* it is not the lifecycle.
EXTENDS Lifecycle

CONSTANTS
  PlannedCommits,   \* bound: commits of the workflow planner
  GateNames, Releases, Unmet, Runs, Answers, MaxRuns, MaxTip   \* of the done planner

VARIABLES subject, slot1, slot2, slot3, slot4, slot5, slot6, slot7

slots == <<slot1, slot2, slot3, slot4, slot5, slot6, slot7>>

\* People leave HEAD alone while a command runs.
P == INSTANCE Planner WITH
  Meanwhile <- FALSE, MaxCommits <- PlannedCommits,
  head <- slot1, commits <- slot2, holds <- slot3, cache <- slot4, cmd <- slot5, passed <- slot6, accepted <- slot7

D == INSTANCE DonePlan WITH
  world <- slot1, pinned <- slot2, validation <- slot3, grants <- slot4, plan <- slot5, merged <- slot6, earned <- slot7

ASSUME DoneAssumed == D!DoneAssumption

-----------------------------------------------------------------------------
ProgressInit ==
  /\ Init
  /\ \/ /\ subject = "lifecycle" /\ slot1 = 0 /\ slot2 = 0 /\ slot3 = 0 /\ slot4 = 0
        /\ slot5 = 0 /\ slot6 = 0 /\ slot7 = 0
     \/ /\ record = NoRecord
        /\ \/ subject = "planner" /\ P!Init
           \/ subject = "done" /\ D!Init

ProgressNext ==
  \/ subject = "lifecycle" /\ Next /\ UNCHANGED <<subject, slots>>
  \/ subject = "planner" /\ P!Next /\ UNCHANGED <<subject, vars>>
  \/ subject = "done" /\ D!Next /\ UNCHANGED <<subject, vars>>

ProgressSpec == ProgressInit /\ [][ProgressNext]_<<vars, subject, slots>>

-----------------------------------------------------------------------------
\* The inductive invariant of the behaviour's subject.
ProgressIInv ==
  /\ IInv
  /\ subject = "planner" => P!IInv
  /\ subject = "done" => D!IInv

\* Planner: what the cache makes legal at HEAD, HEAD has earned.
PlanIsEarned == subject = "planner" => P!PlanIsEarned

\* DonePlan: what was merged, this very commit had earned on the tip it was merged into.
MergedIsEarned == subject = "done" => D!MergedIsEarned
=============================================================================

--------------------------- MODULE IssueDelivery ---------------------------
\* From the start of an issue to its terminal tags, one subject for each behaviour: the
\* start, the verification of a retry, a team that delivers, a hosted stage, remote
\* commands of several clients, and one that is repeated.  The subjects that are not
\* the behaviour's own stay as they are; slots are the variables of the one that is, if
\* it is not the start.
EXTENDS IssueStart

CONSTANTS
  Rec,        \* the observations of a retry's evidence log
  Team,       \* per name, the constants of Delivery
  Hosted,     \* per name, the constants of HostedStage
  Racing,     \* the constants of RemoteCommand, for clients at the same time
  Repeating   \* ... and for commands that are repeated

VARIABLES subject, slot1, slot2, slot3, slot4, slot5, slot6, slot7

slots == <<slot1, slot2, slot3, slot4, slot5, slot6, slot7>>

-----------------------------------------------------------------------------
\* Observations are recorded between verifications.
Retry == INSTANCE RetryEvidenceProofs WITH
  RecordAnytime <- FALSE,
  log <- slot1, head <- slot2, dirty <- slot3, journal <- slot4, lock <- slot5, at <- slot6, recorded <- slot7

Deliver(t) == INSTANCE Delivery WITH
  Clone <- Team[t].clones, Editing <- Team[t].editing, Runner <- Team[t].runners, Kinds <- Team[t].kinds,
  Env <- Team[t].env, Nothing <- None, Required <- Team[t].required,
  MaxVersion <- Team[t].versions, MaxCommits <- Team[t].commits,
  commits <- slot1, head <- slot2, edited <- slot3, tags <- slot4, remote <- slot5, at <- slot6

Host(t) == INSTANCE HostedStage WITH
  Stage <- Hosted[t].stages, Locally <- Hosted[t].locally, Outcomes <- Hosted[t].outcomes,
  MaxVersion <- Hosted[t].versions, MaxCommits <- Hosted[t].commits,
  mine <- slot1, loose <- slot2, local <- slot3, branch <- slot4, invoked <- slot5, tags <- slot6, run <- slot7

Race == INSTANCE RemoteCommandProofs WITH
  Client <- Racing.clients, Argv <- Racing.argv, Branch <- Racing.branches, Home <- Racing.home,
  Restless <- Racing.restless, MaxNumber <- Racing.numbers, MaxTip <- Racing.tips, MaxRetry <- Racing.retries,
  source <- slot1, command <- slot2, worker <- slot3, at <- slot4, answer <- slot5
Repeat == INSTANCE RemoteCommandProofs WITH
  Client <- Repeating.clients, Argv <- Repeating.argv, Branch <- Repeating.branches, Home <- Repeating.home,
  Restless <- Repeating.restless, MaxNumber <- Repeating.numbers, MaxTip <- Repeating.tips, MaxRetry <- Repeating.retries,
  source <- slot1, command <- slot2, worker <- slot3, at <- slot4, answer <- slot5

ASSUME RetryAssumed == Retry!RetryAssumption
ASSUME TeamsAssumed == \A t \in DOMAIN Team : Deliver(t)!DeliveryAssumption
ASSUME HostedAssumed == \A t \in DOMAIN Hosted : Host(t)!HostedAssumption
ASSUME RemoteAssumed == Race!RemoteAssumption /\ Repeat!RemoteAssumption

-----------------------------------------------------------------------------
Start == <<"start", "alone">>
Retries == <<"retry", "alone">>
Delivers(t) == <<"delivery", t>>
Hosts(t) == <<"hosted stage", t>>
Races == <<"remote", "racing">>
Repeats == <<"remote", "repeated">>

IssueInit ==
  /\ Init
  /\ \/ /\ subject = Start /\ slot1 = 0 /\ slot2 = 0 /\ slot3 = 0 /\ slot4 = 0
        /\ slot5 = 0 /\ slot6 = 0 /\ slot7 = 0
     \/ /\ version = "stable" /\ found = Fresh
        /\ \/ subject = Retries /\ Retry!Init
           \/ \E t \in DOMAIN Team : subject = Delivers(t) /\ Deliver(t)!Init /\ slot7 = 0
           \/ \E t \in DOMAIN Hosted : subject = Hosts(t) /\ Host(t)!Init
           \/ subject = Races /\ Race!Init /\ slot6 = 0 /\ slot7 = 0
           \/ subject = Repeats /\ Repeat!Init /\ slot6 = 0 /\ slot7 = 0

IssueNext ==
  \/ subject = Start /\ Next /\ UNCHANGED <<subject, slots>>
  \/ subject = Retries /\ Retry!Next /\ UNCHANGED <<subject, vars>>
  \/ \E t \in DOMAIN Team : subject = Delivers(t) /\ Deliver(t)!Next /\ UNCHANGED <<subject, slot7, vars>>
  \/ \E t \in DOMAIN Hosted : subject = Hosts(t) /\ Host(t)!Next /\ UNCHANGED <<subject, vars>>
  \/ subject = Races /\ Race!Next /\ UNCHANGED <<subject, slot6, slot7, vars>>
  \/ subject = Repeats /\ Repeat!Next /\ UNCHANGED <<subject, slot6, slot7, vars>>

IssueSpec == IssueInit /\ [][IssueNext]_<<vars, subject, slots>>

-----------------------------------------------------------------------------
\* The inductive invariant of the behaviour's subject.
IssueIInv ==
  /\ IInv
  /\ subject = Retries => Retry!IInv
  /\ \A t \in DOMAIN Team : subject = Delivers(t) => Deliver(t)!IInv
  /\ \A t \in DOMAIN Hosted : subject = Hosts(t) => Host(t)!IInv
  /\ subject = Races => Race!IInv
  /\ subject = Repeats => Repeat!IInv

\* RetryEvidence: no observation is lost, whoever is killed.
EvidenceKept == subject = Retries => Retry!EvidenceKept

\* RetryEvidence: a verification that reports success changed nothing.
SuccessMeansUntouched == subject = Retries => Retry!SuccessMeansUntouched

\* Delivery: what a terminal tag says was found on the commit it names.
TagIsTested == \A t \in DOMAIN Team : subject = Delivers(t) => Deliver(t)!TagIsTested

\* Delivery: a published outcome is of a commit on the published branch.
OutcomeOnBranch == \A t \in DOMAIN Team : subject = Delivers(t) => Deliver(t)!OutcomeOnBranch

\* HostedStage: a terminal tag rests on an observation of its source.
TagIsEvidence == \A t \in DOMAIN Hosted : subject = Hosts(t) => Host(t)!TagIsEvidence

\* RemoteCommand: whoever is told of a success finds what the command committed.
AnswerIsTrue == (subject = Races => Race!AnswerIsTrue) /\ (subject = Repeats => Repeat!AnswerIsTrue)

\* RemoteCommand: no commit of a source branch is lost.
NothingOverwritten ==
  [][/\ subject = Races => Race!SourcesGrow
     /\ subject = Repeats => Repeat!SourcesGrow]_slots
=============================================================================

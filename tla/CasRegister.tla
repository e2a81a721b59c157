---------------------------- MODULE CasRegister ----------------------------
(***************************************************************************)
(* What a client of the versioned record store may rely on: every key holds *)
(* one record, and an update request atomically either replaces exactly the *)
(* revision it names, is refused because another revision is in place, or   *)
(* fails and changes nothing.  Nothing here mentions lock directories or    *)
(* temporary files: RecordStore implements this specification.              *)
(***************************************************************************)
EXTENDS RecordTypes

VARIABLES
  register,     \* register[k]: the record in place
  phase,        \* phase[p]: "idle", "called" or "dead"
  request,      \* request[p]: what p asked for
  reply         \* reply[p]: what p was told

cvars == <<register, phase, request, reply>>

----------------------------------------------------------------------------

CasInit ==
  /\ register = [k \in Key |-> Missing]
  /\ phase = [p \in Proc |-> "idle"]
  /\ request = [p \in Proc |-> NoRequest]
  /\ reply = [p \in Proc |-> Unanswered]

\* p reads key k and asks to replace the revision it read.
Invoke(p, k, v) ==
  /\ phase[p] = "idle"
  /\ register[k].revision < MaxRevision
  /\ phase' = [phase EXCEPT ![p] = "called"]
  /\ request' = [request EXCEPT ![p] = [key |-> k, value |-> v,
                                        expected |-> register[k].revision]]
  /\ reply' = [reply EXCEPT ![p] = Unanswered]
  /\ UNCHANGED register

Answer(p, outcome, record) ==
  /\ phase[p] = "called"
  /\ phase' = [phase EXCEPT ![p] = "idle"]
  /\ reply' = [reply EXCEPT ![p] = [outcome |-> outcome, record |-> record]]
  /\ UNCHANGED request

\* The revision named by the request is in place: it is replaced.
Swap(p) ==
  /\ phase[p] = "called"
  /\ register[request[p].key].revision = request[p].expected
  /\ register' = [register EXCEPT ![request[p].key] = Successor(p, request[p])]
  /\ Answer(p, "written", Successor(p, request[p]))

\* Another revision is in place: the request changes nothing.
Conflict(p) ==
  /\ phase[p] = "called"
  /\ register[request[p].key].revision # request[p].expected
  /\ Answer(p, "conflict", Missing)
  /\ UNCHANGED register

\* The store is busy or cannot be written: the request changes nothing.
GiveUp(p) == Answer(p, "failed", Missing) /\ UNCHANGED register

\* The process is killed, before or after its request took effect.
Die(p) ==
  /\ phase' = [phase EXCEPT ![p] = "dead"]
  /\ UNCHANGED <<register, request, reply>>

CasNext ==
  \E p \in Proc :
    \/ \E k \in Key, v \in Value : Invoke(p, k, v)
    \/ Swap(p) \/ Conflict(p) \/ GiveUp(p) \/ Die(p)

CasSpec == CasInit /\ [][CasNext]_cvars
=============================================================================

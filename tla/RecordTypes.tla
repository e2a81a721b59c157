---------------------------- MODULE RecordTypes ----------------------------
(***************************************************************************)
(* Versioned records as repo_workflow/state_store.py writes them, and the   *)
(* requests that replace them.                                              *)
(***************************************************************************)
EXTENDS Integers

CONSTANTS
  Proc,         \* processes: runs of the command line, each of them a writer
  Key,          \* record keys
  Value,        \* record values
  None,         \* Python's None
  MaxRevision   \* bound: no request is made against a later revision

ASSUME MaxRevisionAssumption == MaxRevision \in Nat
ASSUME NoneAssumption == None \notin Proc \cup Key \cup Value

Record == [revision : Nat \cup {-1}, previous : Int,
           writer : Proc \cup {None}, value : Value \cup {None}]

\* No record file: a reader reports revision None, written -1 here.
Missing == [revision |-> -1, previous |-> -1, writer |-> None, value |-> None]

Request == [key : Key \cup {None}, expected : Nat \cup {-1}, value : Value \cup {None}]

\* The record a successful request puts in place.  A creation expects no
\* record (-1) and makes revision 0, whose predecessor is None (-1).
Successor(p, r) == [revision |-> r.expected + 1, previous |-> r.expected,
                    writer |-> p, value |-> r.value]

\* Before its first call a process has named no key.
NoRequest == [key |-> None, expected |-> -1, value |-> None]

Unanswered == [outcome |-> "none", record |-> Missing]
=============================================================================

--------------------------- MODULE MCTransaction ---------------------------
\* Two sessions that start issues in one clone: both read "shared", the first
\* writes it, and each writes a record of its own.
EXTENDS Transaction, TLC

CONSTANTS t1, t2, shared, own1, own2

MCReadSet == t1 :> {shared} @@ t2 :> {shared, own2}
MCWriteSet == t1 :> {shared, own1} @@ t2 :> {own2}
=============================================================================

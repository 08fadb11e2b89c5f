--------------------------- MODULE MCThreadSync ---------------------------
(* ThreadSync on a few threads with a few messages each.                   *)
EXTENDS ThreadSync

CONSTANTS
  Busy,            \* the threads that report two objects
  Once             \* the threads that report one; the others report none

MCQuota == [t \in Threads |-> IF t \in Busy THEN 2
                              ELSE IF t \in Once THEN 1 ELSE 0]
=============================================================================

-------------------------- MODULE MCHeapScanAgent --------------------------
(* HeapScanAgent with a message of each thread in Once.                    *)
EXTENDS HeapScanAgent

CONSTANTS Once

MCQuota == [t \in Producers \cup {Agent} |-> IF t \in Once THEN 1 ELSE 0]
=============================================================================

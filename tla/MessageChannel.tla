--------------------------- MODULE MessageChannel ---------------------------
(***************************************************************************)
(* What the agent promises about a message: once a producing thread has    *)
(* put it, it is pending until the thread that talks to the client takes   *)
(* it in a batch, and that happens at most once.  Nothing is taken that    *)
(* was not put, and nothing that was put disappears without being taken.   *)
(***************************************************************************)

CONSTANT Messages        \* everything the threads will ever hand over

VARIABLES
  pending,               \* put, not yet taken
  taken                  \* already taken by the consumer

vars == <<pending, taken>>

Init ==
  /\ pending = {}
  /\ taken = {}

Put(m) ==
  /\ m \notin pending \cup taken
  /\ pending' = pending \cup {m}
  /\ UNCHANGED taken

Take(batch) ==
  /\ batch \subseteq pending
  /\ pending' = pending \ batch
  /\ taken' = taken \cup batch

Next ==
  \/ \E m \in Messages : Put(m)
  \/ \E batch \in SUBSET pending : Take(batch)

Spec == Init /\ [][Next]_vars
=============================================================================

----------------------------- MODULE ThreadSync -----------------------------
(***************************************************************************)
(* ThreadSync_PriorityProducer.c: two producer spaces, each with a gate    *)
(* (a Win32 manual-reset event), a counter of registered threads and two   *)
(* queue entries (left and right) that are guarded by a mutex each.        *)
(* Producers fill the current space; the agent thread closes the gate of   *)
(* that space, waits for the registered producers to leave, locks both     *)
(* entries and drains them, while producers that find the gate closed move *)
(* to the other space.                                                     *)
(*                                                                         *)
(* A step is one access to shared memory or one Win32 call.  ReleaseMutex  *)
(* is merged with the preceding step of its owner and the acquisition of   *)
(* mainProducerGate with the step that follows it: a release can always be *)
(* moved earlier and an acquisition later past steps of other threads.     *)
(***************************************************************************)
EXTENDS Integers, FiniteSets

CONSTANTS
  Producers,       \* the JVM threads that report objects
  Agent,           \* the agent thread: the consumer, and a producer as well
  NoThread,        \* "no owner" of a mutex
  Quota,           \* Quota[t]: how many messages thread t produces (bound)
  EndsConsume      \* does the consuming thread call onEndConsume?

Threads == Producers \cup {Agent}

ASSUME ThreadsAssumption ==
  /\ IsFiniteSet(Producers)
  /\ Agent \notin Producers
  /\ NoThread \notin Threads
  /\ Quota \in [Threads -> Nat]
  /\ EndsConsume \in BOOLEAN

(* MSG_LOCATION_ID: a location is the sum of a space id and an entry id.   *)
LEFT_SPACE == 0
RIGHT_SPACE == 1
LEFT_ENTRY == 2
RIGHT_ENTRY == 4
Spaces == {LEFT_SPACE, RIGHT_SPACE}
Entries == {LEFT_ENTRY, RIGHT_ENTRY}
Location(s, e) == s + e
Locations == {2, 3, 4, 5}
OtherSpace(s) == 1 - s

Messages == UNION {{t} \X (1..Quota[t]) : t \in Threads}

(* Labels of onProduce (and changeSpace, getMessageEntry) and of the       *)
(* consumer's three calls.  "store" holds one entry lock.                  *)
ProducerLabels == {"checkGate", "checkConsumer", "signal", "readOther",
                   "enterMain", "flip", "register", "probe", "wait",
                   "store", "leave"}
ConsumerLabels == {"enter", "reset", "start", "openOther", "closeGate",
                   "clearIn", "await", "lockLeft", "lockRight", "drain",
                   "unlock"}
Registered == {"probe", "wait", "store", "leave"}

VARIABLES
  pc,              \* where each thread is
  local,           \* localSpace of each thread (a copy of the space: its id)
  other,           \* otherSpace in changeSpace
  entry,           \* the entry a producer got from getMessageEntry
  made,            \* messages a thread has started to produce
  currentSpace,
  gate,            \* gate[s]: TRUE when signalled (open)
  consumerGate, consumerIn,
  mainProducerGate, \* owner of the mutex
  threads,         \* threads[s]: *space.threads
  owner, depth,    \* entry mutexes: owner and recursion count
  consumingSpace,
  queue,           \* messages stored at each location
  drained          \* messages handed to the consumer

spaceVars == <<currentSpace, gate, consumerGate, consumerIn, mainProducerGate>>
lockVars == <<owner, depth>>
frameVars == <<local, other, entry, made>>
dataVars == <<queue, drained>>
vars == <<pc, frameVars, spaceVars, threads, lockVars, consumingSpace, dataVars>>

Goto(t, from, to) ==
  /\ pc[t] = from
  /\ pc' = [pc EXCEPT ![t] = to]

Init ==
  /\ pc = [t \in Threads |-> "idle"]
  /\ local = [t \in Threads |-> LEFT_SPACE]
  /\ other = [t \in Threads |-> RIGHT_SPACE]
  /\ entry = [t \in Threads |-> LEFT_ENTRY]
  /\ made = [t \in Threads |-> 0]
  /\ currentSpace = LEFT_SPACE
  /\ gate = [s \in Spaces |-> TRUE]
  /\ consumerGate = FALSE
  /\ consumerIn = FALSE
  /\ mainProducerGate = NoThread
  /\ threads = [s \in Spaces |-> 0]
  /\ owner = [l \in Locations |-> NoThread]
  /\ depth = [l \in Locations |-> 0]
  /\ consumingSpace = LEFT_SPACE
  /\ queue = [l \in Locations |-> {}]
  /\ drained = {}

-----------------------------------------------------------------------------
(* Win32 mutexes: recursive, owned by a thread.                            *)
CanLock(t, l) == owner[l] \in {NoThread, t}

Lock(t, l) ==
  /\ CanLock(t, l)
  /\ owner' = [owner EXCEPT ![l] = t]
  /\ depth' = [depth EXCEPT ![l] = @ + 1]

(* Unlock the set ls of locations, all of them owned by the caller.        *)
Unlock(ls) ==
  /\ depth' = [l \in Locations |-> IF l \in ls THEN depth[l] - 1 ELSE depth[l]]
  /\ owner' = [l \in Locations |->
                 IF l \in ls /\ depth[l] = 1 THEN NoThread ELSE owner[l]]

(* isReady of the shared spaces: createNewSpace clears it, and the two     *)
(* later assignments (lines 119 and 188) are to copies on the stack.       *)
IsReady(s) == FALSE

-----------------------------------------------------------------------------
(* onProduce                                                               *)

Produce(t) ==
  /\ Goto(t, "idle", "checkGate")
  /\ made[t] < Quota[t]
  /\ made' = [made EXCEPT ![t] = @ + 1]
  /\ local' = [local EXCEPT ![t] = currentSpace]
  /\ UNCHANGED <<other, entry, spaceVars, threads, lockVars, consumingSpace, dataVars>>

CheckGate(t) ==
  /\ Goto(t, "checkGate", IF gate[local[t]] THEN "checkConsumer" ELSE "readOther")
  /\ UNCHANGED <<frameVars, spaceVars, threads, lockVars, consumingSpace, dataVars>>

CheckConsumer(t) ==
  /\ Goto(t, "checkConsumer", IF consumerIn THEN "register" ELSE "signal")
  /\ UNCHANGED <<frameVars, spaceVars, threads, lockVars, consumingSpace, dataVars>>

Signal(t) ==
  /\ Goto(t, "signal", "register")
  /\ consumerGate' = TRUE
  /\ UNCHANGED <<frameVars, currentSpace, gate, consumerIn, mainProducerGate,
                 threads, lockVars, consumingSpace, dataVars>>

(* changeSpace reads currentSpace before it owns mainProducerGate ...      *)
ReadOther(t) ==
  /\ Goto(t, "readOther", "enterMain")
  /\ other' = [other EXCEPT ![t] = OtherSpace(currentSpace)]
  /\ UNCHANGED <<local, entry, made, spaceVars, threads, lockVars, consumingSpace, dataVars>>

EnterMainQuietly(t) ==
  /\ Goto(t, "enterMain", "flip")
  /\ mainProducerGate = NoThread
  /\ mainProducerGate' = t
  /\ UNCHANGED <<frameVars, currentSpace, gate, consumerGate, consumerIn, threads,
                 lockVars, consumingSpace, dataVars>>

EnterMain(t) ==
  /\ Goto(t, "enterMain", "flip")
  /\ mainProducerGate = NoThread
  /\ mainProducerGate' = t
  /\ ~IsReady(other[t])
  /\ consumerGate' = TRUE
  /\ UNCHANGED <<frameVars, currentSpace, gate, consumerIn, threads, lockVars,
                 consumingSpace, dataVars>>

(* ... and again while it owns it; it returns the space read first.        *)
Flip(t) ==
  /\ Goto(t, "flip", "register")
  /\ currentSpace' = OtherSpace(currentSpace)
  /\ mainProducerGate' = NoThread
  /\ local' = [local EXCEPT ![t] = other[t]]
  /\ UNCHANGED <<other, entry, made, gate, consumerGate, consumerIn, threads,
                 lockVars, consumingSpace, dataVars>>

(* SetEvent(accumlateGate) is left out: only accumulateMessage waits on    *)
(* it, and messageStore.accumulate is FALSE (MessageStore.c:255).          *)
Register(t) ==
  /\ Goto(t, "register", "probe")
  /\ threads' = [threads EXCEPT ![local[t]] = @ + 1]
  /\ UNCHANGED <<frameVars, spaceVars, lockVars, consumingSpace, dataVars>>

(* getMessageEntry: a look at the left entry, then timed waits that        *)
(* alternate between the entries, so that whichever becomes free first may *)
(* be the one that is taken.                                               *)
TakeEntry(t, from, e) ==
  /\ Goto(t, from, "store")
  /\ Lock(t, Location(local[t], e))
  /\ entry' = [entry EXCEPT ![t] = e]
  /\ UNCHANGED <<local, other, made, spaceVars, threads, consumingSpace, dataVars>>

ProbeLeft(t) == TakeEntry(t, "probe", LEFT_ENTRY)

LeftBusy(t) ==
  /\ Goto(t, "probe", "wait")
  /\ ~CanLock(t, Location(local[t], LEFT_ENTRY))
  /\ UNCHANGED <<frameVars, spaceVars, threads, lockVars, consumingSpace, dataVars>>

AwaitEntry(t) == \E e \in Entries : TakeEntry(t, "wait", e)

(* STORE_MSG and ReleaseMutex(entry.lock).                                 *)
Store(t) ==
  /\ Goto(t, "store", "leave")
  /\ LET l == Location(local[t], entry[t])
     IN  /\ queue' = [queue EXCEPT ![l] = @ \cup {<<t, made[t]>>}]
         /\ Unlock({l})
  /\ UNCHANGED <<frameVars, spaceVars, threads, consumingSpace, drained>>

LeaveCurrentSpace(t) ==
  /\ Goto(t, "leave", "idle")
  /\ threads' = [threads EXCEPT ![currentSpace] = @ - 1]
  /\ UNCHANGED <<frameVars, spaceVars, lockVars, consumingSpace, dataVars>>

Leave(t) ==
  /\ Goto(t, "leave", "idle")
  /\ threads' = [threads EXCEPT ![local[t]] = @ - 1]
  /\ UNCHANGED <<frameVars, spaceVars, lockVars, consumingSpace, dataVars>>

-----------------------------------------------------------------------------
(* onTryConsumerEntry, onStartConsume, the drain and onEndConsume          *)

TryConsumerEntry ==
  /\ Goto(Agent, "idle", "enter")
  /\ consumerGate
  /\ UNCHANGED <<frameVars, spaceVars, threads, lockVars, consumingSpace, dataVars>>

EnterConsumer ==
  /\ Goto(Agent, "enter", "reset")
  /\ consumerIn' = TRUE
  /\ UNCHANGED <<frameVars, currentSpace, gate, consumerGate, mainProducerGate,
                 threads, lockVars, consumingSpace, dataVars>>

ResetConsumerGate ==
  /\ Goto(Agent, "reset", "start")
  /\ consumerGate' = FALSE
  /\ UNCHANGED <<frameVars, currentSpace, gate, consumerIn, mainProducerGate,
                 threads, lockVars, consumingSpace, dataVars>>

StartConsume ==
  /\ Goto(Agent, "start", "openOther")
  /\ local' = [local EXCEPT ![Agent] = currentSpace]
  /\ UNCHANGED <<other, entry, made, spaceVars, threads, lockVars, consumingSpace, dataVars>>

SetGate(from, to, s, open) ==
  /\ Goto(Agent, from, to)
  /\ gate' = [gate EXCEPT ![s] = open]
  /\ UNCHANGED <<frameVars, currentSpace, consumerGate, consumerIn, mainProducerGate,
                 threads, lockVars, consumingSpace, dataVars>>

OpenOwn == SetGate("openOther", "closeGate", local[Agent], TRUE)

OpenOther == SetGate("openOther", "closeGate", OtherSpace(local[Agent]), TRUE)

CloseGate == SetGate("closeGate", "clearIn", local[Agent], FALSE)

ClearConsumerIn ==
  /\ Goto(Agent, "clearIn", "await")
  /\ consumerIn' = FALSE
  /\ UNCHANGED <<frameVars, currentSpace, gate, consumerGate, mainProducerGate,
                 threads, lockVars, consumingSpace, dataVars>>

AwaitProducers ==
  /\ Goto(Agent, "await", "lockLeft")
  /\ threads[local[Agent]] = 0
  /\ UNCHANGED <<frameVars, spaceVars, threads, lockVars, consumingSpace, dataVars>>

SkipLeft ==
  /\ Goto(Agent, "lockLeft", "lockRight")
  /\ UNCHANGED <<frameVars, spaceVars, threads, lockVars, consumingSpace, dataVars>>

LockLeft ==
  /\ Goto(Agent, "lockLeft", "lockRight")
  /\ Lock(Agent, Location(local[Agent], LEFT_ENTRY))
  /\ UNCHANGED <<frameVars, spaceVars, threads, consumingSpace, dataVars>>

SkipRight ==
  /\ Goto(Agent, "lockRight", "drain")
  /\ consumingSpace' = local[Agent]
  /\ UNCHANGED <<frameVars, spaceVars, threads, lockVars, dataVars>>

LockRight ==
  /\ Goto(Agent, "lockRight", "drain")
  /\ Lock(Agent, Location(local[Agent], RIGHT_ENTRY))
  /\ consumingSpace' = local[Agent]
  /\ UNCHANGED <<frameVars, spaceVars, threads, dataVars>>

Here == {Location(local[Agent], e) : e \in Entries}

(* A turn of the consumer's loop over retrieveMsg takes a batch, whether   *)
(* its send succeeds or not.  The loop ends with the last batch or with a  *)
(* failed send, which leaves the other messages where they are.            *)
DrainOf(batch, ends) ==
  /\ ends \/ batch # {}
  /\ Goto(Agent, "drain", IF ~ends THEN "drain" ELSE IF EndsConsume THEN "unlock" ELSE "idle")
  /\ drained' = drained \cup batch
  /\ queue' = [l \in Locations |-> IF l \in Here THEN queue[l] \ batch ELSE queue[l]]
  /\ UNCHANGED <<frameVars, spaceVars, threads, lockVars, consumingSpace>>

Drain ==
  \E batch \in SUBSET UNION {queue[l] : l \in Here} : \E ends \in BOOLEAN :
    DrainOf(batch, ends)

EndConsumeOtherSpace ==
  /\ Goto(Agent, "unlock", "idle")
  /\ Unlock({Location(OtherSpace(consumingSpace), e) : e \in Entries})
  /\ UNCHANGED <<frameVars, spaceVars, threads, consumingSpace, dataVars>>

EndConsume ==
  /\ Goto(Agent, "unlock", "idle")
  /\ Unlock({Location(consumingSpace, e) : e \in Entries})
  /\ UNCHANGED <<frameVars, spaceVars, threads, consumingSpace, dataVars>>

-----------------------------------------------------------------------------
ProduceStep(t) ==
  \/ CheckGate(t) \/ CheckConsumer(t) \/ Signal(t)
  \/ ReadOther(t) \/ EnterMain(t) \/ Flip(t)
  \/ Register(t) \/ ProbeLeft(t) \/ LeftBusy(t) \/ AwaitEntry(t)
  \/ Store(t) \/ Leave(t)

ConsumeStep ==
  \/ TryConsumerEntry \/ EnterConsumer \/ ResetConsumerGate
  \/ StartConsume \/ OpenOther \/ CloseGate \/ ClearConsumerIn
  \/ AwaitProducers \/ LockLeft \/ LockRight \/ Drain \/ EndConsume

(* Waits with a timeout that come round again: onTryConsumerEntry, the     *)
(* poll of the counter (line 194) and the waits of getMessageEntry.        *)
WaitTimesOut ==
  /\ \/ pc[Agent] = "idle" /\ ~consumerGate
     \/ pc[Agent] = "await" /\ threads[local[Agent]] # 0
     \/ \E t \in Threads : /\ pc[t] = "wait"
                           /\ \A e \in Entries : ~CanLock(t, Location(local[t], e))
  /\ UNCHANGED vars

Next ==
  \/ \E t \in Threads : Produce(t) \/ ProduceStep(t)
  \/ ConsumeStep
  \/ WaitTimesOut

Spec == Init /\ [][Next]_vars

(* Every thread keeps running: no step of onProduce or of the consumer     *)
(* that stays enabled is put off for ever.  Nothing obliges a thread to    *)
(* start producing.                                                        *)
Fairness ==
  /\ \A t \in Threads : WF_vars(ProduceStep(t))
  /\ WF_vars(ConsumeStep)

FairSpec == Spec /\ Fairness

-----------------------------------------------------------------------------
(* Every variable holds what its C type and the labels above allow.        *)
TypeOK ==
  /\ pc \in [Threads -> {"idle"} \cup ProducerLabels \cup ConsumerLabels]
  /\ local \in [Threads -> Spaces]
  /\ other \in [Threads -> Spaces]
  /\ entry \in [Threads -> Entries]
  /\ made \in [Threads -> Nat]
  /\ currentSpace \in Spaces
  /\ gate \in [Spaces -> BOOLEAN]
  /\ consumerGate \in BOOLEAN
  /\ consumerIn \in BOOLEAN
  /\ mainProducerGate \in Threads \cup {NoThread}
  /\ threads \in [Spaces -> Int]
  /\ owner \in [Locations -> Threads \cup {NoThread}]
  /\ depth \in [Locations -> Int]
  /\ consumingSpace \in Spaces
  /\ queue \in [Locations -> SUBSET Messages]
  /\ drained \in SUBSET Messages

(* The message store is not thread safe: onQueueMessage and the drain rely *)
(* on the entry mutexes alone, because the counter the consumer waits for  *)
(* (line 194) can be raised by a producer that passed the gate before it   *)
(* was closed.  So no two threads are ever in STORE_MSG of one location,   *)
(* and none is in a space that is being drained.                           *)
StoreExclusive ==
  /\ \A t, u \in Threads :
       /\ t # u /\ pc[t] = "store" /\ pc[u] = "store"
       => Location(local[t], entry[t]) # Location(local[u], entry[u])
  /\ pc[Agent] = "drain" =>
       \A t \in Threads : pc[t] = "store" => local[t] # local[Agent]

(* A producer that finds a gate closed moves to the other space and never  *)
(* looks at its gate (line 136), so at no moment may both gates be closed; *)
(* and the space the consumer works on is closed to newcomers from the     *)
(* ResetEvent of line 191 until the consumer's next turn.                  *)
GateDiscipline ==
  /\ \E s \in Spaces : gate[s]
  /\ pc[Agent] \in {"clearIn", "await", "lockLeft", "lockRight", "drain", "unlock"} =>
       /\ ~gate[local[Agent]]
       /\ gate[OtherSpace(local[Agent])]

(* The counter of a space is exactly the number of threads between the     *)
(* InterlockedIncrement and the InterlockedDecrement, although each works  *)
(* on a copy of the space taken at a different moment and currentSpace     *)
(* moves in between: a counter that drifted would let the consumer in too  *)
(* early or keep it out for ever.                                          *)
ThreadCount ==
  \A s \in Spaces :
    threads[s] = Cardinality({t \in Threads : pc[t] \in Registered /\ local[t] = s})

(* An object is reported from inside its constructor, so onProduce must    *)
(* give control back to the JVM thread that called it.                     *)
ProduceReturns ==
  \A t \in Threads : pc[t] \in ProducerLabels ~> pc[t] \notin ProducerLabels

(* onStartConsume waits for producers and for two mutexes, and must get    *)
(* to the drain.                                                           *)
ConsumeReturns == pc[Agent] = "await" ~> pc[Agent] = "drain"
=============================================================================

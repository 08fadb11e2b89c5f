------------------------ MODULE HeapScanAgentProofs ------------------------
(***************************************************************************)
(* Proofs about the synchroniser, the store and the consumer's loop        *)
(* together, without a limit on a batch and for any number of threads and  *)
(* messages.  What is proved about the parts is used here: of the store    *)
(* with the messages of the threads as nodes (S), of the synchroniser with *)
(* the queues that the store implements (T).                               *)
(***************************************************************************)
EXTENDS HeapScanAgent, TLAPS

S == INSTANCE MessageStoreProofs WITH UsedSpaces <- {0, 1}, MaxLines <- 0, made <- 0

T == INSTANCE ThreadSyncProofs
       WITH queue <- Queue, drained <- Drained, EndsConsume <- FALSE

Unlimited == SocketMsgLimit <= 0

-----------------------------------------------------------------------------
(* S and Store are instances of the same definitions.                      *)
LEMMA SameStore ==
  /\ S!Locations = Store!Locations
  /\ S!Waiting = Store!Waiting
  /\ S!NoSpace = Store!NoSpace
  /\ S!Init <=> Store!Init
<1>1. S!Locations = Store!Locations
  BY DEF S!Locations, Store!Locations, S!Spaces, Store!Spaces,
         S!LEFT_ENTRY, Store!LEFT_ENTRY, S!RIGHT_ENTRY, Store!RIGHT_ENTRY
<1>2. /\ S!GroupIds = Store!GroupIds /\ S!NULL = Store!NULL /\ S!NoSpace = Store!NoSpace
      /\ S!NotLooping = Store!NotLooping /\ S!EmptyGroup = Store!EmptyGroup
  BY DEF S!GroupIds, Store!GroupIds, S!NULL, Store!NULL, S!NoSpace, Store!NoSpace,
         S!NotLooping, Store!NotLooping, S!EmptyGroup, Store!EmptyGroup
<1>3. S!ListFrom = Store!ListFrom
  BY <1>2, ZenonT(60) DEF S!ListFrom, Store!ListFrom
<1>4. S!Init <=> Store!Init
  BY <1>1, <1>2, Zenon DEF S!Init, Store!Init
<1>5. /\ \A l : S!GroupsOf(l) = Store!GroupsOf(l)
      /\ \A s : S!ToSet(s) = Store!ToSet(s)
  BY <1>3, Zenon DEF S!GroupsOf, Store!GroupsOf, S!ToSet, Store!ToSet
<1>6. S!Waiting = Store!Waiting
  BY <1>1, <1>2, <1>3, <1>5 DEF S!Waiting, Store!Waiting
<1> QED
  BY <1>1, <1>2, <1>4, <1>6

LEMMA SameParts ==
  /\ S!GroupIds = Store!GroupIds /\ S!NULL = Store!NULL
  /\ S!NotLooping = Store!NotLooping /\ S!EmptyGroup = Store!EmptyGroup
  /\ S!Free = Store!Free /\ S!NewGroup = Store!NewGroup
  /\ S!splitSz = Store!splitSz
  /\ \A s : S!Left(s) = Store!Left(s) /\ S!Right(s) = Store!Right(s)
  BY Zenon
     DEF S!GroupIds, Store!GroupIds, S!NULL, Store!NULL, S!NotLooping,
         Store!NotLooping, S!EmptyGroup, Store!EmptyGroup, S!Free, Store!Free,
         S!NewGroup, Store!NewGroup, S!splitSz, Store!splitSz, S!isToBeSplit,
         Store!isToBeSplit, S!Left, Store!Left, S!Right, Store!Right,
         S!LEFT_ENTRY, Store!LEFT_ENTRY, S!RIGHT_ENTRY, Store!RIGHT_ENTRY

LEMMA SameSteps ==
  /\ \A s : S!StartConsume(s) <=> Store!StartConsume(s)
  /\ S!MergeEntries <=> Store!MergeEntries
  /\ S!MergeGrp <=> Store!MergeGrp
  /\ S!SplitOff <=> Store!SplitOff
  /\ S!LastBatch <=> Store!LastBatch
  /\ \A l, node : S!QueueMessage(l, node) <=> Store!QueueMessage(l, node)
<1>1. \A s : S!StartConsume(s) <=> Store!StartConsume(s)
  BY Zenon
     DEF S!StartConsume, Store!StartConsume, S!Shadows, Store!Shadows,
         S!heapVars, Store!heapVars, S!NULL, Store!NULL, S!Left, Store!Left,
         S!Right, Store!Right, S!LEFT_ENTRY, Store!LEFT_ENTRY, S!RIGHT_ENTRY,
         Store!RIGHT_ENTRY, S!NoSpace, Store!NoSpace
<1>2. S!MergeEntries <=> Store!MergeEntries
  BY SameParts, SameStore, Zenon DEF S!MergeEntries, Store!MergeEntries
<1>3. S!MergeGrp <=> Store!MergeGrp
  BY SameParts, SameStore, Zenon
     DEF S!MergeGrp, Store!MergeGrp, S!MergedGroup, Store!MergedGroup,
         S!Linked, Store!Linked
<1>4. S!SplitOff <=> Store!SplitOff
  BY Zenon
     DEF S!SplitOff, Store!SplitOff, S!Deliver, Store!Deliver, S!Left,
         Store!Left, S!LEFT_ENTRY, Store!LEFT_ENTRY, S!NULL, Store!NULL,
         S!splitSz, Store!splitSz, S!isToBeSplit, Store!isToBeSplit,
         S!NotLooping, Store!NotLooping, S!NoSpace, Store!NoSpace, S!ToSet,
         Store!ToSet
<1>5. S!LastBatch <=> Store!LastBatch
  BY Zenon
     DEF S!LastBatch, Store!LastBatch, S!Deliver, Store!Deliver, S!Left,
         Store!Left, S!LEFT_ENTRY, Store!LEFT_ENTRY, S!NULL, Store!NULL,
         S!NotLooping, Store!NotLooping, S!NoSpace, Store!NoSpace, S!ToSet,
         Store!ToSet, S!Free, Store!Free, S!NewGroup, Store!NewGroup,
         S!GroupIds, Store!GroupIds, S!EmptyGroup, Store!EmptyGroup
<1>6. \A l, node : S!QueueMessage(l, node) <=> Store!QueueMessage(l, node)
  BY Zenon
     DEF S!QueueMessage, Store!QueueMessage, S!LocationOf, Store!LocationOf,
         S!LEFT_ENTRY, Store!LEFT_ENTRY, S!RIGHT_ENTRY, Store!RIGHT_ENTRY,
         S!NewGroup, Store!NewGroup, S!GroupIsFull, Store!GroupIsFull, S!Free,
         Store!Free, S!GroupIds, Store!GroupIds, S!isToBeSplit,
         Store!isToBeSplit, S!splitSz, Store!splitSz, S!AppendNode,
         Store!AppendNode, S!Linked, Store!Linked, S!EmptyGroup,
         Store!EmptyGroup, S!NULL, Store!NULL
<1> QED
  BY <1>1, <1>2, <1>3, <1>4, <1>5, <1>6

(* So are T and Sync.                                                      *)
LEMMA SameProducing ==
  ASSUME NEW t
  PROVE  /\ T!Produce(t) <=> Sync!Produce(t)
         /\ T!CheckGate(t) <=> Sync!CheckGate(t)
         /\ T!CheckConsumer(t) <=> Sync!CheckConsumer(t)
         /\ T!Signal(t) <=> Sync!Signal(t)
         /\ T!ReadOther(t) <=> Sync!ReadOther(t)
         /\ T!EnterMain(t) <=> Sync!EnterMain(t)
         /\ T!Flip(t) <=> Sync!Flip(t)
         /\ T!Register(t) <=> Sync!Register(t)
         /\ T!ProbeLeft(t) <=> Sync!ProbeLeft(t)
         /\ T!LeftBusy(t) <=> Sync!LeftBusy(t)
         /\ T!AwaitEntry(t) <=> Sync!AwaitEntry(t)
         /\ T!Store(t) <=> Sync!Store(t)
         /\ T!Leave(t) <=> Sync!Leave(t)
  BY Zenon
     DEF T!Produce, Sync!Produce, T!CheckGate, Sync!CheckGate, T!CheckConsumer,
         Sync!CheckConsumer, T!Signal, Sync!Signal, T!ReadOther,
         Sync!ReadOther, T!EnterMain, Sync!EnterMain, T!Flip, Sync!Flip,
         T!Register, Sync!Register, T!ProbeLeft, Sync!ProbeLeft, T!LeftBusy,
         Sync!LeftBusy, T!AwaitEntry, Sync!AwaitEntry, T!Store, Sync!Store,
         T!Leave, Sync!Leave, T!spaceVars, Sync!spaceVars, T!lockVars,
         Sync!lockVars, T!frameVars, Sync!frameVars, T!dataVars, Sync!dataVars,
         T!Goto, Sync!Goto, T!Lock, Sync!Lock, T!CanLock, Sync!CanLock,
         T!Unlock, Sync!Unlock, T!IsReady, Sync!IsReady, T!TakeEntry,
         Sync!TakeEntry, T!LEFT_ENTRY, Sync!LEFT_ENTRY, T!RIGHT_ENTRY,
         Sync!RIGHT_ENTRY, T!Spaces, Sync!Spaces, T!Entries, Sync!Entries,
         T!Locations, Sync!Locations, T!OtherSpace, Sync!OtherSpace,
         T!Location, Sync!Location

LEMMA SameConsuming ==
  /\ T!TryConsumerEntry <=> Sync!TryConsumerEntry
  /\ T!EnterConsumer <=> Sync!EnterConsumer
  /\ T!ResetConsumerGate <=> Sync!ResetConsumerGate
  /\ T!StartConsume <=> Sync!StartConsume
  /\ T!OpenOther <=> Sync!OpenOther
  /\ T!CloseGate <=> Sync!CloseGate
  /\ T!ClearConsumerIn <=> Sync!ClearConsumerIn
  /\ T!AwaitProducers <=> Sync!AwaitProducers
  /\ T!LockLeft <=> Sync!LockLeft
  /\ T!LockRight <=> Sync!LockRight
  /\ T!Drain <=> Sync!Drain
  /\ T!EndConsume <=> Sync!EndConsume
  BY Zenon
     DEF T!TryConsumerEntry, Sync!TryConsumerEntry, T!EnterConsumer,
         Sync!EnterConsumer, T!ResetConsumerGate, Sync!ResetConsumerGate,
         T!StartConsume, Sync!StartConsume, T!OpenOther, Sync!OpenOther,
         T!CloseGate, Sync!CloseGate, T!ClearConsumerIn, Sync!ClearConsumerIn,
         T!AwaitProducers, Sync!AwaitProducers, T!LockLeft, Sync!LockLeft,
         T!LockRight, Sync!LockRight, T!Drain, Sync!Drain, T!EndConsume,
         Sync!EndConsume, T!spaceVars, Sync!spaceVars, T!lockVars,
         Sync!lockVars, T!frameVars, Sync!frameVars, T!dataVars, Sync!dataVars,
         T!Goto, Sync!Goto, T!Lock, Sync!Lock, T!CanLock, Sync!CanLock,
         T!Unlock, Sync!Unlock, T!SetGate, Sync!SetGate, T!DrainOf,
         Sync!DrainOf, T!Here, Sync!Here, T!LEFT_ENTRY, Sync!LEFT_ENTRY,
         T!RIGHT_ENTRY, Sync!RIGHT_ENTRY, T!Spaces, Sync!Spaces, T!Entries,
         Sync!Entries, T!Locations, Sync!Locations, T!OtherSpace,
         Sync!OtherSpace, T!Location, Sync!Location

LEMMA SameSync ==
  /\ T!Init <=> Sync!Init
  /\ T!vars = Sync!vars
  /\ T!Next <=> Sync!Next
<1>1. T!Init <=> Sync!Init
  BY Zenon
     DEF T!Init, Sync!Init, T!LEFT_SPACE, Sync!LEFT_SPACE, T!RIGHT_SPACE,
         Sync!RIGHT_SPACE, T!LEFT_ENTRY, Sync!LEFT_ENTRY, T!RIGHT_ENTRY,
         Sync!RIGHT_ENTRY, T!Spaces, Sync!Spaces, T!Entries, Sync!Entries,
         T!Locations, Sync!Locations, T!OtherSpace, Sync!OtherSpace,
         T!Location, Sync!Location, T!Threads, Sync!Threads
<1>2. T!vars = Sync!vars
  BY Zenon
     DEF T!spaceVars, Sync!spaceVars, T!lockVars, Sync!lockVars, T!frameVars,
         Sync!frameVars, T!dataVars, Sync!dataVars, T!vars, Sync!vars
<1>3. T!WaitTimesOut <=> Sync!WaitTimesOut
  BY Zenon
     DEF T!WaitTimesOut, Sync!WaitTimesOut, T!Threads, Sync!Threads, T!CanLock,
         Sync!CanLock, T!Location, Sync!Location, T!Entries, Sync!Entries,
         T!LEFT_ENTRY, Sync!LEFT_ENTRY, T!RIGHT_ENTRY, Sync!RIGHT_ENTRY,
         T!vars, Sync!vars, T!spaceVars, Sync!spaceVars, T!lockVars,
         Sync!lockVars, T!frameVars, Sync!frameVars, T!dataVars, Sync!dataVars
<1>4. T!Threads = Sync!Threads
  BY DEF T!Threads, Sync!Threads
<1>5. /\ \A t : T!ProduceStep(t) <=> Sync!ProduceStep(t)
      /\ T!ConsumeStep <=> Sync!ConsumeStep
  BY SameProducing, SameConsuming, Zenon
     DEF T!ProduceStep, Sync!ProduceStep, T!ConsumeStep, Sync!ConsumeStep
<1> QED
  BY SameProducing, <1>1, <1>2, <1>3, <1>4, <1>5 DEF T!Next, Sync!Next

LEMMA SameStoreNext == (S!Waiting = Store!Waiting)'
<1>1. S!Waiting = Store!Waiting
  BY SameStore
<1> QED
  BY <1>1, PTL

LEMMA SameSets == \A s : ToSet(s) = S!ToSet(s) /\ IsInjective(s) = S!IsInjective(s)
  BY DEF ToSet, S!ToSet, IsInjective, S!IsInjective

-----------------------------------------------------------------------------
(* The store holds the messages of the threads, and its loop runs while    *)
(* the consumer is in its drain.                                           *)
AgentNodes == {<<m>> : m \in T!Messages}

DrainLink == draining = IF pc[Agent] = "drain" THEN local[Agent] ELSE S!NoSpace

AgentInv == S!StoreInv(AgentNodes) /\ T!SyncInv /\ DrainLink

(* A message and its node stand for each other.                            *)
LEMMA ContentFacts ==
  ASSUME NEW A, NEW B, A \subseteq AgentNodes, B \subseteq AgentNodes
  PROVE  /\ Content(A \cup B) = Content(A) \cup Content(B)
         /\ Content(A \ B) = Content(A) \ Content(B)
         /\ Content(A \cap B) = Content(A) \cap Content(B)
         /\ \A m : m \in Content(A) <=> <<m>> \in A
         /\ Content(A) \subseteq T!Messages
<1>1. ASSUME NEW C, C \subseteq AgentNodes, NEW m
      PROVE  m \in Content(C) <=> <<m>> \in C
  BY <1>1 DEF Content, AgentNodes
<1>2. /\ A \cup B \subseteq AgentNodes /\ A \ B \subseteq AgentNodes
      /\ A \cap B \subseteq AgentNodes
  OBVIOUS
<1>3. \A m : <<m>> \in AgentNodes <=> m \in T!Messages
  BY DEF AgentNodes
<1>4. /\ \A m : m \in Content(A) <=> <<m>> \in A
      /\ \A m : m \in Content(B) <=> <<m>> \in B
      /\ \A m : m \in Content(A \cup B) <=> <<m>> \in A \cup B
      /\ \A m : m \in Content(A \ B) <=> <<m>> \in A \ B
      /\ \A m : m \in Content(A \cap B) <=> <<m>> \in A \cap B
  BY <1>1, <1>2
<1> QED
  BY <1>3, <1>4

LEMMA QueueIs ==
  ASSUME S!StoreInv(AgentNodes)
  PROVE  /\ Queue = [l \in S!Locations |-> Content(S!ToSet(arrived[l]) \cap S!Waiting)]
         /\ Drained = Content(S!HandedOver)
         /\ \A l \in S!Locations : S!ToSet(arrived[l]) \subseteq AgentNodes
         /\ S!Waiting \subseteq AgentNodes /\ S!HandedOver \subseteq AgentNodes
<1>1. /\ S!Stored = S!Waiting \cup S!HandedOver /\ S!Stored \subseteq AgentNodes
      /\ \A l \in S!Locations : S!ToSet(arrived[l]) \subseteq S!Stored
  BY S!StoredFacts, AgentAssumption
<1> QED
  BY <1>1, SameStore, SameSets DEF Queue, Drained, S!HandedOver

LEMMA QueueNext ==
  /\ Queue' = [l \in S!Locations |-> Content(S!ToSet(arrived'[l]) \cap S!Waiting')]
  /\ Drained' = Content(S!HandedOver')
  BY SameStore, SameStoreNext, SameSets DEF Queue, Drained, S!HandedOver, Content

-----------------------------------------------------------------------------
(* Each step keeps the invariant of the store and is a step of ThreadSync, *)
(* or changes nothing that ThreadSync knows about.                         *)
LEMMA FiniteProducers == T!IsFiniteSet(Producers)
  BY AgentAssumption, Zenon DEF T!IsFiniteSet, IsFiniteSet

LEMMA ThreadTypes ==
  ASSUME T!SyncInv
  PROVE  /\ T!TypeInv /\ T!StoreExclusive
         /\ Agent \in T!Threads
         /\ pc \in [T!Threads -> {"idle"} \cup T!ProducerLabels \cup T!ConsumerLabels]
         /\ local \in [T!Threads -> {0, 1}]
         /\ entry \in [T!Threads -> {2, 4}]
<1>1. T!TypeInv /\ T!StoreExclusive
  BY T!SyncInvExclusive, AgentAssumption, FiniteProducers DEF T!SyncInv, T!Threads
<1> QED
  BY <1>1 DEF T!TypeInv, T!TypeOK, T!Threads, T!Spaces, T!Entries, T!LEFT_SPACE,
              T!RIGHT_SPACE, T!LEFT_ENTRY, T!RIGHT_ENTRY

LEMMA StoreIsStore ==
  ASSUME Unlimited, AgentInv, NEW t \in T!Threads, StoreMsg(t)
  PROVE  S!StoreInv(AgentNodes)' /\ DrainLink' /\ T!Store(t)
<1> DEFINE l == local[t] + entry[t]
           m == <<t, made[t]>>
<1>1. /\ pc[t] = "store" /\ pc' = [pc EXCEPT ![t] = "leave"]
      /\ S!QueueMessage(l, <<m>>)
      /\ T!Goto(t, "store", "leave") /\ T!Unlock({l})
      /\ UNCHANGED <<syncFrame, draining, loop, batch, sent, unsent>>
  BY SameSteps DEF StoreMsg, Sync!Goto, Sync!Location, Sync!Unlock, Sync!Locations,
                   T!Goto, T!Unlock, T!Locations
<1>2. /\ l \in S!Locations /\ l % 2 = local[t] /\ local[t] \in {0, 1}
      /\ S!Locations = {2, 3, 4, 5}
  <2>1. local[t] \in {0, 1} /\ entry[t] \in {2, 4}
    BY ThreadTypes DEF AgentInv
  <2> QED
    BY <2>1 DEF S!Locations, S!Spaces, S!LEFT_ENTRY, S!RIGHT_ENTRY
<1>3. l % 2 # draining
  BY <1>1, <1>2, ThreadTypes DEF AgentInv, T!StoreExclusive, DrainLink, S!NoSpace
<1>4. /\ m \in T!Messages /\ <<m>> \in AgentNodes
      /\ ~T!HandedOver(m)
  <2>1. T!TypeInv
    BY ThreadTypes DEF AgentInv
  <2>2. made[t] \in 1..Quota[t]
    BY <1>1, <2>1, AgentAssumption
       DEF T!TypeInv, T!TypeOK, T!MadeInv, T!PreStore, T!Threads
  <2>3. m \in T!Messages
    BY <2>2 DEF T!Messages
  <2>4. ~T!HandedOver(m)
    BY <1>1, <2>1, T!WorkedOnIsNew, AgentAssumption, FiniteProducers
       DEF T!PreStore, T!Threads
  <2> QED
    BY <2>3, <2>4 DEF AgentNodes
<1> HIDE DEF m, l
<1>5. /\ Queue = [k \in S!Locations |-> Content(S!ToSet(arrived[k]) \cap S!Waiting)]
      /\ Drained = Content(S!HandedOver)
      /\ \A k \in S!Locations : S!ToSet(arrived[k]) \subseteq AgentNodes
      /\ S!Waiting \subseteq AgentNodes /\ S!HandedOver \subseteq AgentNodes
  BY QueueIs DEF AgentInv
<1>6. /\ S!Stored = S!Waiting \cup S!HandedOver
      /\ S!Stored = UNION {S!ToSet(arrived[k]) : k \in S!Locations}
  BY S!StoredFacts, AgentAssumption DEF AgentInv, S!Stored
<1>7. <<m>> \notin S!Stored
  <2>1. SUFFICES ASSUME <<m>> \in S!Stored PROVE FALSE
    OBVIOUS
  <2>2. CASE <<m>> \in S!HandedOver
    BY <1>4, <1>5, <2>2, ContentFacts DEF AgentInv, T!SyncInv, T!MessageInv
  <2>3. CASE <<m>> \in S!Waiting
    <3>1. PICK k \in S!Locations : <<m>> \in S!ToSet(arrived[k])
      BY <1>6, <2>1
    <3>2. m \in Queue[k]
      <4>1. S!ToSet(arrived[k]) \cap S!Waiting \subseteq AgentNodes
        BY <1>5
      <4> QED
        BY <1>5, <2>3, <3>1, <4>1, ContentFacts
    <3> QED
      BY <1>2, <1>4, <3>2 DEF AgentInv, T!SyncInv, T!MessageInv, T!Locations
  <2> QED
    BY <1>6, <2>1, <2>2, <2>3
<1>8. /\ S!StoreInv(AgentNodes)'
      /\ S!Waiting' = S!Waiting \cup {<<m>>} /\ S!HandedOver' = S!HandedOver
      /\ <<m>> \notin S!Waiting
  BY <1>1, <1>2, <1>3, <1>4, <1>7, S!AppendKept, AgentAssumption
     DEF AgentInv, Unlimited, S!Unlimited, S!isToBeSplit
<1>9. /\ S!ToSet(arrived'[l]) = S!ToSet(arrived[l]) \cup {<<m>>}
      /\ \A k \in S!Locations : k # l => S!ToSet(arrived'[k]) = S!ToSet(arrived[k])
  <2>1. arrived \in [S!Locations -> Seq(AgentNodes)]
    BY DEF AgentInv, S!StoreInv, S!Origin
  <2>2. arrived' = [arrived EXCEPT ![l] = Append(@, <<m>>)]
    BY <1>1 DEF S!QueueMessage
  <2>3. S!ToSet(Append(arrived[l], <<m>>)) = S!ToSet(arrived[l]) \cup {<<m>>}
    BY <1>2, <1>4, <2>1, S!SetOfAppend, AgentAssumption
  <2> QED
    BY <1>2, <2>1, <2>2, <2>3
<1>10. ASSUME NEW k \in S!Locations
       PROVE  Queue'[k] = IF k = l THEN Queue[k] \cup {m} ELSE Queue[k]
  <2>1. Queue'[k] = Content(S!ToSet(arrived'[k]) \cap S!Waiting')
    BY QueueNext
  <2>2. Queue[k] = Content(S!ToSet(arrived[k]) \cap S!Waiting)
    BY <1>5
  <2>3. CASE k = l
    <3>1. S!ToSet(arrived'[k]) \cap S!Waiting' = (S!ToSet(arrived[k]) \cap S!Waiting) \cup {<<m>>}
      BY <1>8, <1>9, <2>3
    <3>2. Content((S!ToSet(arrived[k]) \cap S!Waiting) \cup {<<m>>})
            = Content(S!ToSet(arrived[k]) \cap S!Waiting) \cup Content({<<m>>})
      <4>1. S!ToSet(arrived[k]) \cap S!Waiting \subseteq AgentNodes /\ {<<m>>} \subseteq AgentNodes
        BY <1>4, <1>5
      <4> QED
        BY <4>1, ContentFacts
    <3>3. Content({<<m>>}) = {m}
      BY DEF Content
    <3> QED
      BY <2>1, <2>2, <2>3, <3>1, <3>2, <3>3
  <2>4. CASE k # l
    <3>1. <<m>> \notin S!ToSet(arrived[k])
      BY <1>6, <1>7
    <3>2. S!ToSet(arrived'[k]) \cap S!Waiting' = S!ToSet(arrived[k]) \cap S!Waiting
      BY <1>8, <1>9, <2>4, <3>1
    <3> QED
      BY <2>1, <2>2, <2>4, <3>2
  <2> QED
    BY <2>3, <2>4
<1>11. Queue' = [Queue EXCEPT ![l] = @ \cup {m}] /\ Drained' = Drained
  BY <1>2, <1>5, <1>8, <1>10, QueueNext
<1>12. T!Store(t)
  BY <1>1, <1>11 DEF T!Store, T!Location, T!frameVars, T!spaceVars, syncFrame, l, m
<1>13. DrainLink'
  BY <1>1, ThreadTypes DEF AgentInv, DrainLink, syncFrame
<1> QED
  BY <1>8, <1>12, <1>13

(* While the store does not change, neither do the queues.                 *)
LEMMA QueueKept ==
  ASSUME S!StoreInv(AgentNodes), UNCHANGED arrived,
         S!Waiting' = S!Waiting, S!HandedOver' = S!HandedOver
  PROVE  Queue' = Queue /\ Drained' = Drained
  BY QueueIs, QueueNext

LEMMA SyncStepIsStep ==
  ASSUME Unlimited, AgentInv, SyncStep
  PROVE  S!StoreInv(AgentNodes)' /\ DrainLink' /\ T!Next
<1>1. /\ S!StoreInv(AgentNodes)'
      /\ S!Waiting' = S!Waiting /\ S!HandedOver' = S!HandedOver
  BY S!FrameKept, AgentAssumption DEF SyncStep, storeVars, AgentInv
<1>2. /\ pc \in [T!Threads -> {"idle"} \cup T!ProducerLabels \cup T!ConsumerLabels]
      /\ Agent \in T!Threads /\ local \in [T!Threads -> {0, 1}]
  BY ThreadTypes DEF AgentInv
<1>3. CASE \E t \in Threads :
             \/ Sync!Produce(t) \/ Sync!CheckGate(t) \/ Sync!CheckConsumer(t)
             \/ Sync!Signal(t) \/ Sync!ReadOther(t) \/ Sync!EnterMain(t) \/ Sync!Flip(t)
             \/ Sync!Register(t) \/ Sync!ProbeLeft(t) \/ Sync!LeftBusy(t)
             \/ Sync!AwaitEntry(t) \/ Sync!Leave(t)
  <2>1. PICK t \in T!Threads :
             \/ T!Produce(t) \/ T!CheckGate(t) \/ T!CheckConsumer(t)
             \/ T!Signal(t) \/ T!ReadOther(t) \/ T!EnterMain(t) \/ T!Flip(t)
             \/ T!Register(t) \/ T!ProbeLeft(t) \/ T!LeftBusy(t)
             \/ T!AwaitEntry(t) \/ T!Leave(t)
    <3>1. Threads = T!Threads
      BY DEF Threads, Sync!Threads, T!Threads
    <3> QED
      BY <1>3, <3>1, SameProducing
  <2>2. \E from, to \in {"idle"} \cup T!ProducerLabels : T!Goto(t, from, to)
    BY <2>1 DEF T!Produce, T!CheckGate, T!CheckConsumer, T!Signal, T!ReadOther, T!EnterMain,
                T!Flip, T!Register, T!ProbeLeft, T!LeftBusy, T!AwaitEntry, T!Leave,
                T!TakeEntry, T!ProducerLabels
  <2>3. "drain" \notin {"idle"} \cup T!ProducerLabels
    BY DEF T!ProducerLabels
  <2>4. pc[t] # "drain" /\ pc'[t] # "drain" /\ \A u \in T!Threads \ {t} : pc'[u] = pc[u]
    BY <1>2, <2>2, <2>3 DEF T!Goto
  <2>5. \A u \in T!Threads \ {t} : local'[u] = local[u]
    BY <1>2, <2>1
       DEF T!Produce, T!CheckGate, T!CheckConsumer, T!Signal, T!ReadOther, T!EnterMain,
           T!Flip, T!Register, T!ProbeLeft, T!LeftBusy, T!AwaitEntry, T!Leave,
           T!TakeEntry, T!frameVars
  <2>6. DrainLink'
    BY <1>2, <2>4, <2>5 DEF AgentInv, DrainLink, SyncStep, storeVars
  <2>7. T!Next
    BY <2>1 DEF T!Next, T!ProduceStep
  <2> QED
    BY <1>1, <2>6, <2>7
<1>4. CASE \/ Sync!TryConsumerEntry \/ Sync!EnterConsumer \/ Sync!ResetConsumerGate
           \/ Sync!StartConsume \/ Sync!OpenOther \/ Sync!CloseGate
           \/ Sync!ClearConsumerIn \/ Sync!AwaitProducers \/ Sync!LockLeft
  <2>1. \/ T!TryConsumerEntry \/ T!EnterConsumer \/ T!ResetConsumerGate
        \/ T!StartConsume \/ T!OpenOther \/ T!CloseGate
        \/ T!ClearConsumerIn \/ T!AwaitProducers \/ T!LockLeft
    BY <1>4, SameConsuming
  <2>2. \E from, to \in {"idle"} \cup T!ConsumerLabels :
          T!Goto(Agent, from, to) /\ from # "drain" /\ to # "drain"
    BY <2>1 DEF T!TryConsumerEntry, T!EnterConsumer, T!ResetConsumerGate, T!StartConsume,
                T!OpenOther, T!CloseGate, T!SetGate, T!ClearConsumerIn, T!AwaitProducers,
                T!LockLeft, T!ConsumerLabels
  <2>3. pc[Agent] # "drain" /\ pc'[Agent] # "drain"
    BY <1>2, <2>2 DEF T!Goto
  <2>4. DrainLink'
    BY <2>3 DEF AgentInv, DrainLink, SyncStep, storeVars
  <2>5. T!Next
    BY <2>1 DEF T!Next, T!ConsumeStep
  <2> QED
    BY <1>1, <2>4, <2>5
<1> QED
  BY <1>3, <1>4 DEF SyncStep

LEMMA BeginDrainIsStep ==
  ASSUME Unlimited, AgentInv, BeginDrain
  PROVE  S!StoreInv(AgentNodes)' /\ DrainLink' /\ T!Next
<1>1. S!StartConsume(local[Agent]) /\ T!LockRight
  BY SameSteps, SameConsuming DEF BeginDrain
<1>2. /\ Agent \in T!Threads /\ local[Agent] \in S!Spaces
      /\ pc \in [T!Threads -> {"idle"} \cup T!ProducerLabels \cup T!ConsumerLabels]
  BY ThreadTypes DEF AgentInv, S!Spaces
<1>3. S!StoreInv(AgentNodes)'
  BY <1>1, <1>2, S!BeginKept, AgentAssumption DEF AgentInv
<1>4. /\ pc'[Agent] = "drain" /\ draining' = local[Agent] /\ local' = local
  BY <1>1, <1>2 DEF S!StartConsume, T!LockRight, T!Goto, T!frameVars
<1>5. DrainLink'
  BY <1>4 DEF DrainLink
<1> QED
  BY <1>1, <1>3, <1>5 DEF T!Next, T!ConsumeStep

LEMMA RetrieveIsStep ==
  ASSUME Unlimited, AgentInv, Retrieve
  PROVE  S!StoreInv(AgentNodes)' /\ DrainLink' /\ (T!Next \/ UNCHANGED T!vars)
<1>1. /\ pc[Agent] = "drain"
      /\ S!MergeEntries \/ S!MergeGrp \/ S!SplitOff \/ S!LastBatch
      /\ pc' = IF draining' = S!NoSpace THEN [pc EXCEPT ![Agent] = "idle"] ELSE pc
      /\ UNCHANGED <<syncFrame, owner, depth>>
  BY SameSteps, SameStore DEF Retrieve
<1>2. /\ S!StoreInv(AgentNodes) /\ S!Unlimited
      /\ draining = local[Agent] /\ local[Agent] \in {0, 1}
      /\ Agent \in T!Threads
      /\ pc \in [T!Threads -> {"idle"} \cup T!ProducerLabels \cup T!ConsumerLabels]
  BY <1>1, ThreadTypes, AgentAssumption
     DEF AgentInv, DrainLink, Unlimited, S!Unlimited, S!isToBeSplit
<1>3. CASE S!MergeEntries \/ S!MergeGrp
  <2>1. /\ S!StoreInv(AgentNodes)' /\ draining' = draining
        /\ S!Waiting' = S!Waiting /\ S!HandedOver' = S!HandedOver
    BY <1>2, <1>3, S!MergeKept, AgentAssumption
  <2>2. UNCHANGED arrived
    BY <1>3 DEF S!MergeEntries, S!MergeGrp
  <2>3. Queue' = Queue /\ Drained' = Drained
    BY <1>2, <2>1, <2>2, QueueKept
  <2>4. pc' = pc
    BY <1>1, <1>2, <2>1 DEF S!NoSpace
  <2>5. UNCHANGED T!vars
    BY <1>1, <2>3, <2>4 DEF T!vars, T!frameVars, T!spaceVars, T!lockVars, T!dataVars, syncFrame
  <2>6. DrainLink'
    BY <1>1, <1>2, <2>1, <2>4 DEF DrainLink, syncFrame
  <2> QED
    BY <2>1, <2>5, <2>6
<1>4. CASE S!SplitOff \/ S!LastBatch
  <2> DEFINE B == S!At(loop.cur)
             taken == Content(B)
             ends == draining' = S!NoSpace
  <2>1. /\ S!StoreInv(AgentNodes)'
        /\ B \subseteq S!Waiting /\ S!Waiting' = S!Waiting \ B
        /\ S!HandedOver' = S!HandedOver \cup B
        /\ B \subseteq S!StoredAt(draining) /\ draining \in S!Spaces
        /\ UNCHANGED arrived
        /\ draining' \in {draining, S!NoSpace}
    BY <1>2, <1>4, S!BatchKept, AgentAssumption
  <2> HIDE DEF B
  <2>2. /\ Queue = [k \in S!Locations |-> Content(S!ToSet(arrived[k]) \cap S!Waiting)]
        /\ Drained = Content(S!HandedOver)
        /\ \A k \in S!Locations : S!ToSet(arrived[k]) \subseteq AgentNodes
        /\ S!Waiting \subseteq AgentNodes /\ S!HandedOver \subseteq AgentNodes
        /\ Queue' = [k \in S!Locations |-> Content(S!ToSet(arrived[k]) \cap S!Waiting')]
        /\ Drained' = Content(S!HandedOver')
    BY <1>2, <2>1, QueueIs, QueueNext
  <2>3. /\ S!Locations = {2, 3, 4, 5} /\ T!Locations = {2, 3, 4, 5}
        /\ T!Here = {draining + 2, draining + 4}
        /\ draining \in {0, 1}
        /\ S!Left(draining) = draining + 2 /\ S!Right(draining) = draining + 4
    BY <1>2 DEF S!Locations, S!Spaces, S!LEFT_ENTRY, S!RIGHT_ENTRY, T!Locations, T!Here,
                T!Location, T!Entries, T!LEFT_ENTRY, T!RIGHT_ENTRY, S!Left, S!Right
  <2>4. Drained' = Drained \cup taken
    BY <2>1, <2>2, ContentFacts
  <2>5. ASSUME NEW k \in S!Locations
        PROVE  Queue'[k] = IF k \in T!Here THEN Queue[k] \ taken ELSE Queue[k]
    <3> DEFINE old == S!ToSet(arrived[k]) \cap S!Waiting
    <3>1. Queue'[k] = Content(S!ToSet(arrived[k]) \cap S!Waiting') /\ Queue[k] = Content(old)
      BY <2>2
    <3>2. S!ToSet(arrived[k]) \cap S!Waiting' = old \ B
      BY <2>1
    <3>3. old \subseteq AgentNodes /\ B \subseteq AgentNodes
      BY <2>1, <2>2
    <3> HIDE DEF old
    <3>4. Queue'[k] = Queue[k] \ taken
      <4>1. Content(old \ B) = Content(old) \ Content(B)
        BY <3>3, ContentFacts
      <4> QED
        BY <3>1, <3>2, <4>1
    <3>5. CASE k \notin T!Here
      <4>1. k % 2 # draining
        BY <2>3, <3>5
      <4>2. S!ToSet(arrived[k]) \cap S!StoredAt(draining) = {}
        BY <1>2, <2>1, <4>1, S!StoredFacts, AgentAssumption
      <4>3. old \ B = old
        BY <2>1, <4>2 DEF old
      <4> QED
        BY <3>1, <3>2, <3>5, <4>3
    <3> QED
      BY <3>4, <3>5
  <2>6. Queue' = [k \in T!Locations |-> IF k \in T!Here THEN Queue[k] \ taken ELSE Queue[k]]
    BY <2>2, <2>3, <2>5
  <2>7. taken \subseteq UNION {Queue[k] : k \in T!Here}
    <3>1. ASSUME NEW x \in taken PROVE \E k \in T!Here : x \in Queue[k]
      <4>1. PICK n \in B : x = n[1]
        BY DEF Content
      <4>2. PICK k \in T!Here : n \in S!ToSet(arrived[k])
        BY <2>1, <2>3 DEF S!StoredAt
      <4>3. n \in S!Waiting /\ k \in S!Locations
        BY <2>1, <2>3
      <4> QED
        BY <2>2, <4>1, <4>2, <4>3 DEF Content
    <3> QED
      BY <3>1
  <2>8. pc' = [pc EXCEPT ![Agent] = IF ~ends THEN "drain" ELSE "idle"]
    BY <1>1, <1>2
  <2>9. DrainLink'
    BY <1>1, <1>2, <2>1, <2>8 DEF DrainLink, syncFrame, S!NoSpace
  <2>10. UNCHANGED <<T!frameVars, T!spaceVars, threads, T!lockVars, consumingSpace>>
    BY <1>1 DEF T!frameVars, T!spaceVars, T!lockVars, syncFrame
  <2> HIDE DEF taken, ends
  <2>11. CASE ends \/ taken # {}
    <3>1. T!DrainOf(taken, ends)
      BY <1>1, <2>4, <2>6, <2>8, <2>10, <2>11 DEF T!DrainOf, T!Goto
    <3>2. ends \in BOOLEAN
      BY DEF ends
    <3>3. T!Drain
      BY <2>7, <3>1, <3>2, Zenon DEF T!Drain
    <3> QED
      BY <2>1, <2>9, <3>3 DEF T!Next, T!ConsumeStep
  <2>12. CASE ~(ends \/ taken # {})
    <3>1. Queue' = Queue /\ Drained' = Drained
      <4>1. taken = {}
        BY <2>12
      <4>2. Drained' = Drained
        BY <2>4, <4>1
      <4>3. Queue' = [k \in T!Locations |-> Queue[k]]
        BY <2>6, <4>1
      <4>4. Queue = [k \in T!Locations |-> Queue[k]]
        BY <2>2, <2>3
      <4> QED
        BY <4>2, <4>3, <4>4, Zenon
    <3>2. pc' = pc
      BY <1>1, <2>12 DEF ends
    <3>3. UNCHANGED T!vars
      BY <2>10, <3>1, <3>2 DEF T!vars, T!dataVars
    <3> QED
      BY <2>1, <2>9, <3>3
  <2> QED
    BY <2>11, <2>12
<1> QED
  BY <1>1, <1>3, <1>4

LEMMA AgentInit == Init => AgentInv /\ Sync!Init
<1> SUFFICES ASSUME Init PROVE AgentInv /\ Sync!Init
  OBVIOUS
<1>1. S!Init /\ T!Init /\ Sync!Init
  BY SameStore, SameSync DEF Init
<1>2. S!StoreInv(AgentNodes)
  BY <1>1, S!StoreInit, AgentAssumption
<1>3. T!SyncInv
  BY <1>1, T!SyncInvInit, AgentAssumption, FiniteProducers DEF T!Threads
<1>4. DrainLink
  BY <1>1, <1>3, ThreadTypes DEF DrainLink, T!Init, S!Init
<1> QED
  BY <1>1, <1>2, <1>3, <1>4 DEF AgentInv

LEMMA AgentStep ==
  ASSUME Unlimited, AgentInv, [Next]_vars
  PROVE  AgentInv' /\ [Sync!Next]_Sync!vars
<1>1. S!StoreInv(AgentNodes)' /\ DrainLink' /\ (T!Next \/ UNCHANGED T!vars)
  <2>1. CASE UNCHANGED vars
    <3>1. /\ S!StoreInv(AgentNodes)'
          /\ S!Waiting' = S!Waiting /\ S!HandedOver' = S!HandedOver
      BY <2>1, S!FrameKept, AgentAssumption DEF vars, storeVars, AgentInv
    <3>2. Queue' = Queue /\ Drained' = Drained
      BY <2>1, <3>1, QueueKept DEF vars, storeVars, AgentInv
    <3>3. UNCHANGED T!vars
      BY <2>1, <3>2
         DEF vars, syncVars, syncFrame, T!vars, T!frameVars, T!spaceVars, T!lockVars, T!dataVars
    <3> QED
      BY <2>1, <3>1, <3>3 DEF AgentInv, DrainLink, vars, syncVars, syncFrame, storeVars
  <2>2. CASE SyncStep
    BY <2>2, SyncStepIsStep
  <2>3. CASE \E t \in Threads : StoreMsg(t)
    <3>1. PICK t \in T!Threads : StoreMsg(t)
      BY <2>3 DEF Threads, Sync!Threads, T!Threads
    <3> QED
      BY <3>1, StoreIsStore DEF T!Next, T!ProduceStep
  <2>4. CASE BeginDrain
    BY <2>4, BeginDrainIsStep
  <2>5. CASE Retrieve
    BY <2>5, RetrieveIsStep
  <2> QED
    BY <2>1, <2>2, <2>3, <2>4, <2>5 DEF Next
<1>2. T!SyncInv'
  BY <1>1, T!SyncInvStep, AgentAssumption, FiniteProducers DEF AgentInv, T!Threads
<1>3. Sync!Next \/ UNCHANGED Sync!vars
  <2>1. UNCHANGED T!vars => UNCHANGED Sync!vars
    BY DEF T!vars, Sync!vars, T!frameVars, Sync!frameVars, T!spaceVars, Sync!spaceVars,
           T!lockVars, Sync!lockVars, T!dataVars, Sync!dataVars
  <2> QED
    BY <1>1, <2>1, SameSync
<1> QED
  BY <1>1, <1>2, <1>3 DEF AgentInv

(* The store of queues, merges and batches and the consumer's loop behave  *)
(* as ThreadSync assumes, with any number of threads and messages and also *)
(* when sends fail: a message that onProduce stored stays where it is      *)
(* until a drain of its space takes it, once.                              *)
THEOREM AgentImplementsSync == ASSUME Unlimited PROVE Spec => ImplementsSync
<1>1. Init => AgentInv /\ Sync!Init
  BY AgentInit
<1>2. AgentInv /\ [Next]_vars => AgentInv' /\ [Sync!Next]_Sync!vars
  BY AgentStep
<1> QED
  BY <1>1, <1>2, PTL DEF Spec, ImplementsSync, Sync!Spec

(* No message is given to send() a second time, whatever sends fail.       *)
THEOREM MessagesSentOnce == ASSUME Unlimited PROVE Spec => []SentOnce
<1>1. Init => AgentInv
  BY AgentInit
<1>2. AgentInv /\ [Next]_vars => AgentInv'
  BY AgentStep
<1>3. AgentInv => SentOnce
  <2>1. AgentInv => S!IsInjective(sent) /\ S!ToSet(sent) \cap unsent = {}
    BY S!StoredFacts, AgentAssumption DEF AgentInv
  <2> QED
    BY <2>1, SameSets DEF SentOnce
<1> QED
  BY <1>1, <1>2, <1>3, PTL DEF Spec

(* In the composition, too, STORE_MSG and the drain exclude each other and *)
(* the counters of the spaces are exact.                                   *)
THEOREM AgentExclusive == ASSUME Unlimited PROVE Spec => [](T!StoreExclusive /\ T!ThreadCount)
<1>1. Init => AgentInv
  BY AgentInit
<1>2. AgentInv /\ [Next]_vars => AgentInv'
  BY AgentStep
<1>3. AgentInv => T!StoreExclusive /\ T!ThreadCount
  BY ThreadTypes DEF AgentInv, T!SyncInv
<1> QED
  BY <1>1, <1>2, <1>3, PTL DEF Spec

-----------------------------------------------------------------------------
(* Why a message is held up only by a race.  As long as its onProduce was  *)
(* alone, the thread is on track, and once stored the message is awaited.  *)
Alone(t) ==
  /\ pc[Agent] \notin T!ConsumerLabels
  /\ \A u \in T!Threads \ {t} : pc[u] \notin T!Moving

OnItsWay(t) == T!OnTrack(t) /\ Alone(t)

RaceInv ==
  /\ S!RightEmpty
  /\ T!RoundInv
  /\ \A t \in T!Threads :
       pc[t] \in T!ProducerLabels => <<t, made[t]>> \in delayed \/ OnItsWay(t)
  /\ \A l \in T!Locations : \A m \in Queue[l] : m \in delayed \/ T!Awaited(l % 2)

LEMMA RacesIs ==
  \A t : Races(t) <=> pc[t] \in T!ProducerLabels /\ ~Alone(t)
  BY DEF Races, Alone, Changing, T!Moving, Threads, Sync!Threads, T!Threads,
         T!ProducerLabels, Sync!ProducerLabels, T!ConsumerLabels, Sync!ConsumerLabels

LEMMA RacesNext ==
  (\A t : Races(t) <=> pc[t] \in T!ProducerLabels /\ ~Alone(t))'
<1>1. \A t : Races(t) <=> pc[t] \in T!ProducerLabels /\ ~Alone(t)
  BY RacesIs
<1> QED
  BY <1>1, PTL

LEMMA Remembered ==
  ASSUME Remember
  PROVE  /\ delayed \subseteq delayed'
         /\ \A t \in T!Threads :
              pc'[t] \in T!ProducerLabels => <<t, made'[t]>> \in delayed' \/ Alone(t)'
         /\ unsent' # unsent => \A l \in T!Locations : Queue'[l] \subseteq delayed'
<1>1. Threads = T!Threads
  BY DEF Threads, Sync!Threads, T!Threads
<1>2. Store!Locations = T!Locations
  BY DEF Store!Locations, Store!Spaces, Store!LEFT_ENTRY, Store!RIGHT_ENTRY, T!Locations
<1>3. delayed \subseteq delayed'
  BY DEF Remember
<1>4. ASSUME NEW t \in T!Threads, pc'[t] \in T!ProducerLabels, ~Alone(t)'
      PROVE  <<t, made'[t]>> \in delayed'
  <2>1. Races(t)'
    BY <1>4, RacesNext
  <2> QED
    BY <1>1, <2>1 DEF Remember
<1>5. ASSUME unsent' # unsent, NEW l \in T!Locations
      PROVE  Queue'[l] \subseteq delayed'
  BY <1>2, <1>5 DEF Remember
<1> QED
  BY <1>3, <1>4, <1>5

(* A step of onProduce; where it stores, the message joins its location.   *)
LEMMA RaceProduce ==
  ASSUME AgentInv, RaceInv, Remember, NEW t \in T!Threads, T!Produce(t) \/ T!ProduceStep(t),
         Queue' = Queue \/ T!Store(t), S!RightEmpty'
  PROVE  RaceInv'
<1>1. /\ T!TypeInv /\ T!GateInv /\ T!RoundInv
      /\ \A l \in T!Locations : Queue[l] \subseteq T!Messages /\ l % 2 \in T!Spaces
      /\ T!Locations = {2, 3, 4, 5}
  BY DEF AgentInv, T!SyncInv, RaceInv, T!TypeInv, T!TypeOK, T!Locations, T!Spaces,
         T!LEFT_SPACE, T!RIGHT_SPACE
<1>2. /\ delayed \subseteq delayed'
      /\ \A u \in T!Threads :
           pc'[u] \in T!ProducerLabels => <<u, made'[u]>> \in delayed' \/ Alone(u)'
  BY Remembered
<1>3. /\ \A u \in T!Threads \ {t} :
           pc'[u] = pc[u] /\ local'[u] = local[u] /\ other'[u] = other[u] /\ made'[u] = made[u]
      /\ pc[t] \in {"idle"} \cup T!ProducerLabels
      /\ pc[t] = "idle" \/ made'[t] = made[t]
  BY <1>1, T!ProduceFrame, AgentAssumption, FiniteProducers DEF T!Threads
<1>4. T!RoundInv'
  BY <1>1, T!RoundStep, AgentAssumption, FiniteProducers DEF T!Threads
<1>5. ASSUME NEW u \in T!Threads, pc'[u] \in T!ProducerLabels, <<u, made'[u]>> \notin delayed'
      PROVE  OnItsWay(u)'
  <2>1. Alone(u)'
    BY <1>2, <1>5
  <2>2. CASE u = t
    <3>1. pc[t] # "idle" => OnItsWay(t)
      BY <1>2, <1>3, <1>5, <2>2 DEF RaceInv
    <3>2. pc[t] # "idle" => T!OnTrack(t) /\ pc[Agent] \notin T!ConsumerLabels
      BY <3>1 DEF OnItsWay, Alone
    <3>3. pc[t] = "checkConsumer" => ~consumerIn
      BY <1>1, <3>2 DEF T!RoundInv, T!ConsumerLabels
    <3>4. T!OnTrack(t)'
      BY <1>1, <3>2, <3>3, T!OnTrackOwn, AgentAssumption, FiniteProducers DEF T!Threads
    <3> QED
      BY <2>1, <2>2, <3>4 DEF OnItsWay
  <2>3. CASE u # t
    <3>1. OnItsWay(u)
      BY <1>2, <1>3, <1>5, <2>3 DEF RaceInv
    <3>2. T!OnTrack(u) /\ pc[t] \notin T!Moving
      BY <2>3, <3>1 DEF OnItsWay, Alone
    <3>3. T!OnTrack(u)'
      BY <1>1, <2>3, <3>2, T!OnTrackOther, AgentAssumption, FiniteProducers DEF T!Threads
    <3> QED
      BY <2>1, <3>3 DEF OnItsWay
  <2> QED
    BY <2>2, <2>3
<1>6. ASSUME NEW l \in T!Locations, NEW m \in Queue[l], m \notin delayed'
      PROVE  T!Awaited(l % 2)'
  <2>1. T!Awaited(l % 2)
    BY <1>2, <1>6 DEF RaceInv
  <2> QED
    BY <1>1, <2>1, T!AwaitedProduce, AgentAssumption, FiniteProducers DEF T!Threads
<1>7. ASSUME T!Store(t), NEW l \in T!Locations, NEW m \in Queue'[l], m \notin Queue[l],
             m \notin delayed'
      PROVE  T!Awaited(l % 2)'
  <2>1. /\ pc[t] = "store" /\ made' = made
        /\ Queue' = [Queue EXCEPT ![local[t] + entry[t]] = @ \cup {<<t, made[t]>>}]
    BY <1>7 DEF T!Store, T!Goto, T!Location, T!frameVars
  <2>2. local[t] \in {0, 1} /\ entry[t] \in {2, 4}
    BY ThreadTypes DEF AgentInv
  <2>3. Queue \in [T!Locations -> SUBSET T!Messages]
    BY <1>1 DEF T!TypeInv, T!TypeOK
  <2>4. l = local[t] + entry[t] /\ m = <<t, made[t]>>
    BY <1>7, <2>1, <2>3
  <2>5. l % 2 = local[t]
    BY <2>2, <2>4
  <2>6. OnItsWay(t)
    BY <1>2, <1>7, <2>1, <2>4 DEF RaceInv, T!ProducerLabels
  <2>7. T!Awaited(local[t])'
    BY <1>1, <1>7, <2>6, T!AwaitedStored, AgentAssumption, FiniteProducers
       DEF T!Threads, OnItsWay, Alone
  <2>8. local' = local
    BY <1>7 DEF T!Store, T!frameVars
  <2> QED
    BY <2>5, <2>7, <2>8
<1>8. \A l \in T!Locations : \A m \in Queue'[l] : m \in delayed' \/ T!Awaited(l % 2)'
  BY <1>6, <1>7
<1> QED
  BY <1>4, <1>5, <1>8 DEF RaceInv

(* A step of the consumer up to its drain.                                 *)
LEMMA RaceConsume ==
  ASSUME AgentInv, RaceInv, Remember, T!ConsumeStep, pc[Agent] # "drain",
         Queue' = Queue, S!RightEmpty'
  PROVE  RaceInv'
<1>1. /\ T!TypeInv /\ T!RoundInv
      /\ \A l \in T!Locations : l % 2 \in T!Spaces
  BY DEF AgentInv, T!SyncInv, RaceInv, T!Locations, T!Spaces, T!LEFT_SPACE, T!RIGHT_SPACE
<1>2. /\ delayed \subseteq delayed'
      /\ \A u \in T!Threads :
           pc'[u] \in T!ProducerLabels => <<u, made'[u]>> \in delayed' \/ Alone(u)'
  BY Remembered
<1>3. T!RoundInv'
  BY <1>1, T!RoundStep, AgentAssumption, FiniteProducers DEF T!Threads
<1>4. pc'[Agent] \in T!ConsumerLabels
  <2> USE <1>1, ThreadTypes DEF AgentInv, T!RoundInv, T!ConsumerLabels, T!Goto
  <2>1. CASE T!TryConsumerEntry \/ T!EnterConsumer \/ T!ResetConsumerGate \/ T!StartConsume
    BY <2>1 DEF T!TryConsumerEntry, T!EnterConsumer, T!ResetConsumerGate, T!StartConsume
  <2>2. CASE T!OpenOther \/ T!CloseGate \/ T!ClearConsumerIn \/ T!AwaitProducers
    BY <2>2 DEF T!OpenOther, T!CloseGate, T!SetGate, T!ClearConsumerIn, T!AwaitProducers
  <2>3. CASE T!LockLeft \/ T!LockRight
    BY <2>3 DEF T!LockLeft, T!LockRight
  <2>4. CASE T!Drain \/ T!EndConsume
    BY <2>4 DEF T!Drain, T!DrainOf, T!EndConsume
  <2> QED
    BY <2>1, <2>2, <2>3, <2>4 DEF T!ConsumeStep
<1>5. \A u \in T!Threads :
        pc'[u] \in T!ProducerLabels => <<u, made'[u]>> \in delayed'
  BY <1>2, <1>4 DEF Alone
<1>6. ASSUME NEW l \in T!Locations, NEW m \in Queue'[l], m \notin delayed'
      PROVE  T!Awaited(l % 2)'
  <2>1. T!Awaited(l % 2)
    BY <1>2, <1>6 DEF RaceInv
  <2> QED
    BY <1>1, <2>1, T!AwaitedConsume, AgentAssumption, FiniteProducers DEF T!Threads
<1> QED
  BY <1>3, <1>5, <1>6 DEF RaceInv

(* A send that fails had something to send.                                *)
LEMMA BatchFails ==
  ASSUME S!StoreInv(AgentNodes), S!Deliver(loop.cur, TRUE), loop # S!NotLooping,
         draining # S!NoSpace, draining' = S!NoSpace
  PROVE  unsent' # unsent
<1>1. /\ unsent' = unsent \cup S!ToSet(grp[loop.cur].msgs)
      /\ grp[loop.cur].total > 0
  BY DEF S!Deliver
<1>2. /\ loop.cur \in S!Places /\ loop.cur \in S!GroupIds
  BY S!PlaceFacts, AgentAssumption DEF S!StoreInv
<1>3. /\ grp[loop.cur].msgs \in Seq(AgentNodes)
      /\ grp[loop.cur].total = Len(grp[loop.cur].msgs)
  BY <1>2, S!PlainFacts, AgentAssumption DEF S!StoreInv
<1>4. grp[loop.cur].msgs[1] \in S!ToSet(grp[loop.cur].msgs)
  BY <1>1, <1>3 DEF S!ToSet
<1>5. S!ToSet(grp[loop.cur].msgs) \cap unsent = {}
  BY <1>2 DEF S!StoreInv, S!Distinct, S!At, S!HandedOver
<1> QED
  BY <1>1, <1>4, <1>5

(* The drain ends when its space is empty, or after a send that failed,    *)
(* and then what it leaves behind is remembered.                           *)
LEMMA DrainEndsEmpty ==
  ASSUME Unlimited, AgentInv, RaceInv, Retrieve, draining' = S!NoSpace,
         NEW l \in T!Locations, l % 2 = local[Agent]
  PROVE  Queue'[l] = {} \/ unsent' # unsent
<1>1. /\ S!MergeEntries \/ S!MergeGrp \/ S!SplitOff \/ S!LastBatch
      /\ pc[Agent] = "drain"
  BY SameSteps DEF Retrieve
<1>2. /\ S!StoreInv(AgentNodes) /\ S!RightEmpty /\ S!Unlimited
      /\ draining = local[Agent] /\ local[Agent] \in {0, 1} /\ draining # S!NoSpace
  BY <1>1, ThreadTypes, AgentAssumption
     DEF AgentInv, RaceInv, DrainLink, Unlimited, S!Unlimited, S!isToBeSplit, S!NoSpace
<1>3. CASE S!MergeEntries \/ S!MergeGrp
  BY <1>2, <1>3 DEF S!MergeEntries, S!MergeGrp
<1>4. CASE S!SplitOff \/ S!LastBatch
  <2> DEFINE B == S!At(loop.cur)
  <2>1. /\ S!StoreInv(AgentNodes)' /\ S!Waiting' = S!Waiting \ B
        /\ B \subseteq S!Waiting /\ S!Waiting \cap S!HandedOver = {}
        /\ UNCHANGED arrived
    BY <1>2, <1>4, S!BatchKept, S!StoredFacts, AgentAssumption
  <2>2. CASE UNCHANGED unsent
    <3>1. S!LastBatch
      <4>1. S!SplitOff => S!Deliver(loop.cur, TRUE) /\ loop.nxt # S!NULL
        BY DEF S!SplitOff
      <4>2. loop.nxt # S!NULL => loop # S!NotLooping
        BY <1>2 DEF S!StoreInv, S!Shape, S!LoopShape
      <4> QED
        BY <1>2, <1>4, <2>2, <4>1, <4>2, BatchFails
    <3>2. S!Waiting \cap S!StoredAt(draining) \subseteq B
      BY <1>2, <3>1, S!LastBatchIsRest, AgentAssumption
    <3>3. S!ToSet(arrived[l]) \subseteq S!StoredAt(draining)
      <4>1. l \in {draining + 2, draining + 4}
        BY <1>2 DEF T!Locations
      <4> QED
        BY <4>1 DEF S!StoredAt, S!Left, S!Right, S!LEFT_ENTRY, S!RIGHT_ENTRY
    <3>4. S!ToSet(arrived[l]) \cap S!Waiting' = {}
      BY <2>1, <3>2, <3>3
    <3>5. l \in S!Locations
      BY DEF S!Locations, S!Spaces, S!LEFT_ENTRY, S!RIGHT_ENTRY, T!Locations
    <3>6. Queue'[l] = Content({})
      BY <2>1, <3>4, <3>5, QueueNext
    <3> QED
      BY <3>6 DEF Content
  <2> QED
    BY <2>2
<1> QED
  BY <1>1, <1>3, <1>4

(* The drain takes messages away and brings none.                          *)
LEMMA QueueShrinks ==
  ASSUME Unlimited, AgentInv, Retrieve
  PROVE  \A l \in T!Locations : Queue'[l] \subseteq Queue[l]
<1>1. /\ S!MergeEntries \/ S!MergeGrp \/ S!SplitOff \/ S!LastBatch
      /\ S!StoreInv(AgentNodes) /\ S!Unlimited
  BY SameSteps, AgentAssumption
     DEF Retrieve, AgentInv, Unlimited, S!Unlimited, S!isToBeSplit
<1>2. S!Waiting' \subseteq S!Waiting /\ UNCHANGED arrived
  <2>1. CASE S!MergeEntries \/ S!MergeGrp
    BY <1>1, <2>1, S!MergeKept, AgentAssumption DEF S!MergeEntries, S!MergeGrp
  <2>2. CASE S!SplitOff \/ S!LastBatch
    <3>1. S!Waiting' = S!Waiting \ S!At(loop.cur) /\ UNCHANGED arrived
      BY <1>1, <2>2, S!BatchKept, AgentAssumption
    <3> QED
      BY <3>1
  <2> QED
    BY <1>1, <2>1, <2>2
<1>3. T!Locations = S!Locations
  BY DEF T!Locations, S!Locations, S!Spaces, S!LEFT_ENTRY, S!RIGHT_ENTRY
<1>4. ASSUME NEW l \in T!Locations PROVE Queue'[l] \subseteq Queue[l]
  <2>1. /\ Queue'[l] = Content(S!ToSet(arrived[l]) \cap S!Waiting')
        /\ Queue[l] = Content(S!ToSet(arrived[l]) \cap S!Waiting)
    BY <1>1, <1>2, <1>3, QueueIs, QueueNext
  <2>2. S!ToSet(arrived[l]) \cap S!Waiting' \subseteq S!ToSet(arrived[l]) \cap S!Waiting
    BY <1>2
  <2> QED
    BY <2>1, <2>2 DEF Content
<1> QED
  BY <1>4

(* Which steps of ThreadSync these are.                                    *)
LEMMA SyncStepKinds ==
  ASSUME AgentInv, SyncStep
  PROVE  /\ \/ \E t \in T!Threads : T!Produce(t) \/ T!ProduceStep(t)
            \/ T!ConsumeStep /\ pc[Agent] # "drain"
         /\ Queue' = Queue
<1>1. Threads = T!Threads
  BY DEF Threads, Sync!Threads, T!Threads
<1>2. \/ \E t \in T!Threads : T!Produce(t) \/ T!ProduceStep(t)
      \/ T!ConsumeStep /\ pc[Agent] # "drain"
  <2>1. CASE \E t \in Threads :
             \/ Sync!Produce(t) \/ Sync!CheckGate(t) \/ Sync!CheckConsumer(t)
             \/ Sync!Signal(t) \/ Sync!ReadOther(t) \/ Sync!EnterMain(t) \/ Sync!Flip(t)
             \/ Sync!Register(t) \/ Sync!ProbeLeft(t) \/ Sync!LeftBusy(t)
             \/ Sync!AwaitEntry(t) \/ Sync!Leave(t)
    BY <1>1, <2>1, SameProducing DEF T!ProduceStep
  <2>2. CASE \/ Sync!TryConsumerEntry \/ Sync!EnterConsumer \/ Sync!ResetConsumerGate
             \/ Sync!StartConsume \/ Sync!OpenOther \/ Sync!CloseGate
             \/ Sync!ClearConsumerIn \/ Sync!AwaitProducers \/ Sync!LockLeft
    <3>1. \/ T!TryConsumerEntry \/ T!EnterConsumer \/ T!ResetConsumerGate
          \/ T!StartConsume \/ T!OpenOther \/ T!CloseGate
          \/ T!ClearConsumerIn \/ T!AwaitProducers \/ T!LockLeft
      BY <2>2, SameConsuming
    <3>2. pc[Agent] # "drain"
      BY <3>1 DEF T!TryConsumerEntry, T!EnterConsumer, T!ResetConsumerGate, T!StartConsume,
                  T!OpenOther, T!CloseGate, T!SetGate, T!ClearConsumerIn, T!AwaitProducers,
                  T!LockLeft, T!Goto
    <3> QED
      BY <3>1, <3>2 DEF T!ConsumeStep
  <2> QED
    BY <2>1, <2>2 DEF SyncStep
<1>3. S!Waiting' = S!Waiting /\ S!HandedOver' = S!HandedOver
  BY S!FrameKept, AgentAssumption DEF SyncStep, storeVars, AgentInv
<1> QED
  BY <1>2, <1>3, QueueKept DEF SyncStep, storeVars, AgentInv

LEMMA RaceRetrieve ==
  ASSUME Unlimited, AgentInv, RaceInv, Remember, Retrieve, S!RightEmpty'
  PROVE  RaceInv'
<1>1. /\ pc[Agent] = "drain"
      /\ pc' = IF draining' = S!NoSpace THEN [pc EXCEPT ![Agent] = "idle"] ELSE pc
      /\ UNCHANGED <<made, local, currentSpace, gate, consumerGate, consumerIn>>
  BY SameStore DEF Retrieve, syncFrame
<1>2. /\ delayed \subseteq delayed'
      /\ unsent' # unsent => \A l \in T!Locations : Queue'[l] \subseteq delayed'
  BY Remembered
<1>3. /\ Agent \in T!Threads
      /\ pc \in [T!Threads -> {"idle"} \cup T!ProducerLabels \cup T!ConsumerLabels]
  BY ThreadTypes DEF AgentInv
<1>4. \A l \in T!Locations : Queue'[l] \subseteq Queue[l]
  BY QueueShrinks
<1>5. T!RoundInv'
  BY <1>1, <1>3 DEF RaceInv, T!RoundInv
<1>6. ASSUME NEW u \in T!Threads, pc'[u] \in T!ProducerLabels
      PROVE  <<u, made'[u]>> \in delayed'
  <2>1. "idle" \notin T!ProducerLabels /\ "drain" \notin T!ProducerLabels
    BY DEF T!ProducerLabels
  <2>2. u # Agent /\ pc[u] = pc'[u] /\ made' = made
    BY <1>1, <1>3, <1>6, <2>1
  <2>3. ~Alone(u)
    BY <1>1 DEF Alone, T!ConsumerLabels
  <2>4. <<u, made[u]>> \in delayed
    BY <1>6, <2>2, <2>3 DEF RaceInv, OnItsWay
  <2> QED
    BY <1>2, <2>2, <2>4
<1>7. ASSUME NEW l \in T!Locations, NEW m \in Queue'[l], m \notin delayed'
      PROVE  T!Awaited(l % 2)'
  <2>1. T!Awaited(l % 2)
    BY <1>2, <1>4, <1>7 DEF RaceInv
  <2>2. l % 2 = local[Agent]
    BY <1>1, <2>1 DEF T!Awaited, T!Engaged
  <2>3. draining' # S!NoSpace
    BY <1>2, <1>7, <2>2, DrainEndsEmpty
  <2>4. pc' = pc
    BY <1>1, <2>3
  <2> QED
    BY <1>1, <2>2, <2>4 DEF T!Awaited, T!Engaged
<1> QED
  BY <1>5, <1>6, <1>7 DEF RaceInv

(* The right queue stays empty during the loop, whatever the threads do.   *)
LEMMA RightStays ==
  ASSUME Unlimited, AgentInv, S!RightEmpty, Next
  PROVE  S!RightEmpty'
<1>1. /\ S!StoreInv(AgentNodes) /\ S!Shape(AgentNodes) /\ S!Unlimited
  BY AgentAssumption DEF AgentInv, S!StoreInv, Unlimited, S!Unlimited, S!isToBeSplit
<1>2. CASE SyncStep
  BY <1>2 DEF SyncStep, storeVars, S!RightEmpty, S!At
<1>3. CASE \E t \in Threads : StoreMsg(t)
  <2>1. PICK t \in T!Threads : StoreMsg(t)
    BY <1>3 DEF Threads, Sync!Threads, T!Threads
  <2> DEFINE l == local[t] + entry[t]
             node == <<<<t, made[t]>>>>
  <2>2. /\ S!QueueMessage(l, node) /\ UNCHANGED <<loop, draining>>
        /\ pc[t] = "store"
    BY <2>1, SameSteps DEF StoreMsg, Sync!Goto, Sync!Location
  <2>3. /\ l \in S!Locations /\ l % 2 = local[t] /\ local[t] \in {0, 1}
    <3>1. local[t] \in {0, 1} /\ entry[t] \in {2, 4}
      BY ThreadTypes DEF AgentInv
    <3> QED
      BY <3>1 DEF S!Locations, S!Spaces, S!LEFT_ENTRY, S!RIGHT_ENTRY
  <2>4. l % 2 # draining
    BY <2>2, <2>3, ThreadTypes DEF AgentInv, T!StoreExclusive, DrainLink, S!NoSpace
  <2>5. node \in AgentNodes
    <3>1. made[t] \in 1..Quota[t]
      BY <2>2, ThreadTypes, AgentAssumption
         DEF AgentInv, T!TypeInv, T!TypeOK, T!MadeInv, T!PreStore, T!Threads
    <3>2. <<t, made[t]>> \in T!Messages
      BY <3>1 DEF T!Messages
    <3> QED
      BY <3>2 DEF AgentNodes
  <2> HIDE DEF l, node
  <2> QED
    BY <1>1, <2>2, <2>3, <2>4, <2>5, S!RightAppend, AgentAssumption
<1>4. CASE BeginDrain
  <2>1. S!StartConsume(local[Agent])
    BY <1>4, SameSteps DEF BeginDrain
  <2>2. loop = S!NotLooping /\ loop' = loop
    BY <1>1, <2>1 DEF S!StartConsume, S!Shape, S!LoopShape, S!NoSpace, S!Spaces
  <2> QED
    BY <2>2 DEF S!RightEmpty, S!NotLooping
<1>5. CASE Retrieve
  <2>1. S!MergeEntries \/ S!MergeGrp \/ S!SplitOff \/ S!LastBatch
    BY <1>5, SameSteps DEF Retrieve
  <2>2. CASE S!MergeEntries \/ S!MergeGrp
    BY <1>1, <2>2, S!RightMerge, AgentAssumption
  <2>3. CASE S!SplitOff \/ S!LastBatch
    BY <2>3, S!RightBatch, AgentAssumption
  <2> QED
    BY <2>1, <2>2, <2>3
<1> QED
  BY <1>2, <1>3, <1>4, <1>5 DEF Next

LEMMA RaceStep ==
  ASSUME Unlimited, AgentInv, RaceInv, [Next]_vars
  PROVE  RaceInv'
<1>1. CASE UNCHANGED vars
  <2>1. Queue' = Queue
    <3>1. S!Waiting' = S!Waiting /\ S!HandedOver' = S!HandedOver
      BY <1>1, S!FrameKept, AgentAssumption DEF vars, storeVars, AgentInv
    <3> QED
      BY <1>1, <3>1, QueueKept DEF vars, storeVars, AgentInv
  <2>2. UNCHANGED <<pc, local, other, made, currentSpace, gate, consumerGate, consumerIn,
                    grp, holder, loop, draining, delayed>>
    BY <1>1 DEF vars, syncVars, syncFrame, storeVars
  <2>3. S!RightEmpty'
    BY <2>2 DEF RaceInv, S!RightEmpty, S!At
  <2>4. T!RoundInv'
    BY <2>2 DEF RaceInv, T!RoundInv
  <2>5. \A t \in T!Threads : OnItsWay(t) => OnItsWay(t)'
    BY <2>2 DEF OnItsWay, Alone, T!OnTrack
  <2>6. \A s : T!Awaited(s) => T!Awaited(s)'
    BY <2>2, Zenon DEF T!Awaited
  <2> QED
    BY <2>1, <2>2, <2>3, <2>4, <2>5, <2>6 DEF RaceInv
<1>2. CASE Next
  <2>1. Remember /\ S!RightEmpty'
    BY <1>2, RightStays DEF Next, RaceInv
  <2>2. CASE SyncStep
    <3>1. /\ \/ \E t \in T!Threads : T!Produce(t) \/ T!ProduceStep(t)
             \/ T!ConsumeStep /\ pc[Agent] # "drain"
          /\ Queue' = Queue
      BY <2>2, SyncStepKinds
    <3> QED
      BY <2>1, <3>1, RaceProduce, RaceConsume
  <2>3. CASE \E t \in Threads : StoreMsg(t)
    <3>1. PICK t \in T!Threads : StoreMsg(t)
      BY <2>3 DEF Threads, Sync!Threads, T!Threads
    <3>2. T!Store(t)
      BY <3>1, StoreIsStore
    <3> QED
      BY <2>1, <3>2, RaceProduce DEF T!ProduceStep
  <2>4. CASE BeginDrain
    <3>1. /\ T!ConsumeStep /\ pc[Agent] # "drain" /\ Queue' = Queue
      BY <2>4, SameConsuming DEF BeginDrain, T!ConsumeStep, T!LockRight, T!Goto, T!dataVars
    <3> QED
      BY <2>1, <3>1, RaceConsume
  <2>5. CASE Retrieve
    BY <2>1, <2>5, RaceRetrieve
  <2> QED
    BY <1>2, <2>2, <2>3, <2>4, <2>5 DEF Next
<1> QED
  BY <1>1, <1>2

LEMMA RaceInit == Init => RaceInv
<1> SUFFICES ASSUME Init PROVE RaceInv
  OBVIOUS
<1>1. S!Init /\ T!Init
  BY SameStore, SameSync DEF Init
<1>2. S!RightEmpty
  BY <1>1 DEF S!Init, S!RightEmpty
<1>3. T!RoundInv
  BY <1>1, T!RoundInit, AgentAssumption, FiniteProducers DEF T!Threads
<1>4. /\ \A t \in T!Threads : pc[t] \notin T!ProducerLabels
      /\ \A l \in T!Locations : Queue[l] = {}
  BY <1>1 DEF T!Init, T!ProducerLabels
<1> QED
  BY <1>2, <1>3, <1>4 DEF RaceInv

(* When nobody is in onProduce or in the consumer's round and no signal is *)
(* pending, a message is left waiting only if its onProduce overlapped the *)
(* consumer's round or another thread's change of space, or a send failed: *)
(* the signal of line 118 or 141, given before the message is stored, is   *)
(* enough for everything else.                                             *)
THEOREM HeldUpByRaceOnly == ASSUME Unlimited PROVE Spec => []HeldUpOnlyByRace
<1>1. Init => AgentInv /\ RaceInv
  BY AgentInit, RaceInit
<1>2. AgentInv /\ RaceInv /\ [Next]_vars => AgentInv' /\ RaceInv'
  BY AgentStep, RaceStep
<1>3. AgentInv /\ RaceInv => HeldUpOnlyByRace
  <2> SUFFICES ASSUME AgentInv, RaceInv, \A t \in Threads : pc[t] = "idle", ~consumerGate,
                      NEW l \in Store!Locations, NEW m \in Queue[l]
               PROVE  m \in delayed
    BY DEF HeldUpOnlyByRace
  <2>1. /\ Threads = T!Threads /\ Store!Locations = T!Locations
        /\ pc[Agent] = "idle"
    BY ThreadTypes
       DEF AgentInv, Threads, Sync!Threads, T!Threads, T!Locations, Store!Locations, Store!Spaces,
           Store!LEFT_ENTRY, Store!RIGHT_ENTRY
  <2>2. ~T!Awaited(l % 2)
    BY <2>1 DEF T!Awaited, T!Engaged
  <2> QED
    BY <2>1, <2>2 DEF RaceInv
<1> QED
  BY <1>1, <1>2, <1>3, PTL DEF Spec
=============================================================================

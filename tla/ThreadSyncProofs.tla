-------------------------- MODULE ThreadSyncProofs --------------------------
(***************************************************************************)
(* Proofs about ThreadSync, for every number of producers, every quota and *)
(* both values of EndsConsume.                                             *)
(***************************************************************************)
EXTENDS ThreadSync, FiniteSetTheorems, TLAPS

USE DEF LEFT_SPACE, RIGHT_SPACE, LEFT_ENTRY, RIGHT_ENTRY,
        Spaces, Entries, Location, Locations, OtherSpace

(* An entry of a space is one of the four locations, and the location      *)
(* tells which space and which entry it stands for.                        *)
LEMMA LocationsDistinct ==
  ASSUME NEW s \in Spaces, NEW r \in Spaces, NEW e \in Entries, NEW f \in Entries
  PROVE  /\ Location(s, e) \in Locations
         /\ Location(s, e) = Location(r, f) => s = r /\ e = f
  OBVIOUS

(* The thread that made message m; its number.                             *)
LEMMA MessageParts ==
  ASSUME NEW t \in Threads, NEW n \in 1..Quota[t]
  PROVE  <<t, n>> \in Messages
  BY DEF Messages

(* What the proofs use of the assumption about the constants.              *)
LEMMA ThreadFacts ==
  /\ Agent \in Threads
  /\ NoThread \notin Threads
  /\ Quota \in [Threads -> Nat]
  /\ IsFiniteSet(Threads)
<1>1. IsFiniteSet({Agent})
  BY FS_Singleton
<1> QED
  BY <1>1, ThreadsAssumption, FS_Union DEF Threads

(* Zero and one, the ids of the spaces, change places.                     *)
LEMMA OtherInSpaces == \A s \in Spaces : OtherSpace(s) \in Spaces
  OBVIOUS

-----------------------------------------------------------------------------
(* A thread never produces more than its quota, and between Produce and    *)
(* Store it works on message made[t] >= 1.                                 *)
PreStore == {"checkGate", "checkConsumer", "signal", "readOther",
             "enterMain", "flip", "register", "probe", "wait", "store"}

MadeInv ==
  \A t \in Threads : /\ made[t] <= Quota[t]
                     /\ pc[t] \in PreStore => made[t] >= 1

TypeInv == TypeOK /\ MadeInv

LEMMA TypeInit == Init => TypeInv
<1> SUFFICES ASSUME Init PROVE TypeInv
  OBVIOUS
<1>1. queue \in [Locations -> SUBSET Messages] /\ drained \in SUBSET Messages
  BY DEF Init
<1>2. /\ pc \in [Threads -> {"idle"} \cup ProducerLabels \cup ConsumerLabels]
      /\ local \in [Threads -> Spaces]
      /\ other \in [Threads -> Spaces]
      /\ entry \in [Threads -> Entries]
      /\ made \in [Threads -> Nat]
  BY DEF Init
<1>3. /\ gate \in [Spaces -> BOOLEAN]
      /\ consumerGate \in BOOLEAN
      /\ consumerIn \in BOOLEAN
  BY Zenon DEF Init
<1>4. /\ currentSpace \in Spaces /\ consumingSpace \in Spaces
      /\ threads \in [Spaces -> Int] /\ depth \in [Locations -> Int]
      /\ owner \in [Locations -> Threads \cup {NoThread}]
      /\ mainProducerGate \in Threads \cup {NoThread}
  BY DEF Init
<1>5. TypeOK
  BY <1>1, <1>2, <1>3, <1>4 DEF TypeOK
<1>6. MadeInv
  BY ThreadFacts DEF Init, MadeInv, PreStore
<1> QED
  BY <1>5, <1>6 DEF TypeInv

(* The labels a step of thread t goes through are those of its own pc.     *)
LEMMA TypeProduce ==
  ASSUME TypeInv, NEW t \in Threads, Produce(t) \/ ProduceStep(t)
  PROVE  TypeInv'
<1> USE ThreadFacts DEF TypeInv, TypeOK, MadeInv, PreStore, Goto,
        ProducerLabels, ConsumerLabels,
        frameVars, spaceVars, lockVars, dataVars
<1>1. CASE Produce(t)
  BY <1>1 DEF Produce
<1>2. CASE CheckGate(t)
  BY <1>2 DEF CheckGate
<1>3. CASE CheckConsumer(t)
  BY <1>3 DEF CheckConsumer
<1>4. CASE Signal(t)
  BY <1>4 DEF Signal
<1>5. CASE ReadOther(t)
  BY <1>5, OtherInSpaces DEF ReadOther
<1>6. CASE EnterMain(t)
  BY <1>6 DEF EnterMain
<1>7. CASE Flip(t)
  BY <1>7, OtherInSpaces DEF Flip
<1>8. CASE Register(t)
  BY <1>8 DEF Register
<1>9. CASE LeftBusy(t)
  BY <1>9 DEF LeftBusy
<1>10. CASE Leave(t)
  BY <1>10 DEF Leave
<1>11. CASE ProbeLeft(t) \/ AwaitEntry(t)
  <2>1. PICK from \in {"probe", "wait"}, e \in Entries : TakeEntry(t, from, e)
    BY <1>11 DEF ProbeLeft, AwaitEntry
  <2> QED
    BY <2>1, LocationsDistinct DEF TakeEntry, Lock
<1>12. CASE Store(t)
  <2>1. <<t, made[t]>> \in Messages
    BY <1>12, MessageParts DEF Store
  <2> QED
    BY <1>12, <2>1 DEF Store, Unlock
<1> QED
  BY <1>1, <1>2, <1>3, <1>4, <1>5, <1>6, <1>7, <1>8, <1>9, <1>10, <1>11, <1>12
     DEF ProduceStep

LEMMA TypeConsume ==
  ASSUME TypeInv, ConsumeStep
  PROVE  TypeInv'
<1> USE ThreadFacts DEF TypeInv, TypeOK, MadeInv, PreStore, Goto,
        ProducerLabels, ConsumerLabels,
        frameVars, spaceVars, lockVars, dataVars
<1>1. CASE TryConsumerEntry
  BY <1>1 DEF TryConsumerEntry
<1>2. CASE EnterConsumer
  BY <1>2 DEF EnterConsumer
<1>3. CASE ResetConsumerGate
  BY <1>3 DEF ResetConsumerGate
<1>4. CASE StartConsume
  BY <1>4 DEF StartConsume
<1>5. CASE OpenOther
  BY <1>5, OtherInSpaces DEF OpenOther, SetGate
<1>6. CASE CloseGate
  BY <1>6 DEF CloseGate, SetGate
<1>7. CASE ClearConsumerIn
  BY <1>7 DEF ClearConsumerIn
<1>8. CASE AwaitProducers
  BY <1>8 DEF AwaitProducers
<1>9. CASE LockLeft
  BY <1>9 DEF LockLeft, Lock
<1>10. CASE LockRight
  BY <1>10 DEF LockRight, Lock
<1>11. CASE Drain
  <2>1. PICK some \in SUBSET UNION {queue[l] : l \in Here}, ends \in BOOLEAN : DrainOf(some, ends)
    BY <1>11 DEF Drain
  <2>2. \A m \in some : \E l \in Locations : m \in queue[l]
    BY <2>1 DEF Here
  <2> QED
    BY <2>1, <2>2 DEF DrainOf
<1>12. CASE EndConsume
  BY <1>12 DEF EndConsume, Unlock
<1> QED
  BY <1>1, <1>2, <1>3, <1>4, <1>5, <1>6, <1>7, <1>8, <1>9, <1>10, <1>11, <1>12
     DEF ConsumeStep

LEMMA TypeStep == TypeInv /\ [Next]_vars => TypeInv'
<1> SUFFICES ASSUME TypeInv, [Next]_vars
             PROVE  TypeInv'
  OBVIOUS
<1>1. CASE UNCHANGED vars
  BY <1>1 DEF TypeInv, TypeOK, MadeInv, vars, frameVars, spaceVars, lockVars, dataVars
<1>2. CASE \E t \in Threads : Produce(t) \/ ProduceStep(t)
  BY <1>2, TypeProduce
<1>3. CASE ConsumeStep
  BY <1>3, TypeConsume
<1> QED
  BY <1>1, <1>2, <1>3 DEF Next, WaitTimesOut

(* Every reachable state is well typed.                                    *)
THEOREM TypeCorrect == Spec => []TypeOK
<1>1. TypeInv => TypeOK
  BY DEF TypeInv
<1> QED
  BY <1>1, TypeInit, TypeStep, PTL DEF Spec

-----------------------------------------------------------------------------
(* The locks a thread relies on are its own: the entry lock in STORE_MSG,  *)
(* the left lock while the consumer waits for the right one, both during   *)
(* the drain.                                                              *)
LockInv ==
  /\ \A t \in Threads :
       pc[t] = "store" => owner[Location(local[t], entry[t])] = t
  /\ pc[Agent] = "lockRight" => owner[Location(local[Agent], LEFT_ENTRY)] = Agent
  /\ pc[Agent] \in {"drain", "unlock"} =>
       /\ consumingSpace = local[Agent]
       /\ \A e \in Entries : owner[Location(local[Agent], e)] = Agent

(* A gate is closed only after the other one was opened, and only the      *)
(* consumer touches the gates.                                             *)
GateInv ==
  /\ GateDiscipline
  /\ pc[Agent] = "closeGate" => gate[OtherSpace(local[Agent])]

LEMMA LockGateInit == Init => LockInv /\ GateInv
  BY ThreadFacts DEF Init, LockInv, GateInv, GateDiscipline

LEMMA LockGateProduce ==
  ASSUME TypeInv, LockInv, GateInv, NEW t \in Threads, Produce(t) \/ ProduceStep(t)
  PROVE  LockInv' /\ GateInv'
<1> USE ThreadFacts DEF TypeInv, TypeOK, LockInv, GateInv, GateDiscipline, Goto,
        frameVars, spaceVars, lockVars, dataVars
<1>1. CASE Produce(t)
  BY <1>1 DEF Produce
<1>2. CASE CheckGate(t)
  BY <1>2 DEF CheckGate
<1>3. CASE CheckConsumer(t)
  BY <1>3 DEF CheckConsumer
<1>4. CASE Signal(t)
  BY <1>4 DEF Signal
<1>5. CASE ReadOther(t)
  BY <1>5 DEF ReadOther
<1>6. CASE EnterMain(t)
  BY <1>6 DEF EnterMain
<1>7. CASE Flip(t)
  BY <1>7 DEF Flip
<1>8. CASE Register(t)
  BY <1>8 DEF Register
<1>9. CASE LeftBusy(t)
  BY <1>9 DEF LeftBusy
<1>10. CASE Leave(t)
  BY <1>10 DEF Leave
<1>11. CASE ProbeLeft(t) \/ AwaitEntry(t)
  <2>1. PICK from \in {"probe", "wait"}, e \in Entries : TakeEntry(t, from, e)
    BY <1>11 DEF ProbeLeft, AwaitEntry
  <2> QED
    BY <2>1 DEF TakeEntry, Lock, CanLock
<1>12. CASE Store(t)
  BY <1>12 DEF Store, Unlock
<1> QED
  BY <1>1, <1>2, <1>3, <1>4, <1>5, <1>6, <1>7, <1>8, <1>9,
     <1>10, <1>11, <1>12 DEF ProduceStep

LEMMA LockGateConsume ==
  ASSUME TypeInv, LockInv, GateInv, ConsumeStep
  PROVE  LockInv' /\ GateInv'
<1> USE ThreadFacts DEF TypeInv, TypeOK, LockInv, GateInv, GateDiscipline, Goto,
        frameVars, spaceVars, lockVars, dataVars
<1>1. CASE TryConsumerEntry
  BY <1>1 DEF TryConsumerEntry
<1>2. CASE EnterConsumer
  BY <1>2 DEF EnterConsumer
<1>3. CASE ResetConsumerGate
  BY <1>3 DEF ResetConsumerGate
<1>4. CASE StartConsume
  BY <1>4 DEF StartConsume
<1>5. CASE OpenOther
  BY <1>5 DEF OpenOther, SetGate
<1>6. CASE CloseGate
  BY <1>6 DEF CloseGate, SetGate
<1>7. CASE ClearConsumerIn
  BY <1>7 DEF ClearConsumerIn
<1>8. CASE AwaitProducers
  BY <1>8 DEF AwaitProducers
<1>9. CASE LockLeft
  BY <1>9 DEF LockLeft, Lock, CanLock
<1>10. CASE LockRight
  BY <1>10 DEF LockRight, Lock, CanLock
<1>11. CASE Drain
  BY <1>11 DEF Drain, DrainOf
<1>12. CASE EndConsume
  BY <1>12 DEF EndConsume, Unlock
<1> QED
  BY <1>1, <1>2, <1>3, <1>4, <1>5, <1>6, <1>7, <1>8, <1>9,
     <1>10, <1>11, <1>12 DEF ConsumeStep

LEMMA LockGateStep ==
  TypeInv /\ LockInv /\ GateInv /\ [Next]_vars => LockInv' /\ GateInv'
<1> SUFFICES ASSUME TypeInv, LockInv, GateInv, [Next]_vars
             PROVE  LockInv' /\ GateInv'
  OBVIOUS
<1>1. CASE UNCHANGED vars
  BY <1>1 DEF LockInv, GateInv, GateDiscipline, vars, frameVars, spaceVars, lockVars
<1>2. CASE \E t \in Threads : Produce(t) \/ ProduceStep(t)
  BY <1>2, LockGateProduce
<1>3. CASE ConsumeStep
  BY <1>3, LockGateConsume
<1> QED
  BY <1>1, <1>2, <1>3 DEF Next, WaitTimesOut

(* STORE_MSG and the drain are mutually exclusive, by the locks alone.     *)
THEOREM StoreIsExclusive == Spec => []StoreExclusive
<1>1. TypeInv /\ LockInv => StoreExclusive
  BY ThreadFacts DEF TypeInv, TypeOK, LockInv, StoreExclusive
<1> QED
  BY <1>1, TypeInit, TypeStep, LockGateInit, LockGateStep, PTL DEF Spec

(* A producer can always find an open gate, and the space being drained is *)
(* closed.                                                                 *)
THEOREM GatesDisciplined == Spec => []GateDiscipline
<1>1. GateInv => GateDiscipline
  BY DEF GateInv
<1> QED
  BY <1>1, TypeInit, TypeStep, LockGateInit, LockGateStep, PTL DEF Spec

-----------------------------------------------------------------------------
(* The threads that the counter of space s should count.                   *)
Inside(s) == {t \in Threads : pc[t] \in Registered /\ local[t] = s}

LEMMA InsideFinite ==
  ASSUME NEW s \in Spaces
  PROVE  IsFiniteSet(Inside(s)) /\ IsFiniteSet(Inside(s)')
<1>1. Inside(s) \subseteq Threads /\ Inside(s)' \subseteq Threads
  BY DEF Inside
<1> QED
  BY <1>1, ThreadFacts, FS_Subset

LEMMA CountInit == Init => ThreadCount
<1> SUFFICES ASSUME Init, NEW s \in Spaces
             PROVE  threads[s] = Cardinality(Inside(s))
  BY DEF ThreadCount, Inside
<1>1. Inside(s) = {}
  BY DEF Init, Inside, Registered
<1> QED
  BY <1>1, FS_EmptySet DEF Init

(* A step that moves nobody across the counter leaves the sets unchanged.  *)
LEMMA CountUnchanged ==
  ASSUME ThreadCount, threads' = threads, \A s \in Spaces : Inside(s)' = Inside(s)
  PROVE  ThreadCount'
<1> SUFFICES ASSUME NEW s \in Spaces
             PROVE  threads'[s] = Cardinality(Inside(s)')
  BY DEF ThreadCount, Inside
<1> QED
  BY DEF ThreadCount, Inside

LEMMA CountProduce ==
  ASSUME TypeInv, ThreadCount, NEW t \in Threads, Produce(t) \/ ProduceStep(t)
  PROVE  ThreadCount'
<1> USE ThreadFacts DEF TypeInv, TypeOK, Goto, Registered,
        frameVars, spaceVars, lockVars, dataVars
<1>1. CASE Produce(t)
  BY <1>1, CountUnchanged DEF Produce, Inside
<1>2. CASE CheckGate(t)
  BY <1>2, CountUnchanged DEF CheckGate, Inside
<1>3. CASE CheckConsumer(t)
  BY <1>3, CountUnchanged DEF CheckConsumer, Inside
<1>4. CASE Signal(t)
  BY <1>4, CountUnchanged DEF Signal, Inside
<1>5. CASE ReadOther(t)
  BY <1>5, CountUnchanged DEF ReadOther, Inside
<1>6. CASE EnterMain(t)
  BY <1>6, CountUnchanged DEF EnterMain, Inside
<1>7. CASE Flip(t)
  BY <1>7, CountUnchanged DEF Flip, Inside
<1>8. CASE LeftBusy(t)
  BY <1>8, CountUnchanged DEF LeftBusy, Inside
<1>9. CASE ProbeLeft(t) \/ AwaitEntry(t)
  <2>1. PICK from \in {"probe", "wait"}, e \in Entries : TakeEntry(t, from, e)
    BY <1>9 DEF ProbeLeft, AwaitEntry
  <2> QED
    BY <2>1, CountUnchanged DEF TakeEntry, Inside
<1>10. CASE Store(t)
  BY <1>10, CountUnchanged DEF Store, Inside
<1>11. CASE Register(t)
  <2> SUFFICES ASSUME NEW s \in Spaces
               PROVE  threads'[s] = Cardinality(Inside(s)')
    BY DEF ThreadCount, Inside
  <2>1. IsFiniteSet(Inside(s)) /\ threads[s] = Cardinality(Inside(s))
    BY InsideFinite DEF ThreadCount, Inside
  <2>2. CASE s = local[t]
    <3>1. Inside(s)' = Inside(s) \cup {t} /\ t \notin Inside(s)
      BY <1>11, <2>2 DEF Register, Inside
    <3>2. Cardinality(Inside(s)') = Cardinality(Inside(s)) + 1
      <4> DEFINE old == Inside(s)
                 new == Inside(s)'
      <4>1. IsFiniteSet(old) /\ new = old \cup {t} /\ t \notin old
        BY <2>1, <3>1
      <4> HIDE DEF old, new
      <4>2. Cardinality(new) = Cardinality(old) + 1
        BY ONLY <4>1, FS_AddElement
      <4> QED
        BY <4>2 DEF old, new
    <3>3. threads'[s] = threads[s] + 1
      BY <1>11, <2>2 DEF Register
    <3> QED
      BY <2>1, <3>2, <3>3
  <2>3. CASE s # local[t]
    <3>1. Inside(s)' = Inside(s) /\ threads'[s] = threads[s]
      BY <1>11, <2>3 DEF Register, Inside
    <3> QED
      BY <2>1, <3>1
  <2> QED
    BY <2>2, <2>3
<1>12. CASE Leave(t)
  <2> SUFFICES ASSUME NEW s \in Spaces
               PROVE  threads'[s] = Cardinality(Inside(s)')
    BY DEF ThreadCount, Inside
  <2>1. IsFiniteSet(Inside(s)) /\ threads[s] = Cardinality(Inside(s))
    BY InsideFinite DEF ThreadCount, Inside
  <2>2. CASE s = local[t]
    <3>1. Inside(s)' = Inside(s) \ {t} /\ t \in Inside(s)
      BY <1>12, <2>2 DEF Leave, Inside
    <3>2. Cardinality(Inside(s)') = Cardinality(Inside(s)) - 1
      <4> DEFINE old == Inside(s)
                 new == Inside(s)'
      <4>1. IsFiniteSet(old) /\ new = old \ {t} /\ t \in old
        BY <2>1, <3>1
      <4> HIDE DEF old, new
      <4>2. Cardinality(new) = Cardinality(old) - 1
        BY ONLY <4>1, FS_RemoveElement
      <4> QED
        BY <4>2 DEF old, new
    <3>3. threads'[s] = threads[s] - 1
      BY <1>12, <2>2 DEF Leave
    <3> QED
      BY <2>1, <3>2, <3>3
  <2>3. CASE s # local[t]
    <3>1. Inside(s)' = Inside(s) /\ threads'[s] = threads[s]
      BY <1>12, <2>3 DEF Leave, Inside
    <3> QED
      BY <2>1, <3>1
  <2> QED
    BY <2>2, <2>3
<1> QED
  BY <1>1, <1>2, <1>3, <1>4, <1>5, <1>6, <1>7, <1>8, <1>9, <1>10, <1>11, <1>12
     DEF ProduceStep

(* The consumer is never one of the threads its own counter waits for.     *)
LEMMA CountConsume ==
  ASSUME TypeInv, ThreadCount, ConsumeStep
  PROVE  ThreadCount'
<1> USE ThreadFacts DEF TypeInv, TypeOK, Goto, Registered,
        frameVars, spaceVars, lockVars, dataVars
<1>1. /\ threads' = threads
      /\ pc[Agent] \notin Registered /\ pc'[Agent] \notin Registered
      /\ \A t \in Threads : t # Agent => pc'[t] = pc[t] /\ local'[t] = local[t]
  BY DEF ConsumeStep, TryConsumerEntry, EnterConsumer, ResetConsumerGate,
         StartConsume, OpenOther, CloseGate, SetGate, ClearConsumerIn,
         AwaitProducers, LockLeft, LockRight, Lock, Drain, DrainOf, EndConsume
<1>2. \A s \in Spaces : Inside(s)' = Inside(s)
  BY <1>1 DEF Inside
<1> QED
  BY <1>1, <1>2, CountUnchanged

LEMMA CountStep == TypeInv /\ ThreadCount /\ [Next]_vars => ThreadCount'
<1> SUFFICES ASSUME TypeInv, ThreadCount, [Next]_vars
             PROVE  ThreadCount'
  OBVIOUS
<1>1. CASE UNCHANGED vars
  BY <1>1, CountUnchanged DEF vars, frameVars, Inside
<1>2. CASE \E t \in Threads : Produce(t) \/ ProduceStep(t)
  BY <1>2, CountProduce
<1>3. CASE ConsumeStep
  BY <1>3, CountConsume
<1> QED
  BY <1>1, <1>2, <1>3 DEF Next, WaitTimesOut

(* The counters are exact in every reachable state.                        *)
THEOREM CountersExact == Spec => []ThreadCount
  BY TypeInit, TypeStep, CountInit, CountStep, PTL DEF Spec

-----------------------------------------------------------------------------
(* A message that was handed over is not the one its thread is working on, *)
(* and sits in one place.                                                  *)
HandedOver(m) ==
  \E t \in Threads : \E n \in 1..Quota[t] :
    /\ m = <<t, n>>
    /\ n <= made[t]
    /\ pc[t] \in PreStore => n < made[t]

MessageInv ==
  /\ \A l \in Locations : \A m \in queue[l] : HandedOver(m) /\ m \notin drained
  /\ \A m \in drained : HandedOver(m)
  /\ \A l, k \in Locations : l # k => queue[l] \cap queue[k] = {}

LEMMA MessageInit == Init => MessageInv
  BY DEF Init, MessageInv

(* The message in a thread's hands is new.                                 *)
LEMMA WorkedOnIsNew ==
  ASSUME TypeInv, NEW t \in Threads, pc[t] \in PreStore
  PROVE  ~HandedOver(<<t, made[t]>>)
  BY ThreadFacts DEF TypeInv, TypeOK, HandedOver

(* HandedOver survives a step that neither starts nor abandons a message.  *)
LEMMA StillHandedOver ==
  ASSUME TypeInv, NEW m, HandedOver(m), made' = made,
         \A t \in Threads : pc'[t] \in PreStore => pc[t] \in PreStore
  PROVE  HandedOver(m)'
  BY DEF HandedOver

LEMMA StutterKeepsMessages ==
  ASSUME TypeInv, MessageInv, UNCHANGED dataVars, made' = made,
         \A t \in Threads : pc'[t] \in PreStore => pc[t] \in PreStore
  PROVE  MessageInv'
  BY StillHandedOver DEF MessageInv, dataVars

LEMMA MessageProduce ==
  ASSUME TypeInv, MessageInv, NEW t \in Threads, Produce(t) \/ ProduceStep(t)
  PROVE  MessageInv'
<1> USE ThreadFacts DEF Goto, frameVars, spaceVars, lockVars
<1> USE DEF PreStore
<1>1. CASE CheckGate(t)
  BY <1>1, StutterKeepsMessages DEF CheckGate, TypeInv, TypeOK
<1>2. CASE CheckConsumer(t)
  BY <1>2, StutterKeepsMessages DEF CheckConsumer, TypeInv, TypeOK
<1>3. CASE Signal(t)
  BY <1>3, StutterKeepsMessages DEF Signal, TypeInv, TypeOK
<1>4. CASE ReadOther(t)
  BY <1>4, StutterKeepsMessages DEF ReadOther, TypeInv, TypeOK
<1>5. CASE EnterMain(t)
  BY <1>5, StutterKeepsMessages DEF EnterMain, TypeInv, TypeOK
<1>6. CASE Flip(t)
  BY <1>6, StutterKeepsMessages DEF Flip, TypeInv, TypeOK
<1>7. CASE Register(t)
  BY <1>7, StutterKeepsMessages DEF Register, TypeInv, TypeOK
<1>8. CASE LeftBusy(t)
  BY <1>8, StutterKeepsMessages DEF LeftBusy, TypeInv, TypeOK
<1>9. CASE Leave(t)
  BY <1>9, StutterKeepsMessages DEF Leave, TypeInv, TypeOK
<1>10. CASE ProbeLeft(t) \/ AwaitEntry(t)
  <2>1. PICK from \in {"probe", "wait"}, e \in Entries : TakeEntry(t, from, e)
    BY <1>10 DEF ProbeLeft, AwaitEntry
  <2> QED
    BY <2>1, StutterKeepsMessages DEF TakeEntry, TypeInv, TypeOK
<1>11. CASE Produce(t)
  <2>1. \A m : HandedOver(m) => HandedOver(m)'
    BY <1>11 DEF Produce, HandedOver, TypeInv, TypeOK
  <2>2. UNCHANGED dataVars
    BY <1>11 DEF Produce
  <2> QED
    BY <2>1, <2>2 DEF MessageInv, dataVars
<1>12. CASE Store(t)
  <2>0. PICK m, l : m = <<t, made[t]>> /\ l = Location(local[t], entry[t])
    OBVIOUS
  <2>1. m \in Messages /\ ~HandedOver(m) /\ l \in Locations
    BY <1>12, <2>0, MessageParts, WorkedOnIsNew DEF Store, TypeInv, TypeOK, MadeInv
  <2>2. HandedOver(m)'
    BY <1>12, <2>0 DEF Store, HandedOver, TypeInv, TypeOK, MadeInv
  <2>3. \A x : HandedOver(x) => HandedOver(x)'
    BY <1>12, StillHandedOver DEF Store, TypeInv, TypeOK
  <2>4. /\ drained' = drained
        /\ queue' = [queue EXCEPT ![l] = @ \cup {m}]
    BY <1>12, <2>0 DEF Store
  <2>5. m \notin drained /\ \A k \in Locations : m \notin queue[k]
    BY <2>1 DEF MessageInv
  <2>6. \A k \in Locations : queue'[k] = IF k = l THEN queue[k] \cup {m} ELSE queue[k]
    BY <2>1, <2>4 DEF TypeInv, TypeOK
  <2>7. \A k \in Locations : \A x \in queue'[k] : HandedOver(x)' /\ x \notin drained'
    <3> SUFFICES ASSUME NEW k \in Locations, NEW x \in queue'[k]
                 PROVE  HandedOver(x)' /\ x \notin drained'
      OBVIOUS
    <3>1. x \in queue[k] \/ x = m
      BY <2>6
    <3> QED
      BY <3>1, <2>2, <2>3, <2>4, <2>5 DEF MessageInv
  <2>8. \A x \in drained' : HandedOver(x)'
    BY <2>3, <2>4 DEF MessageInv
  <2>9. \A j, k \in Locations : j # k => queue'[j] \cap queue'[k] = {}
    BY <2>5, <2>6 DEF MessageInv
  <2> QED
    BY <2>7, <2>8, <2>9 DEF MessageInv
<1> QED
  BY <1>1, <1>2, <1>3, <1>4, <1>5, <1>6, <1>7, <1>8, <1>9, <1>10, <1>11, <1>12
     DEF ProduceStep

LEMMA MessageConsume ==
  ASSUME TypeInv, MessageInv, ConsumeStep
  PROVE  MessageInv'
<1> USE ThreadFacts DEF Goto, frameVars, spaceVars, lockVars
<1> USE DEF PreStore
<1>1. CASE TryConsumerEntry
  BY <1>1, StutterKeepsMessages DEF TryConsumerEntry, TypeInv, TypeOK
<1>2. CASE EnterConsumer
  BY <1>2, StutterKeepsMessages DEF EnterConsumer, TypeInv, TypeOK
<1>3. CASE ResetConsumerGate
  BY <1>3, StutterKeepsMessages DEF ResetConsumerGate, TypeInv, TypeOK
<1>4. CASE StartConsume
  BY <1>4, StutterKeepsMessages DEF StartConsume, TypeInv, TypeOK
<1>5. CASE OpenOther
  BY <1>5, StutterKeepsMessages DEF OpenOther, SetGate, TypeInv, TypeOK
<1>6. CASE CloseGate
  BY <1>6, StutterKeepsMessages DEF CloseGate, SetGate, TypeInv, TypeOK
<1>7. CASE ClearConsumerIn
  BY <1>7, StutterKeepsMessages DEF ClearConsumerIn, TypeInv, TypeOK
<1>8. CASE AwaitProducers
  BY <1>8, StutterKeepsMessages DEF AwaitProducers, TypeInv, TypeOK
<1>9. CASE LockLeft
  BY <1>9, StutterKeepsMessages DEF LockLeft, Lock, TypeInv, TypeOK
<1>10. CASE LockRight
  BY <1>10, StutterKeepsMessages DEF LockRight, Lock, TypeInv, TypeOK
<1>11. CASE EndConsume
  BY <1>11, StutterKeepsMessages DEF EndConsume, TypeInv, TypeOK
<1>12. CASE Drain
  <2>0. PICK batch \in SUBSET UNION {queue[l] : l \in Here}, ends \in BOOLEAN :
             DrainOf(batch, ends)
    BY <1>12 DEF Drain
  <2>1. /\ drained' = drained \cup batch
        /\ queue' = [l \in Locations |-> IF l \in Here THEN queue[l] \ batch ELSE queue[l]]
    BY <2>0 DEF DrainOf
  <2>2. Here \subseteq Locations
    BY DEF TypeInv, TypeOK, Here
  <2>3. \A m : HandedOver(m) => HandedOver(m)'
    BY <2>0, StillHandedOver DEF DrainOf, TypeInv, TypeOK
  <2>4. \A m \in batch : \E l \in Here : m \in queue[l]
    BY <2>0
  <2>5. \A l \in Locations : \A m \in queue'[l] : HandedOver(m)' /\ m \notin drained'
    BY <2>1, <2>2, <2>3, <2>4 DEF MessageInv
  <2>6. \A m \in drained' : HandedOver(m)'
    BY <2>1, <2>2, <2>3, <2>4 DEF MessageInv
  <2>7. \A l, k \in Locations : l # k => queue'[l] \cap queue'[k] = {}
    BY <2>1 DEF MessageInv
  <2> QED
    BY <2>5, <2>6, <2>7 DEF MessageInv
<1> QED
  BY <1>1, <1>2, <1>3, <1>4, <1>5, <1>6, <1>7, <1>8, <1>9, <1>10, <1>11, <1>12
     DEF ConsumeStep

LEMMA MessageStep ==
  TypeInv /\ MessageInv /\ [Next]_vars => MessageInv'
<1> SUFFICES ASSUME TypeInv, MessageInv, [Next]_vars PROVE MessageInv'
  OBVIOUS
<1>1. CASE UNCHANGED vars
  BY <1>1, StutterKeepsMessages DEF vars, frameVars
<1>2. CASE \E t \in Threads : Produce(t) \/ ProduceStep(t)
  BY <1>2, MessageProduce
<1>3. CASE ConsumeStep
  BY <1>3, MessageConsume
<1> QED
  BY <1>1, <1>2, <1>3, StutterKeepsMessages DEF Next, WaitTimesOut, vars, frameVars

-----------------------------------------------------------------------------
(* The invariants together, for a specification that implements this one.  *)
SyncInv == TypeInv /\ LockInv /\ GateInv /\ ThreadCount /\ MessageInv

LEMMA SyncInvInit == Init => SyncInv
  BY TypeInit, LockGateInit, CountInit, MessageInit DEF SyncInv

LEMMA SyncInvStep == SyncInv /\ [Next]_vars => SyncInv'
  BY TypeStep, LockGateStep, CountStep, MessageStep DEF SyncInv

LEMMA SyncInvExclusive == SyncInv => StoreExclusive
  BY ThreadFacts DEF SyncInv, TypeInv, TypeOK, LockInv, StoreExclusive

-----------------------------------------------------------------------------
(* What keeps a message from being left behind.  A thread is on its way as *)
(* long as nobody else has moved the space or a gate since it looked at    *)
(* them, and what was stored in space s is awaited as long as the consumer *)
(* is to come for s: it was signalled, the space will not move, and once   *)
(* it started it works on s.                                               *)
Moving == {"checkGate", "readOther", "enterMain", "flip"}
Engaged == {"openOther", "closeGate", "clearIn", "await", "lockLeft", "lockRight", "drain"}

OnTrack(t) ==
  /\ pc[t] \in {"checkGate", "checkConsumer", "signal", "readOther", "register",
                "probe", "wait", "store"} => local[t] = currentSpace
  /\ pc[t] \in {"checkConsumer", "signal", "register", "probe", "wait", "store"} =>
       gate[local[t]]
  /\ pc[t] = "readOther" => gate[OtherSpace(local[t])]
  /\ pc[t] \in {"enterMain", "flip"} =>
       other[t] = OtherSpace(currentSpace) /\ gate[other[t]]
  /\ pc[t] \in {"flip", "register", "probe", "wait", "store"} => consumerGate

Awaited(s) ==
  IF pc[Agent] \in Engaged THEN local[Agent] = s
  ELSE /\ s = currentSpace
       /\ gate[s]
       /\ consumerGate \/ pc[Agent] \in {"enter", "reset", "start"}
       /\ \A u \in Threads : pc[u] \in Moving => pc[u] = "checkGate" /\ local[u] = s

(* The parts of the consumer's state that this relies on.                  *)
RoundInv ==
  /\ pc[Agent] # "unlock"
  /\ consumerIn => pc[Agent] \in {"reset", "start", "openOther", "closeGate", "clearIn"}

(* What a step of onProduce leaves alone.                                  *)
LEMMA ProduceFrame ==
  ASSUME TypeInv, NEW t \in Threads, Produce(t) \/ ProduceStep(t)
  PROVE  /\ \A u \in Threads \ {t} :
              pc'[u] = pc[u] /\ local'[u] = local[u] /\ other'[u] = other[u] /\ made'[u] = made[u]
         /\ pc'[t] \in {"idle"} \cup ProducerLabels
         /\ pc[t] \in {"idle"} \cup ProducerLabels
         /\ pc[t] = "idle" \/ made'[t] = made[t]
         /\ currentSpace' = currentSpace \/ pc[t] = "flip"
         /\ gate' = gate /\ consumerIn' = consumerIn
         /\ consumerGate => consumerGate'
<1> USE ThreadFacts DEF TypeInv, TypeOK, Goto, ProducerLabels, ConsumerLabels,
        frameVars, spaceVars
<1>1. CASE Produce(t)
  BY <1>1 DEF Produce
<1>2. CASE CheckGate(t)
  BY <1>2 DEF CheckGate
<1>3. CASE CheckConsumer(t)
  BY <1>3 DEF CheckConsumer
<1>4. CASE Signal(t)
  BY <1>4 DEF Signal
<1>5. CASE ReadOther(t)
  BY <1>5 DEF ReadOther
<1>6. CASE EnterMain(t)
  BY <1>6 DEF EnterMain
<1>7. CASE Flip(t)
  BY <1>7 DEF Flip
<1>8. CASE Register(t)
  BY <1>8 DEF Register
<1>9. CASE LeftBusy(t)
  BY <1>9 DEF LeftBusy
<1>10. CASE Leave(t)
  BY <1>10 DEF Leave
<1>11. CASE ProbeLeft(t) \/ AwaitEntry(t)
  BY <1>11 DEF ProbeLeft, AwaitEntry, TakeEntry
<1>12. CASE Store(t)
  BY <1>12 DEF Store
<1> QED
  BY <1>1, <1>2, <1>3, <1>4, <1>5, <1>6, <1>7, <1>8, <1>9,
     <1>10, <1>11, <1>12 DEF ProduceStep

(* A thread whose onProduce is not disturbed stays on track ...            *)
LEMMA OnTrackOwn ==
  ASSUME TypeInv, GateInv, NEW t \in Threads, Produce(t) \/ ProduceStep(t),
         pc[t] # "idle" => OnTrack(t), pc[t] = "checkConsumer" => ~consumerIn
  PROVE  OnTrack(t)'
<1> USE ThreadFacts DEF TypeInv, TypeOK, OnTrack, Goto, ProducerLabels, ConsumerLabels,
        frameVars, spaceVars
<1>1. CASE Produce(t)
  BY <1>1 DEF Produce
<1>2. CASE CheckGate(t)
  BY <1>2 DEF CheckGate, GateInv, GateDiscipline
<1>3. CASE CheckConsumer(t)
  BY <1>3 DEF CheckConsumer
<1>4. CASE Signal(t)
  BY <1>4 DEF Signal
<1>5. CASE ReadOther(t)
  BY <1>5 DEF ReadOther
<1>6. CASE EnterMain(t)
  BY <1>6 DEF EnterMain
<1>7. CASE Flip(t)
  BY <1>7 DEF Flip
<1>8. CASE Register(t)
  BY <1>8 DEF Register
<1>9. CASE LeftBusy(t)
  BY <1>9 DEF LeftBusy
<1>10. CASE Leave(t)
  BY <1>10 DEF Leave
<1>11. CASE ProbeLeft(t) \/ AwaitEntry(t)
  BY <1>11 DEF ProbeLeft, AwaitEntry, TakeEntry
<1>12. CASE Store(t)
  BY <1>12 DEF Store
<1> QED
  BY <1>1, <1>2, <1>3, <1>4, <1>5, <1>6, <1>7, <1>8, <1>9,
     <1>10, <1>11, <1>12 DEF ProduceStep

(* ... also when another one moves, unless that one moves the space.       *)
LEMMA OnTrackOther ==
  ASSUME TypeInv, NEW t \in Threads, NEW u \in Threads \ {t}, OnTrack(u),
         Produce(t) \/ ProduceStep(t), pc[t] \notin Moving
  PROVE  OnTrack(u)'
  BY ProduceFrame, ZenonT(60) DEF OnTrack, Moving

(* What is awaited remains so while threads produce ...                    *)
LEMMA AwaitedProduce ==
  ASSUME TypeInv, RoundInv, NEW t \in Threads, Produce(t) \/ ProduceStep(t),
         NEW s \in Spaces, Awaited(s)
  PROVE  Awaited(s)'
<1>1. /\ \A u \in Threads \ {t} : pc'[u] = pc[u] /\ local'[u] = local[u]
      /\ pc[t] \in {"idle"} \cup ProducerLabels
      /\ pc'[t] \in {"idle"} \cup ProducerLabels
      /\ currentSpace' = currentSpace \/ pc[t] = "flip"
      /\ gate' = gate
      /\ consumerGate => consumerGate'
  BY ProduceFrame
<1>2. \A x \in {"idle"} \cup ProducerLabels : x \notin Engaged /\ x \notin {"enter", "reset", "start"}
  BY DEF ProducerLabels, Engaged
<1>3. pc'[Agent] \in Engaged <=> pc[Agent] \in Engaged
  BY <1>1, <1>2, ThreadFacts
<1>4. CASE pc[Agent] \in Engaged
  <2>1. Agent # t /\ local[Agent] = s
    BY <1>1, <1>2, <1>4 DEF Awaited
  <2> QED
    BY <1>1, <1>3, <1>4, <2>1, ThreadFacts DEF Awaited
<1>5. CASE pc[Agent] \notin Engaged
  <2>1. /\ s = currentSpace /\ gate[s]
        /\ consumerGate \/ pc[Agent] \in {"enter", "reset", "start"}
        /\ \A u \in Threads : pc[u] \in Moving => pc[u] = "checkGate" /\ local[u] = s
    BY <1>5, Zenon DEF Awaited
  <2>2. currentSpace' = s
    BY <1>1, <2>1 DEF Moving
  <2>3. consumerGate' \/ pc'[Agent] \in {"enter", "reset", "start"}
    <3>1. CASE consumerGate
      BY <1>1, <3>1
    <3>2. CASE pc[Agent] \in {"enter", "reset", "start"}
      <4>1. Agent # t
        BY <1>1, <1>2, <3>2
      <4> QED
        BY <1>1, <3>2, <4>1, ThreadFacts
    <3> QED
      BY <2>1, <3>1, <3>2
  <2>4. pc'[t] \in Moving => pc'[t] = "checkGate" /\ local'[t] = s
    <3> USE DEF TypeInv, TypeOK, Goto, Moving, frameVars, spaceVars
    <3>1. CASE Produce(t)
      BY <2>1, <3>1 DEF Produce
    <3>2. CASE CheckGate(t)
      BY <2>1, <3>2 DEF CheckGate
    <3>3. CASE ReadOther(t) \/ EnterMain(t) \/ Flip(t)
      BY <2>1, <3>3 DEF ReadOther, EnterMain, Flip
    <3>4. CASE \/ CheckConsumer(t) \/ Signal(t) \/ Register(t) \/ ProbeLeft(t)
               \/ LeftBusy(t) \/ AwaitEntry(t) \/ Store(t) \/ Leave(t)
      BY <3>4 DEF CheckConsumer, Signal, Register, ProbeLeft, LeftBusy, AwaitEntry,
                  TakeEntry, Store, Leave
    <3> QED
      BY <3>1, <3>2, <3>3, <3>4 DEF ProduceStep
  <2>5. \A u \in Threads : pc'[u] \in Moving => pc'[u] = "checkGate" /\ local'[u] = s
    BY <1>1, <2>1, <2>4
  <2> QED
    BY <1>1, <1>3, <1>5, <2>1, <2>2, <2>3, <2>5, Zenon DEF Awaited
<1> QED
  BY <1>4, <1>5

(* ... and while the consumer comes for it, up to the drain.               *)
LEMMA AwaitedConsume ==
  ASSUME TypeInv, RoundInv, NEW s \in Spaces, Awaited(s),
         ConsumeStep, pc[Agent] # "drain"
  PROVE  Awaited(s)'
<1> USE ThreadFacts DEF TypeInv, TypeOK, RoundInv, Goto, frameVars, spaceVars
<1>1. ASSUME pc[Agent] \notin Engaged
      PROVE  /\ s = currentSpace /\ gate[s]
             /\ consumerGate \/ pc[Agent] \in {"enter", "reset", "start"}
             /\ \A u \in Threads : pc[u] \in Moving => pc[u] = "checkGate" /\ local[u] = s
  BY <1>1, Zenon DEF Awaited
<1>2. CASE TryConsumerEntry \/ EnterConsumer
  BY <1>1, <1>2 DEF TryConsumerEntry, EnterConsumer, Awaited, Engaged, Moving
<1>3. CASE ResetConsumerGate
  BY <1>1, <1>3 DEF ResetConsumerGate, Awaited, Engaged, Moving
<1>4. CASE StartConsume
  BY <1>1, <1>4 DEF StartConsume, Awaited, Engaged
<1>5. CASE OpenOther \/ CloseGate
  BY <1>5 DEF OpenOther, CloseGate, SetGate, Awaited, Engaged
<1>6. CASE ClearConsumerIn \/ AwaitProducers
  BY <1>6 DEF ClearConsumerIn, AwaitProducers, Awaited, Engaged
<1>7. CASE LockLeft \/ LockRight
  BY <1>7 DEF LockLeft, LockRight, Awaited, Engaged
<1>8. CASE Drain \/ EndConsume
  BY <1>8 DEF Drain, DrainOf, EndConsume
<1> QED
  BY <1>2, <1>3, <1>4, <1>5, <1>6, <1>7, <1>8 DEF ConsumeStep

(* A message stored by a thread on track is awaited.                       *)
LEMMA AwaitedStored ==
  ASSUME TypeInv, NEW t \in Threads, Store(t), OnTrack(t),
         pc[Agent] \notin ConsumerLabels,
         \A u \in Threads \ {t} : pc[u] \notin Moving
  PROVE  Awaited(local[t])'
<1>1. /\ \A u \in Threads \ {t} : pc'[u] = pc[u] /\ local'[u] = local[u]
      /\ currentSpace' = currentSpace /\ gate' = gate
      /\ consumerGate => consumerGate'
  BY ProduceFrame DEF ProduceStep, Store, Goto
<1>2. /\ pc[t] = "store" /\ pc'[t] = "leave" /\ local' = local
  BY DEF Store, Goto, TypeInv, TypeOK, frameVars
<1>3. local[t] = currentSpace /\ gate[local[t]] /\ consumerGate
  BY <1>2, Zenon DEF OnTrack
<1>4. \A u \in Threads : pc'[u] \notin Moving
  BY <1>1, <1>2 DEF Moving
<1>5. pc'[Agent] \notin Engaged
  BY <1>1, <1>2, ThreadFacts DEF Engaged, ConsumerLabels
<1>6. local'[t] = currentSpace' /\ gate'[local'[t]] /\ consumerGate'
  BY <1>1, <1>2, <1>3, Zenon
<1> QED
  BY <1>4, <1>5, <1>6, Zenon DEF Awaited

LEMMA RoundInit == Init => RoundInv
  BY ThreadFacts DEF Init, RoundInv

LEMMA RoundStep ==
  ASSUME TypeInv, RoundInv,
         \/ \E t \in Threads : Produce(t) \/ ProduceStep(t)
         \/ ConsumeStep /\ pc[Agent] # "drain"
  PROVE  RoundInv'
<1>1. CASE \E t \in Threads : Produce(t) \/ ProduceStep(t)
  <2>1. PICK t \in Threads : Produce(t) \/ ProduceStep(t)
    BY <1>1
  <2>2. /\ pc'[t] \in {"idle"} \cup ProducerLabels /\ pc[t] \in {"idle"} \cup ProducerLabels
        /\ consumerIn' = consumerIn
        /\ Agent # t => pc'[Agent] = pc[Agent]
    BY <2>1, ProduceFrame, ThreadFacts
  <2>3. \A x \in {"idle"} \cup ProducerLabels :
          x # "unlock" /\ x \notin {"reset", "start", "openOther", "closeGate", "clearIn"}
    BY DEF ProducerLabels
  <2>4. consumerIn' => Agent # t
    BY <2>2, <2>3 DEF RoundInv
  <2> QED
    BY <2>2, <2>3, <2>4 DEF RoundInv
<1>2. CASE ConsumeStep /\ pc[Agent] # "drain"
  <2> USE <1>2, ThreadFacts DEF TypeInv, TypeOK, RoundInv, Goto, frameVars, spaceVars,
          ConsumerLabels
  <2>1. CASE TryConsumerEntry \/ EnterConsumer \/ ResetConsumerGate \/ StartConsume
    BY <2>1 DEF TryConsumerEntry, EnterConsumer, ResetConsumerGate, StartConsume
  <2>2. CASE OpenOther \/ CloseGate \/ ClearConsumerIn \/ AwaitProducers
    BY <2>2 DEF OpenOther, CloseGate, SetGate, ClearConsumerIn, AwaitProducers
  <2>3. CASE LockLeft \/ LockRight
    BY <2>3 DEF LockLeft, LockRight
  <2>4. CASE Drain \/ EndConsume
    BY <2>4 DEF Drain, DrainOf, EndConsume
  <2> QED
    BY <2>1, <2>2, <2>3, <2>4 DEF ConsumeStep
<1> QED
  BY <1>1, <1>2
=============================================================================

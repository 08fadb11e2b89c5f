--------------------------- MODULE HeapScanAgent ---------------------------
(***************************************************************************)
(* The synchroniser, the message store and the consumer's loop together:   *)
(* STORE_MSG of ThreadSync is onQueueMessage of MessageStore, and the      *)
(* drain is the loop over retrieveMsg (SocketOutputInterface.c:216-239),   *)
(* one step per turn of its inner loops.  Only the entry mutexes keep them *)
(* apart.  As in the code, nobody calls onEndConsume.                      *)
(*                                                                         *)
(* The store's own reporting of lines is switched off (MaxLines is 0), the *)
(* threads of ThreadSync report instead.  A message is a node of one line, *)
(* also when it is the agent's own group.                                  *)
(***************************************************************************)
EXTENDS Integers, FiniteSets, SequencesExt

CONSTANTS
  Producers, Agent, NoThread, Quota,            \* as in ThreadSync
  SocketMsgLimit, MaxGroups, SendMayFail        \* as in MessageStore

(* What ThreadSync and MessageStore assume of them.                        *)
ASSUME AgentAssumption ==
  /\ IsFiniteSet(Producers)
  /\ Agent \notin Producers
  /\ NoThread \notin Producers \cup {Agent}
  /\ Quota \in [Producers \cup {Agent} -> Nat]
  /\ SocketMsgLimit \in Int
  /\ MaxGroups \in Nat /\ MaxGroups >= 4
  /\ SendMayFail \in BOOLEAN

VARIABLES
  pc, local, other, entry, made, currentSpace, gate, consumerGate, consumerIn,
  mainProducerGate, threads, owner, depth, consumingSpace,
  grp, live, holder, curMsgGrp, draining, loop, batch, arrived, sent, unsent,
  shadowed,
  delayed          \* history: messages that a race or a failure may hold up

syncFrame == <<local, other, entry, made, currentSpace, gate, consumerGate, consumerIn,
               mainProducerGate, threads, consumingSpace>>
syncVars == <<pc, syncFrame, owner, depth>>
storeVars == <<grp, live, holder, curMsgGrp, draining, loop, batch, arrived, sent,
               unsent, shadowed>>
vars == <<syncVars, storeVars, delayed>>

Store == INSTANCE MessageStore WITH UsedSpaces <- {0, 1}, MaxLines <- 0, made <- 0

(* What is left of the messages that arrived at a location, wherever the   *)
(* store has moved them, and what was taken from it.                       *)
Content(nodes) == {n[1] : n \in nodes}
Queue == [l \in Store!Locations |-> Content(ToSet(arrived[l]) \cap Store!Waiting)]
Drained == Content(ToSet(sent) \cup unsent)

Sync == INSTANCE ThreadSync
          WITH queue <- Queue, drained <- Drained, EndsConsume <- FALSE

Threads == Sync!Threads

-----------------------------------------------------------------------------
(* Steps of ThreadSync that do not touch the store.                        *)
SyncStep ==
  /\ UNCHANGED storeVars
  /\ \/ \E t \in Threads :
          \/ Sync!Produce(t) \/ Sync!CheckGate(t) \/ Sync!CheckConsumer(t)
          \/ Sync!Signal(t) \/ Sync!ReadOther(t) \/ Sync!EnterMain(t) \/ Sync!Flip(t)
          \/ Sync!Register(t) \/ Sync!ProbeLeft(t) \/ Sync!LeftBusy(t)
          \/ Sync!AwaitEntry(t) \/ Sync!Leave(t)
     \/ Sync!TryConsumerEntry \/ Sync!EnterConsumer \/ Sync!ResetConsumerGate
     \/ Sync!StartConsume \/ Sync!OpenOther \/ Sync!CloseGate
     \/ Sync!ClearConsumerIn \/ Sync!AwaitProducers \/ Sync!LockLeft

(* STORE_MSG and the release of the entry.                                 *)
StoreMsg(t) ==
  LET l == Sync!Location(local[t], entry[t])
  IN  /\ Sync!Goto(t, "store", "leave")
      /\ Store!QueueMessage(l, <<<<t, made[t]>>>>)
      /\ Sync!Unlock({l})
      /\ UNCHANGED <<syncFrame, curMsgGrp, draining, loop, batch, sent, unsent, shadowed>>

(* onStartConsume returns the space, and the drain begins ...              *)
BeginDrain ==
  /\ Store!StartConsume(local[Agent])
  /\ Sync!LockRight

(* ... and goes on until nothing is pending or a send fails.               *)
Retrieve ==
  /\ pc[Agent] = "drain"
  /\ Store!MergeEntries \/ Store!MergeGrp \/ Store!SplitOff \/ Store!LastBatch
  /\ pc' = IF draining' = Store!NoSpace THEN [pc EXCEPT ![Agent] = "idle"] ELSE pc
  /\ UNCHANGED <<syncFrame, owner, depth>>

-----------------------------------------------------------------------------
(* Thread t is inside onProduce while the consumer is at work or another   *)
(* thread is about to find its gate closed and to change the space.        *)
Changing == {"checkGate", "readOther", "enterMain", "flip"}

Races(t) ==
  /\ pc[t] \in Sync!ProducerLabels
  /\ \/ pc[Agent] \in Sync!ConsumerLabels
     \/ \E u \in Threads \ {t} : pc[u] \in Changing

Remember ==
  delayed' = delayed \cup {<<t, made'[t]>> : t \in {u \in Threads : Races(u)'}}
                     \cup (IF unsent' # unsent
                           THEN UNION {Queue'[l] : l \in Store!Locations} ELSE {})

Init ==
  /\ Store!Init
  /\ Sync!Init
  /\ delayed = {}

Next ==
  /\ \/ SyncStep
     \/ \E t \in Threads : StoreMsg(t)
     \/ BeginDrain
     \/ Retrieve
  /\ Remember

Spec == Init /\ [][Next]_vars

-----------------------------------------------------------------------------
(* The store and the consumer's loop do what ThreadSync assumes: a message *)
(* stored at a location stays there until a drain of its space takes it,   *)
(* although mergeEntries moves it to the left queue.                       *)
ImplementsSync == Sync!Spec

(* A message goes to the client once: what was handed to send(), and maybe *)
(* failed, is not sent again (mergeMsgAsString and free,                   *)
(* MessageStore.c:238-241).                                                *)
SentOnce ==
  /\ IsInjective(sent)
  /\ ToSet(sent) \cap unsent = {}

(* SetEvent(consumerGate) precedes the message it announces: before the    *)
(* space is flipped (line 118) or the thread is registered (line 141).     *)
(* When everything is quiet, a message is left waiting only if its         *)
(* onProduce overlapped the consumer's round or another thread's way from  *)
(* line 131 to line 125, or a send failed.                                 *)
HeldUpOnlyByRace ==
  (\A t \in Threads : pc[t] = "idle") /\ ~consumerGate =>
    UNION {Queue[l] : l \in Store!Locations} \subseteq delayed
=============================================================================

------------------------- MODULE SocketOutputProofs -------------------------
(***************************************************************************)
(* Proofs about SocketOutput, for any number of clients, commands and      *)
(* batches: what the agent thread shows in threadStatus while it may be    *)
(* blocked, and what the unloading thread may conclude from it.            *)
(***************************************************************************)
EXTENDS SocketOutput, TLAPS

USE DEF IDLE, LISTENING, WAITING, NORMAL, ACCUMULATING, Statuses, Alertable,
        killVars, clientVars, socketVars, spaceVars, historyVars

(* A change that is under way has one of the four statuses onChangeStatus  *)
(* is called with, the inner loop of sends has a batch left, and a space   *)
(* that is drained for the first time is not the third.                    *)
ChangeInv ==
  /\ pc \in {"checkLock", "setStatus"} => target # IDLE
  /\ pc = "send" => batches > 0
  /\ pc \in {"awaitThreads", "lockEntries"} /\ ~again => owned < 2

TypeInv == TypeOK /\ ChangeInv

(* Until onKillThread starts, statusLock is signalled whenever a status    *)
(* changes, so the status is the one set last, and only SetMode leads to   *)
(* what needs a non-blocking socket.                                       *)
Consuming == {"startConsume", "awaitThreads", "lockEntries"}

Serving == Consuming \cup
  {"checkLock", "setStatus", "accept", "setMode", "poll", "perform", "tryConsume", "send"}

ShownStatus(label) ==
  CASE label = "accept" -> {LISTENING}
    [] label \in {"setMode", "send"} -> {NORMAL}
    [] label \in {"poll", "perform"} -> {NORMAL, WAITING}
    [] label = "tryConsume" -> {WAITING}
    [] label \in Consuming -> {ACCUMULATING}
    [] OTHER -> Statuses

USE DEF Consuming

StatusInv ==
  killPc = "idle" =>
    /\ ~apc
    /\ ~die
    /\ pc # "exited"
    /\ pc \in Serving => statusLock
    /\ threadStatus \in ShownStatus(pc)
    /\ pc \in Consuming \cup {"poll", "perform", "tryConsume", "send"} => nonBlocking
    /\ pc \in {"checkLock", "setStatus"} /\ target \in {WAITING, ACCUMULATING} =>
         nonBlocking

(* The status is IDLE only before the agent thread has reported LISTENING, *)
(* or when that report was skipped.                                        *)
IdleInv ==
  threadStatus = IDLE /\ ~raced =>
    \/ pc \in {"initialize", "signalLock", "exited", "aborted"}
    \/ pc \in {"checkLock", "setStatus"} /\ target = LISTENING

-----------------------------------------------------------------------------
(* The steps of onStartConsume, and those of the JVM's other threads.      *)
Consumes == StartConsume \/ AwaitThreads \/ LockEntries

Others == MessageReported \/ ProducersLeave \/ CollectionStuck

(* The flags and the sequences of TypeOK, and the rest of it.              *)
BoolOK ==
  /\ statusLock \in BOOLEAN /\ die \in BOOLEAN /\ apc \in BOOLEAN
  /\ listenOpen \in BOOLEAN /\ clientOpen \in BOOLEAN /\ told \in BOOLEAN
  /\ again \in BOOLEAN /\ frozen \in BOOLEAN
  /\ nonBlocking \in BOOLEAN /\ consumerGate \in BOOLEAN /\ raced \in BOOLEAN

DataOK ==
  /\ pc \in {"initialize", "signalLock", "checkLock", "setStatus", "accept",
             "setMode", "poll", "perform", "tryConsume", "startConsume",
             "awaitThreads", "lockEntries", "send", "exited", "aborted"}
  /\ target \in Statuses
  /\ threadStatus \in Statuses
  /\ killPc \in {"idle", "setDie", "readStatus", "queueApc", "wait", "unloaded"}
  /\ client \in {"none", "up", "gone"}
  /\ batches \in 0..MaxBatches
  /\ owned \in 0..2
  /\ present \in {"none", "passing", "stuck"}
  /\ sessions \in 0..MaxSessions
  /\ commands \in 0..MaxCommands

SeqOK == {inbox, performed, ignored} \subseteq Seq(Commands)

LEMMA TypeParts == TypeOK <=> BoolOK /\ DataOK /\ SeqOK
<1>1. SeqOK <=> inbox \in Seq(Commands) /\ performed \in Seq(Commands)
                  /\ ignored \in Seq(Commands)
  BY Zenon DEF SeqOK
<1> QED
  BY <1>1, Zenon DEF TypeOK, BoolOK, DataOK

LEMMA TypeInit == Init => TypeInv
<1> SUFFICES ASSUME Init PROVE TypeInv
  OBVIOUS
<1>1. BoolOK
  BY Zenon DEF Init, BoolOK
<1>2. SeqOK
  BY DEF Init, SeqOK
<1>3. DataOK /\ ChangeInv
  BY SocketAssumption DEF Init, DataOK, ChangeInv
<1> QED
  BY <1>1, <1>2, <1>3, TypeParts DEF TypeInv

LEMMA BoolStep == BoolOK /\ [Next]_vars => BoolOK'
<1> SUFFICES ASSUME BoolOK, [Next]_vars PROVE BoolOK'
  OBVIOUS
<1> USE DEF BoolOK, Goto, ChangeStatus, killVars, socketVars, spaceVars
<1>1. CASE SignalLock \/ LockSignalled \/ Initialize \/ Abort \/ SetMode
  BY <1>1, ZenonT(60) DEF SignalLock, LockSignalled, Initialize, Abort, SetMode
<1>2. CASE ChangeSkipped \/ SetStatus
  BY <1>2, ZenonT(60) DEF ChangeSkipped, SetStatus
<1>3. CASE Dies \/ RunApc
  BY <1>3, ZenonT(60) DEF Dies, RunApc, ThreadExit, CleanSocket, CleanAbove
<1>4. CASE ProcessIncoming \/ Perform \/ PollFails \/ SendFails
  BY <1>4, ZenonT(60) DEF ProcessIncoming, Perform, PollFails, SendFails, HandleSocketError
<1>5. CASE ConsumerEntered \/ ConsumerTimesOut \/ Consumes \/ Send
  BY <1>5, ZenonT(60) DEF ConsumerEntered, ConsumerTimesOut, Consumes,
     StartConsume, AwaitThreads, LockEntries, Send
<1>6. CASE Accept \/ AcceptFails
  BY <1>6, ZenonT(60) DEF Accept, AcceptFails
<1>7. CASE KillStep
  BY <1>7, ZenonT(60) DEF KillStep, KillGoto, ResetStatusLock, SetDie, ReadStatus, QueueApc,
     AwaitExit
<1>8. CASE ClientSends \/ ClientLeaves \/ Others \/ UNCHANGED vars
  BY <1>8, ZenonT(60) DEF ClientSends, ClientLeaves, Others, MessageReported, ProducersLeave,
     CollectionStuck, vars
<1> QED
  BY <1>1, <1>2, <1>3, <1>4, <1>5, <1>6, <1>7, <1>8 DEF Next, AgentStep, Consumes, Others

(* What is read is a sequence of commands again, whatever is done with it. *)
LEMMA SeqStep == SeqOK /\ [Next]_vars => SeqOK'
<1> SUFFICES ASSUME SeqOK, [Next]_vars PROVE SeqOK'
  OBVIOUS
<1> USE DEF SeqOK
<1>1. CASE ProcessIncoming
  <2>1. Act \in Seq(Commands) /\ (Act # <<>> => inbox # <<>>)
    BY DEF Act
  <2>2. inbox # <<>> => Tail(inbox) \in Seq(Commands)
    OBVIOUS
  <2>3. /\ performed' = performed \o Act
        /\ inbox' = <<>>
        /\ ignored' = IF Act = <<>> THEN ignored \o inbox ELSE ignored \o Tail(inbox)
    BY <1>1 DEF ProcessIncoming
  <2> QED
    BY <2>1, <2>2, <2>3
<1>2. CASE ClientSends
  <2>1. PICK c \in Commands : inbox' = Append(inbox, c)
    BY <1>2 DEF ClientSends
  <2>2. UNCHANGED historyVars
    BY <1>2 DEF ClientSends
  <2> QED
    BY <2>1, <2>2
<1>3. CASE Accept
  BY <1>3 DEF Accept
<1>4. ASSUME UNCHANGED <<inbox, performed, ignored>> PROVE SeqOK'
  BY <1>4
<1>5. ASSUME ~ProcessIncoming, ~ClientSends, ~Accept
      PROVE  UNCHANGED <<inbox, performed, ignored>>
  BY <1>5, Zenon DEF Next, AgentStep, vars, SignalLock, LockSignalled, Initialize, Abort, SetMode,
     ChangeSkipped, SetStatus, Dies, RunApc, ThreadExit, Perform, PollFails, SendFails,
     HandleSocketError, ConsumerEntered, ConsumerTimesOut, Consumes,
     StartConsume, AwaitThreads, LockEntries, Send, AcceptFails,
     KillStep, KillGoto, ResetStatusLock, SetDie, ReadStatus, QueueApc, AwaitExit,
     ClientLeaves, Others, MessageReported, ProducersLeave,
     CollectionStuck
<1> QED
  BY <1>1, <1>2, <1>3, <1>4, <1>5

LEMMA TypeStep == TypeInv /\ [Next]_vars => TypeInv'
<1> SUFFICES ASSUME TypeInv, [Next]_vars PROVE TypeInv'
  OBVIOUS
<1>0. BoolOK /\ DataOK /\ SeqOK /\ ChangeInv
  BY TypeParts DEF TypeInv
<1> SUFFICES DataOK' /\ ChangeInv'
  <2>1. BoolOK' /\ SeqOK'
    BY <1>0, BoolStep, SeqStep
  <2>2. BoolOK' /\ DataOK' /\ SeqOK' => TypeOK'
    BY TypeParts, PTL
  <2> QED
    BY <2>1, <2>2 DEF TypeInv
<1> USE <1>0, SocketAssumption DEF DataOK, ChangeInv, Goto, ChangeStatus
<1>1. CASE SignalLock \/ LockSignalled \/ Initialize \/ Abort \/ SetMode
  BY <1>1 DEF SignalLock, LockSignalled, Initialize, Abort, SetMode
<1>2. CASE ChangeSkipped \/ SetStatus
  BY <1>2 DEF ChangeSkipped, SetStatus, Resume, AfterChange
<1>3. CASE Dies \/ RunApc
  <2>1. pc' = "exited" /\ owned' = 0 /\ present' = "none"
    BY <1>3, Zenon DEF Dies, RunApc, ThreadExit
  <2>2. UNCHANGED <<target, threadStatus, killVars, clientVars, batches, historyVars>>
    BY <1>3, Zenon DEF Dies, RunApc, ThreadExit
  <2> QED
    BY <2>1, <2>2
<1>4. CASE ProcessIncoming \/ Perform
  <2>1. UNCHANGED <<threadStatus, killPc, client, sessions, commands, batches, spaceVars>>
    BY <1>4, Zenon DEF ProcessIncoming, Perform, killVars, clientVars
  <2>2. (pc' = "checkLock" /\ target' = WAITING) \/ (pc' = "perform" /\ target' = target)
    BY <1>4 DEF ProcessIncoming, Perform
  <2> QED
    BY <2>1, <2>2
<1>5. CASE PollFails \/ SendFails
  BY <1>5 DEF PollFails, SendFails, HandleSocketError
<1>6. CASE ConsumerEntered \/ ConsumerTimesOut \/ Consumes
  <2>1. CASE ConsumerEntered \/ ConsumerTimesOut \/ AwaitThreads
    BY <2>1 DEF ConsumerEntered, ConsumerTimesOut, AwaitThreads
  <2>2. CASE StartConsume
    <3>1. pc' = "awaitThreads" /\ (~again' => owned < 2) /\ owned' = owned
      BY <2>2, Zenon DEF StartConsume
    <3>2. present' \in {"none", "passing", "stuck"}
      BY <2>2 DEF StartConsume
    <3>3. UNCHANGED <<target, threadStatus, killPc, clientVars, batches>>
      BY <2>2, Zenon DEF StartConsume, killVars
    <3> QED
      BY <3>1, <3>2, <3>3
  <2>3. CASE LockEntries
    <3>1. owned' \in 0..2
      BY <2>3 DEF LockEntries
    <3>2. pc' = "checkLock" /\ target' = NORMAL /\ batches' \in 0..MaxBatches
      BY <2>3 DEF LockEntries
    <3>3. UNCHANGED <<threadStatus, killPc, clientVars, present>>
      BY <2>3, Zenon DEF LockEntries, killVars
    <3> QED
      BY <3>1, <3>2, <3>3
  <2> QED
    BY <1>6, <2>1, <2>2, <2>3 DEF Consumes
<1>7. CASE Send
  <2>1. batches > 0 /\ batches' = batches - 1 /\ pc' \in {"send", "poll"}
    BY <1>7 DEF Send
  <2>2. batches' \in 0..MaxBatches /\ (pc' = "send" => batches' > 0)
    BY <1>7, <2>1 DEF Send
  <2>3. UNCHANGED <<target, threadStatus, killPc, clientVars, spaceVars, historyVars>>
    BY <1>7 DEF Send
  <2> QED
    BY <2>1, <2>2, <2>3
<1>8. CASE Accept \/ AcceptFails
  BY <1>8 DEF Accept, AcceptFails
<1>9. CASE KillStep
  BY <1>9 DEF KillStep, KillGoto, ResetStatusLock, SetDie, ReadStatus, QueueApc, AwaitExit
<1>10. CASE ClientSends
  BY <1>10 DEF ClientSends
<1>11. CASE ClientLeaves \/ Others \/ UNCHANGED vars
  BY <1>11 DEF ClientLeaves, Others, MessageReported, ProducersLeave,
     CollectionStuck, vars
<1> HIDE DEF DataOK, ChangeInv
<1> QED
  BY <1>1, <1>2, <1>3, <1>4, <1>5, <1>6, <1>7, <1>8, <1>9, <1>10, <1>11
     DEF Next, AgentStep, Consumes, Others

LEMMA TypeAlways == Spec => []TypeInv
  BY TypeInit, TypeStep, PTL DEF Spec

(* TypeOK: the status is one of the five, and the counters keep their      *)
(* bounds.                                                                 *)
THEOREM TypeCorrect == Spec => []TypeOK
<1>1. TypeInv => TypeOK
  BY DEF TypeInv
<1> QED
  BY <1>1, TypeAlways, PTL

-----------------------------------------------------------------------------
LEMMA StatusStep == TypeInv /\ StatusInv /\ [Next]_vars => StatusInv'
<1> SUFFICES ASSUME TypeInv, StatusInv, [Next]_vars, killPc' = "idle" PROVE StatusInv'
  BY DEF StatusInv
<1>0. killPc = "idle" /\ TypeOK /\ ChangeInv /\ threadStatus \in Statuses
  BY DEF TypeInv, TypeOK, vars, Next, AgentStep, KillStep, KillGoto, SignalLock,
     LockSignalled, ChangeSkipped, SetStatus, Dies, RunApc, ThreadExit, Initialize, Abort,
     SetMode, ProcessIncoming, Perform, PollFails, SendFails, HandleSocketError, ConsumerEntered,
     ConsumerTimesOut, Consumes, StartConsume, AwaitThreads, LockEntries, Send, Accept, AcceptFails,
     ClientSends, ClientLeaves, MessageReported, ProducersLeave, CollectionStuck,
     ResetStatusLock, SetDie, ReadStatus, QueueApc, AwaitExit
<1> USE <1>0 DEF StatusInv, ShownStatus, Serving, Goto, ChangeStatus
<1>1. CASE SignalLock \/ LockSignalled \/ Initialize \/ Abort \/ SetMode
  BY <1>1 DEF SignalLock, LockSignalled, Initialize, Abort, SetMode
<1>2. CASE SetStatus
  BY <1>2 DEF SetStatus, Resume, AfterChange, TypeOK, ChangeInv
<1>3. CASE ChangeSkipped \/ Dies \/ RunApc \/ KillStep
  BY <1>3 DEF ChangeSkipped, Dies, RunApc, KillStep, KillGoto, ResetStatusLock, SetDie,
     ReadStatus, QueueApc, AwaitExit
<1>4. CASE ProcessIncoming \/ Perform \/ PollFails \/ SendFails
  BY <1>4 DEF ProcessIncoming, Perform, PollFails, SendFails, HandleSocketError
<1>5. CASE ConsumerEntered \/ ConsumerTimesOut \/ Consumes \/ Send
  BY <1>5 DEF ConsumerEntered, ConsumerTimesOut, Consumes,
     StartConsume, AwaitThreads, LockEntries, Send
<1>6. CASE Accept \/ AcceptFails
  BY <1>6 DEF Accept, AcceptFails
<1>7. CASE ClientSends \/ ClientLeaves \/ Others \/ UNCHANGED vars
  BY <1>7 DEF ClientSends, ClientLeaves, Others, MessageReported, ProducersLeave,
     CollectionStuck, vars
<1> QED
  BY <1>1, <1>2, <1>3, <1>4, <1>5, <1>6, <1>7 DEF Next, AgentStep, Consumes, Others

(* BlockedIsAlertable: as long as nobody unloads the agent, a thread in a  *)
(* blocking wait shows an odd status, and where it shows an even one its   *)
(* socket does not block.                                                  *)
THEOREM BlockedShowsOdd == Spec => []BlockedIsAlertable
<1>1. Init => StatusInv
  BY DEF Init, StatusInv, ShownStatus, Serving
<1>2. TypeInv /\ StatusInv => BlockedIsAlertable
  BY DEF StatusInv, ShownStatus, BlockedIsAlertable
<1> QED
  BY <1>1, <1>2, TypeAlways, StatusStep, PTL DEF Spec

-----------------------------------------------------------------------------
LEMMA IdleStep == TypeInv /\ IdleInv /\ [Next]_vars => IdleInv'
<1> SUFFICES ASSUME TypeInv, IdleInv, [Next]_vars PROVE IdleInv'
  OBVIOUS
<1>0. TypeOK /\ ChangeInv
  BY DEF TypeInv
<1> USE <1>0 DEF IdleInv, TypeOK, ChangeInv, Goto, ChangeStatus
<1>1. CASE SignalLock \/ LockSignalled \/ Initialize \/ Abort \/ SetMode
  BY <1>1 DEF SignalLock, LockSignalled, Initialize, Abort, SetMode
<1>2. CASE ChangeSkipped \/ SetStatus
  BY <1>2 DEF ChangeSkipped, SetStatus
<1>3. CASE Dies \/ RunApc
  BY <1>3 DEF Dies, RunApc, ThreadExit
<1>4. CASE ProcessIncoming \/ Perform \/ PollFails \/ SendFails
  BY <1>4 DEF ProcessIncoming, Perform, PollFails, SendFails, HandleSocketError
<1>5. CASE ConsumerEntered \/ ConsumerTimesOut \/ Consumes \/ Send
  BY <1>5 DEF ConsumerEntered, ConsumerTimesOut, Consumes,
     StartConsume, AwaitThreads, LockEntries, Send
<1>6. CASE Accept \/ AcceptFails
  BY <1>6 DEF Accept, AcceptFails
<1>7. CASE KillStep
  BY <1>7 DEF KillStep, KillGoto, ResetStatusLock, SetDie, ReadStatus, QueueApc, AwaitExit
<1>8. CASE ClientSends \/ ClientLeaves \/ Others \/ UNCHANGED vars
  BY <1>8 DEF ClientSends, ClientLeaves, Others, MessageReported, ProducersLeave,
     CollectionStuck, vars
<1> QED
  BY <1>1, <1>2, <1>3, <1>4, <1>5, <1>6, <1>7, <1>8 DEF Next, AgentStep, Consumes, Others

(* A step that leaves the unloading thread alone keeps its conclusion: a   *)
(* thread that has exited does nothing, and IDLE is only left by a report  *)
(* of LISTENING.                                                           *)
LEMMA UnloadStep ==
  TypeInv /\ IdleInv /\ UnloadedAfterExit /\ [Next]_vars => UnloadedAfterExit'
<1> SUFFICES ASSUME TypeInv, IdleInv, UnloadedAfterExit, [Next]_vars
             PROVE  UnloadedAfterExit'
  OBVIOUS
<1> USE DEF UnloadedAfterExit, IdleInv, Goto, ChangeStatus
<1>1. CASE SignalLock \/ LockSignalled \/ Initialize \/ Abort \/ SetMode
  BY <1>1 DEF SignalLock, LockSignalled, Initialize, Abort, SetMode
<1>2. CASE ChangeSkipped \/ SetStatus
  BY <1>2 DEF ChangeSkipped, SetStatus, TypeInv, TypeOK
<1>3. CASE Dies \/ RunApc
  BY <1>3 DEF Dies, RunApc, ThreadExit
<1>4. CASE ProcessIncoming \/ Perform \/ PollFails \/ SendFails
  BY <1>4 DEF ProcessIncoming, Perform, PollFails, SendFails, HandleSocketError
<1>5. CASE ConsumerEntered \/ ConsumerTimesOut \/ Consumes \/ Send
  BY <1>5 DEF ConsumerEntered, ConsumerTimesOut, Consumes,
     StartConsume, AwaitThreads, LockEntries, Send
<1>6. CASE Accept \/ AcceptFails
  BY <1>6 DEF Accept, AcceptFails
<1>7. CASE KillStep
  BY <1>7 DEF KillStep, KillGoto, ResetStatusLock, SetDie, ReadStatus, QueueApc, AwaitExit,
     TypeInv, TypeOK
<1>8. CASE ClientSends \/ ClientLeaves \/ Others \/ UNCHANGED vars
  BY <1>8 DEF ClientSends, ClientLeaves, Others, MessageReported, ProducersLeave,
     CollectionStuck, vars
<1> QED
  BY <1>1, <1>2, <1>3, <1>4, <1>5, <1>6, <1>7, <1>8 DEF Next, AgentStep, Consumes, Others

(* UnloadedAfterExit: Agent_OnUnload comes back before the agent thread is *)
(* gone only in the two windows around onStart.                            *)
THEOREM LibraryOutlivesThread == Spec => []UnloadedAfterExit
<1>1. Init => IdleInv /\ UnloadedAfterExit
  BY DEF Init, IdleInv, UnloadedAfterExit
<1> QED
  BY <1>1, TypeAlways, IdleStep, UnloadStep, PTL DEF Spec

-----------------------------------------------------------------------------
(* A socket is non-blocking only while a client is served, and a thread    *)
(* that was serving one when it exited has closed its socket.              *)
ClientInv ==
  /\ pc \in {"initialize", "signalLock", "accept", "setMode", "aborted"} => ~nonBlocking
  /\ pc \in {"checkLock", "setStatus"} /\ target = LISTENING => ~nonBlocking
  /\ nonBlocking /\ pc # "exited" => clientOpen
  /\ pc = "exited" /\ nonBlocking /\ ~raced =>
       (told /\ ~clientOpen) \/ threadStatus = LISTENING

(* At the exit, onCleanSocket goes by the status, and by IdleInv IDLE does *)
(* not occur while a client is served.                                     *)
LEMMA ExitStep ==
  TypeInv /\ IdleInv /\ ClientInv /\ ThreadExit /\ pc # "exited" => ClientInv'
<1> SUFFICES ASSUME TypeInv, IdleInv, ClientInv, ThreadExit, pc # "exited",
                    nonBlocking', ~raced'
             PROVE  (told' /\ ~clientOpen') \/ threadStatus' = LISTENING
  BY DEF ClientInv, ThreadExit
<1>1. /\ told' = (told \/ (clientOpen /\ threadStatus > LISTENING))
      /\ clientOpen' = (clientOpen /\ ~(threadStatus > LISTENING))
      /\ UNCHANGED <<nonBlocking, threadStatus, raced>>
  BY Zenon DEF ThreadExit, CleanSocket, CleanAbove
<1>2. nonBlocking /\ ~raced
  BY <1>1
<1>3. clientOpen
  BY <1>2, Zenon DEF ClientInv
<1>4. threadStatus # IDLE
  BY <1>2 DEF IdleInv, ClientInv
<1>5. threadStatus = LISTENING \/ threadStatus > LISTENING
  BY <1>4 DEF TypeInv, TypeOK
<1>6. CASE threadStatus > LISTENING
  BY <1>1, <1>3, <1>6, Zenon
<1> QED
  BY <1>1, <1>5, <1>6

LEMMA ClientStep == TypeInv /\ IdleInv /\ ClientInv /\ [Next]_vars => ClientInv'
<1> SUFFICES ASSUME TypeInv, IdleInv, ClientInv, [Next]_vars PROVE ClientInv'
  OBVIOUS
<1>0. TypeOK /\ ChangeInv
  BY DEF TypeInv
<1>3. CASE Dies \/ RunApc
  <2>1. ThreadExit /\ pc # "exited"
    BY <1>3 DEF Dies, RunApc
  <2> QED
    BY <2>1, ExitStep
<1> USE DEF ClientInv, Goto, ChangeStatus
<1>1. CASE SignalLock \/ LockSignalled \/ Initialize \/ Abort \/ SetMode
  BY <1>1 DEF SignalLock, LockSignalled, Initialize, Abort, SetMode
<1>2. CASE ChangeSkipped \/ SetStatus
  BY <1>0, <1>2 DEF ChangeSkipped, SetStatus, Resume, AfterChange, TypeOK, ChangeInv
<1>4. CASE ProcessIncoming \/ Perform \/ PollFails \/ SendFails
  <2>1. CASE ProcessIncoming \/ Perform
    <3>1. /\ (pc' = "checkLock" /\ target' = WAITING) \/ pc' = "perform"
          /\ pc # "exited"
      BY <2>1 DEF ProcessIncoming, Perform
    <3>2. UNCHANGED <<nonBlocking, clientOpen>>
      BY <2>1, Zenon DEF ProcessIncoming, Perform
    <3> QED
      BY <3>1, <3>2
  <2>2. CASE PollFails \/ SendFails
    <3>1. pc' = "signalLock" /\ nonBlocking' = FALSE
      BY <2>2 DEF PollFails, SendFails, HandleSocketError
    <3> QED
      BY <3>1
  <2> QED
    BY <1>4, <2>1, <2>2
<1>5. CASE ConsumerEntered \/ ConsumerTimesOut \/ Consumes \/ Send
  BY <1>5 DEF ConsumerEntered, ConsumerTimesOut, Consumes, StartConsume, AwaitThreads,
     LockEntries, Send
<1>6. CASE Accept \/ AcceptFails
  BY <1>6 DEF Accept, AcceptFails
<1>7. CASE KillStep
  BY <1>7 DEF KillStep, KillGoto, ResetStatusLock, SetDie, ReadStatus, QueueApc, AwaitExit
<1>8. CASE ClientSends \/ ClientLeaves \/ Others \/ UNCHANGED vars
  BY <1>8 DEF ClientSends, ClientLeaves, Others, MessageReported, ProducersLeave,
     CollectionStuck, vars
<1> QED
  BY <1>1, <1>2, <1>3, <1>4, <1>5, <1>6, <1>7, <1>8 DEF Next, AgentStep, Consumes, Others

(* UnloadTellsClient: the client that is being served is sent AGENT_EXIT   *)
(* before the library goes away, unless its change to NORMAL was skipped.  *)
THEOREM ServedClientIsTold == Spec => []UnloadTellsClient
<1>1. Init => IdleInv /\ UnloadedAfterExit /\ ClientInv
  BY DEF Init, IdleInv, UnloadedAfterExit, ClientInv
<1>2. IdleInv /\ UnloadedAfterExit /\ ClientInv => UnloadTellsClient
  BY Zenon DEF IdleInv, UnloadedAfterExit, ClientInv, UnloadTellsClient
<1> QED
  BY <1>1, <1>2, TypeAlways, IdleStep, UnloadStep, ClientStep, PTL DEF Spec
=============================================================================

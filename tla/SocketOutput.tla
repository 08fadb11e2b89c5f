---------------------------- MODULE SocketOutput ----------------------------
(***************************************************************************)
(* SocketOutputInterface.c: the agent thread that serves one client at a   *)
(* time, and the thread that unloads the agent (onKillThread).  The two    *)
(* share threadStatus, the event statusLock and the flag die.  A status is *)
(* odd while the agent thread may be blocked in an alertable wait, which   *)
(* an APC interrupts; the unloading thread queues one only then.           *)
(*                                                                         *)
(* A step of the agent thread is one access to the shared variables or one *)
(* blocking call.  The synchroniser and the store are seen from outside:   *)
(* onTryConsumerEntry waits for an event, a drain is a number of batches.  *)
(* onStartConsume waits for the producers in the space to leave and then   *)
(* for its two entry mutexes, which the agent thread never releases, since *)
(* startFlushProcess does not call onEndConsume.  A producer that comes to *)
(* a space it has drained is therefore stuck, and so is a garbage          *)
(* collection whose onObjectFree is that producer.                         *)
(***************************************************************************)
EXTENDS Integers, Sequences, FiniteSets

CONSTANTS
  MaxSessions,     \* clients that connect, one after the other (bound)
  MaxCommands,     \* commands the clients send altogether (bound)
  MaxBatches       \* batches in one drain (bound)

ASSUME SocketAssumption ==
  /\ MaxSessions \in Nat
  /\ MaxCommands \in Nat
  /\ MaxBatches \in Nat

IDLE == 0
LISTENING == 1
WAITING == 3
NORMAL == 4
ACCUMULATING == 5
Statuses == {IDLE, LISTENING, WAITING, NORMAL, ACCUMULATING}
Alertable(status) == status % 2 = 1

FOLLOW_REFERENCE == 1
START_GC == 2
GET_BASIC_DATA == 3
CLOSE_CONNECTION == 4
Commands == {FOLLOW_REFERENCE, START_GC, GET_BASIC_DATA, CLOSE_CONNECTION}
Understood == {FOLLOW_REFERENCE, START_GC, GET_BASIC_DATA}

VARIABLES
  pc,              \* where the agent thread is
  target,          \* the status onChangeStatus is about to set
  threadStatus, statusLock, die,
  apc,             \* onThreadExit is queued to the agent thread
  killPc,          \* where onKillThread is
  listenOpen,      \* listenSocket
  client,          \* the client: none, up, or gone without our noticing
  clientOpen,      \* clientSocket
  nonBlocking,     \* FIONBIO is set for it
  told,            \* the last client was sent AGENT_EXIT
  inbox,           \* commands in the socket's receive buffer
  consumerGate,    \* the event onTryConsumerEntry waits for
  batches,         \* batches left in the current drain
  owned,           \* how many spaces it has drained and keeps locked
  again,           \* onStartConsume has found one of these again
  present,         \* the producers in the space: none, passing or stuck
  frozen,          \* a garbage collection is stuck
  sessions, commands,  \* counters for the bounds
  performed, ignored,  \* history: commands acted upon, thrown away
  raced            \* history: onStart ran on after onKillThread's line 80

killVars == <<killPc, die, apc>>
clientVars == <<client, inbox, sessions, commands>>
spaceVars == <<owned, again, present, frozen>>
socketVars == <<listenOpen, clientOpen, nonBlocking, told>>
historyVars == <<performed, ignored>>
vars == <<pc, target, threadStatus, statusLock, killVars, socketVars,
          clientVars, consumerGate, batches, spaceVars, historyVars, raced>>

(* onInitialize runs inside Agent_OnLoad; the agent thread, which starts   *)
(* and does its first scan after that, is in onStart next.                 *)
Init ==
  /\ pc = "initialize"
  /\ target = IDLE
  /\ threadStatus = IDLE
  /\ statusLock = FALSE
  /\ die = FALSE
  /\ apc = FALSE
  /\ killPc = "idle"
  /\ listenOpen = FALSE
  /\ client = "none"
  /\ clientOpen = FALSE
  /\ nonBlocking = FALSE
  /\ told = FALSE
  /\ inbox = <<>>
  /\ consumerGate = FALSE
  /\ batches = 0
  /\ owned = 0
  /\ again = FALSE
  /\ present = "none"
  /\ frozen = FALSE
  /\ sessions = 0
  /\ commands = 0
  /\ performed = <<>>
  /\ ignored = <<>>
  /\ raced = FALSE

Goto(from, to) ==
  /\ pc = from
  /\ pc' = to

-----------------------------------------------------------------------------
(* onThreadExit: onCleanSocket closes what the status says is open.        *)
CleanAbove(status) ==
  /\ told' = (told \/ (clientOpen /\ threadStatus > status))
  /\ clientOpen' = (clientOpen /\ ~(threadStatus > status))
  /\ listenOpen' = (listenOpen /\ ~(threadStatus > IDLE))
  /\ UNCHANGED nonBlocking

CleanAboveWaiting == CleanAbove(WAITING)

CleanSocket == CleanAbove(LISTENING)

(* The mutexes of a thread that has exited are abandoned: whoever waits    *)
(* for one gets it.                                                        *)
ThreadExit ==
  /\ pc' = "exited"
  /\ CleanSocket
  /\ owned' = 0
  /\ again' = FALSE
  /\ present' = "none"
  /\ frozen' = FALSE
  /\ UNCHANGED <<target, threadStatus, statusLock, killVars, clientVars,
                 consumerGate, batches, historyVars, raced>>

(* onChangeStatus, first half: the zero wait for statusLock.  While the    *)
(* event is reset but die is not yet set, the change is skipped.           *)
AfterChange(status) ==
  CASE status = LISTENING -> "accept"
    [] status = WAITING -> "tryConsume"
    [] status = ACCUMULATING -> "startConsume"

Resume == CASE target # NORMAL -> AfterChange(target)
            [] target = NORMAL /\ ~nonBlocking -> "setMode"
            [] target = NORMAL /\ nonBlocking ->
                 IF batches > 0 THEN "send" ELSE "poll"

ChangeStatus(from, status) ==
  /\ Goto(from, "checkLock")
  /\ target' = status

LockSignalled ==
  /\ Goto("checkLock", "setStatus")
  /\ statusLock
  /\ UNCHANGED <<target, threadStatus, statusLock, killVars, socketVars,
                 clientVars, consumerGate, batches, spaceVars, historyVars, raced>>

ChangeSkipped ==
  /\ Goto("checkLock", Resume)
  /\ ~statusLock /\ ~die
  /\ raced' = (raced \/ target = LISTENING)
  /\ UNCHANGED <<target, threadStatus, statusLock, killVars, socketVars,
                 clientVars, consumerGate, batches, spaceVars, historyVars>>

Dies ==
  /\ pc = "checkLock"
  /\ ~statusLock /\ die
  /\ ThreadExit

SetNothing ==
  /\ Goto("setStatus", Resume)
  /\ UNCHANGED <<target, threadStatus, statusLock, killVars, socketVars, clientVars,
                 consumerGate, batches, spaceVars, historyVars, raced>>

SetStatus ==
  /\ Goto("setStatus", Resume)
  /\ threadStatus' = target
  /\ raced' = (raced \/ (target = LISTENING /\ killPc # "idle"))
  /\ UNCHANGED <<target, statusLock, killVars, socketVars, clientVars,
                 consumerGate, batches, spaceVars, historyVars>>

(* An APC runs in an alertable wait: in accept, in onTryConsumerEntry, in  *)
(* the waits for the entry mutexes and in the zero wait for statusLock.    *)
RunApc ==
  /\ apc
  /\ pc \in {"accept", "tryConsume", "lockEntries", "checkLock"}
  /\ ThreadExit

-----------------------------------------------------------------------------
(* initializeSocket and the event statusLock.                              *)
Initialize ==
  /\ Goto("initialize", "signalLock")
  /\ listenOpen' = TRUE
  /\ UNCHANGED <<target, threadStatus, statusLock, killVars, clientOpen, nonBlocking,
                 told, clientVars, consumerGate, batches, spaceVars, historyVars, raced>>

(* onCheckSocketError: initializeSocket, listen and ioctlsocket(FIONBIO)   *)
(* end the whole process when they fail.                                   *)
Abort ==
  /\ pc \in {"initialize", "signalLock", "setMode"}
  /\ pc' = "aborted"
  /\ UNCHANGED <<target, threadStatus, statusLock, killVars, socketVars, clientVars,
                 consumerGate, batches, spaceVars, historyVars, raced>>

(* onStart: listen, SetEvent(statusLock), onChangeStatus(LISTENING).       *)
SignalLock ==
  /\ ChangeStatus("signalLock", LISTENING)
  /\ statusLock' = TRUE
  /\ raced' = (raced \/ killPc # "idle")
  /\ UNCHANGED <<threadStatus, killVars, socketVars, clientVars, consumerGate,
                 batches, spaceVars, historyVars>>

(* accept returns when a client connects, then onChangeStatus(NORMAL).     *)
Accept ==
  /\ sessions < MaxSessions
  /\ listenOpen
  /\ ChangeStatus("accept", NORMAL)
  /\ sessions' = sessions + 1
  /\ client' = "up"
  /\ inbox' = <<>>
  /\ clientOpen' = TRUE
  /\ nonBlocking' = FALSE
  /\ told' = FALSE
  /\ batches' = 0
  /\ UNCHANGED <<threadStatus, statusLock, killVars, listenOpen, commands,
                 consumerGate, spaceVars, historyVars, raced>>

(* INVALID_SOCKET is not noticed before FIONBIO fails on it.               *)
AcceptFails ==
  /\ ChangeStatus("accept", NORMAL)
  /\ nonBlocking' = FALSE
  /\ batches' = 0
  /\ UNCHANGED <<threadStatus, statusLock, killVars, listenOpen, clientOpen, told,
                 clientVars, consumerGate, spaceVars, historyVars, raced>>

SetMode ==
  /\ Goto("setMode", "poll")
  /\ clientOpen
  /\ nonBlocking' = TRUE
  /\ UNCHANGED <<target, threadStatus, statusLock, killVars, listenOpen, clientOpen,
                 told, clientVars, consumerGate, batches, spaceVars, historyVars, raced>>

(* onHandleSocketError: close the client and start again.                  *)
HandleSocketError(from) ==
  /\ Goto(from, "signalLock")
  /\ clientOpen' = FALSE
  /\ nonBlocking' = FALSE
  /\ batches' = 0
  /\ UNCHANGED <<target, threadStatus, statusLock, killVars, listenOpen, told,
                 clientVars, consumerGate, spaceVars, historyVars, raced>>

(* processIncomingMessage: all that has arrived is read and the first byte *)
(* is looked at; after that, onChangeStatus(WAITING).                      *)
Act == IF inbox # <<>> /\ Head(inbox) \in Understood THEN <<Head(inbox)>> ELSE <<>>

ProcessIncoming ==
  /\ IF Act = <<>>
       THEN ChangeStatus("poll", WAITING)
       ELSE Goto("poll", "perform") /\ UNCHANGED target
  /\ performed' = performed \o Act
  /\ ignored' = IF Act = <<>> THEN ignored \o inbox ELSE ignored \o Tail(inbox)
  /\ inbox' = <<>>
  /\ UNCHANGED <<threadStatus, statusLock, killVars, socketVars, client, sessions,
                 commands, consumerGate, batches, spaceVars, raced>>

(* A walk, a collection or a class scan, which reports to the consumer.    *)
(* None of them gets anywhere while another collection is stuck.           *)
Perform ==
  /\ ~frozen
  /\ ChangeStatus("perform", WAITING)
  /\ consumerGate' \in {consumerGate, TRUE}
  /\ UNCHANGED <<threadStatus, statusLock, killVars, socketVars, clientVars,
                 batches, spaceVars, historyVars, raced>>

PollFails == client = "gone" /\ HandleSocketError("poll")

(* onTryConsumerEntry: signalled, or timed out after 100 seconds.          *)
ConsumerEntered ==
  /\ consumerGate
  /\ ChangeStatus("tryConsume", ACCUMULATING)
  /\ consumerGate' = FALSE
  /\ UNCHANGED <<threadStatus, statusLock, killVars, socketVars, clientVars,
                 batches, spaceVars, historyVars, raced>>

ConsumerWaitsOn ==
  /\ ~consumerGate
  /\ Goto("tryConsume", "tryConsume")
  /\ UNCHANGED <<target, threadStatus, statusLock, killVars, socketVars, clientVars,
                 consumerGate, batches, spaceVars, historyVars, raced>>

ConsumerTimesOut ==
  /\ ~consumerGate
  /\ Goto("tryConsume", "poll")
  /\ UNCHANGED <<target, threadStatus, statusLock, killVars, socketVars, clientVars,
                 consumerGate, batches, spaceVars, historyVars, raced>>

(* onStartConsume shuts the gate of the current space, which may be one    *)
(* that it has drained before.                                             *)
StartConsume ==
  /\ Goto("startConsume", "awaitThreads")
  /\ again' \in BOOLEAN
  /\ again' => owned > 0
  /\ ~again' => owned < 2
  /\ present' \in {"none", "passing"} \cup (IF again' THEN {"stuck"} ELSE {})
  /\ UNCHANGED <<target, threadStatus, statusLock, killVars, socketVars, clientVars,
                 consumerGate, batches, owned, frozen, historyVars, raced>>

(* The producers in a space that nobody has locked go through.  Its gate   *)
(* is shut, so that no others follow them.                                 *)
ProducersLeave ==
  /\ present = "passing"
  /\ present' = "none"
  /\ UNCHANGED <<pc, target, threadStatus, statusLock, killVars, socketVars, clientVars,
                 consumerGate, batches, owned, again, frozen, historyVars, raced>>

(* The count of producers is polled with Sleep, which no APC interrupts.   *)
AwaitThreads ==
  /\ Goto("awaitThreads", "lockEntries")
  /\ present = "none"
  /\ UNCHANGED <<target, threadStatus, statusLock, killVars, socketVars, clientVars,
                 consumerGate, batches, spaceVars, historyVars, raced>>

(* The two entry mutexes, then onChangeStatus(NORMAL).                     *)
LockEntries ==
  /\ ChangeStatus("lockEntries", NORMAL)
  /\ owned' = IF again THEN owned ELSE owned + 1
  /\ again' = FALSE
  /\ batches' \in 0..MaxBatches
  /\ UNCHANGED <<threadStatus, statusLock, killVars, socketVars, clientVars,
                 consumerGate, present, frozen, historyVars, raced>>

(* onObjectFree reports into a space whose mutexes the agent thread keeps. *)
CollectionStuck ==
  /\ ~frozen
  /\ owned > 0 /\ pc # "exited"
  /\ frozen' = TRUE
  /\ UNCHANGED <<pc, target, threadStatus, statusLock, killVars, socketVars, clientVars,
                 consumerGate, batches, owned, again, present, historyVars, raced>>

Send ==
  /\ Goto("send", IF batches > 1 THEN "send" ELSE "poll")
  /\ batches' = batches - 1
  /\ UNCHANGED <<target, threadStatus, statusLock, killVars, socketVars, clientVars,
                 consumerGate, spaceVars, historyVars, raced>>

(* send fails when the client is gone, and also when the buffer of the     *)
(* non-blocking socket is full (WSAEWOULDBLOCK).                           *)
SendFails == HandleSocketError("send")

AgentStep ==
  \/ SignalLock \/ LockSignalled \/ ChangeSkipped \/ Dies \/ SetStatus \/ RunApc
  \/ Initialize \/ Abort \/ SetMode
  \/ ProcessIncoming \/ PollFails \/ Perform
  \/ ConsumerEntered \/ ConsumerTimesOut
  \/ StartConsume \/ AwaitThreads \/ LockEntries \/ Send \/ SendFails

-----------------------------------------------------------------------------
(* onKillThread, called once by Agent_OnUnload.                            *)
KillGoto(from, to) ==
  /\ killPc = from
  /\ killPc' = to
  /\ UNCHANGED <<pc, target, threadStatus, socketVars, clientVars, consumerGate,
                 batches, spaceVars, historyVars, raced>>

ResetStatusLock ==
  /\ KillGoto("idle", "setDie")
  /\ pc # "initialize"
  /\ statusLock' = FALSE
  /\ UNCHANGED <<die, apc>>

SetDie ==
  /\ KillGoto("setDie", "readStatus")
  /\ die' = TRUE
  /\ UNCHANGED <<statusLock, apc>>

ReadStatus ==
  /\ KillGoto("readStatus", IF threadStatus > IDLE THEN "queueApc" ELSE "unloaded")
  /\ UNCHANGED <<statusLock, die, apc>>

QueueApcIfNormal ==
  /\ KillGoto("queueApc", "wait")
  /\ apc' = ~Alertable(threadStatus)
  /\ UNCHANGED <<statusLock, die>>

QueueApcOnly ==
  /\ KillGoto("queueApc", "unloaded")
  /\ apc' = Alertable(threadStatus)
  /\ UNCHANGED <<statusLock, die>>

QueueApc ==
  /\ KillGoto("queueApc", "wait")
  /\ apc' = Alertable(threadStatus)
  /\ UNCHANGED <<statusLock, die>>

AwaitExit ==
  /\ KillGoto("wait", "unloaded")
  /\ pc = "exited"
  /\ UNCHANGED <<statusLock, die, apc>>

KillStep == ResetStatusLock \/ SetDie \/ ReadStatus \/ QueueApc \/ AwaitExit

-----------------------------------------------------------------------------
(* The client and the JVM threads.                                         *)
ClientSends ==
  /\ client = "up" /\ clientOpen
  /\ commands < MaxCommands
  /\ \E c \in Commands : inbox' = Append(inbox, c)
  /\ commands' = commands + 1
  /\ UNCHANGED <<pc, target, threadStatus, statusLock, killVars, socketVars, client,
                 sessions, consumerGate, batches, spaceVars, historyVars, raced>>

ClientLeaves ==
  /\ client = "up"
  /\ client' = "gone"
  /\ UNCHANGED <<pc, target, threadStatus, statusLock, killVars, socketVars, inbox,
                 sessions, commands, consumerGate, batches, spaceVars, historyVars, raced>>

MessageReported ==
  /\ ~consumerGate
  /\ consumerGate' = TRUE
  /\ UNCHANGED <<pc, target, threadStatus, statusLock, killVars, socketVars, clientVars,
                 batches, spaceVars, historyVars, raced>>

Next ==
  /\ pc # "aborted"
  /\ \/ AgentStep \/ Accept \/ AcceptFails
     \/ KillStep
     \/ ClientSends \/ ClientLeaves
     \/ MessageReported \/ ProducersLeave \/ CollectionStuck

Spec == Init /\ [][Next]_vars

(* The agent thread and, once it has started, the unloading thread keep    *)
(* running, a queued APC is delivered, and producers that nobody keeps     *)
(* waiting leave the space.  No client need ever connect.                  *)
FairSpec ==
  /\ Spec
  /\ WF_vars(AgentStep)
  /\ WF_vars(RunApc)
  /\ WF_vars(pc # "aborted" /\ ProducersLeave)
  /\ WF_vars(pc # "aborted" /\ (SetDie \/ ReadStatus \/ QueueApc \/ AwaitExit))

-----------------------------------------------------------------------------
TypeOK ==
  /\ pc \in {"initialize", "signalLock", "checkLock", "setStatus", "accept",
             "setMode", "poll", "perform", "tryConsume", "startConsume",
             "awaitThreads", "lockEntries", "send", "exited", "aborted"}
  /\ target \in Statuses
  /\ threadStatus \in Statuses
  /\ statusLock \in BOOLEAN /\ die \in BOOLEAN /\ apc \in BOOLEAN
  /\ killPc \in {"idle", "setDie", "readStatus", "queueApc", "wait", "unloaded"}
  /\ listenOpen \in BOOLEAN /\ clientOpen \in BOOLEAN /\ told \in BOOLEAN
  /\ nonBlocking \in BOOLEAN
  /\ client \in {"none", "up", "gone"}
  /\ inbox \in Seq(Commands)
  /\ consumerGate \in BOOLEAN
  /\ batches \in 0..MaxBatches
  /\ owned \in 0..2 /\ again \in BOOLEAN /\ frozen \in BOOLEAN
  /\ present \in {"none", "passing", "stuck"}
  /\ sessions \in 0..MaxSessions
  /\ commands \in 0..MaxCommands
  /\ performed \in Seq(Commands) /\ ignored \in Seq(Commands)
  /\ raced \in BOOLEAN

(* The unloading thread decides by the parity of threadStatus whether an   *)
(* APC is needed, so before it starts, a thread in a wait shows an odd     *)
(* status, the waits of onStartConsume included; where it shows an even    *)
(* one, its socket does not block.                                         *)
BlockedIsAlertable ==
  killPc = "idle" =>
    /\ pc \in {"accept", "tryConsume", "awaitThreads", "lockEntries"} =>
         Alertable(threadStatus)
    /\ pc \in {"poll", "perform", "send"} =>
         /\ nonBlocking
         /\ ~Alertable(threadStatus) \/ threadStatus = WAITING

(* The library is unloaded under a running agent thread only if the        *)
(* thread had not reported LISTENING yet, or onStart ran meanwhile.        *)
UnloadedAfterExit ==
  killPc = "unloaded" => pc = "exited" \/ threadStatus = IDLE \/ raced

(* When Agent_OnUnload comes back, the client that was being served has    *)
(* been sent AGENT_EXIT and closed.  The exception is a client accepted    *)
(* while onKillThread had reset statusLock and not yet set die: the change *)
(* to NORMAL was skipped, and LISTENING says that there is no client.      *)
UnloadTellsClient ==
  killPc = "unloaded" /\ nonBlocking /\ ~raced =>
    (told /\ ~clientOpen) \/ threadStatus = LISTENING

(* The agent thread waits for a producer that waits for the agent thread's *)
(* own mutexes, or for a collection that such a producer keeps from ending.*)
Hung ==
  \/ pc = "awaitThreads" /\ present = "stuck"
  \/ pc = "perform" /\ frozen

(* Agent_OnUnload waits for the agent thread without a timeout: it comes   *)
(* back, unless onStart, after a client was lost, signalled statusLock or  *)
(* reported LISTENING behind its back, or the agent thread hangs on a      *)
(* producer it has locked out.                                             *)
UnloadReturns ==
  killPc = "wait" ~> killPc = "unloaded" \/ raced \/ Hung \/ pc = "aborted"

Undisturbed == client # "gone" /\ clientOpen /\ killPc = "idle" /\ pc # "aborted"

(* A command reaches processIncomingMessage, however long the agent thread *)
(* is busy with a drain or the consumer's wait, as long as it does not     *)
(* hang on a producer it has locked out.                                   *)
CommandsAreRead == inbox # <<>> ~> inbox = <<>> \/ ~Undisturbed \/ Hung

(* ReadMe.txt:10: commands can be passed through the socket: what the      *)
(* client sends is acted upon.                                             *)
EveryCommandPerformed == \A i \in DOMAIN ignored : ignored[i] = CLOSE_CONNECTION
=============================================================================

# Verification of JVMHeapScan

JVMHeapScan is a JVM TI agent written in C for Windows.  It instruments
`java.lang.Object` so that every constructor reports its object, tags classes
and objects, and sends what it learns through a TCP socket to one client, which
keeps the count of live instances per class and may ask for a garbage
collection or a walk over the heap.  This directory holds TLA+ models of the
agent, their model-checking configurations, and proofs about all of them: the
synchroniser, the message store, the two together, the socket output, the life
cycle with its tags and what the client makes of them, and the rewriting of
class files.

Contents: [parts of the system](#the-system-and-its-parts) ·
[modules](#modules-and-their-correspondence-to-the-code) ·
[runs](#runs) · [fairness](#fairness) · [proofs](#proofs) ·
[divergences](#where-code-and-documentation-disagree) ·
[limits](#what-is-only-model-checked-and-what-is-not-modelled) · [what remains](#what-remains)

## The system and its parts

Threads: any number of **JVM threads** (they construct objects and report them
from inside `java.lang.Object.<init>`), one **agent thread** (it scans classes,
walks the heap, serves the client, and so is the consumer of the message queues
*and* one of their producers), the **thread that unloads the agent**, and the
JVM at a safepoint (garbage collection, heap walk).  Outside: one **client** at
a time.

```
 JVM threads --trackObject--> tags --flushMsg--> [ThreadSync: two spaces]
                                                   | STORE_MSG
 agent thread --scan / walk--> tags --flushMsgGrp--+--> [MessageStore: 4 queues]
      ^                                                        |
      |  commands                              drain in batches|
      +------------- [SocketOutput: status, sessions] <--------+
                           |  socket                ^
                         client             onKillThread (unload)
```

| Part | State it keeps | Operations | What makes it correct |
|---|---|---|---|
| Thread synchroniser, `ThreadSync_PriorityProducer.c` | `currentSpace`; per space a gate, a counter of threads and two entry mutexes; `consumerGate`, `consumerIn`, `mainProducerGate`, `consumingSpace` | `onProduce` (`changeSpace`, `getMessageEntry`), `onTryConsumerEntry`, `onStartConsume`, `onEndConsume` | storing and draining exclude each other; a gate is always open; counters are exact; calls return; with the store: no message is sent twice or held up without a race |
| Message store, `MessageStore.c` | four `MsgGroupHolder`s (lists of groups of nodes), the agent's message group | `onFlushMsg`, `onIncludeMessage`, `onFlushMsgGrp`, `onQueueMessage`, `mergeEntries`, `onRetrieveMessage` (`onGetMsgSplit`, `mergeGrp`, `mergeMsgAsString`) | lists well formed, totals right, batches within the limit, first in first out, nothing dropped, drains end |
| Socket output, `SocketOutputInterface.c` | `threadStatus`, `statusLock`, `die`, the two sockets | `initializeSocket`, `onStart`, `startFlushProcess`, `checkIncomingMsg`, `processIncomingMessage`, `onChangeStatus`, `onKillThread`, `onThreadExit`, `onCleanSocket`, `onHandleSocketError` | unloading stops the thread, returns and tells the client; commands are read and performed; the mutexes it keeps lock nobody out for ever |
| Object and class tagging, `JVMHeapScan.c` | `lastTag`, the JVM's tags | `trackObject`, `checkAndTagClasses`, `followReferenceCallback`, `onObjectFree` | tags unique, announcements before uses, counts agree |
| Method rewriting, `java_crw_demo.c` | `map`, `widening`, `injections` of a method | `method_inject_and_write_code` and the writers of tables | branches, switches, handlers, frames follow the moved code; every target of a branch has a frame; the rewriting ends |
| Class image and constant pool, `java_crw_demo.c` | `cpool`, `injection_count` | `cpool_setup`, `inject_class` | new indexes within the pool, unchanged classes reported as such |
| Agent life cycle, `JVMHeapScan.c` | capabilities, events, `rawMonitorId` | `Agent_OnLoad`, `onVMStart`, `vmInitialization`, `referenceFollowerInit`, `onClassFileLoad` | set up before first use; every instance is found; the monitor is given back |
| Tracker class, `ObjectAllocationTracker.java` | `flag` | `trackObject` | calls the native method only once it is registered |
| Properties file, `onSetOptions` | three options | read once | — |

How they interact.  `java_crw_demo` makes constructors call the tracker class,
whose native method tags and calls `msgStore`; the store runs its `STORE_MSG`
through `syncInterface.onProduce`, which hands it a location to append to.  The
agent thread calls `onTryConsumerEntry`, `onStartConsume` and then
`retrieveMsg` until nothing is pending.  All shared state is in C globals; only
the entry mutexes and `mainProducerGate` protect anything.

What is hard here: a producer passes the gate before the consumer closes it and
is counted only later (`ThreadSync_PriorityProducer.c:132-145`); spaces are
handled as copies taken at different moments; two queues with a group list
each share one `nextGrp` during a drain; the decision to interrupt the agent
thread reads a status that is changed in two steps; `lastTag` has no lock and
its users disagree whether it is incremented before or after use; rewriting one
instruction moves all others.  The hazards are listed with their lines in
`PROJECT.json`.

## Modules and their correspondence to the code

| Module | Models | Depends on |
|---|---|---|
| `MessageChannel` | abstract: what the agent promises about a message | — |
| `ThreadSync`, `MCThreadSync` | the synchroniser | refined by `HeapScanAgent` |
| `MessageStore` | the queues and the drain | refines `MessageChannel` (without a limit) |
| `HeapScanAgent`, `MCHeapScanAgent` | synchroniser, store and the consumer's loop in one state | composes `ThreadSync` and `MessageStore`, refines `ThreadSync` |
| `SocketOutput` | agent thread and unloading | — |
| `ObjectTags` | tags and messages about them | — |
| `AgentLifecycle`, `MCAgentLifecycle` | start of the agent, class loading, tracker class | extends `ObjectTags` |
| `CrwMethod` | rewriting of a method | — |
| `CrwClass`, `MCCrwClass` | rewriting of a class file | extends `CrwMethod` |
| `ThreadSyncProofs`, `MessageStoreProofs`, `SocketOutputProofs`, `AgentLifecycleProofs`, `HeapScanAgentProofs` | theorems | the module each is named after |
| `StoreOrderProofs` | theorems about the lists of `MessageStore` and their order | `MessageStoreProofs` |
| `CrwMethodProofs` | the invariant of a method and what follows from it, as lemmas | `CrwMethod` |
| `CrwClassProofs` | theorems about `CrwClass` and `CrwMethod` | `CrwClass`, `CrwMethodProofs` |

Some operators have a sibling right before them that nothing uses
(`MergeKeepsTotal` before `MergedGroup`, `KeepLast` before `WriteLast`): it is
what a plausible slip in that code would look like, and `PROJECT.json` names
the property that notices it.

**ThreadSync.**  A step is one access to shared memory or one Win32 call; `pc`
has a label per step of `onProduce`, `changeSpace`, `getMessageEntry` and of the
three consumer calls.  `local` is the copy `localSpace`: the copy holds
*pointers* to gate, counter and locks, so copies alias the originals and only
the space's id need be copied; `isReady` alone is a plain field, set in copies
and thus never seen (`IsReady`).  A mutex has an owner and a recursion count.
`getMessageEntry`'s timed waits are modelled as a choice of whichever entry is
free; waits that time out and come round again (there, in
`onTryConsumerEntry`, and in the poll of the counter) are the stutter
`WaitTimesOut`, so that a deadlock in a run is one of waits without a timeout.
`Store` performs `STORE_MSG`, seen as adding the message to a set; `Drain` is a
turn of the loop of `startFlushProcess` over `retrieveMsg`: some of the messages
at hand, or the last of them, after which the consumer goes on.  `EndsConsume`
says whether the caller calls `onEndConsume`, as the interface offers;
`SocketOutputInterface.c` does not.  The agent may produce too
(`Agent \in Threads`), between its drains.  `accumulateMessage` is left out
because `messageStore.accumulate` is FALSE (`MessageStore.c:255`).

**MessageStore.**  Groups live on a heap of identities (`grp`, `live`), so that
a pointer to a freed group is visible; `malloc` is `NewGroup`, some identity
that is not in use.  A node is the sequence of lines its string consists of;
texts, lengths and delimiters are left out.  `FlushMsgGrp` queues a group that has
lines: a group without any would be two bytes that nobody wrote, and each class
and each reference the JVM reports adds a line.  Given `StoreExclusive`, an
operation on one location is atomic; the loop of `onGetMsgSplit` is one action
per turn, so that producers of the other space run in between.  `SendMayFail`
lets `send` fail, which ends the drain.

**HeapScanAgent.**  Both modules are instantiated over one set of variables:
`STORE_MSG` is `QueueMessage` of the store together with the release of the
mutex, and `Drain` is replaced by the store's own steps, one per turn of its
inner loops, while other threads run.  What `ThreadSync` calls the queue of a
location is computed from the lists (`Queue`), so that `ImplementsSync` says
that the store, with its merges and failing sends, does what the synchroniser's
correctness assumes.  `delayed` remembers the messages whose `onProduce`
overlapped a consumer's round or another change of space: `HeldUpOnlyByRace`
says that no other message is left behind when all threads are quiet.

**SocketOutput.**  `pc` is the agent thread from `initializeSocket` on, `killPc`
the thread in `onKillThread`.  `onChangeStatus` takes two steps (the wait for
`statusLock`, the assignment).  An APC runs in an alertable wait only.  Socket
calls whose errors end the process (`socket`, `bind`, `listen`, `ioctlsocket`)
may do so; a failed `accept` shows in the `ioctlsocket` after it.  Synchroniser
and store are seen from outside: `consumerGate`, and a number of batches per
drain.  A lost client makes `onHandleSocketError` call `onStart` again; the
stack below is never returned to, so the model jumps.

`onStartConsume` is three steps there: the gate is shut (`StartConsume`), the
counter of the space is polled with a `Sleep` that no APC interrupts
(`AwaitThreads`), the two entry mutexes are taken in alertable waits
(`LockEntries`).  Since `onEndConsume` is never called, the agent thread keeps
the mutexes of every space it has drained (`owned`, at most two).  `present`
says what the counter is waiting for: producers of a space nobody has locked are
`passing` and leave, those of a space it drained before are `stuck` at a mutex
of its own, and the poll never ends.  A collection that reports a freed object
into such a space is stuck as well (`frozen`), and with it every command, since
a walk, a class scan and a collection wait for the safepoint (`Perform`).  `Hung`
names these two states; when the thread exits, its mutexes are abandoned and
whoever waits gets one.

**ObjectTags.**  `lastTag++` is a read and a write; `GetTag` and `SetTag` are
atomic and do not run at the safepoint of `FollowReferences`, whose callback
sees an object and its referrer and is modelled as one visit per object that
can be tagged.  `out` is what the client is told.

**AgentLifecycle.**  `Agent_OnLoad` is a sequence of calls, each of which may
fail and end the process.  From then on any thread may load classes, with
`onClassFileLoad` under `rawMonitorId` (`EnterHook`, `ExitHook`), and construct
objects; the constructor calls the tracker class, which does nothing while its
`flag` is 0 and runs `ObjectTags`' steps afterwards.  The main thread runs
`onVMStart` (bind the native method, set the flag, under the monitor) and
`vmInitialization`, which makes a `java.lang.Thread` (`NewThread`: its constructor
is instrumented and the flag is up, so that it is tracked like any other object,
and a tag has always been drawn before the first scan) and then starts the agent
thread with it (`RunAgentThread`): scan, walk, then scans and walks as the client
asks.  Main thread, agent thread, class loading on other
threads and collections interleave.  The order of the JVM's own events is
external: it loads `Object` first and the tracker class before `VMStart`.
Three history variables let the properties say who gave a tag: `scanned` and
`walked` hold what the agent tagged, `overlapped` is raised when two have been
between their test for a tag and their last use of `lastTag` at one time.
`ClientCount` is what a client makes of `out`.

**CrwMethod.**  Instructions are classes of opcodes with a length and targets,
identified by index; `map`, `injections` and `widening` are kept at the
positions of instructions, the only ones ever looked up.  `IsMethod` is what the
JVM specification says of code: every target is an instruction, and the code
does not run over its end.  The three loops of
`method_inject_and_write_code` are one action per instruction, with the restart
of the second loop; then come the tables and, one by one, the stack map
frames.  Positions in the output are computed from the lengths of what was
written and never from `map`, so that the properties compare the two.  The
offsets of tables are two bytes (`U2`), and what `map` says is cut to them as in
the code; the properties about tables speak of code that two bytes can count
(`Short`), as the JVM specification demands.  The offset in an `Uninitialized`
verification type and those of the CLDC `StackMap` are mapped as they are
(`AbsoluteOffsets`); beyond 65535 `writeUoffset` writes four bytes and then
(lines 1685-1688) two more, which is left out.  Of the stack map the frames of
branch targets are written, with the distance to the frame before and the choice
between the forms of one byte and of three; how the old distances are read
(`last_pc`), the other kinds of frames, the frames of handlers and the remaining
verification types are left out.  A widened `if` is its inverse followed by a
`goto_w`, so that the written code has a branch more than the class file, whose
target has no frame (`NoBlocksAdded`, violated); `FramesAtTargets` says what
holds nevertheless.

**CrwClass.**  `java_crw_demo` and `inject_class` around it: the checks of the
arguments, the constant pool (its mirror `cpool.slots`, where `Long` and
`Double` take two slots, and its image `cpool.items`), the entries added for the
class number and for each tracker that is named, the header, and method by
method the attributes; a `Code` attribute runs `CrwMethod` in the role `RoleOf`
finds by name, descriptor and flags.  At the end an image is returned or not.
`IsClassFile` says what a class file is taken to be: its names are texts of its
pool, and what an attribute called `Code` holds is a method.
`PoolDecodes` reads the image as a JVM would, without the mirror.  The version of
the class file is checked by an assertion that `NDEBUG` compiles out
(java_crw_demo.c:66-75, 2300): a file that is too new may end the process or be
rewritten like any other.

## Runs

| Run | Shows | Distinct states |
|---|---|---|
| `sync` | Two producers and the agent with a message each: `StoreExclusive`, `GateDiscipline`, `ThreadCount`; with `onEndConsume`, `ProduceReturns` and `ConsumeReturns` | 159 000 |
| `sync_unreleased` | **violation**: without `onEndConsume` a producer never returns | — |
| `store_limited` | Limit 2, one space, four lines: lists, totals, limit, order; loss only in the shapes of `Shadows`; drains end | 42 000 |
| `store_unlimited` | No limit, both spaces, sends may fail: the store is a `MessageChannel` | 125 000 |
| `store_dropped` | **violation**: with a limit a drain may lose messages | — |
| `composed` | Store under the synchroniser's locks: `ImplementsSync`, no message is sent twice, one left behind was overtaken or a send failed | 304 000 |
| `socket` | From start-up on, two clients, a command, unloading at any moment, producers and collections that come to locked spaces: a blocked thread shows an odd status, the library goes only after the thread (but for two start-up windows), the client that is served is told; unloading returns and commands are read unless the agent thread hangs on a producer it has locked out | 337 000 |
| `socket_commands` | **violation**: of two commands read together one is ignored | — |
| `tags_agent` | Two threads and the agent from `Agent_OnLoad` to its fourth scan or walk, with the `Thread` object and collections: the native method is bound in time, no instance escapes the first walk, a class is unknown to the client once at most; unless two drew a tag at one time, tags are shared only across tracking threads and agent, what a message refers to was announced, and counts agree; the agent comes to serve its client | 999 000 |
| `tags_duplicate` | **violation**: a scan after a tracked object repeats a tag | — |
| `rewriting` | Every method of four instructions and a return over eleven instruction forms, in three roles, and classes of three short methods for every kind of name, descriptor, flag and set of trackers | 525 000 |
| `rewriting_frames` | **violation**: a widened `if` makes a target without a frame | — |

The type invariants are theorems; TLC checks that of `rewriting` besides.

Bounds and why they are enough.

* `sync`: with three threads a producer meets a consumer and another producer
  at every label; the race between gate and counter, the double flip of
  `currentSpace`, contention for both entries and for `mainProducerGate` all
  occur.  One message each lets every thread go through `onProduce` once while
  the agent repeats its drain any number of times.  `ThreadSyncProofs` removes
  the bound for the safety properties.
* `store_limited`: four lines with a limit of two give queues of two groups, a
  full group, merges that fit and that do not; `MaxGroups = 9` is more than the
  groups alive at once (four queues, one group per line, one spare), so the heap
  never runs out.  One space is enough because spaces share nothing but the
  allocator; `store_unlimited` uses both.  `MessageStoreProofs`
  and `StoreOrderProofs` remove the bounds for every safety property of this
  run and for `store_unlimited`.
* `composed`: three threads with a message each, as in `sync`; without a limit a
  queue has one group, so that six groups are enough.  A limit is left to
  `store_limited`.  `HeapScanAgentProofs` removes the bounds.
* `socket`: two sessions are needed for the reconnect window, two batches for
  a drain with a rest; one command suffices for `CommandsAreRead`.  The agent
  thread drains any number of times, so that it comes back to spaces it has
  locked.
* `tags_agent`: the main thread and another; the `Thread` object, and one that
  may be constructed before the flag, while it is raised or after it; a class
  that may be loaded before, during and after the first scan; and `MaxRuns = 4`,
  which is the first scan, the first walk and two more of either.  Two objects
  and two classes make pairs of each kind that could share a tag: two that were
  tracked, two that the agent tagged, one of each.  `AgentLifecycleProofs`
  removes the bounds but for `AnnouncedFirst` and `CountsMatch`.
* `rewriting`: `Reach = 22` instead of 32768 and `SameFrameMax = 7` instead of
  63 scale the two limits down to the methods, so that branches become too long
  by injection alone, by another branch's widening, and switches change their
  padding because of it.  `ClassNumber = 40000` is one that `sipush` cannot
  push, so that the pool gets its entry; three methods are enough for one that
  is skipped between two that are not.  `CrwClassProofs` removes the bounds for
  every safety property: code of any length, any pool, any number of methods,
  any `Reach`.  `rewriting_frames` is the same with three free instructions.

`CHECK_DEADLOCK FALSE` stands where the system may stop: the agent thread has
exited, the process has ended, all objects or messages are used up, or the
class is written.  In `sync_unreleased` the stop is the point of the run, in
`composed` the entry mutexes that nobody releases are.

## Fairness

* `ThreadSync!FairSpec`: weak fairness of each thread's `ProduceStep` and of the
  consumer.  Windows schedules every ready thread; a thread that waits for
  mutex or gate is enabled when the object is free.  Weak fairness is enough
  although mutexes are contended, since a waiter for *either* entry of a space
  is disabled only while both are held, and quotas bound the competition (with
  endless competition nothing is claimed: Win32 mutexes are only roughly first
  come, first served).  Nothing obliges a thread to start producing, and nothing
  is assumed of a JVM thread that owns no place in `onProduce`.
* `MessageStore!FairSpec`: the consumer continues a drain it began.
* `SocketOutput!FairSpec`: the agent thread and the unloading thread go on, a
  wait of 100 s does end, and a queued APC is delivered in an alertable wait.
  Producers in a space that nobody has locked leave it (`ProducersLeave`): what
  they wait for, the mutex of another producer, comes free (`sync`).  Those in a
  locked space do nothing.  No client need connect, send or leave.
* `AgentLifecycle!LifecycleSpec`: the main thread goes on through `onVMStart` and
  `vmInitialization`, the agent thread goes on, and a thread goes on inside a
  hook or inside `trackObject`.  No thread need load a class or construct
  anything, no collection need take place, and loading need not succeed in
  finding the monitor free at once: classes are finitely many, so that nobody
  can be kept from it for ever.
* `CrwClass!Spec`: the loop runs.

## Proofs

Proved for every value of the constants that the modules' assumptions admit.

| Module | Theorem | Statement |
|---|---|---|
| `ThreadSyncProofs` | `TypeCorrect` | `Spec => []TypeOK` |
| | `StoreIsExclusive` | `Spec => []StoreExclusive` |
| | `GatesDisciplined` | `Spec => []GateDiscipline` |
| | `CountersExact` | `Spec => []ThreadCount` |
| `MessageStoreProofs` | `TypeCorrect` | `Spec => []TypeOK` |
| | `CountsCorrect` | `Spec => []CountsNodes`, given `Reliable` |
| | `BatchesCorrect` | `Spec => []BatchWithinLimit`, given `Reliable` |
| | `StoreImplementsChannel` | `Spec => ImplementsChannel`, given `Unlimited` |
| | `NothingLost` | `Spec => []NothingDropped`, given `Unlimited` |
| `StoreOrderProofs` | `ListsCorrect` | `Spec => []ListsWellFormed`, given `Reliable` |
| | `SentInOrder` | `Spec => []FirstInFirstOut`, given `Reliable` |
| | `DroppedOnlyIfShadowed` | `Spec => []DroppedOnlyByShadow`, given `Reliable` |
| `HeapScanAgentProofs` | `AgentImplementsSync` | `Spec => ImplementsSync`, given `Unlimited` |
| | `MessagesSentOnce` | `Spec => []SentOnce`, given `Unlimited` |
| | `HeldUpByRaceOnly` | `Spec => []HeldUpOnlyByRace`, given `Unlimited` |
| | `AgentExclusive` | `Spec => [](StoreExclusive /\ ThreadCount)` of the synchroniser within, given `Unlimited` |
| `SocketOutputProofs` | `TypeCorrect` | `Spec => []TypeOK` |
| | `BlockedShowsOdd` | `Spec => []BlockedIsAlertable` |
| | `LibraryOutlivesThread` | `Spec => []UnloadedAfterExit` |
| | `ServedClientIsTold` | `Spec => []UnloadTellsClient` |
| `AgentLifecycleProofs` | `TypeCorrect` | `LifecycleSpec => []LifecycleTypeOK` |
| | `NativeIsBound` | `LifecycleSpec => []NativeBound` |
| | `InstancesTagged` | `LifecycleSpec => []EveryInstanceTagged` |
| | `ReportedUnknownOnce` | `LifecycleSpec => []UnknownOnce` |
| | `TagsSharedOnlyAcross` | `LifecycleSpec => []SharedOnlyAcross` |
| `CrwClassProofs` | `InvHolds` | `Spec => []Inv`, the inductive invariant |
| | `TypeCorrect` | `Spec => []TypeOK` |
| | `InjectionAlwaysFits` | `Spec => []InjectionFits` |
| | `BranchesAlwaysLand` | `Spec => []BranchesLand` |
| | `SwitchesAlwaysAligned` | `Spec => []SwitchesAligned` |
| | `RangesAlwaysCover` | `Spec => []RangesCover`, which speaks of code with `Short` |
| | `FramesAlwaysAtTargets` | `Spec => []FramesAtTargets`, likewise |
| | `PoolAlwaysDecodes` | `Spec => []PoolDecodes` |
| | `ImageAlwaysIffInjected` | `Spec => []ImageIffInjected` |
| | `ConstructorAlwaysTracked` | `Spec => []ConstructorTracked` |

The hypotheses: `Reliable` is "no limit, or sends that do not fail",
`Unlimited` is "no limit in the properties file" (`SocketMsgLimit <= 0`; the
code splits nothing then).  They are preconditions of single theorems and not
assumptions of the modules.  Without `Reliable` TLC refutes `ListsWellFormed`
and `DroppedOnlyByShadow` with the constants of `store_limited` (the other three
properties survive there, but not the invariant that proves them); without
`Unlimited` the store is no channel (`store_dropped`).

**ThreadSync** (any finite set of producers, any quota, both values of
`EndsConsume`; `ThreadsAssumption`: the agent is not a producer of the JVM, "no
thread" is not a thread, quotas are numbers).  `TypeInv` adds to the types that
a thread stays within its quota and has made a message before it stores one.
`LockInv` makes `StoreExclusive` inductive: a thread at `store` owns the mutex
of its location, and the agent owns the left entry from `lockRight` on and both
entries of its space while it drains; without it a state where two threads are
at `store` of one location with nobody owning the mutex could be stepped into.
The counters play no part in it: the code's exclusion rests on the mutexes, the
counter only keeps the consumer from waiting for them in vain.  `GateInv` adds
which gates are open at each label of the consumer.  `ThreadCount` is inductive
over the types: a step adds a thread to the set that is counted or removes it,
and the cardinality lemmas of the library do the rest.  `MessageInv` says that
whatever is stored or taken was handed over by its thread before (so that a
message in a thread's hands is new), that nothing is both stored and taken, and
that no two locations share a message: the composition needs it to know that a
message at `store` is new to the lists.  `OnTrack`, `Awaited` and
`RoundInv`, which only the composition needs, follow a thread that meets nobody
through `onProduce`, and its message until the consumer has turned to its space.

**MessageStore** (any limit, any number of lines and groups).  Four queues share
a heap, and a total stays right only if nobody else writes to the group: the
proof gives every group an owner, which the code has no trace of.  `Owned(own)`
says that a queue begins and ends with groups of its own (`QueueInv`), that a
group is followed only when it is full, by a group of the same owner that no
other group leads to (`ChainInv`), and where the loop of `onGetMsgSplit` stands
(`LoopInv`): it has a group nobody leads to, and what comes next is the group
behind it or one taken over from the right queue (owner `Merged`).  `HeapInv`
is `CountInv` and *some* ownership with `Owned`; each action names the owners
that result.  `Reliable` (no limit, or sends that do not fail) is a
precondition, not an assumption of the model: with both, a drain given up after
its second batch leaves `curMsgGrp` of the left queue behind and the invariant
is false, as TLC finds too.  The merge that loses groups (`store_dropped`) is no
obstacle: the hidden ones become `Junk`.

**StoreOrderProofs** (the same constants).  `ListsWellFormed` and
`FirstInFirstOut` speak of the groups that the code finds along the pointers,
which the model computes by a recursive function.  To know what it computes,
every owned group also gets a position (`Numbered`): the pointer of a group
leads to the one a position behind, no two groups of a queue share a position,
the head has the lowest and the group without a pointer the highest.  Positions
never change; a step removes groups at the front of a queue, or adds one at the
end, or starts a queue anew.  `QueueEnds` says that `curMsgGrp` of a queue that
can be appended to is its last group, `LoopPlace` where the loop of a drain is.
From these `Reaches` concludes that from the head of a queue the pointers lead
to all of its groups and to no other: a queue has at most `MaxGroups` groups
with as many successive positions, so that the bound of the recursive function
is never what ends the walk.  That is an induction on the number of steps,
carried out over the set of numbers for which the claim holds
(`NatSetInduction`: a least number outside of the set would have a predecessor
inside).

The order is a relation between nodes of one location (`InFront`: both arrived
there, in this order).  `InOrder` says that what was sent is sorted by it, that
each group is, that what was sent comes before all that waits, and that the
nodes of a group come before those of the groups `Ahead` puts behind it: later
positions of its queue, the right queue behind the left one, and during a drain
the groups taken over between the two.  `Sources` says from which locations the
nodes of a queue may be: without it a node that is appended to a left queue
could have to come before one of the same location that a merge moved there.
`FreshInv` says that a line is reported once, so that a node that arrives is
new and, being the last of its location, in order wherever it is appended.

For `DroppedOnlyByShadow`, `Complete` says that a node that was stored is in a
group with an owner, was sent, or was in a batch whose send failed; `Clear`
that, where the loop comes to the groups taken over, nothing hangs behind the
one or the other that would be lost by joining them.  What `mergeEntries` can
lose is decided when the drain begins, by the shape of the two queues: the
proof shows that `Shadows` names *all* of these shapes, at any limit.

**MessageStore without a limit** (the second part of `MessageStoreProofs`; any
number of lines and groups, any sends that fail).  No group is ever full then, so `Shape` can say that a queue is one
group, that a drain joins two of them, and that a group in use has no successor.
`Distinct` says that a node is in one place, and was handed to `send()` once;
`Origin` that a queue holds nodes stored in its space.  So appending is a `Put`,
the last batch a `Take` of all that waits in the space, and merging is a
stutter.  A failed `send` takes its batch all the same, as the code does.  What
a node is stays open (the parameter `N`), so that `HeapScanAgentProofs` can use
the lemmas for its own nodes.

**HeapScanAgent** (any finite set of producers, any quota, any number of groups;
`AgentAssumption`: the agent is not a producer, "no thread" is not a thread, and
the constants that count are numbers).  The two parts are instantiated with
their proofs: `AgentInv` is the store's invariant for the nodes that stand for a
thread's messages, the synchroniser's for the queues the store implements, and
`DrainLink`: the store drains the space the consumer holds, and none else.  A
message at `store` is new to the store because the synchroniser says so; the
store's step is a `Store` of the synchroniser because the store says so; a turn
of the drain is a `Drain`, and the steps in between are stutters.  `RaceInv`
proves `HeldUpOnlyByRace`: a thread inside `onProduce` that has met nobody
(`OnItsWay`) finds the gates and counters as they are at rest, and its message
is the consumer's next errand (`Awaited`: the gate of the consumer is
signalled, or it is on its way to that very space); every message in a queue is
awaited, or in `delayed`.  When all is quiet nothing is awaited.  A limit is
excluded because `mergeEntries` loses messages with it (`store_dropped`).

**SocketOutput** (any number of sessions, commands and batches).  `StatusInv`
says which status is shown at which label until `onKillThread` begins, and that
only `SetMode` leads to what needs a non-blocking socket; `IdleInv` that the
status is `IDLE` only before the thread has reported `LISTENING` or when that
report was skipped.  `BlockedIsAlertable` and `UnloadedAfterExit` follow with
what the unloading thread has seen.  `UnloadTellsClient` needs `ClientInv`: the
socket does not block only while a client is served, whose socket is open until
the thread exits; and by `IdleInv` the status is not `IDLE` then.  So an exit,
wherever `die` or the APC meets the thread, finds the client open and tells it,
unless the status is still `LISTENING`, because the change to `NORMAL` was
skipped when `statusLock` was already reset and `die` not yet set.

**AgentLifecycle** (any threads, classes, objects, scans and walks).  `StartInv`
orders binding, flag and agent thread; `TrackInv` says that a tracking thread
keeps its object until it has a tag.  An `Orphan` is an object in use, without
tag and without thread; `OrphanInv` says what it waits for: it was constructed
before the flag, so its class was loaded before the first scan, is in `todo` or
at hand or tagged while the scan goes on, and is tagged when the walk begins,
which cannot end before it has visited the object.  `UnknownInv` says that no
class was reported without a tag as long as it has none or is just being tagged.

`SharingInv` says what holds of `lastTag` as long as no two have been drawing at
one time.  Then whoever draws has the variable for itself: what was read is still
true when it is written (`TrackerDraws`, `AgentDraws`).  No tag is above
`lastTag`, and what the agent gave is below it (`Given`), for the agent increments
after use; a tracking thread increments first, so that its tag is `lastTag`
itself.  The next one that tracks takes a tag above all others; the agent takes
`lastTag`, which a tracking thread may have given and the agent has not.  So
`Across`: two entities with one tag were tagged one by each.

**CrwMethod** (code of any length with any targets, any role, any trackers, any
class number; `CrwAssumption`: the numbers are numbers, and the reach of a short
branch is more than 8).  The properties compare where things are in the output,
the sum of the lengths of all that was written before, with what the tables
and branches say, which comes from `map`; and `map` is changed piecemeal, in an
order that depends on the code, with restarts.  `MethodInv` says for each phase
what holds between them.  `SiteInv`: what is injected at each site, as a function
of the two opcodes around it and of how far the first loop has come (`PreNow`,
`BeforeNow`; never more than two calls, and the stack is deep enough for each).
`MapInv`: two positions that follow each other in the map are apart by what the
instruction, its widening and the injections between them take (`Distance`), and
the widening is one that its opcode can have; so moving everything behind a
site or an instruction changes one distance only.  `FitInv`: the instructions
before `ip` are content with their widths, and, since the loop starts again
after each change, all of them when it ends.  `WrittenInv`: every item written
is one of four kinds (`IsPre`, `IsBefore`, `IsFirst`, `IsSecond`) for an
instruction and begins where the map says; each instruction has its items; and
the next one begins where the output ends.  The last is what makes it inductive.
`TableInv` and `FrameInv` (offsets are distances between targets in their order,
which increase since the map does), and `CopyInv` for code in which nothing is
injected, which stays as it is.  At the end of a method the five properties
follow (`MethodConsequences`): a target begins where the map says or, when calls
are injected before it, where `Landing` expects the jump; the padding of a
switch fits its position because `Wanted` was computed from it.  Two lemmas stand
between the map and the tables: the positions of code that two bytes can count
are written as they are (`ShortMap`), and every item but an inverse goes to where
the map has a target, each target being reached by one (`JumpFacts`), so that
the frames, which are written for the targets of the class file, are where the
written code goes.

**CrwClass** (any class file, as `ClassAssumption` describes them, with any pool,
methods and attributes; any set of trackers).  `PoolInv`: the mirror and the image
consist of the entries of the file and new ones behind them, as many as have
been added (`Grown`, `Added`), `Decodes` relates the two slot by slot where
`Long` and `Double` take two, and the entries that the calls use are found
behind the indexes kept for them (`NumberFound`, `ClassFound`, `MethodFound`).
A pool that grows keeps all of this (`PoolGrows`) because new entries are never
wide, whatever the old ones are.  `StageInv` says what is at hand in each stage and
ties the role of a method to name and descriptor; `OutputInv` says that each
attribute written is as promised and that `injectionCount` is above 0 exactly
when there is a call in the output.  Their conjunction with `MethodInv` is
`Inv`; an attribute that is finished is as promised because `MethodInv` says
which calls it holds.  For a class number that needs a pool entry
`ClassAssumption` says that `ClassNumberIndex`, a constant of `CrwMethod`, is the
value that `add_new_cpool_entry` returns, so that all `Inputs` have pools of one
size; a set of one input always meets it, and a behaviour has but one input.

## Where code and documentation disagree

Each has a run that ends in a counterexample (findings of `PROJECT.json`):

1. `SocketOutputInterface.c:224`: `onEndConsume` is never called, so after the
   first drain of a space its entry mutexes stay with the agent thread, and JVM
   threads that come to that space wait for ever inside a constructor
   (`sync_unreleased`).  So does the agent thread when it comes to drain that
   space again: it polls for a producer that waits for it (`Hung`), reads no
   command any more and cannot be stopped.  The liveness properties of `socket`
   name this exception.
2. `MessageStore.c:94`: with a message limit, `mergeEntries` may hide groups
   (`store_dropped`).
3. `SocketOutputInterface.c:175`: commands that arrive together are read
   together, only the first is performed (`socket_commands`).
4. `JVMHeapScan.c:327` against `117` and `151`: pre- and post-increment of
   `lastTag` give one tag twice (`tags_duplicate`).  It needs no bad luck: the
   `Thread` object of line 308 is tracked before the first scan, whose first new
   class gets the last tag that was drawn.
5. `java_crw_demo.c:1726` ("We didn't add any basic blocks"): an `if` that is
   widened into its inverse over a `goto_w` (1496-1499) branches to the
   instruction behind it, for which there may be no frame (`rewriting_frames`).

Seen while modelling, without a run of its own:

* `ThreadSync_PriorityProducer.c:118, 141`: the consumer is signalled before the
  message is stored, so that it may come too early; the message waits for the
  next signal.  `HeldUpOnlyByRace` says that nothing else holds a message up.
* `JVMHeapScan.c:122`: a class that the scan has just tagged is reported with
  the tag it had before, 0; the next scan names it (`UnknownOnce`).
* `MessageStore.c:95`: with a limit *and* a send that fails, `ListsWellFormed`
  does not hold (a queue ends with a freed group).
* A message group of a scan counts as one message of the limit.
* `java_crw_demo.h:142-143` wants `newarray_sig` to be
  `"(Ljava/lang/Object;II)V"`, the code insists on `"(Ljava/lang/Object;)V"`.
* `java_crw_demo.h:111-113`: `system_class` is said to prevent injections into
  *empty* `<clinit>` methods, the code skips every `<clinit>` of such a class.
* `java_crw_demo_classname` is exported and called by nobody.

## What is only model-checked, and what is not modelled

Only model-checked:

* `AnnouncedFirst` and `CountsMatch`, which rest on the whole history of what the
  client was told;
* liveness (`ProduceReturns`, `ConsumeReturns`, `DrainEnds`, `UnloadReturns`,
  `CommandsAreRead`, `AgentServes`), out of the prover's reach;
* that the rewriter comes to an end at all (`Finishes`), which is liveness too.

The other invariants and refinements that the runs check are theorems, under the
hypotheses in the table.  The library's theorems on induction and recursive
functions take an operator as their parameter, which the installed provers
cannot instantiate.  An induction over the natural numbers is within reach all
the same when the claim is put as membership in a set (`NatSetInduction`), and
the recursive function has to be shown to exist in the same way (`ListExists`,
`Recursion`): this is how the lists of the store were done, and the positions and
the mirror of the rewriter (`StartsFacts`, `LayoutFacts`, `TotalFacts`,
`PositionFacts`, `MirrorFacts`).

Not modelled, and why:

* the formatting of messages and `HEAP_REF_INFO`, which carry no state;
* `send` taking part of a batch, and memory exhaustion: no document says what
  should happen, and the code does not look;
* errors of the JVM tool interface after the agent is loaded: they end the
  process (`onFatalError`) and only cut behaviours short;
* the properties file beyond being there and the message limit: path and port
  are strings that are read once and passed on;
* `lastTag` as an `int`: a width small enough for TLC to wrap would make every
  tag property fail at once, since 0 means untagged;
* in the rewriter the kinds of frames, their decoding, the frames of handlers and
  the verification types (but for the offsets in them, as said above), the
  `wide` prefix, fields and unknown attributes, which are copied unseen, and the
  size of the output buffer, which the code checks at each write;
* `java_crw_demo_classname`, `onVMDeath` (empty), `accumulateMessage` (switched
  off).

## What remains

The modules, the runs and the theorems that were planned exist.  What would add
something: a client that misses part of a batch (once it is decided what `send`
should do), the composition of `SocketOutput` with `HeapScanAgent` in the place
of its numbers of batches, and in the rewriter the forms that are left out
above, of which the `wide` prefix and the verification types in frames come
first.

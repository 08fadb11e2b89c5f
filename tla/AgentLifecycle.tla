--------------------------- MODULE AgentLifecycle ---------------------------
(***************************************************************************)
(* JVMHeapScan.c: how the agent comes to life.  The JVM calls Agent_OnLoad *)
(* on the main thread, then loads its first classes (primordial phase),    *)
(* and calls onVMStart and vmInitialization on the same thread; any thread *)
(* that loads a class runs onClassFileLoad.  vmInitialization starts the   *)
(* agent thread, which scans the classes, follows the references and then  *)
(* serves its client.  The tags are those of ObjectTags, and its threads   *)
(* and its agent do here what they do there, from the moment the life      *)
(* cycle lets them.                                                        *)
(*                                                                         *)
(* A JVM TI call that fails anywhere ends the process (onFatalError); that *)
(* is modelled while the agent is loaded, later it only cuts a behaviour   *)
(* short.  The JVM itself is external: it constructs its first objects,    *)
(* and with them loads the tracker class, before it posts onVMStart.       *)
(***************************************************************************)
EXTENDS ObjectTags

CONSTANTS
  Main,            \* the thread that starts the JVM
  ObjectClass,     \* java.lang.Object
  TrackerClass,    \* ObjectAllocationTracker
  ThreadObject     \* the java.lang.Thread that vmInitialization makes

AgentThread == "agent"

ASSUME LifecycleAssumption ==
  /\ Main \in Trackers
  /\ AgentThread \notin Trackers
  /\ {ObjectClass, TrackerClass} \subseteq Classes
  /\ ThreadObject \in Objects

VARIABLES
  phase,           \* of the JVM: onLoad, primordial, start, live or exited
  setUp,           \* what Agent_OnLoad has done
  mainPc,          \* where the main thread is in its callbacks, or idle
  loadingClass,    \* the class each thread is loading
  hooked,          \* the threads inside onClassFileLoad
  monitor,         \* the owner of rawMonitorId
  loaded,          \* classes that are defined
  bound,           \* _trackObject has its native function
  flag,            \* ObjectAllocationTracker.flag
  stage,           \* of the agent thread: none, scan, follow or serve
  overlapped,      \* history: two have been drawing a tag at one time
  scanned,         \* history: the classes that a scan tagged
  walked           \* history: what a walk tagged, each with its tag

loadVars == <<loadingClass, hooked, loaded>>
lifeVars == <<phase, setUp, mainPc, loadVars, monitor, bound, flag, stage>>
historyVars == <<overlapped, scanned, walked>>
stateVars == <<tagVars, lifeVars>>
vars == <<stateVars, historyVars>>

(* Agent_OnLoad, in its order: events before callbacks, the monitor last.  *)
OnLoadSteps == <<"GetEnv", "onInitializeAgent", "AddCapabilities",
                 "SetEventNotificationMode", "SetEventCallbacks",
                 "AddToBootstrapClassLoaderSearch", "CreateRawMonitor">>

LifecycleInit ==
  /\ Init
  /\ phase = "onLoad"
  /\ setUp = 0
  /\ mainPc = "idle"
  /\ loadingClass = [t \in Trackers |-> Nothing]
  /\ hooked = {}
  /\ monitor = Nothing
  /\ loaded = {}
  /\ bound = FALSE
  /\ flag = 0
  /\ stage = "none"
  /\ overlapped = FALSE
  /\ scanned = {}
  /\ walked = {}

-----------------------------------------------------------------------------
(* Agent_OnLoad: each step succeeds or ends the process.  A missing        *)
(* properties file fails onInitializeAgent.                                *)
OnLoad ==
  /\ phase = "onLoad"
  /\ \/ /\ setUp < Len(OnLoadSteps)
        /\ setUp' = setUp + 1
        /\ UNCHANGED phase
     \/ /\ setUp < Len(OnLoadSteps)
        /\ phase' = "exited"
        /\ UNCHANGED setUp
     \/ /\ setUp = Len(OnLoadSteps)
        /\ phase' = "primordial"
        /\ UNCHANGED setUp
  /\ UNCHANGED <<tagVars, mainPc, loadVars, monitor, bound, flag, stage>>

-----------------------------------------------------------------------------
(* A thread other than the main one is itself an object.                   *)
Running(t) ==
  /\ ~AtSafepoint
  /\ phase \in {"primordial", "start", "live"}
  /\ t # Main => TrackerClass \in loaded

Idle(t) ==
  /\ pc[t] = "idle" /\ loadingClass[t] = Nothing
  /\ t = Main => mainPc = "idle"

(* Loading is exclusive per class (external).  Object comes first.         *)
BeginLoad(t, c) ==
  /\ Running(t) /\ Idle(t)
  /\ c \notin loaded
  /\ c # ObjectClass => ObjectClass \in loaded
  /\ \A u \in Trackers : loadingClass[u] # c
  /\ loadingClass' = [loadingClass EXCEPT ![t] = c]
  /\ UNCHANGED <<tagVars, phase, setUp, mainPc, hooked, loaded, monitor, bound, flag, stage>>

(* onClassFileLoad begins with RawMonitorEnter ...                         *)
EnterHook(t) ==
  /\ ~AtSafepoint
  /\ loadingClass[t] # Nothing /\ t \notin hooked
  /\ monitor = Nothing
  /\ monitor' = t
  /\ hooked' = hooked \cup {t}
  /\ UNCHANGED <<tagVars, phase, setUp, mainPc, loadingClass, loaded, bound, flag, stage>>

(* ... gives Object its new image, and ends with RawMonitorExit; then the  *)
(* class is defined.                                                       *)
ExitHook(t) ==
  /\ ~AtSafepoint
  /\ t \in hooked
  /\ loaded' = loaded \cup {loadingClass[t]}
  /\ loadingClass' = [loadingClass EXCEPT ![t] = Nothing]
  /\ hooked' = hooked \ {t}
  /\ monitor' = Nothing
  /\ UNCHANGED <<tagVars, phase, setUp, mainPc, bound, flag, stage>>

-----------------------------------------------------------------------------
(* onVMStart, on the main thread, under the monitor.                       *)
VMStart ==
  /\ phase = "primordial" /\ Idle(Main)
  /\ TrackerClass \in loaded
  /\ monitor = Nothing
  /\ phase' = "start"
  /\ mainPc' = "register"
  /\ monitor' = Main
  /\ UNCHANGED <<tagVars, setUp, loadVars, bound, flag, stage>>

MainGoto(from, to) ==
  /\ ~AtSafepoint
  /\ mainPc = from
  /\ mainPc' = to

SkipRegister ==
  /\ MainGoto("register", "setFlag")
  /\ UNCHANGED <<tagVars, phase, setUp, loadVars, monitor, bound, flag, stage>>

RegisterNatives ==
  /\ MainGoto("register", "setFlag")
  /\ bound' = TRUE
  /\ UNCHANGED <<tagVars, phase, setUp, loadVars, monitor, flag, stage>>

SkipFlag ==
  /\ MainGoto("setFlag", "exit")
  /\ UNCHANGED <<tagVars, phase, setUp, loadVars, monitor, bound, flag, stage>>

SetFlag ==
  /\ MainGoto("setFlag", "exit")
  /\ flag' = 1
  /\ UNCHANGED <<tagVars, phase, setUp, loadVars, monitor, bound, stage>>

EndVMStartOwning ==
  /\ MainGoto("exit", "idle")
  /\ UNCHANGED <<tagVars, phase, setUp, loadVars, monitor, bound, flag, stage>>

EndVMStart ==
  /\ MainGoto("exit", "idle")
  /\ monitor' = Nothing
  /\ UNCHANGED <<tagVars, phase, setUp, loadVars, bound, flag, stage>>

(* vmInitialization finds java.lang.Thread, which the JVM has loaded for   *)
(* the main thread, ...                                                    *)
VMInit ==
  /\ phase = "start" /\ Idle(Main)
  /\ ClassOf[ThreadObject] \in loaded
  /\ phase' = "live"
  /\ mainPc' = "newThread"
  /\ UNCHANGED <<tagVars, setUp, loadVars, monitor, bound, flag, stage>>

-----------------------------------------------------------------------------
(* The constructor of Object calls ObjectAllocationTracker.trackObject,    *)
(* which returns at once as long as the flag is not set.                   *)
Constructible(o) ==
  objectState[o] = "unborn" /\ {ClassOf[o], TrackerClass} \subseteq loaded

Appear(o) ==
  /\ objectState' = [objectState EXCEPT ![o] = "alive"]
  /\ UNCHANGED <<tag, lastTag, trackerVars, agentVars, out>>

ConstructUntracked(t) ==
  /\ Running(t) /\ Idle(t)
  /\ flag = 0
  /\ \E o \in Objects \ {ThreadObject} : Constructible(o) /\ Appear(o)
  /\ UNCHANGED lifeVars

ConstructTracked(t) ==
  /\ Running(t) /\ Idle(t)
  /\ flag = 1
  /\ \E o \in Objects \ {ThreadObject} : Constructible(o) /\ Construct(t, o)
  /\ UNCHANGED lifeVars

(* ... makes an object of it, like any other, and runs the agent thread    *)
(* with it when the constructor is done.                                   *)
NewThread ==
  /\ MainGoto("newThread", "runAgent")
  /\ IF flag = 1 THEN Construct(Main, ThreadObject) ELSE Appear(ThreadObject)
  /\ UNCHANGED <<phase, setUp, loadVars, monitor, bound, flag, stage>>

RunAgentThread ==
  /\ MainGoto("runAgent", "idle")
  /\ pc[Main] = "idle"
  /\ stage' = "scan"
  /\ UNCHANGED <<tagVars, phase, setUp, loadVars, monitor, bound, flag>>

Track(t) ==
  /\ \/ GetTag(t) \/ ReadLast(t) \/ WriteLast(t) \/ SetTag(t)
     \/ ReportClass(t) \/ ReportObject(t)
  /\ UNCHANGED lifeVars

(* The JVM keeps the object of a running thread.                           *)
Free(o) == o # ThreadObject /\ ObjectFree(o) /\ UNCHANGED lifeVars

-----------------------------------------------------------------------------
(* The agent thread: referenceFollowerInit scans under the monitor,        *)
(* follows the references and starts the output, whose client asks for     *)
(* more of both.                                                           *)
BeginScan ==
  /\ stage \in {"scan", "serve"}
  /\ monitor = Nothing
  /\ Scan(loaded)
  /\ monitor' = AgentThread
  /\ UNCHANGED <<phase, setUp, mainPc, loadVars, bound, flag, stage>>

BeginFollow ==
  /\ stage \in {"follow", "serve"}
  /\ StartFollow
  /\ UNCHANGED lifeVars

Present == Objects \cup loaded

ScanOrWalk ==
  /\ \/ (\E c \in Classes : ScanGetTag(c)) \/ ScanSetTag \/ ScanReadLast
     \/ ScanWriteLast \/ ScanReport \/ EndScan
     \/ (\E e \in Present : VisitRead(e)) \/ VisitWrite \/ EndWalk(Present)
  /\ UNCHANGED lifeVars

StageAfter == [scan |-> "follow", follow |-> "serve", serve |-> "serve"]

Flush ==
  /\ FlushMsgGrp
  /\ monitor' = IF monitor = AgentThread THEN Nothing ELSE monitor
  /\ stage' = StageAfter[stage]
  /\ UNCHANGED <<phase, setUp, mainPc, loadVars, bound, flag>>

MainStep ==
  \/ VMStart \/ RegisterNatives \/ SetFlag \/ EndVMStart
  \/ VMInit \/ NewThread \/ RunAgentThread
AgentThreadStep == BeginScan \/ BeginFollow \/ ScanOrWalk \/ Flush
Progress(t) == EnterHook(t) \/ ExitHook(t) \/ Track(t)

LifecycleStep ==
  \/ OnLoad
  \/ MainStep
  \/ \E t \in Trackers :
       \/ \E c \in Classes : BeginLoad(t, c)
       \/ ConstructUntracked(t) \/ ConstructTracked(t)
       \/ Progress(t)
  \/ \E o \in Objects : Free(o)
  \/ AgentThreadStep

(* The history.  A thread is drawing a tag from the moment GetTag has told *)
(* it that there is none until it has used lastTag for the last time.      *)
Drawing(t) == pc[t] \in {"readLast", "writeLast", "setTag", "report"}
AgentDrawing == agentPc \in {"scanSetTag", "scanReadLast", "scanWriteLast", "visiting"}

Overlap ==
  \E t \in Trackers :
    Drawing(t) /\ (AgentDrawing \/ \E u \in Trackers \ {t} : Drawing(u))

Record ==
  /\ overlapped' = (overlapped \/ Overlap')
  /\ scanned' = IF agentPc = "scanSetTag" /\ agentPc' # agentPc
                  THEN scanned \cup {current} ELSE scanned
  /\ walked' = IF agentPc = "visiting" /\ agentPc' # agentPc
                 THEN walked \cup {<<current, agentRegister>>} ELSE walked

LifecycleNext == LifecycleStep /\ Record

LifecycleSpec ==
  /\ LifecycleInit /\ [][LifecycleNext]_vars
  /\ WF_stateVars(MainStep)
  /\ WF_stateVars(AgentThreadStep)
  /\ \A t \in Trackers : WF_stateVars(Progress(t))

-----------------------------------------------------------------------------
LifecycleTypeOK ==
  /\ TypeOK
  /\ phase \in {"onLoad", "primordial", "start", "live", "exited"}
  /\ setUp \in 0..Len(OnLoadSteps)
  /\ mainPc \in {"idle", "register", "setFlag", "exit", "newThread", "runAgent"}
  /\ loadingClass \in [Trackers -> Classes \cup {Nothing}]
  /\ hooked \in SUBSET Trackers
  /\ monitor \in Trackers \cup {AgentThread, Nothing}
  /\ loaded \in SUBSET Classes
  /\ bound \in BOOLEAN
  /\ flag \in {0, 1}
  /\ stage \in {"none"} \cup DOMAIN StageAfter
  /\ overlapped \in BOOLEAN
  /\ scanned \in SUBSET Classes
  /\ walked \in SUBSET (Entities \X Nat)

(* onVMStart raises the flag while other threads run, and every            *)
(* constructor of Object calls the native method from then on: it must be  *)
(* registered, or the constructor throws UnsatisfiedLinkError.             *)
NativeBound ==
  \A t \in Trackers : pc[t] # "idle" => bound

(* The flag is raised before the scan, the scan tags the classes before    *)
(* the walk, and the walk finds what the tracker missed: once the first    *)
(* walk is over every object in use is tagged or its tracking is under     *)
(* way, whichever thread constructed it, before or after the flag, and     *)
(* whichever class was loaded during the scan (JVMHeapScan.c:226-236).     *)
EveryInstanceTagged ==
  stage = "serve" =>
    \A o \in Objects :
      \/ objectState[o] # "alive"
      \/ tag[o] # 0
      \/ \E t \in Trackers : allocatedObj[t] = o

(* checkAndTagClasses sends the tag it read before it tagged the class     *)
(* (JVMHeapScan.c:122): a client hears of a class without its tag, but     *)
(* once at the most, for the next scan names the tag.                      *)
UnknownOnce ==
  \A i, j \in DOMAIN out :
    /\ out[i].code = CLASS_TAG /\ out[j].code = CLASS_TAG
    /\ out[i].class = out[j].class
    /\ out[i].tag = 0 /\ out[j].tag = 0
    => i = j

ByAgent(e) == e \in scanned \/ <<e, tag[e]>> \in walked

(* setAndGetTag increments lastTag before it uses it, the scan and the     *)
(* walk after.  Unless two drew a tag at the same time, that is the only   *)
(* way to a tag given twice: of those who share one, a tracking thread     *)
(* tagged the one and the agent the other, so no three share it and both   *)
(* kinds taken for themselves are unique.  (The first scan begins with     *)
(* such a pair, since the Thread object has drawn a tag before it.)        *)
SharedOnlyAcross ==
  ~overlapped =>
    \A e, f \in Entities :
      e # f /\ tag[e] # 0 /\ tag[e] = tag[f] => (ByAgent(e) # ByAgent(f))

(* Everything the client has been told or will be with the next flush.     *)
Ledger == out \o curMsgGrp
Announced(L, n) == \E i \in DOMAIN L : IsObjectMessage(L[i]) /\ L[i].tag = n

(* What a client can make of the messages: an object belongs to the class  *)
(* that was announced with its class tag, a freed tag to the object that   *)
(* was announced with it.  Unless two drew a tag at the same time, both    *)
(* were announced before.  The exceptions are classes that the agent       *)
(* tagged, of which the client hears with the next scan, and what is freed *)
(* before the walk that tagged it has flushed its group: that is announced *)
(* afterwards.                                                             *)
AnnouncedFirst ==
  ~overlapped =>
    \A i \in DOMAIN out :
      /\ IsObjectMessage(out[i]) =>
           \/ \E j \in 1..(i - 1) : out[j].code = CLASS_TAG /\ out[j].tag = out[i].classTag
           \/ \E c \in Classes : ByAgent(c) /\ tag[c] = out[i].classTag
      /\ IsFreeMessage(out[i]) =>
           \/ \E j \in 1..(i - 1) : IsObjectMessage(out[j]) /\ out[j].tag = out[i].tag
           \/ /\ \E e \in Entities : <<e, out[i].tag>> \in walked
              /\ Announced(Ledger, out[i].tag)

(* The count of a class tag that the client arrives at.                    *)
ClientCount(ct) ==
  LET mine == {i \in DOMAIN out : IsObjectMessage(out[i]) /\ out[i].classTag = ct}
      freed == {i \in DOMAIN out : /\ IsFreeMessage(out[i])
                                   /\ \E j \in mine : out[j].tag = out[i].tag}
  IN  Cardinality(mine) - Cardinality(freed)

(* An instance that counts: an object, or the mirror of a class that a     *)
(* walk met before any scan did and announced like an object.              *)
Counted(c) ==
  {e \in Entities : /\ ClassOf[e] = c /\ tag[e] # 0
                    /\ e \in Objects \/ <<e, tag[e]>> \in walked}

Quiet == agentPc = "idle" /\ \A t \in Trackers : pc[t] = "idle"

(* No tag has announced two objects, and no other class has this one's.    *)
ObjectTagsDiffer ==
  \A i, j \in DOMAIN out :
    IsObjectMessage(out[i]) /\ IsObjectMessage(out[j]) /\ out[i].tag = out[j].tag => i = j

OwnTag(c) == tag[c] # 0 /\ \A d \in Classes \ {c} : tag[d] # tag[c]

(* ReadMe.txt:4, 6: whenever nobody is in the middle of reporting, the     *)
(* count the client arrives at for a class is the number of its tagged     *)
(* instances that are alive, whichever thread, scan or walk tagged them    *)
(* and whatever was freed meanwhile; unless two drew a tag at the same     *)
(* time, or the client can see that a tag was given twice.                 *)
CountsMatch ==
  Quiet /\ ~overlapped /\ ObjectTagsDiffer =>
    \A c \in Classes : OwnTag(c) => ClientCount(tag[c]) = Cardinality(Counted(c))

(* rawMonitorId is taken by class loading, onVMStart and the scan: none of *)
(* them keeps it, so the agent comes to serve its client.                  *)
AgentServes == (phase = "start") ~> (stage = "serve")
=============================================================================

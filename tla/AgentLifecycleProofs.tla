------------------------ MODULE AgentLifecycleProofs ------------------------
(***************************************************************************)
(* Proofs about AgentLifecycle, for any number of threads, classes,        *)
(* objects, scans and walks: the types, that the native method is bound    *)
(* before it is called, that no instance in use escapes the first walk     *)
(* whatever tracking and class loading happen beside it, and that a class  *)
(* is reported without its tag once at the most.                           *)
(*                                                                         *)
(* The last part is about lastTag.  As long as no two have been drawing a  *)
(* tag at one time, whoever draws has the variable for itself, what the    *)
(* agent gave is below it and no tag is above it.  So a tag is shared in   *)
(* one way only: a tracking thread and the agent took it, one after the    *)
(* other.                                                                  *)
(***************************************************************************)
EXTENDS AgentLifecycle, FunctionTheorems, FiniteSetTheorems, TLAPS

(* The class loading, the start of the JVM and the stages of the agent.    *)
HookInv == \A t \in hooked : loadingClass[t] \in Classes

StartInv ==
  /\ flag = 1 => bound
  /\ mainPc \in {"setFlag", "exit"} => bound
  /\ \/ mainPc \in {"exit", "newThread", "runAgent"}
     \/ phase = "start" /\ mainPc = "idle"
     => flag = 1
  /\ stage # "none" => flag = 1

ScanLabels == {"scanning", "scanSetTag", "scanReadLast", "scanWriteLast", "scanReport"}
WalkLabels == {"following", "visiting"}

StageInv ==
  /\ stage # "none" => phase = "live"
  /\ mainPc \in {"newThread", "runAgent"} => phase = "live" /\ stage = "none"
  /\ agentPc # "idle" => stage # "none"
  /\ agentPc \in ScanLabels => stage \in {"scan", "serve"}
  /\ agentPc \in WalkLabels => stage \in {"follow", "serve"}
  /\ agentPc = "visiting" => agentRegister # 0

(* A tracking thread keeps its object until the object has a tag.          *)
Tracks(t) ==
  /\ pc[t] = "idle" => allocatedObj[t] = Nothing
  /\ pc[t] # "idle" =>
       /\ bound
       /\ allocatedObj[t] \in Objects
       /\ subject[t] \in Classes \/ subject[t] = allocatedObj[t]
  /\ pc[t] = "report" => tag[subject[t]] # 0

TrackInv == \A t \in Trackers : Tracks(t)

(* An object that only a walk can still find: it was constructed before    *)
(* the flag.  Its class was loaded then, so the first scan tags the class  *)
(* and the first walk the object.                                          *)
Orphan(o) ==
  /\ objectState[o] = "alive"
  /\ tag[o] = 0
  /\ \A t \in Trackers : allocatedObj[t] # o

Awaited(o) ==
  /\ ClassOf[o] \in loaded
  /\ stage = "scan" =>
       \/ agentPc = "idle"
       \/ tag[ClassOf[o]] # 0
       \/ agentPc \in ScanLabels /\ ClassOf[o] \in todo
       \/ agentPc = "scanSetTag" /\ current = ClassOf[o]
  /\ stage = "follow" => tag[ClassOf[o]] # 0 /\ agentPc # "flush"
  /\ stage # "serve"

OrphanInv == \A o \in Objects : Orphan(o) => Awaited(o)

(* LifecycleTypeOK, without the history variables, of which the steps of   *)
(* the program take no notice.                                             *)
StateTypeOK ==
  /\ TypeOK
  /\ phase \in {"onLoad", "primordial", "start", "live", "exited"}
  /\ setUp \in 0..Len(OnLoadSteps)
  /\ mainPc \in {"idle", "register", "setFlag", "exit", "newThread", "runAgent"}
  /\ loadingClass \in [Trackers -> Classes \cup {Nothing}]
  /\ hooked \in SUBSET Trackers
  /\ monitor \in Trackers \cup {AgentThread, Nothing}
  /\ loaded \in SUBSET Classes
  /\ bound \in BOOLEAN
  /\ flag \in {0, 1}
  /\ stage \in {"none"} \cup DOMAIN StageAfter

TypeInv == StateTypeOK /\ HookInv /\ StageInv

(* A thread constructs an object with the flag set: any thread, or the     *)
(* main one in vmInitialization.                                           *)
Constructs(t) ==
  /\ flag = 1
  /\ \E o \in Objects : Construct(t, o)
  /\ UNCHANGED <<phase, setUp, loadVars, monitor, bound, flag, stage>>

IInv == TypeInv /\ StartInv /\ TrackInv /\ OrphanInv

-----------------------------------------------------------------------------
LEMMA TypeInit == LifecycleInit => TypeInv
<1> SUFFICES ASSUME LifecycleInit PROVE TypeInv
  OBVIOUS
<1>1. TypeOK
  BY TagsAssumption DEF LifecycleInit, Init, TypeOK, TrackerLabels, AgentLabels
<1>2. bound \in BOOLEAN
  BY Zenon DEF LifecycleInit
<1>3. StateTypeOK
  BY <1>1, <1>2 DEF LifecycleInit, StateTypeOK, StageAfter, OnLoadSteps
<1> QED
  BY <1>3 DEF LifecycleInit, Init, TypeInv, HookInv, StageInv, ScanLabels, WalkLabels

(* The steps of the life cycle that leave the tags alone.                  *)
LEMMA TypeLife ==
  ASSUME TypeInv, UNCHANGED tagVars,
         \/ OnLoad \/ VMStart \/ RegisterNatives \/ SetFlag \/ EndVMStart \/ VMInit
         \/ RunAgentThread
         \/ \E t \in Trackers :
              (\E c \in Classes : BeginLoad(t, c)) \/ EnterHook(t) \/ ExitHook(t)
  PROVE  TypeInv'
<1> USE LifecycleAssumption DEF TypeInv, HookInv, StageInv, ScanLabels, WalkLabels,
        StateTypeOK, StageAfter, OnLoadSteps, loadVars, tagVars, agentVars,
        trackerVars
<1>1. TypeOK'
  BY DEF TypeOK
<1>2. CASE OnLoad
  BY <1>1, <1>2 DEF OnLoad
<1>3. CASE VMStart
  BY <1>1, <1>3 DEF VMStart
<1>4. CASE RegisterNatives
  BY <1>1, <1>4 DEF RegisterNatives, MainGoto
<1>5. CASE SetFlag
  BY <1>1, <1>5 DEF SetFlag, MainGoto
<1>6. CASE EndVMStart
  BY <1>1, <1>6 DEF EndVMStart, MainGoto
<1>7. CASE VMInit
  BY <1>1, <1>7 DEF VMInit
<1>11. CASE RunAgentThread
  BY <1>1, <1>11 DEF RunAgentThread, MainGoto
<1>8. CASE \E t \in Trackers : \E c \in Classes : BeginLoad(t, c)
  BY <1>1, <1>8 DEF BeginLoad
<1>9. CASE \E t \in Trackers : EnterHook(t)
  BY <1>1, <1>9 DEF EnterHook
<1>10. CASE \E t \in Trackers : ExitHook(t)
  BY <1>1, <1>10 DEF ExitHook
<1> QED
  BY <1>2, <1>3, <1>4, <1>5, <1>6, <1>7, <1>8, <1>9, <1>10, <1>11

(* A step that leaves the life cycle and the agent alone has only the      *)
(* types of the tags to keep.                                              *)
LEMMA TypeFrame ==
  ASSUME TypeInv, TypeOK', UNCHANGED agentVars,
         UNCHANGED <<phase, setUp, loadVars, monitor, bound, flag, stage>>,
         mainPc' = mainPc \/ (mainPc = "newThread" /\ mainPc' = "runAgent")
  PROVE  TypeInv'
  BY DEF TypeInv, HookInv, StageInv, ScanLabels, WalkLabels, StateTypeOK,
         agentVars, loadVars

LEMMA TypeTrack ==
  ASSUME TypeInv, NEW t \in Trackers,
         \/ ConstructUntracked(t) \/ ConstructTracked(t) \/ Track(t)
         \/ NewThread
  PROVE  TypeInv'
<1>1. TypeOK
  BY DEF TypeInv, StateTypeOK
<1>2. TypeOK' /\ UNCHANGED agentVars
  <2> USE <1>1, TagsAssumption DEF TypeOK, TrackerLabels, Entities, Step, agentVars,
          trackerVars
  <2>1. CASE ConstructUntracked(t)
    BY <2>1 DEF ConstructUntracked, Appear
  <2>2. CASE ConstructTracked(t)
    BY <2>2 DEF ConstructTracked, Construct
  <2>9. CASE NewThread
    BY <2>9, LifecycleAssumption DEF NewThread, Construct, Appear
  <2>3. CASE GetTag(t)
    <3>1. ASSUME IsClass(t) PROVE tag[subject[t]] \in Nat
      BY <3>1 DEF IsClass
    <3> QED
      BY <2>3, <3>1 DEF GetTag
  <2>4. CASE ReadLast(t)
    BY <2>4 DEF ReadLast
  <2>5. CASE WriteLast(t)
    BY <2>5 DEF WriteLast
  <2>6. CASE SetTag(t)
    BY <2>6 DEF SetTag
  <2>7. CASE ReportClass(t)
    BY <2>7 DEF ReportClass
  <2>8. CASE ReportObject(t)
    BY <2>8 DEF ReportObject
  <2> QED
    BY <2>1, <2>2, <2>3, <2>4, <2>5, <2>6, <2>7, <2>8, <2>9 DEF Track
<1>3. /\ UNCHANGED <<phase, setUp, loadVars, monitor, bound, flag, stage>>
      /\ mainPc' = mainPc \/ (mainPc = "newThread" /\ mainPc' = "runAgent")
  BY DEF ConstructUntracked, ConstructTracked, Track, lifeVars, NewThread, MainGoto
<1> QED
  BY <1>2, <1>3, TypeFrame

(* So has a step of a scan or a walk, if it does not start or end one.     *)
LEMMA TypeScanOrWalk ==
  ASSUME TypeInv, ScanOrWalk
  PROVE  TypeInv'
<1>1. TypeOK /\ StageInv /\ loaded \subseteq Classes
  BY DEF TypeInv, StateTypeOK
<1>2. TypeOK' /\ StageInv'
  <2> USE <1>1, TagsAssumption DEF TypeOK, StageInv, ScanLabels, WalkLabels, AgentLabels,
          Entities, AgentGoto, trackerVars
  <2>0. UNCHANGED <<phase, stage, mainPc>>
    BY DEF ScanOrWalk, lifeVars
  <2>1. CASE \E c \in Classes : ScanGetTag(c)
    BY <2>0, <2>1 DEF ScanGetTag
  <2>2. CASE ScanSetTag
    BY <2>0, <2>2 DEF ScanSetTag
  <2>3. CASE ScanReadLast
    BY <2>0, <2>3 DEF ScanReadLast
  <2>4. CASE ScanWriteLast
    BY <2>0, <2>4 DEF ScanWriteLast
  <2>5. CASE ScanReport
    BY <2>0, <2>5 DEF ScanReport
  <2>6. CASE EndScan
    BY <2>0, <2>6 DEF EndScan
  <2>7. CASE \E e \in Present : VisitRead(e)
    BY <2>0, <2>7 DEF VisitRead, Present
  <2>8. CASE VisitWrite
    <3>1. tag' \in [Entities -> Nat] /\ lastTag' \in Nat \ {0}
      <4>1. tag' = [tag EXCEPT ![current] = agentRegister] /\ lastTag' = agentRegister + 1
        BY <2>8 DEF VisitWrite
      <4>2. tag' \in [Entities -> Nat]
        BY <4>1
      <4>3. lastTag' \in Nat \ {0}
        BY <4>1
      <4> QED
        BY <4>2, <4>3
    <3>2. UNCHANGED <<runs, objectState, trackerVars, todo, seenTag>>
      BY <2>8 DEF VisitWrite
    <3>3. agentPc = "visiting" /\ agentPc' = "following" /\ current' = Nothing /\ agentRegister' = 0
      BY <2>8 DEF VisitWrite
    <3>4. TypeOK'
      BY <3>1, <3>2, <3>3
    <3> QED
      BY <2>0, <3>3, <3>4
  <2>9. CASE EndWalk(Present)
    BY <2>0, <2>9 DEF EndWalk
  <2> QED
    BY <2>1, <2>2, <2>3, <2>4, <2>5, <2>6, <2>7, <2>8, <2>9 DEF ScanOrWalk
<1> QED
  BY <1>2 DEF TypeInv, HookInv, StateTypeOK, ScanOrWalk, lifeVars, loadVars

LEMMA TypeAgent ==
  ASSUME TypeInv, AgentThreadStep \/ \E o \in Objects : Free(o)
  PROVE  TypeInv'
<1> USE TagsAssumption DEF TypeInv, HookInv, StageInv, ScanLabels, WalkLabels,
        StateTypeOK, TypeOK, AgentLabels, Entities, AgentGoto,
        lifeVars, loadVars, trackerVars, StageAfter
<1>1. CASE \E o \in Objects : Free(o)
  BY <1>1 DEF Free, ObjectFree, agentVars
<1>2. CASE BeginScan
  BY <1>2 DEF BeginScan, Scan
<1>3. CASE BeginFollow
  BY <1>3 DEF BeginFollow, StartFollow
<1>4. CASE Flush
  BY <1>4 DEF Flush, FlushMsgGrp
<1> QED
  BY <1>1, <1>2, <1>3, <1>4, TypeScanOrWalk DEF AgentThreadStep

LEMMA LifeOnly ==
  \/ OnLoad \/ VMStart \/ RegisterNatives \/ SetFlag \/ EndVMStart \/ VMInit
  \/ RunAgentThread
  => UNCHANGED tagVars
  BY Zenon DEF OnLoad, VMStart, RegisterNatives, SetFlag, EndVMStart, VMInit, RunAgentThread

LEMMA TypeStep ==
  ASSUME TypeInv, [LifecycleStep]_stateVars
  PROVE  TypeInv'
<1>1. CASE UNCHANGED stateVars
  BY <1>1 DEF stateVars, tagVars, lifeVars, loadVars, agentVars, trackerVars, TypeInv, HookInv,
              StageInv, StateTypeOK, TypeOK
<1>2. CASE \/ OnLoad \/ VMStart \/ RegisterNatives \/ SetFlag \/ EndVMStart \/ VMInit
           \/ RunAgentThread
  BY <1>2, TypeLife, LifeOnly
<1>5. CASE NewThread
  BY <1>5, TypeTrack, LifecycleAssumption
<1>3. ASSUME NEW t \in Trackers,
             (\E c \in Classes : BeginLoad(t, c)) \/ EnterHook(t) \/ ExitHook(t)
      PROVE  TypeInv'
  BY <1>3, TypeLife DEF BeginLoad, EnterHook, ExitHook
<1>4. ASSUME NEW t \in Trackers, ConstructUntracked(t) \/ ConstructTracked(t) \/ Track(t)
      PROVE  TypeInv'
  BY <1>4, TypeTrack
<1> QED
  BY <1>1, <1>2, <1>3, <1>4, <1>5, TypeAgent DEF LifecycleStep, Progress, MainStep

-----------------------------------------------------------------------------
LEMMA StartStep ==
  ASSUME TypeInv, StartInv, [LifecycleStep]_stateVars
  PROVE  StartInv'
<1> USE DEF StartInv, lifeVars, loadVars
<1>1. ASSUME UNCHANGED <<phase, mainPc, bound, flag, stage>> PROVE StartInv'
  BY <1>1
<1>2. CASE OnLoad
  BY <1>2 DEF OnLoad
<1>3. CASE VMStart
  BY <1>3 DEF VMStart
<1>4. CASE RegisterNatives
  BY <1>4 DEF RegisterNatives, MainGoto
<1>5. CASE SetFlag
  BY <1>5 DEF SetFlag, MainGoto
<1>6. CASE EndVMStart
  BY <1>6 DEF EndVMStart, MainGoto
<1>7. CASE VMInit
  BY <1>7 DEF VMInit, Idle
<1>12. CASE RunAgentThread
  BY <1>12 DEF RunAgentThread, MainGoto
<1>13. CASE NewThread
  BY <1>13 DEF NewThread, MainGoto
<1>8. CASE Flush
  <2>1. stage # "none" /\ UNCHANGED <<phase, mainPc, bound, flag>>
    BY <1>8 DEF Flush, FlushMsgGrp, AgentGoto, TypeInv, StageInv
  <2> QED
    BY <2>1
<1>9. CASE BeginScan \/ BeginFollow \/ ScanOrWalk \/ \E o \in Objects : Free(o)
  BY <1>1, <1>9 DEF BeginScan, BeginFollow, ScanOrWalk, Free
<1>10. ASSUME NEW t \in Trackers,
              \/ \E c \in Classes : BeginLoad(t, c)
              \/ EnterHook(t) \/ ExitHook(t)
              \/ ConstructUntracked(t) \/ ConstructTracked(t) \/ Track(t)
       PROVE  StartInv'
  BY <1>1, <1>10 DEF BeginLoad, EnterHook, ExitHook, ConstructUntracked, ConstructTracked, Track
<1>11. CASE UNCHANGED stateVars
  BY <1>1, <1>11 DEF stateVars
<1> QED
  BY <1>2, <1>3, <1>4, <1>5, <1>6, <1>7, <1>8, <1>9, <1>10, <1>11, <1>12, <1>13
     DEF LifecycleStep, MainStep, AgentThreadStep, Progress

-----------------------------------------------------------------------------
LEMMA ConstructFacts ==
  ASSUME TypeInv, StartInv
  PROVE  /\ \A t \in Trackers : ConstructTracked(t) => Constructs(t)
         /\ NewThread => Constructs(Main)
<1>1. ASSUME NEW t \in Trackers, ConstructTracked(t) PROVE Constructs(t)
  BY <1>1, Zenon DEF ConstructTracked, Constructs, lifeVars
<1>2. ASSUME NewThread PROVE Constructs(Main)
  <2>1. flag = 1
    BY <1>2 DEF NewThread, MainGoto, StartInv
  <2>2. Construct(Main, ThreadObject)
    BY <1>2, <2>1 DEF NewThread
  <2> QED
    BY <1>2, <2>1, <2>2, LifecycleAssumption DEF NewThread, Constructs
<1> QED
  BY <1>1, <1>2

(* A tag is lost only by an object that dies, and nobody tracks it.        *)
LEMMA TagKept ==
  ASSUME TypeInv, [LifecycleStep]_stateVars, NEW e \in Entities, tag[e] # 0
  PROVE  \/ tag'[e] # 0
         \/ /\ e \in Objects /\ objectState'[e] = "dead"
            /\ \A t \in Trackers : allocatedObj[t] # e
<1>1. /\ tag \in [Entities -> Nat] /\ lastTag # 0
      /\ agentPc = "visiting" => agentRegister # 0
      /\ objectState \in [Objects -> {"unborn", "alive", "dead"}]
  BY DEF TypeInv, StateTypeOK, TypeOK, StageInv
<1>2. ASSUME UNCHANGED tag PROVE tag'[e] # 0
  BY <1>2
<1>3. ASSUME NEW f, NEW n, n # 0, tag' = [tag EXCEPT ![f] = n] PROVE tag'[e] # 0
  BY <1>1, <1>3
<1>4. CASE \E o \in Objects : Free(o)
  BY <1>1, <1>4 DEF Free, ObjectFree, Entities
<1>5. ASSUME NEW t \in Trackers, Track(t) PROVE tag'[e] # 0
  BY <1>1, <1>2, <1>3, <1>5
     DEF Track, GetTag, ReadLast, WriteLast, SetTag, ReportClass, ReportObject
<1>6. CASE ScanOrWalk
  <2>1. CASE ScanSetTag
    BY <1>1, <1>3, <2>1 DEF ScanSetTag
  <2>2. CASE VisitWrite
    BY <1>1, <1>3, <2>2 DEF VisitWrite, AgentGoto
  <2> QED
    BY <1>2, <1>6, <2>1, <2>2 DEF ScanOrWalk, ScanGetTag, ScanReadLast, ScanWriteLast,
       ScanReport, EndScan, VisitRead, EndWalk
<1>7. CASE BeginScan \/ BeginFollow \/ Flush
  BY <1>2, <1>7 DEF BeginScan, Scan, BeginFollow, StartFollow, Flush, FlushMsgGrp
<1>8. CASE OnLoad \/ MainStep \/ UNCHANGED stateVars
  BY <1>2, <1>8, LifeOnly DEF MainStep, NewThread, Construct, Appear, stateVars, tagVars
<1>9. ASSUME NEW t \in Trackers,
             \/ \E c \in Classes : BeginLoad(t, c)
             \/ EnterHook(t) \/ ExitHook(t)
             \/ ConstructUntracked(t) \/ ConstructTracked(t)
      PROVE  tag'[e] # 0
  BY <1>2, <1>9 DEF BeginLoad, EnterHook, ExitHook, ConstructUntracked, ConstructTracked,
     Construct, Appear, tagVars
<1> QED
  BY <1>4, <1>5, <1>6, <1>7, <1>8, <1>9 DEF LifecycleStep, AgentThreadStep, Progress

(* What nobody undoes: the binding and the loading of a class.             *)
LEMMA BoundKept ==
  ASSUME [LifecycleStep]_stateVars
  PROVE  (bound => bound') /\ loaded \subseteq loaded'
<1>1. ASSUME UNCHANGED <<bound, loaded>> PROVE (bound => bound') /\ loaded \subseteq loaded'
  BY <1>1
<1>2. CASE \/ OnLoad \/ VMStart \/ SetFlag \/ EndVMStart \/ VMInit \/ NewThread
           \/ RunAgentThread \/ UNCHANGED stateVars
  BY <1>1, <1>2 DEF OnLoad, VMStart, SetFlag, EndVMStart, VMInit, NewThread, RunAgentThread,
     stateVars, lifeVars, loadVars
<1>3. CASE RegisterNatives
  BY <1>3 DEF RegisterNatives, loadVars
<1>4. ASSUME NEW t \in Trackers, ExitHook(t) PROVE (bound => bound') /\ loaded \subseteq loaded'
  BY <1>4 DEF ExitHook
<1>5. ASSUME NEW t \in Trackers,
             \/ \E c \in Classes : BeginLoad(t, c)
             \/ EnterHook(t) \/ Track(t)
             \/ ConstructUntracked(t) \/ ConstructTracked(t)
      PROVE  (bound => bound') /\ loaded \subseteq loaded'
  BY <1>1, <1>5 DEF BeginLoad, EnterHook, Track, ConstructUntracked, ConstructTracked,
     lifeVars, loadVars
<1>6. CASE AgentThreadStep \/ \E o \in Objects : Free(o)
  BY <1>1, <1>6 DEF AgentThreadStep, BeginScan, BeginFollow, ScanOrWalk, Flush, Free,
     lifeVars, loadVars
<1> QED
  BY <1>2, <1>3, <1>4, <1>5, <1>6 DEF LifecycleStep, MainStep, Progress

-----------------------------------------------------------------------------
(* A thread that does not move still tracks what it tracked.               *)
LEMMA TrackOther ==
  ASSUME TypeInv, TrackInv, [LifecycleStep]_stateVars, NEW t \in Trackers,
         pc'[t] = pc[t], allocatedObj'[t] = allocatedObj[t], subject'[t] = subject[t]
  PROVE  Tracks(t)'
<1>1. Tracks(t)
  BY DEF TrackInv
<1>2. ASSUME pc[t] = "report" PROVE tag'[subject[t]] # 0
  <2>1. /\ subject[t] \in Entities /\ tag[subject[t]] # 0
        /\ subject[t] \in Objects => allocatedObj[t] = subject[t]
    BY <1>1, <1>2, TagsAssumption DEF Tracks, Entities
  <2> QED
    BY <2>1, TagKept
<1> QED
  BY <1>1, <1>2, BoundKept DEF Tracks

(* The step of a thread that tracks.                                       *)
LEMMA TrackOwn ==
  ASSUME TypeInv, StartInv, TrackInv, NEW t \in Trackers, Track(t) \/ Constructs(t)
  PROVE  Tracks(t)'
<1>1. /\ Tracks(t)
      /\ pc \in [Trackers -> TrackerLabels]
      /\ allocatedObj \in [Trackers -> Objects \cup {Nothing}]
      /\ subject \in [Trackers -> Entities \cup {Nothing}]
      /\ tag \in [Entities -> Nat] /\ lastTag # 0
  BY DEF TrackInv, TypeInv, StateTypeOK, TypeOK
<1>2. bound' = bound
  BY DEF Track, Constructs, lifeVars
<1> USE <1>1, <1>2 DEF Tracks, Step
<1>3. CASE Constructs(t)
  <2>1. bound
    BY <1>3 DEF Constructs, StartInv
  <2>2. PICK o \in Objects : /\ allocatedObj' = [allocatedObj EXCEPT ![t] = o]
                            /\ subject' = [subject EXCEPT ![t] = ClassOf[o]]
    BY <1>3 DEF Constructs, Construct
  <2>3. pc'[t] = "getTag"
    BY <1>3 DEF Constructs, Construct
  <2>4. ClassOf[o] \in Classes
    BY TagsAssumption DEF Entities
  <2> QED
    BY <2>1, <2>2, <2>3, <2>4
<1>4. CASE GetTag(t)
  BY <1>4, TagsAssumption DEF GetTag, IsClass
<1>5. CASE ReadLast(t)
  BY <1>5 DEF ReadLast
<1>6. CASE WriteLast(t)
  BY <1>6 DEF WriteLast
<1>7. CASE SetTag(t)
  <2>1. subject[t] \in Entities
    BY <1>7 DEF SetTag, Entities
  <2> QED
    BY <1>7, <2>1 DEF SetTag
<1>8. CASE ReportClass(t)
  BY <1>8 DEF ReportClass
<1>9. CASE ReportObject(t)
  BY <1>9 DEF ReportObject
<1> QED
  BY <1>3, <1>4, <1>5, <1>6, <1>7, <1>8, <1>9 DEF Track

LEMMA TrackStep ==
  ASSUME TypeInv, StartInv, TrackInv, [LifecycleStep]_stateVars
  PROVE  TrackInv'
<1>1. ASSUME UNCHANGED trackerVars PROVE TrackInv'
  BY <1>1, TrackOther DEF trackerVars, TrackInv
<1>2. ASSUME NEW t \in Trackers, Track(t) \/ Constructs(t)
      PROVE  TrackInv'
  <2>1. ASSUME NEW u \in Trackers, u # t
        PROVE  /\ pc'[u] = pc[u] /\ allocatedObj'[u] = allocatedObj[u]
               /\ subject'[u] = subject[u]
    BY <1>2, <2>1 DEF TypeInv, StateTypeOK, TypeOK, Track, Constructs, Construct,
       GetTag, ReadLast, WriteLast, SetTag, ReportClass, ReportObject, Step
  <2> QED
    BY <1>2, <2>1, TrackOther, TrackOwn DEF TrackInv
<1>3. ASSUME NEW t \in Trackers,
             \/ \E c \in Classes : BeginLoad(t, c)
             \/ EnterHook(t) \/ ExitHook(t) \/ ConstructUntracked(t)
      PROVE  TrackInv'
  BY <1>1, <1>3 DEF BeginLoad, EnterHook, ExitHook, ConstructUntracked, Appear, tagVars
<1>4. CASE OnLoad \/ MainStep \/ UNCHANGED stateVars
  BY <1>1, <1>2, <1>4, LifeOnly, ConstructFacts, LifecycleAssumption
     DEF MainStep, stateVars, tagVars
<1>5. CASE BeginScan \/ BeginFollow \/ Flush \/ \E o \in Objects : Free(o)
  BY <1>1, <1>5 DEF BeginScan, Scan, BeginFollow, StartFollow, Flush, FlushMsgGrp, Free,
     ObjectFree
<1>6. CASE ScanOrWalk
  BY <1>1, <1>6 DEF ScanOrWalk, ScanGetTag, ScanSetTag, ScanReadLast, ScanWriteLast,
     ScanReport, EndScan, VisitRead, VisitWrite, EndWalk
<1> QED
  BY <1>2, <1>3, <1>4, <1>5, <1>6, ConstructFacts DEF LifecycleStep, AgentThreadStep, Progress

-----------------------------------------------------------------------------
(* A new orphan is constructed while the flag is not set.                  *)
LEMMA NewOrphan ==
  ASSUME TypeInv, StartInv, TrackInv, [LifecycleStep]_stateVars, NEW o \in Objects,
         Orphan(o)', ~Orphan(o)
  PROVE  /\ ClassOf[o] \in loaded
         /\ stage = "none" /\ stage' = "none"
<1>1. /\ objectState \in [Objects -> {"unborn", "alive", "dead"}]
      /\ pc \in [Trackers -> TrackerLabels]
      /\ allocatedObj \in [Trackers -> Objects \cup {Nothing}]
      /\ o \in Entities /\ o # Nothing /\ o \notin Classes
  BY TagsAssumption DEF TypeInv, StateTypeOK, TypeOK, Entities
<1>2. tag[o] = 0
  BY <1>1, TagKept DEF Orphan
<1>3. CASE \E t \in Trackers : ConstructUntracked(t)
  <2>1. PICK t \in Trackers : ConstructUntracked(t)
    BY <1>3
  <2>2. PICK p \in Objects : Constructible(p) /\ Appear(p)
    BY <2>1 DEF ConstructUntracked
  <2>3. p = o
    BY <1>1, <1>2, <2>1, <2>2 DEF Orphan, Appear, trackerVars
  <2>4. flag = 0 /\ stage' = stage
    BY <2>1 DEF ConstructUntracked, lifeVars
  <2> QED
    BY <2>2, <2>3, <2>4 DEF Constructible, StartInv
<1>4. CASE \E t \in Trackers : Constructs(t)
  <2>1. PICK t \in Trackers : Constructs(t)
    BY <1>4
  <2>2. PICK p \in Objects : /\ objectState' = [objectState EXCEPT ![p] = "alive"]
                            /\ allocatedObj' = [allocatedObj EXCEPT ![t] = p]
    BY <2>1 DEF Constructs, Construct
  <2>3. p # o
    BY <1>1, <2>2 DEF Orphan
  <2>4. allocatedObj[t] = Nothing
    BY <2>1 DEF Constructs, Construct, Step, TrackInv, Tracks
  <2>5. objectState[o] = "alive" /\ \A u \in Trackers : allocatedObj[u] # o
    BY <1>1, <2>2, <2>3, <2>4 DEF Orphan
  <2> QED
    BY <1>2, <2>5 DEF Orphan
<1>5. CASE \E t \in Trackers : Track(t)
  <2>1. PICK t \in Trackers : Track(t)
    BY <1>5
  <2>2. objectState' = objectState
    BY <2>1 DEF Track, GetTag, ReadLast, WriteLast, SetTag, ReportClass, ReportObject
  <2>3. CASE allocatedObj' = allocatedObj
    BY <1>2, <2>2, <2>3 DEF Orphan
  <2>4. CASE /\ GetTag(t) \/ ReportObject(t)
             /\ ~IsClass(t)
             /\ tag[subject[t]] # 0
             /\ pc[t] # "idle"
             /\ allocatedObj' = [allocatedObj EXCEPT ![t] = Nothing]
    <3>1. allocatedObj[t] # o
      BY <1>2, <2>4 DEF IsClass, TrackInv, Tracks
    <3> QED
      BY <1>1, <1>2, <2>2, <2>4, <3>1 DEF Orphan
  <2>5. CASE GetTag(t)
    BY <2>3, <2>4, <2>5 DEF GetTag
  <2>6. CASE ReportObject(t)
    BY <2>4, <2>6 DEF ReportObject, TrackInv, Tracks
  <2> QED
    BY <2>1, <2>3, <2>5, <2>6 DEF Track, ReadLast, WriteLast, SetTag, ReportClass
<1>6. CASE UNCHANGED <<objectState, allocatedObj>>
  BY <1>2, <1>6 DEF Orphan
<1>7. CASE \E p \in Objects : Free(p)
  BY <1>1, <1>2, <1>7 DEF Free, ObjectFree, Orphan, trackerVars
<1>8. CASE BeginScan \/ BeginFollow \/ Flush \/ ScanOrWalk
  BY <1>6, <1>8 DEF BeginScan, Scan, BeginFollow, StartFollow, Flush, FlushMsgGrp, trackerVars,
     ScanOrWalk, ScanGetTag, ScanSetTag, ScanReadLast, ScanWriteLast,
     ScanReport, EndScan, VisitRead, VisitWrite, EndWalk
<1>9. CASE OnLoad \/ MainStep \/ UNCHANGED stateVars
  BY <1>4, <1>6, <1>9, LifeOnly, ConstructFacts, LifecycleAssumption
     DEF MainStep, stateVars, tagVars, trackerVars
<1>10. ASSUME NEW t \in Trackers,
              (\E c \in Classes : BeginLoad(t, c)) \/ EnterHook(t) \/ ExitHook(t)
       PROVE  UNCHANGED <<objectState, allocatedObj>>
  BY <1>10 DEF BeginLoad, EnterHook, ExitHook, tagVars, trackerVars
<1> QED
  BY <1>3, <1>4, <1>5, <1>6, <1>7, <1>8, <1>9, <1>10, ConstructFacts
     DEF LifecycleStep, AgentThreadStep, Progress

(* An old orphan comes closer to its walk: the first scan covers its       *)
(* class, and the first walk does not end before it has visited it.        *)
LEMMA OldOrphan ==
  ASSUME TypeInv, StartInv, OrphanInv, [LifecycleStep]_stateVars, NEW o \in Objects,
         Orphan(o), Orphan(o)'
  PROVE  Awaited(o)'
<1>1. /\ Awaited(o) /\ StageInv
      /\ ClassOf[o] \in Entities /\ ClassOf[o] \in Classes /\ ClassOf[o] \notin Objects
      /\ tag \in [Entities -> Nat] /\ lastTag # 0
  BY TagsAssumption DEF OrphanInv, TypeInv, StateTypeOK, TypeOK, Entities
<1>2. ClassOf[o] \in loaded'
  BY <1>1, BoundKept DEF Awaited
<1>3. tag[ClassOf[o]] # 0 => tag'[ClassOf[o]] # 0
  BY <1>1, TagKept
<1>4. ASSUME UNCHANGED <<stage, agentPc, todo, current>> PROVE Awaited(o)'
  BY <1>1, <1>2, <1>3, <1>4 DEF Awaited
<1> USE <1>1, <1>2, <1>3 DEF Awaited, ScanLabels, AgentGoto
<1>5. CASE \/ OnLoad \/ VMStart \/ RegisterNatives \/ SetFlag \/ EndVMStart \/ VMInit
           \/ NewThread \/ UNCHANGED stateVars
  BY <1>4, <1>5 DEF OnLoad, VMStart, RegisterNatives, SetFlag, EndVMStart, VMInit, NewThread,
     Construct, Appear, MainGoto, stateVars, tagVars, lifeVars, agentVars
<1>6. CASE RunAgentThread
  <2>1. agentPc = "idle" /\ agentPc' = agentPc /\ stage' = "scan"
    BY <1>6 DEF RunAgentThread, MainGoto, StageInv, tagVars, agentVars
  <2> QED
    BY <2>1
<1>7. ASSUME NEW t \in Trackers,
             \/ \E c \in Classes : BeginLoad(t, c)
             \/ EnterHook(t) \/ ExitHook(t)
             \/ ConstructUntracked(t) \/ ConstructTracked(t) \/ Track(t)
      PROVE  Awaited(o)'
  BY <1>4, <1>7 DEF BeginLoad, EnterHook, ExitHook, ConstructUntracked, ConstructTracked,
     Construct, Appear, Track, GetTag, ReadLast, WriteLast, SetTag, ReportClass, ReportObject,
     tagVars, agentVars, lifeVars
<1>8. CASE \E p \in Objects : Free(p)
  BY <1>4, <1>8 DEF Free, ObjectFree, agentVars, lifeVars
<1>9. CASE BeginScan
  BY <1>9 DEF BeginScan, Scan
<1>10. CASE BeginFollow
  BY <1>10 DEF BeginFollow, StartFollow, lifeVars
<1>11. CASE Flush
  <2>1. agentPc = "flush" /\ agentPc' = "idle" /\ tag' = tag /\ stage' = StageAfter[stage]
    BY <1>11 DEF Flush, FlushMsgGrp
  <2>2. stage = "scan"
    BY <2>1 DEF StageInv, TypeInv, StateTypeOK, StageAfter
  <2>3. stage' = "follow"
    BY <2>1, <2>2 DEF StageAfter
  <2>4. tag[ClassOf[o]] # 0
    BY <2>1, <2>2
  <2> QED
    BY <2>1, <2>3, <2>4
<1>12. CASE ScanOrWalk
  <2>0. stage' = stage
    BY <1>12 DEF ScanOrWalk, lifeVars
  <2>1. CASE \E c \in Classes : ScanGetTag(c)
    BY <2>0, <2>1 DEF ScanGetTag, StageInv
  <2>2. CASE ScanSetTag
    BY <2>0, <2>2 DEF ScanSetTag, StageInv
  <2>3. CASE ScanReadLast \/ ScanWriteLast \/ ScanReport
    BY <2>0, <2>3 DEF ScanReadLast, ScanWriteLast, ScanReport, StageInv
  <2>4. CASE EndScan
    BY <2>0, <2>4 DEF EndScan, StageInv
  <2>5. CASE (\E e \in Present : VisitRead(e)) \/ VisitWrite
    BY <2>0, <2>5 DEF VisitRead, VisitWrite, StageInv, WalkLabels
  <2>6. CASE EndWalk(Present)
    <3>1. stage = "follow"
      BY <2>6 DEF EndWalk, StageInv, WalkLabels
    <3>2. o \in ToVisit(Present)
      BY <3>1 DEF ToVisit, Present, Reachable, Orphan
    <3> QED
      BY <2>6, <3>2 DEF EndWalk
  <2> QED
    BY <1>12, <2>1, <2>2, <2>3, <2>4, <2>5, <2>6 DEF ScanOrWalk
<1> QED
  BY <1>5, <1>6, <1>7, <1>8, <1>9, <1>10, <1>11, <1>12
     DEF LifecycleStep, MainStep, AgentThreadStep, Progress

LEMMA OrphanStep ==
  ASSUME TypeInv, StartInv, TrackInv, OrphanInv, [LifecycleStep]_stateVars
  PROVE  OrphanInv'
<1> SUFFICES ASSUME NEW o \in Objects, Orphan(o)' PROVE Awaited(o)'
  BY DEF OrphanInv
<1>1. CASE Orphan(o)
  BY <1>1, OldOrphan
<1>2. CASE ~Orphan(o)
  BY <1>2, NewOrphan, BoundKept DEF Awaited
<1> QED
  BY <1>1, <1>2

-----------------------------------------------------------------------------
(* A class is reported without its tag when the scan has tagged it: before *)
(* that, and while the scan is at it, no message like that is on its way.  *)
Messages ==
  [code : {CLASS_TAG}, class : Classes, tag : Nat]
  \cup [code : {OBJECT_TAG}, tag : Nat, classTag : Nat]
  \cup [code : {DEALLOCATE_OBJECT}, tag : Nat]

Unknown(m, c) == m.code = CLASS_TAG /\ m.class = c /\ m.tag = 0
Silent(s, c) == \A i \in DOMAIN s : ~Unknown(s[i], c)
Once(s, c) == \A i, j \in DOMAIN s : Unknown(s[i], c) /\ Unknown(s[j], c) => i = j

AtHand(c) ==
  /\ agentPc \in {"scanSetTag", "scanReadLast", "scanWriteLast", "scanReport"}
  /\ current = c
  /\ seenTag = 0

UnknownOf(c) ==
  /\ Once(out, c) /\ Once(curMsgGrp, c)
  /\ Silent(out, c) \/ Silent(curMsgGrp, c)
  /\ tag[c] = 0 \/ AtHand(c) => Silent(out, c) /\ Silent(curMsgGrp, c)

MessageInv ==
  /\ out \in Seq(Messages) /\ curMsgGrp \in Seq(Messages)
  /\ agentPc = "idle" => curMsgGrp = <<>>
  /\ agentPc \in ScanLabels \ {"scanning"} => current \in Classes
  /\ agentPc \in {"scanReadLast", "scanWriteLast", "scanReport"} => tag[current] # 0
  /\ agentPc = "visiting" => current \in Entities

UnknownInv == MessageInv /\ \A c \in Classes : UnknownOf(c)

LEMMA MessageFacts ==
  /\ \A c \in Classes, t \in Nat : ClassMessage(c, t) \in Messages
  /\ \A t, ct \in Nat : ObjectMessage(t, ct) \in Messages
  /\ \A t \in Nat : FreeMessage(t) \in Messages
  /\ \A c, d : \A t : t # 0 => ~Unknown(ClassMessage(d, t), c)
  /\ \A c, d, t : c # d => ~Unknown(ClassMessage(d, t), c)
  /\ \A c, t, ct : ~Unknown(ObjectMessage(t, ct), c)
  /\ \A c, t : ~Unknown(FreeMessage(t), c)
  BY DEF Messages, Unknown, ClassMessage, ObjectMessage, FreeMessage,
     CLASS_TAG, OBJECT_TAG, DEALLOCATE_OBJECT

(* A message of another kind changes nothing, one without a tag may only   *)
(* follow where there was none.                                            *)
LEMMA AppendFacts ==
  ASSUME NEW s \in Seq(Messages), NEW m \in Messages, NEW c
  PROVE  /\ Append(s, m) \in Seq(Messages)
         /\ ~Unknown(m, c) => /\ Silent(s, c) => Silent(Append(s, m), c)
                              /\ Once(s, c) => Once(Append(s, m), c)
         /\ Silent(s, c) => Once(Append(s, m), c)
<1> DEFINE r == Append(s, m)
<1>1. /\ r \in Seq(Messages)
      /\ Len(r) = Len(s) + 1 /\ Len(s) \in Nat
      /\ DOMAIN r = 1..Len(r) /\ DOMAIN s = 1..Len(s)
      /\ r[Len(s) + 1] = m
      /\ \A i \in 1..Len(s) : r[i] = s[i]
  OBVIOUS
<1> HIDE DEF r
<1>2. \A i \in DOMAIN r : i \in DOMAIN s \/ i = Len(s) + 1
  BY <1>1
<1>3. \A i \in DOMAIN s : r[i] = s[i]
  BY <1>1
<1>4. ASSUME ~Unknown(m, c)
      PROVE  \A i \in DOMAIN r : Unknown(r[i], c) => i \in DOMAIN s /\ Unknown(s[i], c)
  BY <1>1, <1>2, <1>3, <1>4, Zenon
<1>5. ASSUME Silent(s, c) PROVE \A i \in DOMAIN r : Unknown(r[i], c) => i = Len(s) + 1
  BY <1>2, <1>3, <1>5, Zenon DEF Silent
<1>6. r = Append(s, m)
  BY DEF r
<1>7. ~Unknown(m, c) => (Silent(s, c) => Silent(r, c)) /\ (Once(s, c) => Once(r, c))
  BY <1>4, Zenon DEF Silent, Once
<1>8. Silent(s, c) => Once(r, c)
  BY <1>5, Zenon DEF Once
<1> QED
  BY <1>1, <1>6, <1>7, <1>8

LEMMA ConcatFacts ==
  ASSUME NEW s \in Seq(Messages), NEW r \in Seq(Messages), NEW c
  PROVE  /\ s \o r \in Seq(Messages)
         /\ Silent(s, c) /\ Silent(r, c) => Silent(s \o r, c)
         /\ Once(s, c) /\ Once(r, c) /\ (Silent(s, c) \/ Silent(r, c)) => Once(s \o r, c)
<1> DEFINE q == s \o r
<1>1. /\ q \in Seq(Messages)
      /\ Len(q) = Len(s) + Len(r) /\ Len(s) \in Nat /\ Len(r) \in Nat
      /\ DOMAIN q = 1..Len(q) /\ DOMAIN s = 1..Len(s) /\ DOMAIN r = 1..Len(r)
      /\ \A i \in 1..Len(s) : q[i] = s[i]
      /\ \A i \in Len(s) + 1 .. Len(q) : q[i] = r[i - Len(s)]
  OBVIOUS
<1> HIDE DEF q
<1>2. \A i \in DOMAIN q : \/ i \in DOMAIN s /\ q[i] = s[i]
                          \/ i - Len(s) \in DOMAIN r /\ q[i] = r[i - Len(s)]
  BY <1>1
<1>3. \A i, j \in DOMAIN q : i - Len(s) = j - Len(s) => i = j
  BY <1>1
<1>4. Silent(s, c) /\ Silent(r, c) => Silent(q, c)
  BY <1>2, Zenon DEF Silent
<1>5. Once(s, c) /\ Once(r, c) /\ (Silent(s, c) \/ Silent(r, c)) => Once(q, c)
  BY <1>2, <1>3, Zenon DEF Silent, Once
<1> QED
  BY <1>1, <1>4, <1>5 DEF q

LEMMA ClassTagKept ==
  ASSUME TypeInv, [LifecycleStep]_stateVars, NEW c \in Classes, tag[c] # 0
  PROVE  tag'[c] # 0
  BY TagKept, TagsAssumption DEF Entities

(* What no step disturbs that leaves the scan and the messages alone.      *)
LEMMA UnknownFrame ==
  ASSUME TypeInv, UnknownInv, [LifecycleStep]_stateVars,
         UNCHANGED <<out, curMsgGrp, agentPc, current, seenTag>>
  PROVE  UnknownInv'
<1>1. MessageInv'
  BY ClassTagKept DEF UnknownInv, MessageInv, ScanLabels
<1>2. ASSUME NEW c \in Classes PROVE UnknownOf(c)'
  BY <1>2, ClassTagKept DEF UnknownInv, UnknownOf, AtHand, Once, Silent
<1> QED
  BY <1>1, <1>2 DEF UnknownInv

(* A message that names a tag, or none of a class, is handed over ...      *)
LEMMA UnknownOut ==
  ASSUME TypeInv, UnknownInv, [LifecycleStep]_stateVars,
         UNCHANGED <<curMsgGrp, agentPc, current, seenTag>>,
         NEW m \in Messages, out' = Append(out, m), \A c \in Classes : ~Unknown(m, c)
  PROVE  UnknownInv'
<1>1. out' \in Seq(Messages)
  BY AppendFacts DEF UnknownInv, MessageInv
<1>2. MessageInv'
  BY <1>1, ClassTagKept DEF UnknownInv, MessageInv, ScanLabels
<1>3. ASSUME NEW c \in Classes PROVE UnknownOf(c)'
  <2>1. /\ Silent(out, c) => Silent(out, c)'
        /\ Once(out, c) => Once(out, c)'
    <3>1. /\ Silent(out, c) => Silent(Append(out, m), c)
          /\ Once(out, c) => Once(Append(out, m), c)
      BY <1>3, AppendFacts DEF UnknownInv, MessageInv
    <3> QED
      BY <3>1 DEF Silent, Once
  <2>2. /\ Silent(curMsgGrp, c) => Silent(curMsgGrp, c)'
        /\ Once(curMsgGrp, c) => Once(curMsgGrp, c)'
        /\ AtHand(c)' => AtHand(c)
        /\ (tag[c] = 0)' => tag[c] = 0
    BY <1>3, ClassTagKept DEF AtHand, Silent, Once
  <2> QED
    BY <1>3, <2>1, <2>2 DEF UnknownInv, UnknownOf
<1> QED
  BY <1>2, <1>3 DEF UnknownInv

LEMMA UnknownTrack ==
  ASSUME TypeInv, UnknownInv, NEW t \in Trackers, Track(t), [LifecycleStep]_stateVars
  PROVE  UnknownInv'
<1>1. lastTag \in Nat \ {0} /\ classTag[t] \in Nat
  BY DEF TypeInv, StateTypeOK, TypeOK
<1>2. CASE GetTag(t) \/ ReadLast(t) \/ WriteLast(t) \/ SetTag(t)
  BY <1>2, UnknownFrame DEF GetTag, ReadLast, WriteLast, SetTag, agentVars
<1>3. CASE ReportClass(t)
  <2>1. subject[t] \in Classes /\ out' = Append(out, ClassMessage(subject[t], lastTag))
    BY <1>3 DEF ReportClass, IsClass
  <2>2. UNCHANGED <<curMsgGrp, agentPc, current, seenTag>>
    BY <1>3 DEF ReportClass, agentVars
  <2> QED
    BY <1>1, <2>1, <2>2, MessageFacts, UnknownOut
<1>4. CASE ReportObject(t)
  <2>1. out' = Append(out, ObjectMessage(lastTag, classTag[t]))
    BY <1>4 DEF ReportObject
  <2>2. UNCHANGED <<curMsgGrp, agentPc, current, seenTag>>
    BY <1>4 DEF ReportObject, agentVars
  <2> QED
    BY <1>1, <2>1, <2>2, MessageFacts, UnknownOut
<1> QED
  BY <1>2, <1>3, <1>4 DEF Track

LEMMA UnknownFree ==
  ASSUME TypeInv, UnknownInv, NEW o \in Objects, Free(o), [LifecycleStep]_stateVars
  PROVE  UnknownInv'
<1>1. tag[o] \in Nat
  BY DEF TypeInv, StateTypeOK, TypeOK, Entities
<1>2. UNCHANGED <<curMsgGrp, agentPc, current, seenTag>>
  BY DEF Free, ObjectFree, agentVars
<1>3. CASE out' = out
  BY <1>2, <1>3, UnknownFrame
<1>4. CASE out' = Append(out, FreeMessage(tag[o]))
  BY <1>1, <1>2, <1>4, MessageFacts, UnknownOut
<1> QED
  BY <1>3, <1>4 DEF Free, ObjectFree

(* ... the scan is not at a class ...                                      *)
LEMMA UnknownQuiet ==
  ASSUME TypeInv, UnknownInv, [LifecycleStep]_stateVars, UNCHANGED <<out, curMsgGrp>>,
         agentPc' \notin ScanLabels \ {"scanning"}, agentPc' # "idle",
         agentPc' = "visiting" => current' \in Entities
  PROVE  UnknownInv'
<1>1. MessageInv'
  BY DEF UnknownInv, MessageInv, ScanLabels
<1>2. ASSUME NEW c \in Classes PROVE UnknownOf(c)'
  BY <1>2, ClassTagKept DEF UnknownInv, UnknownOf, AtHand, Once, Silent, ScanLabels
<1> QED
  BY <1>1, <1>2 DEF UnknownInv

(* ... takes up a class ...                                                *)
LEMMA UnknownGetTag ==
  ASSUME TypeInv, UnknownInv, [LifecycleStep]_stateVars, NEW c \in Classes, ScanGetTag(c)
  PROVE  UnknownInv'
<1>1. /\ agentPc' = IF tag[c] = 0 THEN "scanSetTag" ELSE "scanReport"
      /\ current' = c /\ seenTag' = tag[c]
      /\ UNCHANGED <<out, curMsgGrp, tag>>
  BY DEF ScanGetTag
<1>2. MessageInv'
  BY <1>1 DEF UnknownInv, MessageInv, ScanLabels
<1>3. ASSUME NEW d \in Classes PROVE UnknownOf(d)'
  <2>1. AtHand(d)' => tag[d] = 0
    BY <1>1 DEF AtHand
  <2> QED
    BY <1>1, <1>3, <2>1 DEF UnknownInv, UnknownOf, Once, Silent
<1> QED
  BY <1>2, <1>3 DEF UnknownInv

(* ... and tags it ...                                                     *)
LEMMA UnknownSetTag ==
  ASSUME TypeInv, UnknownInv, [LifecycleStep]_stateVars,
         ScanSetTag \/ ScanReadLast \/ ScanWriteLast
  PROVE  UnknownInv'
<1>1. /\ agentPc \in {"scanSetTag", "scanReadLast", "scanWriteLast"}
      /\ agentPc' \in {"scanReadLast", "scanWriteLast", "scanReport"}
      /\ UNCHANGED <<out, curMsgGrp, current, seenTag>>
  BY DEF ScanSetTag, ScanReadLast, ScanWriteLast, AgentGoto
<1>2. current \in Classes /\ current \in Entities
  BY <1>1 DEF UnknownInv, MessageInv, ScanLabels, Entities
<1>3. tag'[current] # 0
  <2>1. CASE ScanSetTag
    BY <1>2, <2>1 DEF ScanSetTag, TypeInv, StateTypeOK, TypeOK
  <2>2. CASE ScanReadLast \/ ScanWriteLast
    BY <2>2 DEF ScanReadLast, ScanWriteLast, AgentGoto, UnknownInv, MessageInv
  <2> QED
    BY <2>1, <2>2
<1>4. MessageInv'
  BY <1>1, <1>2, <1>3 DEF UnknownInv, MessageInv
<1>5. ASSUME NEW c \in Classes PROVE UnknownOf(c)'
  <2>1. AtHand(c)' => AtHand(c)
    BY <1>1 DEF AtHand
  <2> QED
    BY <1>1, <1>5, <2>1, ClassTagKept DEF UnknownInv, UnknownOf, Once, Silent
<1> QED
  BY <1>4, <1>5 DEF UnknownInv

(* ... and reports it.                                                     *)
LEMMA UnknownReport ==
  ASSUME TypeInv, UnknownInv, ScanReport
  PROVE  UnknownInv'
<1> DEFINE m == ClassMessage(current, seenTag)
<1>1. /\ agentPc = "scanReport" /\ agentPc' = "scanning"
      /\ curMsgGrp' = Append(curMsgGrp, m)
      /\ UNCHANGED <<out, tag>>
  BY DEF ScanReport, AgentGoto
<1>2. /\ current \in Classes /\ tag[current] # 0
      /\ seenTag \in Nat /\ curMsgGrp \in Seq(Messages)
  BY <1>1 DEF UnknownInv, MessageInv, ScanLabels, TypeInv, StateTypeOK, TypeOK
<1>3. m \in Messages
  BY <1>2, MessageFacts
<1>4. MessageInv'
  BY <1>1, <1>2, <1>3, AppendFacts DEF UnknownInv, MessageInv, ScanLabels
<1>5. ASSUME NEW c \in Classes PROVE UnknownOf(c)'
  <2>1. ~AtHand(c)'
    BY <1>1 DEF AtHand
  <2>2. UnknownOf(c)
    BY <1>5 DEF UnknownInv
  <2>3. /\ Silent(out, c)' <=> Silent(out, c)
        /\ Once(out, c)' <=> Once(out, c)
    BY <1>1 DEF Silent, Once
  <2>4. /\ Silent(curMsgGrp, c)' <=> Silent(Append(curMsgGrp, m), c)
        /\ Once(curMsgGrp, c)' <=> Once(Append(curMsgGrp, m), c)
    BY <1>1 DEF Silent, Once
  <2> HIDE DEF m
  <2>5. CASE ~Unknown(m, c) /\ tag'[c] = 0
    <3>1. /\ Silent(curMsgGrp, c) => Silent(Append(curMsgGrp, m), c)
          /\ Once(curMsgGrp, c) => Once(Append(curMsgGrp, m), c)
      BY <1>2, <1>3, <2>5, AppendFacts
    <3>2. tag[c] = 0
      BY <1>1, <2>5
    <3> QED
      BY <2>2, <2>3, <2>4, <3>1, <3>2 DEF UnknownOf
  <2>6. CASE ~Unknown(m, c) /\ tag'[c] # 0
    <3>1. /\ Silent(curMsgGrp, c) => Silent(Append(curMsgGrp, m), c)
          /\ Once(curMsgGrp, c) => Once(Append(curMsgGrp, m), c)
      BY <1>2, <1>3, <2>6, AppendFacts
    <3> QED
      BY <2>1, <2>2, <2>3, <2>4, <2>6, <3>1 DEF UnknownOf
  <2>7. CASE Unknown(m, c)
    <3>1. c = current /\ seenTag = 0
      BY <2>7, MessageFacts DEF m
    <3>2. AtHand(c)
      BY <1>1, <3>1 DEF AtHand
    <3>3. Silent(out, c) /\ Once(out, c) /\ Silent(curMsgGrp, c)
      BY <2>2, <3>2 DEF UnknownOf
    <3>4. Once(Append(curMsgGrp, m), c)
      BY <1>2, <1>3, <3>3, AppendFacts
    <3>5. tag'[c] # 0
      BY <1>1, <1>2, <3>1
    <3> QED
      BY <2>1, <2>3, <2>4, <3>3, <3>4, <3>5 DEF UnknownOf
  <2> QED
    BY <2>5, <2>6, <2>7
<1> QED
  BY <1>4, <1>5 DEF UnknownInv

LEMMA UnknownVisit ==
  ASSUME TypeInv, UnknownInv, [LifecycleStep]_stateVars, VisitWrite
  PROVE  UnknownInv'
<1> DEFINE m == ObjectMessage(agentRegister, tag[ClassOf[current]])
<1>1. /\ agentPc' = "following"
      /\ curMsgGrp' = Append(curMsgGrp, m)
      /\ UNCHANGED out
  BY DEF VisitWrite, AgentGoto
<1>2. curMsgGrp \in Seq(Messages) /\ m \in Messages
  <2>1. current \in Entities
    BY DEF VisitWrite, AgentGoto, UnknownInv, MessageInv
  <2>2. tag[ClassOf[current]] \in Nat /\ agentRegister \in Nat
    BY <2>1, TagsAssumption DEF TypeInv, StateTypeOK, TypeOK, Entities
  <2> QED
    BY <2>2, MessageFacts DEF UnknownInv, MessageInv
<1>3. MessageInv'
  BY <1>1, <1>2, AppendFacts DEF UnknownInv, MessageInv, ScanLabels
<1>4. ASSUME NEW c \in Classes PROVE UnknownOf(c)'
  <2>1. ~AtHand(c)' /\ ((tag[c] = 0)' => tag[c] = 0)
    BY <1>1, <1>4, ClassTagKept DEF AtHand
  <2>2. ~Unknown(m, c)
    BY MessageFacts
  <2>3. UnknownOf(c)
    BY <1>4 DEF UnknownInv
  <2>4. /\ Silent(out, c)' <=> Silent(out, c)
        /\ Once(out, c)' <=> Once(out, c)
        /\ Silent(curMsgGrp, c)' <=> Silent(Append(curMsgGrp, m), c)
        /\ Once(curMsgGrp, c)' <=> Once(Append(curMsgGrp, m), c)
    BY <1>1 DEF Silent, Once
  <2> HIDE DEF m
  <2>5. /\ Silent(curMsgGrp, c) => Silent(Append(curMsgGrp, m), c)
        /\ Once(curMsgGrp, c) => Once(Append(curMsgGrp, m), c)
    BY <1>2, <2>2, AppendFacts
  <2> QED
    BY <2>1, <2>3, <2>4, <2>5 DEF UnknownOf
<1> QED
  BY <1>3, <1>4 DEF UnknownInv

LEMMA UnknownFlush ==
  ASSUME TypeInv, UnknownInv, [LifecycleStep]_stateVars, Flush
  PROVE  UnknownInv'
<1>1. /\ agentPc' = "idle" /\ curMsgGrp' = <<>> /\ out' = out \o curMsgGrp
  BY DEF Flush, FlushMsgGrp, AgentGoto
<1>2. out \in Seq(Messages) /\ curMsgGrp \in Seq(Messages)
  BY DEF UnknownInv, MessageInv
<1>3. MessageInv'
  BY <1>1, <1>2, ConcatFacts DEF MessageInv, ScanLabels
<1>4. ASSUME NEW c \in Classes PROVE UnknownOf(c)'
  <2>1. ~AtHand(c)' /\ ((tag[c] = 0)' => tag[c] = 0)
    BY <1>1, <1>4, ClassTagKept DEF AtHand
  <2>2. /\ Silent(out, c)' <=> Silent(out \o curMsgGrp, c)
        /\ Once(out, c)' <=> Once(out \o curMsgGrp, c)
        /\ Silent(curMsgGrp, c)' /\ Once(curMsgGrp, c)'
    BY <1>1 DEF Silent, Once
  <2>3. UnknownOf(c)
    BY <1>4 DEF UnknownInv
  <2> QED
    BY <1>2, <2>1, <2>2, <2>3, ConcatFacts DEF UnknownOf
<1> QED
  BY <1>3, <1>4 DEF UnknownInv

LEMMA UnknownStep ==
  ASSUME TypeInv, UnknownInv, [LifecycleStep]_stateVars
  PROVE  UnknownInv'
<1>1. CASE OnLoad \/ MainStep \/ UNCHANGED stateVars
  BY <1>1, UnknownFrame, LifeOnly DEF MainStep, NewThread, Construct, Appear,
     stateVars, tagVars, agentVars
<1>2. ASSUME NEW t \in Trackers,
             \/ \E c \in Classes : BeginLoad(t, c)
             \/ EnterHook(t) \/ ExitHook(t)
             \/ ConstructUntracked(t) \/ ConstructTracked(t)
      PROVE  UnknownInv'
  BY <1>2, UnknownFrame DEF BeginLoad, EnterHook, ExitHook, ConstructUntracked,
     ConstructTracked, Construct, Appear, tagVars, agentVars
<1>3. CASE BeginScan \/ BeginFollow
  <2>1. /\ agentPc = "idle" /\ agentPc' \in {"scanning", "following"}
        /\ curMsgGrp' = <<>> /\ out' = out
    BY <1>3 DEF BeginScan, Scan, BeginFollow, StartFollow, AgentGoto
  <2>2. curMsgGrp' = curMsgGrp
    BY <2>1 DEF UnknownInv, MessageInv
  <2> QED
    BY <2>1, <2>2, UnknownQuiet DEF ScanLabels
<1>4. CASE EndScan \/ EndWalk(Present)
  BY <1>4, UnknownQuiet DEF EndScan, EndWalk, AgentGoto, ScanLabels
<1>5. CASE \E e \in Present : VisitRead(e)
  <2>1. PICK e \in Present : VisitRead(e)
    BY <1>5
  <2>2. e \in Entities
    BY DEF Present, Entities, TypeInv, StateTypeOK
  <2> QED
    BY <2>1, <2>2, UnknownQuiet DEF VisitRead, AgentGoto, ScanLabels
<1>6. CASE ScanOrWalk
  BY <1>4, <1>5, <1>6, UnknownGetTag, UnknownSetTag, UnknownReport, UnknownVisit DEF ScanOrWalk
<1> QED
  BY <1>1, <1>2, <1>3, <1>6, UnknownTrack, UnknownFree, UnknownFlush
     DEF LifecycleStep, AgentThreadStep, Progress

-----------------------------------------------------------------------------
LEMMA InductiveInit == LifecycleInit => IInv
<1> SUFFICES ASSUME LifecycleInit PROVE IInv
  OBVIOUS
<1>1. StartInv /\ TrackInv /\ OrphanInv
  BY DEF LifecycleInit, Init, StartInv, TrackInv, Tracks, OrphanInv, Orphan
<1> QED
  BY <1>1, TypeInit DEF IInv

LEMMA InductiveStep == IInv /\ [LifecycleStep]_stateVars => IInv'
  BY TypeStep, StartStep, TrackStep, OrphanStep DEF IInv

LEMMA StepOfNext == [LifecycleNext]_vars => [LifecycleStep]_stateVars
  BY Zenon DEF LifecycleNext, vars

LEMMA UnknownInit == LifecycleInit => UnknownInv
<1> SUFFICES ASSUME LifecycleInit PROVE UnknownInv
  OBVIOUS
<1>1. out = <<>> /\ curMsgGrp = <<>> /\ agentPc = "idle"
  BY DEF LifecycleInit, Init
<1> QED
  BY <1>1 DEF UnknownInv, MessageInv, UnknownOf, Once, Silent, AtHand, ScanLabels

HistoryTypeOK ==
  /\ overlapped \in BOOLEAN
  /\ scanned \in SUBSET Classes
  /\ walked \in SUBSET (Entities \X Nat)

LEMMA HistoryInit == LifecycleInit => HistoryTypeOK
  BY DEF LifecycleInit, HistoryTypeOK

LEMMA HistoryStep ==
  ASSUME TypeInv, MessageInv, HistoryTypeOK, [LifecycleNext]_vars
  PROVE  HistoryTypeOK'
<1>1. CASE UNCHANGED vars
  BY <1>1 DEF vars, historyVars, HistoryTypeOK
<1>2. CASE Record
  <2>1. overlapped' \in BOOLEAN
    BY <1>2, Zenon DEF Record, Overlap
  <2>2. scanned' \in SUBSET Classes
    BY <1>2 DEF Record, HistoryTypeOK, MessageInv, ScanLabels
  <2>3. walked' \in SUBSET (Entities \X Nat)
    <3>1. agentRegister \in Nat /\ (agentPc = "visiting" => current \in Entities)
      BY DEF MessageInv, TypeInv, StateTypeOK, TypeOK
    <3> QED
      BY <1>2, <3>1 DEF Record, HistoryTypeOK
  <2> QED
    BY <2>1, <2>2, <2>3, Zenon DEF HistoryTypeOK
<1> QED
  BY <1>1, <1>2 DEF LifecycleNext

(* Every reachable state is well typed.                                    *)
THEOREM TypeCorrect == LifecycleSpec => []LifecycleTypeOK
<1>1. TypeInv /\ HistoryTypeOK => LifecycleTypeOK
  BY Zenon DEF TypeInv, StateTypeOK, HistoryTypeOK, LifecycleTypeOK
<1>2. UnknownInv => MessageInv
  BY DEF UnknownInv
<1> QED
  BY <1>1, <1>2, StepOfNext, TypeInit, TypeStep, UnknownInit, UnknownStep, HistoryInit,
     HistoryStep, PTL DEF LifecycleSpec

(* No constructor calls the native method before onVMStart has bound it,   *)
(* on whatever thread it runs.                                             *)
THEOREM NativeIsBound == LifecycleSpec => []NativeBound
<1>1. IInv => NativeBound
  BY DEF IInv, TrackInv, Tracks, NativeBound
<1> QED
  BY <1>1, InductiveInit, InductiveStep, StepOfNext, PTL DEF LifecycleSpec

(* When the agent has begun to serve its client, every object in use has   *)
(* a tag or is being tracked.                                              *)
THEOREM InstancesTagged == LifecycleSpec => []EveryInstanceTagged
<1>1. IInv => EveryInstanceTagged
  <2> SUFFICES ASSUME IInv, stage = "serve", NEW o \in Objects
               PROVE  ~Orphan(o)
    BY DEF EveryInstanceTagged, Orphan
  <2> QED
    BY DEF IInv, OrphanInv, Awaited
<1> QED
  BY <1>1, InductiveInit, InductiveStep, StepOfNext, PTL DEF LifecycleSpec

(* A class is reported without its tag once at the most, for any number    *)
(* of scans and whatever tracking threads tag beside them.                 *)
THEOREM ReportedUnknownOnce == LifecycleSpec => []UnknownOnce
<1>2. UnknownInv => UnknownOnce
  <2> SUFFICES ASSUME UnknownInv, NEW i \in DOMAIN out, NEW j \in DOMAIN out,
                      out[i].code = CLASS_TAG, out[j].code = CLASS_TAG,
                      out[i].class = out[j].class, out[i].tag = 0, out[j].tag = 0
               PROVE  i = j
    BY DEF UnknownOnce
  <2>1. out[i] \in Messages
    BY DEF UnknownInv, MessageInv
  <2>2. out[i].class \in Classes
    BY <2>1 DEF Messages, CLASS_TAG, OBJECT_TAG, DEALLOCATE_OBJECT
  <2>3. Once(out, out[i].class)
    BY <2>2 DEF UnknownInv, UnknownOf
  <2> QED
    BY <2>3 DEF Once, Unknown
<1> QED
  BY <1>2, StepOfNext, TypeInit, TypeStep, UnknownInit, UnknownStep, PTL DEF LifecycleSpec

-----------------------------------------------------------------------------
(* While no two draw at the same time, who draws has lastTag for itself:   *)
(* what it has read is still true when it writes.                          *)
TrackerDraws(t) ==
  /\ pc[t] = "writeLast" => register[t] = lastTag
  /\ pc[t] \in {"readLast", "writeLast", "setTag"} => tag[subject[t]] = 0
  /\ pc[t] = "setTag" => \A e \in Entities : tag[e] < lastTag

AgentDraws ==
  /\ agentPc \in {"scanWriteLast", "visiting"} => agentRegister = lastTag
  /\ agentPc \in {"scanSetTag", "visiting"} => tag[current] = 0

(* No tag is above lastTag, and what the agent gave is below it, as soon   *)
(* as the scan has incremented it.                                         *)
Given(e) ==
  /\ tag[e] <= lastTag
  /\ ByAgent(e) => \/ tag[e] < lastTag
                   \/ agentPc \in {"scanReadLast", "scanWriteLast"} /\ e = current

Remembered ==
  /\ \A c \in scanned : tag[c] # 0
  /\ \A e \in Entities, n \in Nat : <<e, n>> \in walked => n < lastTag

Across ==
  \A e, f \in Entities :
    e # f /\ tag[e] # 0 /\ tag[e] = tag[f] => (ByAgent(e) # ByAgent(f))

Sharing ==
  /\ \A t \in Trackers : TrackerDraws(t)
  /\ AgentDraws
  /\ \A e \in Entities : Given(e)
  /\ Remembered
  /\ Across

SharingInv ==
  /\ Overlap => overlapped
  /\ ~overlapped => Sharing

(* What the steps below have in common.                                    *)
Alone ==
  /\ TypeInv /\ TrackInv /\ MessageInv /\ HistoryTypeOK /\ Sharing
  /\ Record /\ ~Overlap /\ ~Overlap'

LEMMA SharingFrame ==
  ASSUME Alone, UNCHANGED <<tag, lastTag, agentPc, current, agentRegister>>,
         \A t \in Trackers : TrackerDraws(t)'
  PROVE  Sharing'
<1>1. scanned' = scanned /\ walked' = walked
  BY DEF Alone, Record
<1>2. \A e : ByAgent(e)' = ByAgent(e)
  BY <1>1 DEF ByAgent
<1> QED
  BY <1>1, <1>2 DEF Alone, Sharing, AgentDraws, Given, Remembered, Across

LEMMA DrawsFrame ==
  ASSUME Alone, NEW u \in Trackers,
         UNCHANGED <<tag, lastTag>>, pc'[u] = pc[u], register'[u] = register[u],
         subject'[u] = subject[u]
  PROVE  TrackerDraws(u)'
  BY DEF Alone, Sharing, TrackerDraws

LEMMA SharingTrack ==
  ASSUME Alone, NEW t \in Trackers, Track(t) \/ Constructs(t)
  PROVE  Sharing'
<1>1. /\ pc \in [Trackers -> TrackerLabels]
      /\ register \in [Trackers -> Nat]
      /\ allocatedObj \in [Trackers -> Objects \cup {Nothing}]
      /\ subject \in [Trackers -> Entities \cup {Nothing}]
      /\ tag \in [Entities -> Nat] /\ lastTag \in Nat
      /\ TrackerDraws(t) /\ Tracks(t)
  BY DEF Alone, TypeInv, StateTypeOK, TypeOK, Sharing, TrackInv
<1>2. UNCHANGED <<agentPc, current, agentRegister>>
  BY DEF Track, GetTag, ReadLast, WriteLast, SetTag, ReportClass, ReportObject,
     Constructs, Construct, agentVars
<1>3. ASSUME NEW u \in Trackers, u # t
      PROVE  /\ pc'[u] = pc[u] /\ register'[u] = register[u] /\ subject'[u] = subject[u]
  BY <1>1, <1>3 DEF Track, GetTag, ReadLast, WriteLast, SetTag, ReportClass, ReportObject, Step,
     Constructs, Construct
<1>4. ASSUME UNCHANGED <<tag, lastTag>>, TrackerDraws(t)' PROVE Sharing'
  BY <1>2, <1>3, <1>4, SharingFrame, DrawsFrame
<1>5. CASE GetTag(t)
  BY <1>1, <1>4, <1>5 DEF GetTag, TrackerDraws
<1>6. CASE ReadLast(t)
  BY <1>1, <1>4, <1>6 DEF ReadLast, Step, TrackerDraws
<1>7. CASE ReportClass(t) \/ ReportObject(t)
  BY <1>1, <1>4, <1>7 DEF ReportClass, ReportObject, TrackerDraws
<1>8. CASE Constructs(t)
  BY <1>1, <1>4, <1>8 DEF Constructs, Construct, Step, TrackerDraws
<1>9. scanned' = scanned /\ walked' = walked
  BY <1>2 DEF Alone, Record
<1>10. CASE Drawing(t)
  <2>1. \A u \in Trackers : u # t => ~Drawing(u)
    BY <1>10 DEF Alone, Overlap
  <2>2. agentPc \notin {"scanSetTag", "scanReadLast", "scanWriteLast", "visiting"}
    BY <1>10 DEF Alone, Overlap, AgentDrawing
  <2>3. \A u \in Trackers : u # t => TrackerDraws(u)'
    BY <1>3, <2>1 DEF Drawing, TrackerDraws
  <2>4. AgentDraws'
    BY <1>2, <2>2 DEF AgentDraws
  <2>5. \A e \in Entities : Given(e) /\ (ByAgent(e) => tag[e] < lastTag)
    BY <2>2 DEF Alone, Sharing, Given
  <2>6. Remembered /\ Across
    BY DEF Alone, Sharing
  <2>7. CASE WriteLast(t)
    <3>1. /\ lastTag' = lastTag + 1 /\ tag' = tag
          /\ pc'[t] = "setTag" /\ subject' = subject
          /\ tag[subject[t]] = 0
      BY <1>1, <2>7 DEF WriteLast, Step, TrackerDraws
    <3>2. \A e \in Entities : tag'[e] < lastTag'
      BY <1>1, <2>5, <3>1 DEF Given
    <3>3. TrackerDraws(t)'
      BY <3>1, <3>2 DEF TrackerDraws
    <3>4. \A e \in Entities : Given(e)'
      BY <1>1, <3>1, <3>2 DEF Given
    <3>5. Remembered'
      BY <1>1, <1>9, <2>6, <3>1 DEF Remembered
    <3>6. Across'
      BY <1>9, <2>6, <3>1 DEF Across, ByAgent
    <3> QED
      BY <2>3, <2>4, <3>3, <3>4, <3>5, <3>6 DEF Sharing
  <2>8. CASE SetTag(t)
    <3>1. PICK s \in Entities :
            /\ tag[s] = 0 /\ \A e \in Entities : tag[e] < lastTag
            /\ tag' = [tag EXCEPT ![s] = lastTag] /\ lastTag' = lastTag
            /\ pc'[t] = "report"
      BY <1>1, <2>8 DEF SetTag, Step, TrackerDraws, Tracks, Entities
    <3>2. \A e \in Entities : tag'[e] = IF e = s THEN lastTag ELSE tag[e]
      BY <1>1, <3>1
    <3>3. ~ByAgent(s)'
      <4>1. s \notin scanned
        BY <2>6, <3>1 DEF Remembered
      <4>2. <<s, lastTag>> \notin walked
        BY <1>1, <2>6, <3>1 DEF Remembered
      <4> QED
        BY <1>9, <3>1, <3>2, <4>1, <4>2 DEF ByAgent
    <3>4. \A e \in Entities : e # s => ByAgent(e)' = ByAgent(e)
      BY <1>9, <3>2 DEF ByAgent
    <3>5. TrackerDraws(t)'
      BY <3>1 DEF TrackerDraws
    <3>6. \A e \in Entities : Given(e)'
      BY <1>1, <2>5, <3>1, <3>2, <3>3, <3>4 DEF Given
    <3>7. Remembered'
      BY <1>1, <1>9, <2>6, <3>1, <3>2, TagsAssumption DEF Remembered, Entities,
         Alone, HistoryTypeOK, TypeInv, StateTypeOK, TypeOK
    <3>8. Across'
      BY <1>1, <2>6, <3>1, <3>2, <3>4 DEF Across
    <3> QED
      BY <2>3, <2>4, <3>5, <3>6, <3>7, <3>8 DEF Sharing
  <2> QED
    BY <1>5, <1>6, <1>7, <1>8, <2>7, <2>8 DEF Track
<1>11. CASE WriteLast(t) \/ SetTag(t)
  BY <1>10, <1>11 DEF WriteLast, SetTag, Step, Drawing
<1> QED
  BY <1>5, <1>6, <1>7, <1>8, <1>11 DEF Track

LEMMA SharingFree ==
  ASSUME Alone, NEW o \in Objects, Free(o)
  PROVE  Sharing'
<1>1. /\ tag \in [Entities -> Nat] /\ lastTag \in Nat \ {0}
      /\ o \in Entities /\ o \notin Classes
      /\ tag' = [tag EXCEPT ![o] = 0]
      /\ UNCHANGED <<lastTag, pc, subject, register, agentPc, current, agentRegister>>
  BY TagsAssumption DEF Alone, TypeInv, StateTypeOK, TypeOK, Free, ObjectFree, Entities,
     trackerVars, agentVars
<1>2. \A e \in Entities : tag'[e] = IF e = o THEN 0 ELSE tag[e]
  BY <1>1
<1>3. scanned' = scanned /\ walked' = walked /\ scanned \subseteq Classes
  BY <1>1 DEF Alone, Record, HistoryTypeOK
<1>4. \A e \in Entities : e # o => ByAgent(e)' = ByAgent(e)
  BY <1>2, <1>3 DEF ByAgent
<1>5. Sharing
  BY DEF Alone
<1>6. ASSUME NEW t \in Trackers PROVE TrackerDraws(t)'
  <2>1. ASSUME pc[t] \in {"readLast", "writeLast", "setTag"} PROVE tag'[subject[t]] = 0
    <3>1. subject[t] \in Entities /\ tag[subject[t]] = 0
      BY <1>5, <1>6, <2>1, TagsAssumption
         DEF Sharing, TrackerDraws, Alone, TrackInv, Tracks, Entities
    <3> QED
      BY <1>2, <3>1
  <2> QED
    BY <1>1, <1>2, <1>5, <1>6, <2>1 DEF Sharing, TrackerDraws
<1>7. AgentDraws'
  <2>1. agentPc \in {"scanSetTag", "visiting"} => current \in Entities
    BY DEF Alone, MessageInv, ScanLabels, Entities
  <2> QED
    BY <1>1, <1>2, <1>5, <2>1 DEF Sharing, AgentDraws
<1>8. \A e \in Entities : Given(e)'
  BY <1>1, <1>2, <1>4, <1>5 DEF Sharing, Given
<1>9. Remembered'
  BY <1>1, <1>2, <1>3, <1>5 DEF Sharing, Remembered, Entities
<1>10. Across'
  BY <1>2, <1>4, <1>5 DEF Sharing, Across
<1> QED
  BY <1>6, <1>7, <1>8, <1>9, <1>10 DEF Sharing

(* While the agent draws, no tracking thread does.                         *)
LEMMA NobodyDraws ==
  ASSUME Alone, UNCHANGED trackerVars, AgentDrawing \/ AgentDrawing'
  PROVE  \A t \in Trackers : TrackerDraws(t)'
<1> SUFFICES ASSUME NEW t \in Trackers PROVE ~Drawing(t)'
  BY DEF TrackerDraws, Drawing
<1>1. Drawing(t)' = Drawing(t)
  BY DEF Drawing, trackerVars
<1> QED
  BY <1>1 DEF Alone, Overlap

LEMMA SharingAgent ==
  ASSUME Alone, ScanOrWalk
  PROVE  Sharing'
<1>1. /\ tag \in [Entities -> Nat] /\ lastTag \in Nat \ {0} /\ agentRegister \in Nat
      /\ scanned \subseteq Classes /\ walked \subseteq Entities \X Nat
      /\ Classes \subseteq Entities
      /\ agentPc \in {"scanSetTag", "visiting"} => current \in Entities
      /\ agentPc = "scanSetTag" => current \in Classes
  BY DEF Alone, TypeInv, StateTypeOK, TypeOK, HistoryTypeOK, MessageInv, ScanLabels, Entities
<1>2. UNCHANGED trackerVars
  BY DEF ScanOrWalk, ScanGetTag, ScanSetTag, ScanReadLast, ScanWriteLast, ScanReport, EndScan,
     VisitRead, VisitWrite, EndWalk
<1>3. Sharing
  BY DEF Alone
<1>4. ASSUME UNCHANGED <<tag, lastTag>> PROVE \A t \in Trackers : TrackerDraws(t)'
  BY <1>2, <1>4, DrawsFrame DEF trackerVars
<1>5. ASSUME agentPc \notin {"scanSetTag", "visiting"} PROVE scanned' = scanned /\ walked' = walked
  BY <1>5 DEF Alone, Record
<1>6. ASSUME UNCHANGED <<tag, lastTag>>, agentPc \notin {"scanSetTag", "visiting"},
             AgentDraws', \A e \in Entities : Given(e)'
      PROVE  Sharing'
  BY <1>3, <1>4, <1>5, <1>6 DEF Sharing, Remembered, Across, ByAgent
<1>7. ASSUME NEW c \in Classes, ScanGetTag(c) PROVE Sharing'
  <2>1. /\ UNCHANGED <<tag, lastTag>> /\ agentPc = "scanning"
        /\ agentPc' \in {"scanSetTag", "scanReport"}
        /\ agentPc' = "scanSetTag" => tag'[current'] = 0
    BY <1>7 DEF ScanGetTag
  <2>2. \A e \in Entities : Given(e)'
    BY <1>3, <1>5, <2>1 DEF Sharing, Given, ByAgent
  <2> QED
    BY <1>6, <2>1, <2>2 DEF AgentDraws
<1>8. CASE ScanSetTag
  <2>1. /\ agentPc = "scanSetTag" /\ agentPc' = "scanReadLast"
        /\ tag' = [tag EXCEPT ![current] = lastTag]
        /\ UNCHANGED <<lastTag, current>>
    BY <1>8 DEF ScanSetTag, AgentGoto
  <2>2. PICK s \in Classes : s = current
    BY <1>1, <2>1
  <2>3. /\ scanned' = scanned \cup {s} /\ walked' = walked
        /\ tag[s] = 0 /\ s \in Entities
    BY <1>1, <1>3, <2>1, <2>2 DEF Alone, Record, Sharing, AgentDraws
  <2>4. \A e \in Entities : tag'[e] = IF e = s THEN lastTag ELSE tag[e]
    BY <1>1, <2>1, <2>2
  <2>5. /\ ByAgent(s)'
        /\ \A e \in Entities : e # s => ByAgent(e)' = ByAgent(e)
    BY <2>3, <2>4 DEF ByAgent
  <2>6. \A t \in Trackers : TrackerDraws(t)'
    BY <1>2, <2>1, NobodyDraws DEF AgentDrawing
  <2>7. AgentDraws'
    BY <2>1 DEF AgentDraws
  <2>8. \A e \in Entities : Given(e) /\ (ByAgent(e) => tag[e] < lastTag)
    BY <1>3, <2>1 DEF Sharing, Given
  <2>9. \A e \in Entities : Given(e)'
    <3> SUFFICES ASSUME NEW e \in Entities PROVE Given(e)'
      OBVIOUS
    <3>1. CASE e = s
      BY <1>1, <2>1, <2>2, <2>4, <3>1 DEF Given
    <3>2. CASE e # s
      BY <2>1, <2>4, <2>5, <2>8, <3>2 DEF Given
    <3> QED
      BY <3>1, <3>2
  <2>10. Remembered'
    BY <1>1, <1>3, <2>1, <2>3, <2>4 DEF Sharing, Remembered
  <2>11. Across'
    <3>1. \A f \in Entities : f # s /\ ByAgent(f)' => tag'[f] # lastTag
      BY <1>1, <2>4, <2>5, <2>8
    <3>2. Across
      BY <1>3 DEF Sharing
    <3> QED
      BY <2>3, <2>4, <2>5, <3>1, <3>2 DEF Across
  <2> QED
    BY <2>6, <2>7, <2>9, <2>10, <2>11 DEF Sharing
<1>9. CASE ScanReadLast
  <2>1. /\ UNCHANGED <<tag, lastTag, current>>
        /\ agentPc = "scanReadLast" /\ agentPc' = "scanWriteLast" /\ agentRegister' = lastTag
    BY <1>9 DEF ScanReadLast, AgentGoto
  <2>2. \A e \in Entities : Given(e)'
    BY <1>3, <1>5, <2>1 DEF Sharing, Given, ByAgent
  <2> QED
    BY <1>6, <2>1, <2>2 DEF AgentDraws
<1>10. CASE ScanWriteLast
  <2>1. /\ agentPc = "scanWriteLast" /\ agentPc' = "scanReport"
        /\ lastTag' = lastTag + 1 /\ tag' = tag
    BY <1>3, <1>10 DEF ScanWriteLast, AgentGoto, Sharing, AgentDraws
  <2>2. scanned' = scanned /\ walked' = walked
    BY <1>5, <2>1
  <2>3. \A t \in Trackers : TrackerDraws(t)'
    BY <1>2, <2>1, NobodyDraws DEF AgentDrawing
  <2>4. AgentDraws'
    BY <2>1 DEF AgentDraws
  <2>5. \A e \in Entities : Given(e)'
    BY <1>1, <1>3, <2>1 DEF Sharing, Given
  <2>6. Remembered'
    BY <1>1, <1>3, <2>1, <2>2 DEF Sharing, Remembered
  <2>7. Across'
    BY <1>3, <2>1, <2>2 DEF Sharing, Across, ByAgent
  <2> QED
    BY <2>3, <2>4, <2>5, <2>6, <2>7 DEF Sharing
<1>11. CASE ScanReport \/ EndScan \/ EndWalk(Present)
  <2>1. /\ UNCHANGED <<tag, lastTag>>
        /\ agentPc \in {"scanReport", "scanning", "following"}
        /\ agentPc' \in {"scanning", "flush"}
    BY <1>11 DEF ScanReport, EndScan, EndWalk, AgentGoto
  <2>2. \A e \in Entities : Given(e)'
    BY <1>3, <1>5, <2>1 DEF Sharing, Given, ByAgent
  <2> QED
    BY <1>6, <2>1, <2>2 DEF AgentDraws
<1>12. CASE \E e \in Present : VisitRead(e)
  <2>1. /\ UNCHANGED <<tag, lastTag>>
        /\ agentPc = "following" /\ agentPc' = "visiting"
        /\ agentRegister' = lastTag /\ tag'[current'] = 0
    BY <1>12 DEF VisitRead, ToVisit, AgentGoto
  <2>2. \A e \in Entities : Given(e)'
    BY <1>3, <1>5, <2>1 DEF Sharing, Given, ByAgent
  <2> QED
    BY <1>6, <2>1, <2>2 DEF AgentDraws
<1>13. CASE VisitWrite
  <2>1. /\ agentPc = "visiting" /\ agentPc' = "following"
        /\ tag' = [tag EXCEPT ![current] = lastTag]
        /\ agentRegister = lastTag /\ lastTag' = lastTag + 1
    BY <1>3, <1>13 DEF VisitWrite, AgentGoto, Sharing, AgentDraws
  <2>2. PICK s \in Entities : s = current
    BY <1>1, <2>1
  <2>3. /\ scanned' = scanned /\ walked' = walked \cup {<<s, lastTag>>}
        /\ tag[s] = 0
    BY <1>1, <1>3, <2>1, <2>2 DEF Alone, Record, Sharing, AgentDraws
  <2>4. \A e \in Entities : tag'[e] = IF e = s THEN lastTag ELSE tag[e]
    BY <1>1, <2>1, <2>2
  <2>5. /\ ByAgent(s)'
        /\ \A e \in Entities : e # s => ByAgent(e)' = ByAgent(e)
    BY <2>3, <2>4 DEF ByAgent
  <2>6. \A t \in Trackers : TrackerDraws(t)'
    BY <1>2, <2>1, NobodyDraws DEF AgentDrawing
  <2>7. AgentDraws'
    BY <2>1 DEF AgentDraws
  <2>8. \A e \in Entities : Given(e) /\ (ByAgent(e) => tag[e] < lastTag)
    BY <1>3, <2>1 DEF Sharing, Given
  <2>9. \A e \in Entities : Given(e)'
    <3> SUFFICES ASSUME NEW e \in Entities PROVE Given(e)'
      OBVIOUS
    <3>1. tag'[e] < lastTag'
      BY <1>1, <2>1, <2>4, <2>8 DEF Given
    <3> QED
      BY <1>1, <2>1, <2>4, <3>1 DEF Given
  <2>10. Remembered'
    <3>1. \A c \in scanned' : tag'[c] # 0
      BY <1>1, <1>3, <2>3, <2>4 DEF Sharing, Remembered
    <3>2. \A e \in Entities, n \in Nat : <<e, n>> \in walked' => n < lastTag'
      BY <1>1, <1>3, <2>1, <2>3 DEF Sharing, Remembered
    <3> QED
      BY <3>1, <3>2 DEF Remembered
  <2>11. Across'
    <3>1. \A f \in Entities : f # s /\ ByAgent(f)' => tag'[f] # lastTag
      BY <1>1, <2>4, <2>5, <2>8
    <3>2. Across
      BY <1>3 DEF Sharing
    <3> QED
      BY <2>3, <2>4, <2>5, <3>1, <3>2 DEF Across
  <2> QED
    BY <2>6, <2>7, <2>9, <2>10, <2>11 DEF Sharing
<1> QED
  BY <1>7, <1>8, <1>9, <1>10, <1>11, <1>12, <1>13 DEF ScanOrWalk

LEMMA SharingOther ==
  ASSUME Alone,
         \/ OnLoad \/ VMStart \/ RegisterNatives \/ SetFlag \/ EndVMStart \/ VMInit
         \/ RunAgentThread \/ BeginScan \/ BeginFollow \/ Flush
         \/ \E t \in Trackers :
              \/ \E c \in Classes : BeginLoad(t, c)
              \/ EnterHook(t) \/ ExitHook(t) \/ ConstructUntracked(t)
  PROVE  Sharing'
<1>1. UNCHANGED <<tag, lastTag, current, agentRegister, trackerVars>>
  BY LifeOnly DEF tagVars, agentVars, BeginScan, Scan, BeginFollow, StartFollow, Flush,
     FlushMsgGrp, BeginLoad, EnterHook, ExitHook, ConstructUntracked, Appear
<1>2. \/ agentPc' = agentPc
      \/ agentPc \in {"idle", "flush"} /\ agentPc' \in {"scanning", "following", "idle"}
  BY LifeOnly DEF tagVars, agentVars, BeginScan, Scan, BeginFollow, StartFollow, Flush,
     FlushMsgGrp, BeginLoad, EnterHook, ExitHook, ConstructUntracked, Appear, AgentGoto
<1>3. \A t \in Trackers : TrackerDraws(t)'
  BY <1>1, DrawsFrame DEF trackerVars
<1>4. scanned' = scanned /\ walked' = walked
  BY <1>2 DEF Alone, Record
<1>5. \A e : ByAgent(e)' = ByAgent(e)
  BY <1>1, <1>4 DEF ByAgent
<1> QED
  BY <1>1, <1>2, <1>3, <1>4, <1>5 DEF Alone, Sharing, AgentDraws, Given, Remembered, Across

SharingAll == IInv /\ UnknownInv /\ HistoryTypeOK /\ SharingInv

LEMMA SharingStep ==
  ASSUME SharingAll, [LifecycleNext]_vars
  PROVE  SharingInv'
<1>1. CASE UNCHANGED vars
  BY <1>1 DEF SharingAll, SharingInv, Overlap, Drawing, AgentDrawing, Sharing, TrackerDraws,
     AgentDraws, Given, Remembered, Across, ByAgent, vars, stateVars, tagVars, trackerVars,
     agentVars, historyVars
<1>2. CASE LifecycleNext
  <2>1. Overlap' => overlapped'
    BY <1>2 DEF LifecycleNext, Record
  <2>2. ASSUME ~overlapped' PROVE Sharing'
    <3>1. ~overlapped /\ ~Overlap'
      BY <1>2, <2>2 DEF LifecycleNext, Record
    <3>2. Alone
      BY <1>2, <3>1 DEF SharingAll, SharingInv, Alone, LifecycleNext, IInv, UnknownInv
    <3>3. \A t \in Trackers : ConstructTracked(t) => Constructs(t)
      BY ConstructFacts DEF SharingAll, IInv
    <3>4. NewThread => Constructs(Main)
      BY ConstructFacts DEF SharingAll, IInv
    <3> QED
      BY <1>2, <3>2, <3>3, <3>4, SharingTrack, SharingFree, SharingAgent, SharingOther,
         LifecycleAssumption
         DEF LifecycleNext, LifecycleStep, MainStep, AgentThreadStep, Progress
  <2> QED
    BY <2>1, <2>2 DEF SharingInv
<1> QED
  BY <1>1, <1>2

LEMMA SharingInit == LifecycleInit => SharingInv
<1> SUFFICES ASSUME LifecycleInit PROVE SharingInv
  OBVIOUS
<1>1. ~Overlap
  BY DEF LifecycleInit, Init, Overlap, Drawing
<1>2. \A e \in Entities : tag[e] = 0 /\ ~ByAgent(e)
  BY DEF LifecycleInit, Init, ByAgent
<1>3. Across /\ \A e \in Entities : Given(e)
  BY <1>2 DEF Across, Given, LifecycleInit, Init
<1>4. Remembered /\ AgentDraws /\ \A t \in Trackers : TrackerDraws(t)
  BY DEF LifecycleInit, Init, Remembered, AgentDraws, TrackerDraws
<1> QED
  BY <1>1, <1>3, <1>4 DEF SharingInv, Sharing

(* Unless two draw a tag at the same time, of two that share one a         *)
(* tracking thread tagged the one and the agent the other, for any number  *)
(* of threads, scans and walks and whatever is freed meanwhile.            *)
THEOREM TagsSharedOnlyAcross == LifecycleSpec => []SharedOnlyAcross
<1>1. SharingAll => SharedOnlyAcross
  BY DEF SharingAll, SharingInv, Sharing, Across, SharedOnlyAcross
<1>2. LifecycleInit => SharingAll
  BY InductiveInit, UnknownInit, HistoryInit, SharingInit DEF SharingAll
<1>3. SharingAll /\ [LifecycleNext]_vars => SharingAll'
  <2> SUFFICES ASSUME SharingAll, [LifecycleNext]_vars PROVE SharingAll'
    OBVIOUS
  <2>1. [LifecycleStep]_stateVars
    BY StepOfNext
  <2>2. IInv' /\ UnknownInv'
    BY <2>1, InductiveStep, UnknownStep DEF SharingAll, IInv
  <2>3. HistoryTypeOK'
    BY HistoryStep DEF SharingAll, IInv, UnknownInv
  <2> QED
    BY <2>2, <2>3, SharingStep DEF SharingAll
<1> QED
  BY <1>1, <1>2, <1>3, PTL DEF LifecycleSpec
=============================================================================

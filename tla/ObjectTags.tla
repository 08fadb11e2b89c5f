----------------------------- MODULE ObjectTags -----------------------------
(***************************************************************************)
(* JVMHeapScan.c: how classes and objects get their JVM TI tags and what   *)
(* the client is told.  Every thread that constructs an object runs        *)
(* trackObject; the agent thread scans the loaded classes and follows the  *)
(* references of the heap; a garbage collection reports tagged objects     *)
(* that died.  All of them draw tags from the unprotected C variable       *)
(* lastTag, whose increment is a read and a write.                         *)
(*                                                                         *)
(* GetTag and SetTag are atomic and do not run while the JVM is at the     *)
(* safepoint of FollowReferences; plain C code does.  A message is what    *)
(* the client learns from it: the class and its tag, an object's tag and   *)
(* its class's tag, or a freed tag.  HEAP_REF_INFO carries no news about   *)
(* the counts and is left out.  A C variable that is no longer used is 0   *)
(* or Nothing.                                                             *)
(***************************************************************************)
EXTENDS Integers, FiniteSets, Sequences

CONSTANTS
  Classes,         \* the loaded classes
  Objects,         \* objects that may be constructed (bound)
  ClassOf,         \* the class of each object, and of each class's mirror
  Trackers,        \* threads that construct objects
  MaxRuns,         \* class scans and FollowReferences that run (bound)
  Nothing          \* no class and no object

Entities == Classes \cup Objects

ASSUME TagsAssumption ==
  /\ IsFiniteSet(Entities)
  /\ Classes \cap Objects = {}
  /\ ClassOf \in [Entities -> Classes]
  /\ MaxRuns \in Nat
  /\ Nothing \notin Entities

CLASS_TAG == "CLASS_TAG"
OBJECT_TAG == "OBJECT_TAG"
DEALLOCATE_OBJECT == "DEALLOCATE_OBJECT"

VARIABLES
  objectState,     \* unborn, alive or dead
  tag,             \* the JVM's tag of each class and object, 0 when untagged
  lastTag,
  pc,              \* where each tracker is
  allocatedObj,    \* the object it tracks
  subject,         \* the class or object setAndGetTag works on
  register,        \* the value of lastTag it has read
  classTag,        \* the class tag it got
  agentPc, todo, current, seenTag, agentRegister,
                   \* the scan: classes left, the one at hand, its tag
  runs,            \* class scans and FollowReferences so far
  curMsgGrp,       \* messages of the agent that are not yet flushed
  out              \* history: what was handed to onProduce, in order

trackerVars == <<pc, allocatedObj, subject, register, classTag>>
agentVars == <<agentPc, todo, current, seenTag, agentRegister,
             runs, curMsgGrp>>
tagVars == <<objectState, tag, lastTag, trackerVars, agentVars, out>>

Init ==
  /\ objectState = [o \in Objects |-> "unborn"]
  /\ tag = [e \in Entities |-> 0]
  /\ lastTag = 1
  /\ pc = [t \in Trackers |-> "idle"]
  /\ allocatedObj = [t \in Trackers |-> Nothing]
  /\ subject = [t \in Trackers |-> Nothing]
  /\ register = [t \in Trackers |-> 0]
  /\ classTag = [t \in Trackers |-> 0]
  /\ agentPc = "idle"
  /\ todo = {}
  /\ current = Nothing
  /\ seenTag = 0
  /\ agentRegister = 0
  /\ runs = 0
  /\ curMsgGrp = <<>>
  /\ out = <<>>

ClassMessage(c, t) == [code |-> CLASS_TAG, class |-> c, tag |-> t]
ObjectMessage(t, ct) == [code |-> OBJECT_TAG, tag |-> t, classTag |-> ct]
FreeMessage(t) == [code |-> DEALLOCATE_OBJECT, tag |-> t]

AtSafepoint == agentPc \in {"following", "visiting"}

-----------------------------------------------------------------------------
(* trackObject: setAndGetTag of the class, then of the object.             *)
Step(t, from, to) ==
  /\ pc[t] = from
  /\ pc' = [pc EXCEPT ![t] = to]

Construct(t, o) ==
  /\ ~AtSafepoint
  /\ Step(t, "idle", "getTag")
  /\ objectState[o] = "unborn"
  /\ objectState' = [objectState EXCEPT ![o] = "alive"]
  /\ allocatedObj' = [allocatedObj EXCEPT ![t] = o]
  /\ subject' = [subject EXCEPT ![t] = ClassOf[o]]
  /\ UNCHANGED <<tag, lastTag, register, classTag, agentVars, out>>

IsClass(t) == subject[t] \in Classes

(* GetTag: a tagged class leads on to the object, and an object that has a *)
(* tag is done.                                                            *)
GetTag(t) ==
  /\ ~AtSafepoint
  /\ pc[t] = "getTag"
  /\ IF tag[subject[t]] = 0
     THEN /\ pc' = [pc EXCEPT ![t] = "readLast"]
          /\ UNCHANGED <<subject, allocatedObj, classTag>>
     ELSE IF IsClass(t)
     THEN /\ classTag' = [classTag EXCEPT ![t] = tag[subject[t]]]
          /\ subject' = [subject EXCEPT ![t] = allocatedObj[t]]
          /\ UNCHANGED <<pc, allocatedObj>>
     ELSE /\ pc' = [pc EXCEPT ![t] = "idle"]
          /\ subject' = [subject EXCEPT ![t] = Nothing]
          /\ allocatedObj' = [allocatedObj EXCEPT ![t] = Nothing]
          /\ classTag' = [classTag EXCEPT ![t] = 0]
  /\ UNCHANGED <<objectState, tag, lastTag, register, agentVars, out>>

(* lastTag++ in two halves ...                                             *)
ReadLast(t) ==
  /\ Step(t, "readLast", "writeLast")
  /\ register' = [register EXCEPT ![t] = lastTag]
  /\ UNCHANGED <<objectState, tag, lastTag, allocatedObj, subject, classTag,
                 agentVars, out>>

KeepLast(t) ==
  /\ Step(t, "writeLast", "setTag")
  /\ UNCHANGED <<objectState, tag, lastTag, allocatedObj, subject, register, classTag,
                 agentVars, out>>

WriteLast(t) ==
  /\ Step(t, "writeLast", "setTag")
  /\ lastTag' = register[t] + 1
  /\ register' = [register EXCEPT ![t] = 0]
  /\ UNCHANGED <<objectState, tag, allocatedObj, subject, classTag,
                 agentVars, out>>

(* ... SetTag with whatever lastTag is now ...                             *)
SetTag(t) ==
  /\ ~AtSafepoint
  /\ Step(t, "setTag", "report")
  /\ tag' = [tag EXCEPT ![subject[t]] = lastTag]
  /\ UNCHANGED <<objectState, lastTag, allocatedObj, subject, register, classTag,
                 agentVars, out>>

(* ... and "return lastTag" reads it once more; the message carries that.  *)
ReportUnnamed(t) ==
  /\ pc[t] = "report" /\ IsClass(t)
  /\ classTag' = [classTag EXCEPT ![t] = lastTag]
  /\ subject' = [subject EXCEPT ![t] = allocatedObj[t]]
  /\ pc' = [pc EXCEPT ![t] = "getTag"]
  /\ UNCHANGED <<objectState, tag, lastTag, allocatedObj, register, agentVars, out>>

ReportClass(t) ==
  /\ pc[t] = "report" /\ IsClass(t)
  /\ out' = Append(out, ClassMessage(subject[t], lastTag))
  /\ classTag' = [classTag EXCEPT ![t] = lastTag]
  /\ subject' = [subject EXCEPT ![t] = allocatedObj[t]]
  /\ pc' = [pc EXCEPT ![t] = "getTag"]
  /\ UNCHANGED <<objectState, tag, lastTag, allocatedObj, register, agentVars>>

ReportObject(t) ==
  /\ pc[t] = "report" /\ ~IsClass(t)
  /\ out' = Append(out, ObjectMessage(lastTag, classTag[t]))
  /\ pc' = [pc EXCEPT ![t] = "idle"]
  /\ subject' = [subject EXCEPT ![t] = Nothing]
  /\ allocatedObj' = [allocatedObj EXCEPT ![t] = Nothing]
  /\ classTag' = [classTag EXCEPT ![t] = 0]
  /\ UNCHANGED <<objectState, tag, lastTag, register, agentVars>>

-----------------------------------------------------------------------------
(* onObjectFree, during a garbage collection: an object nobody refers to.  *)
DieSilently(o) ==
  /\ ~AtSafepoint
  /\ objectState[o] = "alive"
  /\ \A t \in Trackers : allocatedObj[t] # o
  /\ objectState' = [objectState EXCEPT ![o] = "dead"]
  /\ tag' = [tag EXCEPT ![o] = 0]
  /\ UNCHANGED <<lastTag, trackerVars, agentVars, out>>

ObjectFree(o) ==
  /\ ~AtSafepoint
  /\ objectState[o] = "alive"
  /\ \A t \in Trackers : allocatedObj[t] # o
  /\ objectState' = [objectState EXCEPT ![o] = "dead"]
  /\ tag' = [tag EXCEPT ![o] = 0]
  /\ out' = IF tag[o] = 0 THEN out ELSE Append(out, FreeMessage(tag[o]))
  /\ UNCHANGED <<lastTag, trackerVars, agentVars>>

-----------------------------------------------------------------------------
(* onGetClassMetadata and checkAndTagClasses; rawMonitorId excludes no     *)
(* tracker.  The scan ends, like FollowReferences, with flushMsgGrp.       *)
AgentGoto(from, to) ==
  /\ agentPc = from
  /\ agentPc' = to

Scan(found) ==
  /\ runs < MaxRuns
  /\ runs' = runs + 1
  /\ AgentGoto("idle", "scanning")
  /\ todo' = found
  /\ curMsgGrp' = <<>>
  /\ UNCHANGED <<objectState, tag, lastTag, trackerVars, current, seenTag,
                 agentRegister, out>>

ScanMissesTag(c) ==
  /\ agentPc = "scanning" /\ c \in todo
  /\ agentPc' = IF tag[c] = 0 THEN "scanSetTag" ELSE "scanReport"
  /\ todo' = todo \ {c}
  /\ current' = c
  /\ UNCHANGED <<runs, objectState, tag, lastTag, trackerVars, seenTag, agentRegister,
                 curMsgGrp, out>>

ScanGetTag(c) ==
  /\ agentPc = "scanning" /\ c \in todo
  /\ agentPc' = IF tag[c] = 0 THEN "scanSetTag" ELSE "scanReport"
  /\ todo' = todo \ {c}
  /\ current' = c
  /\ seenTag' = tag[c]
  /\ UNCHANGED <<runs, objectState, tag, lastTag, trackerVars, agentRegister, curMsgGrp, out>>

ScanSetTag ==
  /\ AgentGoto("scanSetTag", "scanReadLast")
  /\ tag' = [tag EXCEPT ![current] = lastTag]
  /\ UNCHANGED <<runs, objectState, lastTag, trackerVars, todo, current, seenTag,
                 agentRegister, curMsgGrp, out>>

ScanReadLast ==
  /\ AgentGoto("scanReadLast", "scanWriteLast")
  /\ agentRegister' = lastTag
  /\ UNCHANGED <<runs, objectState, tag, lastTag, trackerVars, todo, current, seenTag,
                 curMsgGrp, out>>

ScanWriteLast ==
  /\ AgentGoto("scanWriteLast", "scanReport")
  /\ lastTag' = agentRegister + 1
  /\ agentRegister' = 0
  /\ UNCHANGED <<runs, objectState, tag, trackerVars, todo, current, seenTag,
                 curMsgGrp, out>>

(* The message carries tag_ptr, read before the class was tagged.          *)
ScanReport ==
  /\ AgentGoto("scanReport", "scanning")
  /\ curMsgGrp' = Append(curMsgGrp, ClassMessage(current, seenTag))
  /\ current' = Nothing
  /\ seenTag' = 0
  /\ UNCHANGED <<runs, objectState, tag, lastTag, trackerVars, todo,
                 agentRegister, out>>

EndScan ==
  /\ agentPc = "scanning" /\ todo = {}
  /\ agentPc' = "flush"
  /\ UNCHANGED <<runs, objectState, tag, lastTag, trackerVars, todo, current, seenTag,
                 agentRegister, curMsgGrp, out>>

(* onFollowReference: the JVM calls followReferenceCallback for the        *)
(* references it finds, each with an object and perhaps a referrer, and    *)
(* with every object that is in use at least once.                         *)
StartFollow ==
  /\ runs < MaxRuns
  /\ runs' = runs + 1
  /\ AgentGoto("idle", "following")
  /\ curMsgGrp' = <<>>
  /\ UNCHANGED <<objectState, tag, lastTag, trackerVars, todo, current, seenTag,
                 agentRegister, out>>

Reachable(e) == e \in Classes \/ (e \in Objects /\ objectState[e] = "alive")
ToVisit(found) ==
  {e \in found : Reachable(e) /\ tag[e] = 0 /\ tag[ClassOf[e]] # 0}

VisitRead(e) ==
  /\ AgentGoto("following", "visiting")
  /\ e \in ToVisit({e})
  /\ current' = e
  /\ agentRegister' = lastTag
  /\ UNCHANGED <<runs, objectState, tag, lastTag, trackerVars, todo, seenTag, curMsgGrp, out>>

VisitWrite ==
  /\ AgentGoto("visiting", "following")
  /\ tag' = [tag EXCEPT ![current] = agentRegister]
  /\ lastTag' = agentRegister + 1
  /\ curMsgGrp' = Append(curMsgGrp, ObjectMessage(agentRegister, tag[ClassOf[current]]))
  /\ current' = Nothing
  /\ agentRegister' = 0
  /\ UNCHANGED <<runs, objectState, trackerVars, todo, seenTag, out>>

EndWalk(found) ==
  /\ AgentGoto("following", "flush")
  /\ ToVisit(found) = {}
  /\ UNCHANGED <<runs, objectState, tag, lastTag, trackerVars, todo, current, seenTag,
                 agentRegister, curMsgGrp, out>>

FlushMsgGrp ==
  /\ AgentGoto("flush", "idle")
  /\ out' = out \o curMsgGrp
  /\ curMsgGrp' = <<>>
  /\ UNCHANGED <<runs, objectState, tag, lastTag, trackerVars, todo, current, seenTag,
                 agentRegister>>

-----------------------------------------------------------------------------
TrackerLabels == {"idle", "getTag", "readLast", "writeLast", "setTag", "report"}
AgentLabels == {"idle", "scanning", "scanSetTag", "scanReadLast", "scanWriteLast",
                "scanReport", "following", "visiting", "flush"}

TypeOK ==
  /\ objectState \in [Objects -> {"unborn", "alive", "dead"}]
  /\ tag \in [Entities -> Nat]
  /\ lastTag \in Nat \ {0}
  /\ pc \in [Trackers -> TrackerLabels]
  /\ allocatedObj \in [Trackers -> Objects \cup {Nothing}]
  /\ subject \in [Trackers -> Entities \cup {Nothing}]
  /\ register \in [Trackers -> Nat]
  /\ classTag \in [Trackers -> Nat]
  /\ agentPc \in AgentLabels
  /\ todo \in SUBSET Classes
  /\ current \in Entities \cup {Nothing}
  /\ seenTag \in Nat /\ agentRegister \in Nat
  /\ runs \in 0..MaxRuns

(* ReadMe.txt:4: the instances of a type are counted by their tags, so no  *)
(* two classes or objects may share one.                                   *)
UniqueTags ==
  \A e, f \in Entities : e # f /\ tag[e] # 0 => tag[e] # tag[f]

IsObjectMessage(m) == m.code = OBJECT_TAG
IsFreeMessage(m) == m.code = DEALLOCATE_OBJECT
=============================================================================

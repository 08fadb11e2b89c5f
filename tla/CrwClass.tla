------------------------------ MODULE CrwClass ------------------------------
(***************************************************************************)
(* java_crw_demo.c: a class file is rewritten.  The image is copied from   *)
(* front to back: the constant pool, behind which the entries for the      *)
(* tracker's methods are added, the header, and the methods, whose Code    *)
(* attributes go through CrwMethod one after the other.  Names are looked  *)
(* up in a mirror of the pool, where Long and Double take two slots.       *)
(*                                                                         *)
(* A class file is a record; an entry of its pool has a text or up to two  *)
(* indexes.  Fields and attributes other than Code are copied unseen and   *)
(* are left out, like the version numbers, of which only the assertion at  *)
(* lines 2300-2302 is kept: it ends the process unless the build defines   *)
(* NDEBUG (66-75).  The agent passes no error handler, so that an error    *)
(* ends the process.                                                       *)
(***************************************************************************)
EXTENDS CrwMethod

CONSTANTS
  Inputs           \* what java_crw_demo is called with (bound), see below

Call == "(II)V"
Constructed == "(Ljava/lang/Object;)V"
TrackerClass == "ObjectAllocationTracker"
Signature(tracker) == IF tracker \in OneArgument THEN Constructed ELSE Call

Entry(tag, text, index1, index2) ==
  [tag |-> tag, text |-> text, index1 |-> index1, index2 |-> index2]
Utf8(text) == Entry("Utf8", text, 0, 0)
Unused == Entry("none", "", 0, 0)

IsWide(e) == e.tag \in {"Long", "Double"}

(* cpool, indexed from 1: the entry after a Long or a Double is unused.    *)
AddOneSlot(slots, e) == Append(slots, e)

AddSlots(slots, e) ==
  slots \o (IF IsWide(e) THEN <<e, Unused>> ELSE <<e>>)

Mirror(items) ==
  LET upTo[k \in 0..Len(items)] ==
        IF k = 0 THEN <<>> ELSE AddSlots(upTo[k - 1], items[k])
  IN  upTo[Len(items)]

(* The pool of a class file as a JVM reads it: where its k-th entry is, and *)
(* the entry at an index (JVM specification 4.4.5: a Long or Double makes  *)
(* the next index unusable).                                               *)
WideBefore(pool, k) == {j \in 1..(k - 1) : IsWide(pool[j])}
At(pool, k) == k + Cardinality(WideBefore(pool, k))

EntryAt(pool, index) ==
  LET found == {k \in DOMAIN pool : At(pool, k) = index}
  IN  IF found = {} THEN Unused ELSE pool[CHOOSE k \in found : TRUE]

(* An input: a class file, the trackers that are named, and what else the  *)
(* caller says.  A method names its strings by their pool index; only the  *)
(* attributes with the name Code hold code.                                *)
Bodies(f) == UNION {{a.body : a \in ToSet(m.attributes)} : m \in ToSet(f.methods)}

IsClassFile(f) ==
  LET isName(index) == EntryAt(f.pool, index).tag = "Utf8"
  IN  /\ f.pool \in Seq(ToSet(f.pool))
      /\ \A k \in DOMAIN f.pool : /\ f.pool[k].tag # "none"
                                 /\ f.pool[k].tag = "Utf8" => f.pool[k] = Utf8(f.pool[k].text)
      /\ f.hasSuper <=> f.name # "java/lang/Object"
      /\ f.methods \in Seq(ToSet(f.methods))
      /\ \A m \in ToSet(f.methods) :
           /\ isName(m.name) /\ isName(m.descr)
           /\ m.attributes \in Seq(ToSet(m.attributes))
           /\ \A a \in ToSet(m.attributes) :
                /\ isName(a.name)
                /\ IF EntryAt(f.pool, a.name).text = "Code" THEN IsMethod(a.body) ELSE a.body = <<>>

ASSUME ClassAssumption ==
  /\ \A i \in Inputs :
       /\ i.trackers \subseteq Trackers
       /\ {i.empty, i.signaturesOK, i.systemClass} \subseteq BOOLEAN
       /\ {i.file.isInterface, i.file.hasSuper, i.file.supported} \subseteq BOOLEAN
       /\ IsClassFile(i.file)
  /\ ClassNumber > 32767 => \A pool \in {i.file.pool : i \in Inputs} :
       ClassNumberIndex = At(pool, Len(pool) + 1)

VARIABLES
  input,           \* the arguments of java_crw_demo
  stage,           \* how far inject_class has come
  cpool,           \* the constant pool, mirror, image, new indexes, count
  isObjectClass,
  mnum, attribute, \* methods and attributes of the method dealt with
  output,          \* the methods written
  injectionCount,
  image            \* is a new image returned?

classVars == <<input, stage, cpool, isObjectClass, mnum, attribute, output,
               injectionCount, image>>
vars == <<classVars, methodVars, trackers>>

file == input.file

Init ==
  /\ input \in Inputs
  /\ \A c \in Bodies(file) : Encodable(c)
  /\ stage = "arguments"
  /\ cpool = [slots |-> <<>>, items |-> <<>>, class |-> 0, count |-> 0,
              index |-> [t \in Trackers |-> 0]]
  /\ isObjectClass = FALSE
  /\ mnum = 0 /\ attribute = 0
  /\ output = <<>>
  /\ injectionCount = 0
  /\ image = FALSE
  /\ trackers = input.trackers
  /\ NoMethod

Stage(from, to) ==
  /\ stage = from
  /\ stage' = to

-----------------------------------------------------------------------------
(* java_crw_demo: no file, nothing to do ...                               *)
NoFile ==
  /\ Stage("arguments", "returned")
  /\ input.empty
  /\ UNCHANGED <<input, cpool, isObjectClass, mnum, attribute, output,
                 injectionCount, image, methodVars, trackers>>

(* ... a tracker without the signature its calls need is fatal, and a class *)
(* file newer than this code knows is where assertions are compiled in ... *)
TooNew == ~file.supported

Abort ==
  /\ Stage("arguments", "aborted")
  /\ ~input.empty
  /\ ~input.signaturesOK \/ TooNew
  /\ UNCHANGED <<input, cpool, isObjectClass, mnum, attribute, output,
                 injectionCount, image, methodVars, trackers>>

-----------------------------------------------------------------------------
(* Without an error, inject_class begins with the pool; without assertions *)
(* it does so whatever the version is.                                     *)
CopyPool ==
  /\ Stage("arguments", "number")
  /\ ~input.empty /\ input.signaturesOK
  /\ cpool' = [cpool EXCEPT !.slots = Mirror(file.pool), !.items = file.pool]
  /\ UNCHANGED <<input, isObjectClass, mnum, attribute, output, injectionCount,
                 image, methodVars, trackers>>

(* add_new_cpool_entry, for entries of one slot: they go behind the others *)
(* in the mirror and in the image.                                         *)
With(entries) == [cpool EXCEPT !.slots = @ \o entries, !.items = @ \o entries]

NewIndex == Len(cpool.slots) + 1

NumberEntry == Entry("Integer", "", ClassNumber \div 65536, ClassNumber % 65536)

(* A class number that sipush cannot push ...                              *)
AddClassNumber ==
  /\ Stage("number", "class")
  /\ cpool' = IF trackers \cap {"call_tracker", "return_tracker"} # {} /\ ClassNumber > 32767
              THEN With(<<NumberEntry>>)
              ELSE cpool
  /\ UNCHANGED <<input, isObjectClass, mnum, attribute, output, injectionCount,
                 image, methodVars, trackers>>

(* ... the tracker class ...                                               *)
AddTrackerClass ==
  /\ Stage("class", "trackers")
  /\ cpool' = [With(<<Utf8(TrackerClass), Entry("Class", "", NewIndex, 0)>>)
                 EXCEPT !.class = NewIndex + 1]
  /\ UNCHANGED <<input, isObjectClass, mnum, attribute, output, injectionCount,
                 image, methodVars, trackers>>

(* ... and each method of it: name, descriptor, both, and the method.      *)
MethodEntries(t) ==
  <<Utf8(t), Utf8(Signature(t)), Entry("NameAndType", "", NewIndex, NewIndex + 1),
    Entry("Methodref", "", cpool.class, NewIndex + 2)>>

Unindexed == {t \in trackers : cpool.index[t] = 0}

TrackerOrder == <<"obj_init_tracker", "newarray_tracker", "call_tracker", "return_tracker">>

AddTrackerMethod ==
  /\ stage = "trackers" /\ Unindexed # {}
  /\ LET t == TrackerOrder[Min({i \in 1..4 : TrackerOrder[i] \in Unindexed})]
     IN  cpool' = [With(MethodEntries(t)) EXCEPT !.index[t] = NewIndex + 3]
  /\ UNCHANGED <<input, stage, isObjectClass, mnum, attribute, output, injectionCount,
                 image, methodVars, trackers>>

(* The new count is written over the old one.                              *)
WriteCount ==
  /\ Stage("trackers", "header")
  /\ Unindexed = {}
  /\ cpool' = [cpool EXCEPT !.count = NewIndex]
  /\ UNCHANGED <<input, isObjectClass, mnum, attribute, output, injectionCount,
                 image, methodVars, trackers>>

Text(index) == cpool.slots[index].text

SkipInterface ==
  /\ Stage("header", "returned")
  /\ file.isInterface
  /\ UNCHANGED <<input, cpool, isObjectClass, mnum, attribute, output,
                 injectionCount, image, methodVars, trackers>>

CopyHeader ==
  /\ Stage("header", "methods")
  /\ ~file.isInterface
  /\ isObjectClass' = ~file.hasSuper
  /\ UNCHANGED <<input, cpool, mnum, attribute, output, injectionCount, image,
                 methodVars, trackers>>

-----------------------------------------------------------------------------
(* method_write_all and method_write.                                      *)
Method == file.methods[mnum]
Attribute == Method.attributes[attribute + 1]
HasAttribute == attribute < Len(Method.attributes)

BeginMethod ==
  /\ Stage("methods", "attributes")
  /\ mnum < Len(file.methods)
  /\ mnum' = mnum + 1
  /\ attribute' = 0
  /\ output' = Append(output, <<>>)
  /\ UNCHANGED <<input, cpool, isObjectClass, injectionCount, image, methodVars, trackers>>

WriteAttribute(items) ==
  /\ output' = [output EXCEPT ![mnum] = Append(@, items)]
  /\ attribute' = attribute + 1

CopyAttribute ==
  /\ Stage("attributes", "attributes")
  /\ HasAttribute
  /\ Text(Attribute.name) # "Code"
  /\ WriteAttribute(<<>>)
  /\ UNCHANGED <<input, cpool, isObjectClass, mnum, injectionCount, image,
                 methodVars, trackers>>

(* skip_method; only the caller says which class is the Thread class.      *)
IsSkipped(c) ==
  /\ input.systemClass
  /\ \/ /\ Text(Method.name) \in {"<init>", "finalize"}
        /\ Layout(c)[Len(c) + 1] = 1
     \/ Text(Method.name) = "<clinit>"
     \/ file.name = "java/lang/Thread" /\ Text(Method.name) = "currentThread"

IsInit == isObjectClass /\ Text(Method.name) = "<init>"

IsObjectInit ==
  isObjectClass /\ Text(Method.name) = "<init>" /\ Text(Method.descr) = "()V"

RoleOf(c) ==
  IF IsObjectInit THEN "objectInit"
  ELSE IF IsSkipped(c) THEN "skipped" ELSE "other"

BeginCode ==
  /\ Stage("attributes", "code")
  /\ HasAttribute
  /\ Text(Attribute.name) = "Code"
  /\ MethodInit(Attribute.body, RoleOf(Attribute.body))
  /\ UNCHANGED <<input, cpool, isObjectClass, mnum, attribute, output,
                 injectionCount, image>>

RewriteCode ==
  /\ stage = "code"
  /\ MethodStep
  /\ UNCHANGED classVars

CountMethod == IF role = "skipped" THEN 0 ELSE 1

(* inject_bytecodes counts each injection of the class.                    *)
Injected == Total([i \in DOMAIN injections |-> Len(injections[i])])

EndCode ==
  /\ Stage("code", "attributes")
  /\ phase = "done"
  /\ WriteAttribute(written)
  /\ injectionCount' = injectionCount + Injected
  /\ phase' = "none"
  /\ UNCHANGED <<input, cpool, isObjectClass, mnum, image, code, start, role, ip,
                 map, injections, widening, extraStack, written, tableVars, trackers>>

EndMethod ==
  /\ Stage("attributes", "methods")
  /\ ~HasAttribute
  /\ UNCHANGED <<input, cpool, isObjectClass, mnum, attribute, output, injectionCount,
                 image, methodVars, trackers>>

(* A class without any injection keeps its old image.                      *)
FinishClass ==
  /\ Stage("methods", "returned")
  /\ mnum = Len(file.methods)
  /\ image' = (injectionCount > 0)
  /\ UNCHANGED <<input, cpool, isObjectClass, mnum, attribute, output, injectionCount,
                 methodVars, trackers>>

Next ==
  \/ NoFile \/ Abort \/ CopyPool \/ AddClassNumber \/ AddTrackerClass
  \/ AddTrackerMethod \/ WriteCount \/ SkipInterface \/ CopyHeader
  \/ BeginMethod \/ CopyAttribute \/ BeginCode \/ RewriteCode \/ EndCode
  \/ EndMethod \/ FinishClass

Spec == Init /\ [][Next]_vars /\ WF_vars(Next)

-----------------------------------------------------------------------------
TypeOK ==
  /\ MethodTypeOK
  /\ stage \in {"arguments", "number", "class", "trackers", "header", "methods", "attributes", "code", "returned", "aborted"}
  /\ cpool.index \in [Trackers -> Nat]
  /\ isObjectClass \in BOOLEAN /\ image \in BOOLEAN
  /\ mnum \in 0..Len(file.methods)
  /\ Len(output) = mnum
  /\ injectionCount \in Nat

(* What a JVM finds in the pool that was written.                          *)
Decoded == [index \in 0..cpool.count |-> EntryAt(cpool.items, index)]

(* The tracker t's method, as a JVM finds it in the pool of the image.      *)
Resolves(t) ==
  LET method == Decoded[cpool.index[t]]
      type == Decoded[method.index2]
  IN  /\ method.tag = "Methodref"
      /\ Decoded[Decoded[method.index1].index1] = Utf8(TrackerClass)
      /\ Decoded[type.index1] = Utf8(t)
      /\ Decoded[type.index2] = Utf8(Signature(t))

IsClassNumber(e) ==
  e.tag = "Integer" /\ e.index1 * 65536 + e.index2 = ClassNumber

(* The injected calls name pool entries by indexes of the mirror.  The JVM *)
(* finds the tracker's methods there, the pool ends at its new count, and  *)
(* no old entry has moved; no more than the 32 entries of line 98 are new. *)
PoolDecodes ==
  stage = "header" =>
    /\ \A i \in DOMAIN cpool.slots : Decoded[i] = cpool.slots[i]
    /\ Decoded[cpool.count] = Unused /\ Decoded[cpool.count - 1] # Unused
    /\ Len(cpool.items) - Len(file.pool) <= 32
    /\ \A t \in trackers : Resolves(t)
    /\ trackers \cap {"call_tracker", "return_tracker"} # {} /\ ClassNumber > 32767 =>
         IsClassNumber(Decoded[ClassNumberIndex])

Returned == stage = "returned"

CallsIn(items) == {k \in DOMAIN items : items[k].what \in Trackers}

(* java_crw_demo returns an image exactly when the methods it wrote hold   *)
(* an injected call; the agent replaces a class by what it returns.        *)
ImageIffInjected ==
  Returned => (image <=> \E m \in DOMAIN output : \E a \in DOMAIN output[m] :
                           CallsIn(output[m][a]) # {})

(* Is method m the constructor that every object goes through?             *)
IsConstructor(m) ==
  LET method == file.methods[m]
  IN  /\ file.name = "java/lang/Object"
      /\ Decoded[method.name] = Utf8("<init>")
      /\ Decoded[method.descr] = Utf8("()V")

(* java_crw_demo.h:133 (obj_init_name: "call first thing when injecting    *)
(* java.lang.Object.<init>"): that constructor begins with the call, it is *)
(* nowhere else, and when it is the only tracker, as for the agent, all    *)
(* other code is what it was.                                              *)
ConstructorTracked ==
  Returned => \A m \in DOMAIN output : \A a \in DOMAIN output[m] :
    LET body == file.methods[m].attributes[a].body
        items == output[m][a]
        tracking == {k \in DOMAIN items : items[k].what = "obj_init_tracker"}
        tracked == IsConstructor(m) /\ "obj_init_tracker" \in trackers /\ body # <<>>
    IN  /\ tracking = IF tracked THEN {1} ELSE {}
        /\ trackers = {"obj_init_tracker"} /\ ~tracked => items = Copied(body)

(* Every class file gets through: the loop over adjust_instruction starts  *)
(* again whenever a width changes, and every change moves what is behind   *)
(* it; still it comes to an end.                                           *)
Finishes == <>(stage \in {"returned", "aborted"})
=============================================================================

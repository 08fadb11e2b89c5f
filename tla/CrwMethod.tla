------------------------------ MODULE CrwMethod ------------------------------
(***************************************************************************)
(* java_crw_demo.c: one method of a class file is rewritten.  Calls of the *)
(* tracker are injected at its entry, before its returns and after its     *)
(* array allocations; the offsets of branches, the padding of switches and *)
(* the tables of the method follow.  Everything goes through mi->map, which *)
(* says for each input position where a jump to it has to go.              *)
(*                                                                         *)
(* An instruction is identified by its index; "start" gives its position   *)
(* in the input, and map, injections and widening are kept for these       *)
(* positions only, the others are never looked up.  Instructions are       *)
(* classes of opcodes: what counts is the length and the targets.  The     *)
(* reach of a 16-bit branch is a constant, so that short methods leave it. *)
(***************************************************************************)
EXTENDS Integers, SequencesExt

CONSTANTS
  Reach,           \* a short branch goes from -Reach to Reach - 1 (32768)
  SameFrameMax,    \* largest offset in a one-byte stack map frame (63)
  ClassNumber, MethodNumber,
  ClassNumberIndex \* constant pool index of a class number above 0x7FFF

Trackers == {"obj_init_tracker", "call_tracker", "return_tracker", "newarray_tracker"}
OneArgument == {"obj_init_tracker", "newarray_tracker"}
Roles == {"objectInit", "skipped", "other"}
Fixed == {"plain", "return", "newarray"}
Branches == {"goto", "if"}
Opcodes == Fixed \cup Branches \cup {"goto_w", "switch"}

ASSUME CrwAssumption ==
  /\ Reach \in Nat /\ Reach > 8
  /\ {SameFrameMax, ClassNumber, MethodNumber, ClassNumberIndex} \subseteq Nat

(* The targets of an instruction; a switch has a default and one case.     *)
Arity(op) == IF op \in Fixed THEN 0 ELSE IF op = "switch" THEN 2 ELSE 1

Instructions == [op : Opcodes, to : Seq(Nat)]

(* The code of a method (JVM specification 4.9.1): every target is an      *)
(* instruction of it, and its end is not reached by going on.              *)
IsMethod(c) ==
  /\ c \in Seq(Instructions) /\ c # <<>>
  /\ \A i \in DOMAIN c :
       /\ Len(c[i].to) = Arity(c[i].op)
       /\ ToSet(c[i].to) \subseteq DOMAIN c
  /\ c[Len(c)].op \notin {"newarray", "if"}

LARGEST_INJECTION == 12 * 3

VARIABLES
  code, start,     \* the input: instructions and their positions
  role, trackers,  \* how method_write_bytecodes treats the method
  phase,
  ip,              \* the input position: index of the next instruction
  map, injections, widening,
  extraStack,      \* new_max_stack - max_stack
  written,         \* the output: injections and instructions, in order
  tables,          \* the offsets written for each position or range
  frames           \* the offsets of the stack map frames written so far

inputVars == <<code, start, role, trackers>>
tableVars == <<tables, frames>>
methodVars == <<code, start, role, phase, ip, map, injections, widening,
                extraStack, written, tableVars>>

End == Len(code) + 1           \* the position behind the last instruction

-----------------------------------------------------------------------------
(* Bytes from an opcode at position p to the operands of a switch.         *)
ToBoundary(p) == (((p + 4) \div 4) * 4) - p

Length(op, p) ==
  CASE op \in {"plain", "return"} -> 1
    [] op = "newarray" -> 2
    [] op \in Branches -> 3
    [] op = "goto_w" -> 5
    [] op = "switch" -> ToBoundary(p) + 16    \* a default and one case

Layout(c) ==
  LET at[i \in 1..(Len(c) + 1)] ==
        IF i = 1 THEN 0 ELSE at[i - 1] + Length(c[i - 1].op, at[i - 1])
  IN  at

Fits(delta) == delta >= -Reach /\ delta < Reach

(* writeU2, read again as a signed number.                                 *)
ToShort(delta) == ((delta + Reach) % (2 * Reach)) - Reach

(* writeU2: two bytes hold twice the reach of a branch (65536).            *)
U2(n) == n % (2 * Reach)

(* A class file can hold the code: code_length and the branches fit.       *)
Encodable(c) ==
  LET at == Layout(c)
  IN  /\ at[Len(c) + 1] < 2 * Reach
      /\ \A i \in DOMAIN c : c[i].op \in Branches => Fits(at[c[i].to[1]] - at[i])

(* There is no MethodImage between two methods.                            *)
NoMethod ==
  /\ code = <<>> /\ start = <<0>> /\ role = "other"
  /\ phase = "none"
  /\ ip = 1
  /\ map = <<0>> /\ injections = <<<<>>>> /\ widening = <<0>>
  /\ extraStack = 0
  /\ written = <<>> /\ tables = <<>> /\ frames = <<>>

(* method_init, for the code c in role r.                                  *)
MethodInit(c, r) ==
  /\ code' = c
  /\ start' = Layout(c)
  /\ role' = r
  /\ phase' = "begin"
  /\ ip' = 1
  /\ map' = Layout(c)
  /\ injections' = [i \in 1..(Len(c) + 1) |-> <<>>]
  /\ widening' = [i \in 1..(Len(c) + 1) |-> 0]
  /\ extraStack' = 0
  /\ written' = <<>> /\ tables' = <<>> /\ frames' = <<>>
  /\ UNCHANGED trackers

-----------------------------------------------------------------------------
(* The bytes of injection_template: constants are pushed in as few bytes   *)
(* as they need.                                                           *)
PushShort(n) == IF n <= 5 THEN 1 ELSE IF n <= 127 THEN 2 ELSE 3
PushPool(index) == IF index <= 127 THEN 2 ELSE 3

TemplateLength(tracker) ==
  IF tracker \in OneArgument THEN 1 + 3
  ELSE (IF ClassNumber <= 32767 THEN PushShort(ClassNumber) ELSE PushPool(ClassNumberIndex))
       + PushShort(MethodNumber) + 3

StackNeeded(tracker) == IF tracker \in OneArgument THEN 1 ELSE 2

(* A tracker that is not named has method_index 0 and injects nothing.     *)
Template(tracker) == IF tracker \in trackers THEN <<tracker>> ELSE <<>>

EntryInjection == Template(IF role = "objectInit" THEN "obj_init_tracker" ELSE "call_tracker")

BeforeInjection(op) ==
  IF op = "return" /\ role # "objectInit" THEN Template("return_tracker") ELSE <<>>

AfterInjection(op) == IF op = "newarray" THEN Template("newarray_tracker") ELSE <<>>

(* Each site gets at most one template at a time.                          *)
InjectedLength(templates) ==
  IF templates = <<>> THEN 0 ELSE TemplateLength(templates[1])

SetStack(templates) ==
  extraStack' = IF templates = <<>> THEN extraStack ELSE StackNeeded(templates[1])

GrowStack(templates) ==
  extraStack' = IF templates = <<>> \/ StackNeeded(templates[1]) <= extraStack
                THEN extraStack ELSE StackNeeded(templates[1])

AdjustBackwards(m, i, offset) == [j \in DOMAIN m |-> IF j >= i THEN m[j] - offset ELSE m[j]]

(* Move whatever starts at position i or behind it.                        *)
AdjustMap(m, i, offset) == [j \in DOMAIN m |-> IF j >= i THEN m[j] + offset ELSE m[j]]

(* Move on to the next instruction, or to the first one of the next loop.  *)
Advance(next) ==
  IF ip < Len(code) THEN ip' = ip + 1 /\ UNCHANGED phase
                    ELSE ip' = 1 /\ phase' = next

-----------------------------------------------------------------------------
(* What is written for instruction i.                                      *)
Item(i, what, len, deltas) == [from |-> i, what |-> what, len |-> len, deltas |-> deltas]

(* The code c as it is.                                                    *)
Copied(c) ==
  LET at == Layout(c)
  IN  [i \in DOMAIN c |->
         Item(i, c[i].op, Length(c[i].op, at[i]),
              [k \in DOMAIN c[i].to |-> at[c[i].to[k]] - at[i]])]

(* Code that skip_method excludes is copied.                               *)
CopyMethod ==
  /\ phase = "begin" /\ role = "skipped"
  /\ phase' = "done"
  /\ written' = Copied(code)
  /\ UNCHANGED <<inputVars, ip, map, injections, widening, extraStack, tableVars>>

InjectEntry ==
  /\ phase = "begin" /\ role # "skipped"
  /\ phase' = "inject"
  /\ injections' = [injections EXCEPT ![1] = EntryInjection]
  /\ map' = AdjustMap(map, 1, InjectedLength(EntryInjection))
  /\ GrowStack(EntryInjection)
  /\ UNCHANGED <<inputVars, ip, widening, written, tableVars>>

InjectAtOpcode ==
  LET op == code[ip].op
      before == BeforeInjection(op)
      after == AfterInjection(op)
  IN  /\ phase = "inject"
      /\ injections' = [injections EXCEPT ![ip] = @ \o before, ![ip + 1] = @ \o after]
      /\ map' = AdjustMap(map, ip, InjectedLength(before) + InjectedLength(after))
      /\ GrowStack(before \o after)
      /\ Advance("adjust")
      /\ UNCHANGED <<inputVars, widening, written, tableVars>>

(* inject_for_opcode.  A jump to the instruction meets what is injected    *)
(* before it, and a jump to the next one passes what is injected after it. *)
InjectForOpcode ==
  LET op == code[ip].op
      before == BeforeInjection(op)
      after == AfterInjection(op)
  IN  /\ phase = "inject"
      /\ injections' = [injections EXCEPT ![ip] = @ \o before, ![ip + 1] = @ \o after]
      /\ map' = AdjustMap(map, ip + 1, InjectedLength(before) + InjectedLength(after))
      /\ GrowStack(before \o after)
      /\ Advance("adjust")
      /\ UNCHANGED <<inputVars, widening, written, tableVars>>

WantedByBranches(i) ==
  IF code[i].op \notin Branches \/ widening[i] # 0 THEN widening[i]
  ELSE IF Fits(map[code[i].to[1]] - map[i]) THEN 0
  ELSE IF code[i].op = "goto" THEN 2 ELSE 5

(* The widening adjust_instruction wants: the change of a switch's         *)
(* padding; two bytes more for goto_w; five for an inverted branch and a   *)
(* goto_w.  A widened branch stays wide.                                   *)
Wanted(i) ==
  LET delta == map[code[i].to[1]] - map[i]
  IN  CASE code[i].op = "switch" -> ToBoundary(map[i]) - ToBoundary(start[i])
        [] code[i].op \in Branches /\ widening[i] = 0 /\ ~Fits(delta) ->
             IF code[i].op = "goto" THEN 2 ELSE 5
        [] OTHER -> widening[i]

InstructionFits ==
  /\ phase = "adjust"
  /\ Wanted(ip) = widening[ip]
  /\ Advance("write")
  /\ UNCHANGED <<inputVars, map, injections, widening, extraStack, written, tableVars>>

WidenFrom(from) ==
  /\ phase = "adjust"
  /\ Wanted(ip) # widening[ip]
  /\ map' = AdjustMap(map, from, Wanted(ip) - widening[ip])
  /\ widening' = [widening EXCEPT ![ip] = Wanted(ip)]
  /\ ip' = 1
  /\ UNCHANGED <<inputVars, phase, injections, extraStack, written, tableVars>>

WidenItself == WidenFrom(ip)

(* widen shifts what is behind the instruction; the loop starts again.     *)
Widen == WidenFrom(ip + 1)

-----------------------------------------------------------------------------
(* write_instruction without the injections.                               *)
Rewritten(i) ==
  LET op == code[i].op
      new == [k \in DOMAIN code[i].to |-> map[code[i].to[k]] - map[i]]
      wide == widening[i]
  IN  CASE op \in Branches /\ wide = 0 -> <<Item(i, op, 3, <<ToShort(new[1])>>)>>
        [] op \in Branches /\ wide = 2 -> <<Item(i, "goto_w", 5, new)>>
        [] op \in Branches /\ wide = 5 ->
             <<Item(i, "inverse", 3, <<3 + 5>>), Item(i, "goto_w", 5, <<new[1] - 3>>)>>
        [] op = "switch" -> <<Item(i, op, Length(op, map[i]), new)>>
        [] OTHER -> <<Item(i, op, Length(op, 0), new)>>

Calls(i) ==
  [k \in DOMAIN injections[i] |->
     Item(i, injections[i][k], TemplateLength(injections[i][k]), <<>>)]

WriteInstruction ==
  /\ phase = "write"
  /\ written' = written \o Calls(ip) \o Rewritten(ip)
  /\ Advance("tables")
  /\ UNCHANGED <<inputVars, map, injections, widening, extraStack, tableVars>>

-----------------------------------------------------------------------------
(* The tables of the method.  The model writes an entry for every position *)
(* and every range, so that each one a class file may hold is covered.  An *)
(* exception handler is a range and the position it begins at.             *)
Ranges == {r \in (1..End) \X (1..End) : r[1] < r[2]}

MappedStart(i) == map[i]

(* A line or a variable that begins the method keeps position 0, so that   *)
(* it covers the injected code.                                            *)
LineStart(i) == IF start[i] = 0 THEN 0 ELSE map[i]

(* Start and length of a variable.                                         *)
VarRange(from, to) == <<U2(LineStart(from)), U2(map[to] - LineStart(from))>>

(* The offsets that are mapped as they are: the frames of the CLDC         *)
(* StackMap, and the "new" instruction that a verification type            *)
(* JVM_ITEM_Uninitialized names.                                           *)
AbsoluteOffsets == [i \in DOMAIN code |-> map[i]]

NewTables ==
  [handled |-> [r \in Ranges |-> <<U2(map[r[1]]), U2(map[r[2]])>>],
   handlers |-> [i \in DOMAIN code |-> U2(map[i])],
   lines |-> [i \in DOMAIN code |-> U2(LineStart(i))],
   variables |-> [r \in Ranges |-> VarRange(r[1], r[2])],
   absolute |-> AbsoluteOffsets]

WriteTables ==
  /\ phase = "tables"
  /\ phase' = "frames"
  /\ tables' = NewTables
  /\ UNCHANGED <<inputVars, ip, map, injections, widening, extraStack, written, frames>>

(* write_stackmap_table gives each frame of the class file its new place.  *)
(* There is one for each target of a branch, in the order of the code; the *)
(* frames of handlers, which are no different, the verification types and  *)
(* the decoding of the old offsets (last_pc) are left out.                 *)
Targets == UNION {ToSet(code[i].to) : i \in DOMAIN code}

Unframed == Targets \ {frames[k].at : k \in DOMAIN frames}

FullDelta(k) == 0

(* All deltas but the first are one less than the distance.                *)
DeltaAdj(k) == IF k = 1 THEN 0 ELSE 1

WriteFrame ==
  LET k == Len(frames) + 1
      target == Min(Unframed)
      lastNew == IF k = 1 THEN 0 ELSE map[frames[k - 1].at]
      offset == map[target] - lastNew - DeltaAdj(k)
  IN  /\ phase = "frames" /\ Unframed # {}
      /\ frames' = Append(frames, [at |-> target, extended |-> offset > SameFrameMax,
                                   offset |-> offset])
      /\ UNCHANGED <<inputVars, phase, ip, map, injections, widening, extraStack,
                     written, tables>>

FinishMethod ==
  /\ phase = "frames" /\ Unframed = {}
  /\ phase' = "done"
  /\ UNCHANGED <<inputVars, ip, map, injections, widening, extraStack, written, tableVars>>

MethodStep ==
  \/ CopyMethod \/ InjectEntry \/ InjectForOpcode
  \/ InstructionFits \/ Widen
  \/ WriteInstruction \/ WriteTables \/ WriteFrame \/ FinishMethod

-----------------------------------------------------------------------------
(* The type of the variables of one method, a part of CrwClass's TypeOK.   *)
MethodTypeOK ==
  /\ phase \in {"none", "begin", "inject", "adjust", "write", "tables", "frames", "done"}
  /\ ip \in 1..End
  /\ map \in [1..End -> Nat]
  /\ injections \in [1..End -> Seq(Trackers)]
  /\ widening \in [1..End -> -3..5]
  /\ extraStack \in 0..2
  /\ \A k \in DOMAIN written : written[k].from \in DOMAIN code /\ written[k].len > 0

Total(lengths) ==
  LET sum[k \in 0..Len(lengths)] == IF k = 0 THEN 0 ELSE sum[k - 1] + lengths[k]
  IN  sum[Len(lengths)]

(* The assertions of inject_bytecodes (938, 939): an injection takes half  *)
(* of the buffer at most and what meets at one site fits into it; and      *)
(* what is injected finds the stack it pushes on.                          *)
InjectionFits ==
  \A i \in DOMAIN injections :
    LET lengths == [k \in DOMAIN injections[i] |-> TemplateLength(injections[i][k])]
    IN  /\ \A k \in DOMAIN lengths : 2 * lengths[k] <= LARGEST_INJECTION
        /\ Total(lengths) <= LARGEST_INJECTION
        /\ \A k \in DOMAIN lengths : StackNeeded(injections[i][k]) <= extraStack

Done == phase = "done"

(* Where the items of a sequence begin: each behind all before it.         *)
Starts(items) ==
  LET at[k \in 1..(Len(items) + 1)] ==
        IF k = 1 THEN 0 ELSE at[k - 1] + items[k - 1].len
  IN  at

(* Where the k-th item really is in the output.                            *)
Offsets == Starts(written)

(* A jump passes the injected calls but the one before a return.           *)
Passed == {"obj_init_tracker", "call_tracker", "newarray_tracker"}

(* Where a jump to instruction i has to go (comments at lines 1025-1030,   *)
(* 1155-1160 and 1539-1542).                                               *)
Landing(i) ==
  LET items == {k \in DOMAIN written : written[k].from = i /\ written[k].what \notin Passed}
  IN  Offsets[Min(items)]

(* Every branch and every case of a switch arrives where its target is     *)
(* now, and when an inverted branch is taken, the next instruction goes on.*)
BranchesLand ==
  Done => \A k \in DOMAIN written :
    LET item == written[k]
    IN  IF item.what = "inverse"
        THEN Offsets[k] + item.deltas[1] = Offsets[k + 2]
        ELSE \A d \in DOMAIN item.deltas :
               Offsets[k] + item.deltas[d] = Landing(code[item.from].to[d])

(* The operands of a switch begin at a multiple of four: its padding is    *)
(* that of the position it really has in the output.                       *)
SwitchesAligned ==
  Done => \A k \in DOMAIN written :
    written[k].what = "switch" => written[k].len = Length("switch", Offsets[k])

IsInstruction(k) == written[k].what \notin Trackers

(* The offsets of the tables have two bytes (JVM specification 4.7.3: code *)
(* of that length is no method).                                           *)
Short == Offsets[Len(written) + 1] < 2 * Reach

(* An exception handler and a variable cover the same instructions as      *)
(* before, the handler begins where its code begins, and so does every     *)
(* line, the first one with the injected entry code.                       *)
RangesCover ==
  Done /\ role # "skipped" /\ Short =>
    /\ \A r \in Ranges :
         LET handled == tables.handled[r]
             variable == tables.variables[r]
             covers(from, to) ==
               \A k \in DOMAIN written : IsInstruction(k) =>
                 (Offsets[k] \in from..(to - 1) <=> written[k].from \in r[1]..(r[2] - 1))
         IN  /\ covers(handled[1], handled[2])
             /\ covers(variable[1], variable[1] + variable[2])
    /\ \A i \in DOMAIN code :
         /\ tables.handlers[i] = Landing(i)
         /\ tables.lines[i] = IF i = 1 THEN 0 ELSE Landing(i)

(* Where the verifier finds the frames.                                    *)
FramePositions ==
  LET pc[k \in DOMAIN frames] ==
        IF k = 1 THEN frames[1].offset ELSE pc[k - 1] + frames[k].offset + 1
  IN  pc

(* Where the k-th item of the output can go, other than straight on.       *)
JumpsTo(k) == {Offsets[k] + written[k].deltas[d] : d \in DOMAIN written[k].deltas}

Inverted == {k \in DOMAIN written : written[k].what = "inverse"}

(* Decoded the way the verifier does it, the stack map that is written has *)
(* its frames where the branches of the written code go, all of them but   *)
(* the inverse of a widened if, and nowhere else; a frame of one byte has  *)
(* an offset that fits in it, and an absolute offset is where its frame is.*)
FramesAtTargets ==
  Done /\ role # "skipped" /\ Short =>
    /\ {FramePositions[k] : k \in DOMAIN frames}
         = UNION {JumpsTo(k) : k \in DOMAIN written \ Inverted}
    /\ \A k \in DOMAIN frames :
         /\ frames[k].extended \/ frames[k].offset \in 0..SameFrameMax
         /\ tables.absolute[frames[k].at] = FramePositions[k]

(* java_crw_demo.c:1726 ("We didn't add any basic blocks so the frame      *)
(* count remains the same"): a frame is wherever a branch of the written   *)
(* code goes, the inverse of a widened if with the others.                 *)
NoBlocksAdded ==
  Done /\ role # "skipped" /\ Short =>
    UNION {JumpsTo(k) : k \in DOMAIN written} \subseteq {FramePositions[k] : k \in DOMAIN frames}
=============================================================================

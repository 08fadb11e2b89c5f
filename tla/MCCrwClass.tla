----------------------------- MODULE MCCrwClass -----------------------------
(* CrwClass on every method of up to MaxFree instructions and a return     *)
(* behind them, with branches to the first, the last and one other         *)
(* instruction, and on classes of each kind with several short methods.    *)
EXTENDS CrwClass

CONSTANTS MaxFree

Straight(op) == [op |-> op, to |-> <<>>]
Jump(op, t) == [op |-> op, to |-> <<t>>]
Switch(t, u) == [op |-> "switch", to |-> <<t, u>>]

(* The instructions of a method of n + 1 instructions.                     *)
Free(n) ==
  {Straight(op) : op \in Fixed}
  \cup {Jump(op, t) : op \in Branches, t \in {1, n, n + 1}}
  \cup {Jump("goto_w", 1), Switch(n + 1, n)}

LongMethods(n) == {c \o <<Straight("return")>> : c \in [1..n -> Free(n)]}

Return == <<Straight("return")>>
Allocate == <<Straight("newarray"), Straight("return")>>
Loop == <<Straight("plain"), Jump("if", 1), Straight("return")>>
ShortMethods == {Return, Allocate, Loop}

(* The pool of every class file; index 4 belongs to the Long at 3.         *)
Pool(name) ==
  <<Utf8(name), Entry("Class", "", 1, 0), Entry("Long", "", 7, 7), Utf8("Code"),
    Utf8("Exceptions"), Utf8("()V"), Utf8("(I)V"), Utf8("<init>"), Utf8("<clinit>"),
    Utf8("finalize"), Utf8("currentThread")>>

Names == 9..12
Descr(text) == IF text = "()V" THEN 7 ELSE 8
Code(c) == [name |-> 5, body |-> c]
Exceptions == [name |-> 6, body |-> <<>>]
MethodOf(name, descr, attributes) ==
  [name |-> name, descr |-> Descr(descr), attributes |-> attributes]

ClassFile(name, methods) ==
  [name |-> name, hasSuper |-> name # "java/lang/Object", isInterface |-> FALSE,
   supported |-> TRUE, pool |-> Pool(name), methods |-> methods]

Input(f, system, named) ==
  [file |-> f, systemClass |-> system, trackers |-> named, empty |-> FALSE,
   signaturesOK |-> TRUE]

Only == {"obj_init_tracker"}
ClassNames == {"java/lang/Object", "java/lang/Thread", "C"}

OneMethod(name, n) ==
  {Input(ClassFile(name, <<MethodOf(9, "()V", <<Code(c)>>)>>), FALSE, Trackers) :
     c \in LongMethods(n)}

Several ==
  {Input(ClassFile(name, <<MethodOf(n, d, <<Exceptions, Code(c1)>>), MethodOf(11, "()V", <<Exceptions>>),
                           MethodOf(9, "()V", <<Code(c2)>>)>>), system, named) :
     name \in ClassNames, n \in Names, d \in {"()V", "(I)V"},
     c1 \in ShortMethods, c2 \in ShortMethods, system \in BOOLEAN,
     named \in {Only, {"newarray_tracker"}, Trackers}}

Plain ==
  Input(ClassFile("C", <<MethodOf(9, "()V", <<Code(Return)>>)>>), FALSE, Trackers)

Odd ==
  {[Plain EXCEPT !.empty = TRUE], [Plain EXCEPT !.signaturesOK = FALSE],
   [Plain EXCEPT !.file.supported = FALSE], [Plain EXCEPT !.file.isInterface = TRUE],
   [Plain EXCEPT !.file.methods = <<>>]}

MCInputs ==
  OneMethod("C", MaxFree) \cup OneMethod("java/lang/Object", MaxFree - 1)
  \cup Several \cup Odd
=============================================================================

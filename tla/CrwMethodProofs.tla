--------------------------- MODULE CrwMethodProofs --------------------------
(***************************************************************************)
(* Proofs about the rewriting of a method.  MethodInv says, phase by       *)
(* phase, what has been established: the map carries every instruction to  *)
(* where its injections and widths put it, the widths are wide enough, and *)
(* the items written, the tables and the frames are as the map says.  It   *)
(* is inductive, and for a method that has been written it implies the     *)
(* five properties of CrwMethod, whatever the instructions and however     *)
(* many injections.                                                        *)
(***************************************************************************)
EXTENDS CrwMethod, FiniteSetTheorems, SequenceTheorems, WellFoundedInduction, TLAPS

-----------------------------------------------------------------------------
(* Induction, and the recursive functions that are used below.             *)

(* Induction over the naturals, for a set instead of a predicate: a least  *)
(* number outside of S would have a predecessor in S.                      *)
NatLess == {p \in Nat \X Nat : p[1] < p[2]}

(* A nonempty set of naturals has a least element.                         *)
LEMMA LeastNat ==
  ASSUME NEW T, T \subseteq Nat, T # {}
  PROVE  \E x \in T : \A y \in T : x <= y
<1>1. OpToRel(<, Nat) = NatLess
  BY Zenon DEF OpToRel, NatLess
<1>2. IsWellFoundedOn(NatLess, Nat)
  BY <1>1, NatLessThanWellFounded, Zenon
<1>3. PICK x \in T : \A y \in T : ~(<<y, x>> \in NatLess)
  BY <1>2, WFMin
<1>4. \A y \in T : y \in Nat /\ x \in Nat /\ (<<y, x>> \notin NatLess => x <= y)
  BY DEF NatLess
<1> QED
  BY <1>3, <1>4

(* Induction over the naturals, for a set instead of a predicate: a least  *)
(* number outside of S would have a predecessor in S.                      *)
LEMMA NatSetInduction ==
  ASSUME NEW S, 0 \in S, \A n \in Nat : n \in S => n + 1 \in S
  PROVE  \A n \in Nat : n \in S
<1> DEFINE T == Nat \ S
<1> SUFFICES ASSUME T # {} PROVE FALSE
  OBVIOUS
<1>1. PICK x \in T : \A y \in T : x <= y
  BY LeastNat
<1>2. x \in Nat /\ x # 0
  OBVIOUS
<1>3. x - 1 \in T /\ x - 1 \in Nat
  BY <1>2
<1> QED
  BY <1>1, <1>2, <1>3

(* The same between two bounds.                                            *)
LEMMA Climb ==
  ASSUME NEW S, NEW lo \in Int, NEW hi \in Int,
         lo \in S, \A n \in lo..(hi - 1) : n \in S => n + 1 \in S
  PROVE  \A n \in lo..hi : n \in S
<1> DEFINE T == {d \in Nat : lo + d > hi \/ lo + d \in S}
<1>1. 0 \in T
  OBVIOUS
<1>2. ASSUME NEW d \in Nat, d \in T PROVE d + 1 \in T
  <2>1. CASE lo + d > hi - 1
    BY <1>2, <2>1
  <2>2. CASE lo + d <= hi - 1
    <3>1. lo + d \in S /\ lo + d \in lo..(hi - 1)
      BY <1>2, <2>2
    <3>2. (lo + d) + 1 \in S
      BY <3>1
    <3> QED
      BY <3>2
  <2> QED
    BY <2>1, <2>2
<1> HIDE DEF T
<1>3. \A d \in Nat : d \in T
  BY <1>1, <1>2, NatSetInduction
<1>4. ASSUME NEW n \in lo..hi PROVE n \in S
  <2>1. n - lo \in T
    BY <1>3
  <2> QED
    BY <2>1 DEF T
<1> QED
  BY <1>4

(* What each value hands on to the next one holds for all of them.         *)
LEMMA Typed ==
  ASSUME NEW lo \in Int, NEW hi \in Int, NEW S, NEW F, F[lo] \in S,
         \A k \in lo..(hi - 1) : F[k] \in S => F[k + 1] \in S
  PROVE  \A k \in lo..hi : F[k] \in S
<1> DEFINE T == {k \in Int : F[k] \in S}
<1>1. lo \in T /\ \A k \in lo..(hi - 1) : k \in T => k + 1 \in T
  OBVIOUS
<1> HIDE DEF T
<1>2. \A k \in lo..hi : k \in T
  BY <1>1, Climb
<1> QED
  BY <1>2 DEF T

(* A function on an interval, each value of which follows from the one     *)
(* before it.                                                              *)
Follows(lo, hi, a, g, f) ==
  f = [k \in lo..hi |-> IF k = lo THEN a ELSE g[<<k, f[k - 1]>>]]

(* There is such a function.                                               *)
LEMMA Recursion ==
  ASSUME NEW lo \in Int, NEW hi \in Int, NEW S, NEW a \in S,
         NEW g \in [((lo + 1)..hi) \X S -> S]
  PROVE  \E f \in [lo..hi -> S] : Follows(lo, hi, a, g, f)
<1> DEFINE Good(h) == \E f \in [lo..h -> S] : Follows(lo, h, a, g, f)
           T == {h \in lo..hi : Good(h)}
<1>1. CASE hi < lo
  <2> DEFINE e == [k \in lo..hi |-> a]
  <2>1. e \in [lo..hi -> S] /\ \A k \in lo..hi : FALSE
    BY <1>1
  <2>2. Follows(lo, hi, a, g, e)
    BY <2>1 DEF Follows
  <2> QED
    BY <2>1, <2>2
<1>2. CASE lo <= hi
  <2>1. lo \in T
    <3> DEFINE e == [k \in lo..lo |-> a]
    <3>1. e \in [lo..lo -> S] /\ \A k \in lo..lo : k = lo
      OBVIOUS
    <3>2. Follows(lo, lo, a, g, e)
      BY <3>1 DEF Follows
    <3> QED
      BY <1>2, <3>1, <3>2
  <2>2. ASSUME NEW h \in lo..(hi - 1), h \in T PROVE h + 1 \in T
    <3>1. PICK f \in [lo..h -> S] : Follows(lo, h, a, g, f)
      BY <2>2
    <3> DEFINE e == [k \in lo..(h + 1) |-> IF k = h + 1 THEN g[<<h + 1, f[h]>>] ELSE f[k]]
    <3>2. f[h] \in S /\ h + 1 \in (lo + 1)..hi
      OBVIOUS
    <3>3. g[<<h + 1, f[h]>>] \in S
      BY <3>2
    <3>4. e \in [lo..(h + 1) -> S]
      BY <3>3
    <3>5. \A k \in lo..h : f[k] = IF k = lo THEN a ELSE g[<<k, f[k - 1]>>]
      BY <3>1 DEF Follows
    <3>6. ASSUME NEW k \in lo..(h + 1)
          PROVE  e[k] = IF k = lo THEN a ELSE g[<<k, e[k - 1]>>]
      <4>1. CASE k = h + 1
        <5>1. e[k] = g[<<h + 1, f[h]>>] /\ e[k - 1] = f[h] /\ k # lo
          BY <4>1
        <5> QED
          BY <4>1, <5>1
      <4>2. CASE k # h + 1
        <5>1. k \in lo..h /\ e[k] = f[k] /\ (k # lo => e[k - 1] = f[k - 1])
          BY <4>2
        <5> HIDE DEF e
        <5> QED
          BY <3>5, <5>1
      <4> QED
        BY <4>1, <4>2
    <3> HIDE DEF e
    <3>7. e = [k \in lo..(h + 1) |-> e[k]]
      BY <3>4
    <3>8. Follows(lo, h + 1, a, g, e)
      BY <3>6, <3>7, Zenon DEF Follows
    <3> QED
      BY <3>4, <3>8
  <2> HIDE DEF T
  <2>3. \A n \in lo..hi : n \in T
    BY <2>1, <2>2, Climb
  <2> QED
    BY <1>2, <2>3 DEF T
<1> QED
  BY <1>1, <1>2

(* Min is the least of a set of integers with a lower bound.               *)
LEMMA MinLeast ==
  ASSUME NEW T, T \subseteq Nat, T # {}
  PROVE  Min(T) \in T /\ \A y \in T : Min(T) <= y
  BY LeastNat DEF Min

StartsBody(items, f) ==
  [k \in 1..(Len(items) + 1) |-> IF k = 1 THEN 0 ELSE f[k - 1] + items[k - 1].len]

(* Starts is the recursion it is written as, over items of any length.     *)
LEMMA StartsFacts ==
  ASSUME NEW items, Len(items) \in Nat, \A k \in 1..Len(items) : items[k].len \in Nat
  PROVE  /\ Starts(items) \in [1..(Len(items) + 1) -> Nat]
         /\ Starts(items)[1] = 0
         /\ \A k \in 1..Len(items) : Starts(items)[k + 1] = Starts(items)[k] + items[k].len
<1> DEFINE n == Len(items)
           g == [p \in ((1 + 1)..(n + 1)) \X Nat |-> p[2] + items[p[1] - 1].len]
           F == Starts(items)
<1>0. n \in Nat /\ n + 1 \in Int /\ 1 \in Int /\ 0 \in Nat
  OBVIOUS
<1>1. g \in [((1 + 1)..(n + 1)) \X Nat -> Nat]
  OBVIOUS
<1>2. \A k \in 2..(n + 1) : \A x \in Nat : g[<<k, x>>] = x + items[k - 1].len
  OBVIOUS
<1> HIDE DEF g, n
<1>3. PICK f \in [1..(n + 1) -> Nat] : Follows(1, n + 1, 0, g, f)
  BY <1>0, <1>1, Recursion
<1>4. \A k \in 1..(n + 1) : f[k] = IF k = 1 THEN 0 ELSE f[k - 1] + items[k - 1].len
  <2>1. \A k \in 1..(n + 1) : f[k] = IF k = 1 THEN 0 ELSE g[<<k, f[k - 1]>>]
    BY <1>3 DEF Follows
  <2>2. \A k \in 1..(n + 1) : k # 1 => k \in 2..(n + 1) /\ f[k - 1] \in Nat
    BY <1>0
  <2> QED
    BY <1>2, <2>1, <2>2
<1>5. f = StartsBody(items, f)
  BY <1>4, Zenon DEF StartsBody, n
<1>6. F = CHOOSE h : h = StartsBody(items, h)
  BY Zenon DEF Starts, StartsBody
<1> HIDE DEF F
<1>7. F = StartsBody(items, F)
  BY <1>5, <1>6, Zenon
<1>8. F = [k \in 1..(n + 1) |-> IF k = 1 THEN 0 ELSE F[k - 1] + items[k - 1].len]
  BY <1>7, Zenon DEF StartsBody, n
<1>9. F[1] = 0 /\ \A k \in 1..n : F[k + 1] = F[k] + items[k].len
  <2>1. F[1] = 0
    BY <1>0, <1>8
  <2>2. ASSUME NEW k \in 1..n
        PROVE  F[k + 1] = F[k] + items[k].len
    <3>1. k + 1 \in 1..(n + 1) /\ k + 1 # 1 /\ (k + 1) - 1 = k
      BY <1>0
    <3>2. F[k + 1] = F[(k + 1) - 1] + items[(k + 1) - 1].len
      BY <1>8, <3>1
    <3> QED
      BY <3>1, <3>2
  <2> QED
    BY <2>1, <2>2
<1>10. \A k \in 1..(n + 1) : F[k] \in Nat
  <2>1. \A k \in 1..n : items[k].len \in Nat
    BY DEF n
  <2>2. ASSUME NEW k \in 1..((n + 1) - 1), F[k] \in Nat
        PROVE  F[k + 1] \in Nat
    <3>1. k \in 1..n
      BY <1>0
    <3>2. F[k + 1] = F[k] + items[k].len /\ items[k].len \in Nat
      BY <1>9, <2>1, <3>1
    <3> QED
      BY <2>2, <3>2
  <2> QED
    BY <1>0, <1>9, <2>2, Typed
<1>11. F \in [1..(n + 1) -> Nat]
  BY <1>8, <1>10
<1> QED
  BY <1>9, <1>11 DEF F, n

(* Items begin behind all items before them.                               *)
LEMMA StartsIncrease ==
  ASSUME NEW items, Len(items) \in Nat, \A k \in 1..Len(items) : items[k].len \in Nat,
         NEW j \in 1..Len(items)
  PROVE  \A k \in (j + 1)..(Len(items) + 1) : Starts(items)[j] + items[j].len <= Starts(items)[k]
<1> DEFINE F == Starts(items)
           n == Len(items)
           T == {k \in (j + 1)..(n + 1) : F[j] + items[j].len <= F[k]}
<1>1. /\ F \in [1..(n + 1) -> Nat]
      /\ \A k \in 1..n : F[k + 1] = F[k] + items[k].len /\ items[k].len \in Nat
      /\ n \in Nat
  BY StartsFacts
<1> HIDE DEF F, n
<1>2. j + 1 \in T /\ j + 1 \in Int /\ n + 1 \in Int
  BY <1>1 DEF n
<1>3. ASSUME NEW k \in (j + 1)..((n + 1) - 1), k \in T
      PROVE  k + 1 \in T
  <2>0. j \in 1..n
    BY DEF n
  <2>1. k \in 1..n /\ j \in 1..(n + 1) /\ k \in 1..(n + 1) /\ k + 1 \in (j + 1)..(n + 1)
    BY <1>1, <2>0
  <2>2. F[k + 1] = F[k] + items[k].len /\ items[k].len \in Nat /\ items[j].len \in Nat
        /\ F[j] \in Nat /\ F[k] \in Nat
    BY <1>1, <2>0, <2>1
  <2>3. F[j] + items[j].len <= F[k]
    BY <1>3
  <2>4. F[j] + items[j].len <= F[k + 1]
    BY <2>2, <2>3
  <2> QED
    BY <2>1, <2>4
<1> HIDE DEF T
<1>4. \A k \in (j + 1)..(n + 1) : k \in T
  BY <1>2, <1>3, Climb
<1> QED
  BY <1>4 DEF T, F, n

(* What comes later does not move an item.                                 *)
LEMMA StartsPrefix ==
  ASSUME NEW s, NEW t, Len(s) \in Nat, Len(t) \in Nat, Len(s) <= Len(t),
         \A k \in 1..Len(t) : t[k].len \in Nat,
         \A k \in 1..Len(s) : t[k] = s[k]
  PROVE  \A k \in 1..(Len(s) + 1) : Starts(t)[k] = Starts(s)[k]
<1> DEFINE F == Starts(s)
           G == Starts(t)
           n == Len(s)
           T == {k \in 1..(n + 1) : G[k] = F[k]}
<1>1. /\ F[1] = 0 /\ G[1] = 0
      /\ \A k \in 1..n : F[k + 1] = F[k] + s[k].len /\ G[k + 1] = G[k] + t[k].len
      /\ n \in Nat
  <2>1. /\ G[1] = 0
        /\ \A k \in 1..Len(t) : G[k + 1] = G[k] + t[k].len
    BY StartsFacts
  <2>2. \A k \in 1..Len(s) : k \in 1..Len(t) /\ s[k].len \in Nat
    OBVIOUS
  <2>3. /\ F[1] = 0
        /\ \A k \in 1..Len(s) : F[k + 1] = F[k] + s[k].len
    BY <2>2, StartsFacts
  <2> HIDE DEF F, G
  <2> QED
    BY <2>1, <2>2, <2>3
<1> HIDE DEF F, G, n
<1>2. 1 \in T /\ 1 \in Int /\ n + 1 \in Int
  BY <1>1
<1>3. \A k \in 1..((n + 1) - 1) : k \in T => k + 1 \in T
  BY <1>1 DEF n
<1> HIDE DEF T
<1>4. \A k \in 1..(n + 1) : k \in T
  BY <1>2, <1>3, Climb
<1> QED
  BY <1>4 DEF T, F, G, n

(* The bytes before the operands of a switch, and of an instruction.       *)
LEMMA LengthFacts ==
  /\ \A p \in Nat : ToBoundary(p) \in 1..4
  /\ \A op \in Opcodes : \A p \in Nat : Length(op, p) \in 1..20
  /\ \A op \in Opcodes : \A p, q \in Nat : op # "switch" => Length(op, p) = Length(op, q)
  /\ \A p \in Nat : Length("switch", p) = ToBoundary(p) + 16
<1>1. \A p \in Nat : ToBoundary(p) \in 1..4
  BY DEF ToBoundary
<1> QED
  BY <1>1 DEF Length, Opcodes, Fixed, Branches

LayoutBody(c, f) ==
  [i \in 1..(Len(c) + 1) |-> IF i = 1 THEN 0 ELSE f[i - 1] + Length(c[i - 1].op, f[i - 1])]

(* The positions of the instructions of a method.                          *)
LEMMA LayoutFacts ==
  ASSUME NEW c, Len(c) \in Nat, \A k \in 1..Len(c) : c[k].op \in Opcodes
  PROVE  /\ Layout(c) \in [1..(Len(c) + 1) -> Nat]
         /\ Layout(c)[1] = 0
         /\ \A k \in 1..Len(c) : Layout(c)[k + 1] = Layout(c)[k] + Length(c[k].op, Layout(c)[k])
<1> DEFINE n == Len(c)
           g == [p \in ((1 + 1)..(n + 1)) \X Nat |-> p[2] + Length(c[p[1] - 1].op, p[2])]
           F == Layout(c)
<1>0. n \in Nat /\ n + 1 \in Int /\ 1 \in Int /\ 0 \in Nat
  OBVIOUS
<1>1. g \in [((1 + 1)..(n + 1)) \X Nat -> Nat]
  <2>1. \A p \in ((1 + 1)..(n + 1)) \X Nat : p[2] + Length(c[p[1] - 1].op, p[2]) \in Nat
    <3> SUFFICES ASSUME NEW i \in (1 + 1)..(n + 1), NEW x \in Nat
                 PROVE  x + Length(c[i - 1].op, x) \in Nat
      OBVIOUS
    <3> DEFINE op == c[i - 1].op
    <3>1. op \in Opcodes
      OBVIOUS
    <3> HIDE DEF op
    <3>2. Length(op, x) \in 1..20
      BY <3>1, LengthFacts
    <3> DEFINE L == Length(op, x)
    <3>3. L \in Nat
      BY <3>2, SMTT(40)
    <3> HIDE DEF L
    <3>4. x + L \in Nat
      BY <3>3
    <3> QED
      BY <3>4, Zenon DEF op, L
  <2> QED
    BY <2>1
<1>2. \A k \in 2..(n + 1) : \A x \in Nat : g[<<k, x>>] = x + Length(c[k - 1].op, x)
  OBVIOUS
<1> HIDE DEF g, n
<1>3. PICK f \in [1..(n + 1) -> Nat] : Follows(1, n + 1, 0, g, f)
  BY <1>0, <1>1, Recursion
<1>4. \A k \in 1..(n + 1) : f[k] = IF k = 1 THEN 0 ELSE f[k - 1] + Length(c[k - 1].op, f[k - 1])
  <2>1. \A k \in 1..(n + 1) : f[k] = IF k = 1 THEN 0 ELSE g[<<k, f[k - 1]>>]
    BY <1>3 DEF Follows
  <2>2. \A k \in 1..(n + 1) : k # 1 => k \in 2..(n + 1) /\ f[k - 1] \in Nat
    BY <1>0
  <2> QED
    BY <1>2, <2>1, <2>2
<1>5. f = LayoutBody(c, f)
  BY <1>4, Zenon DEF LayoutBody, n
<1>6. F = CHOOSE h : h = LayoutBody(c, h)
  BY Zenon DEF Layout, LayoutBody
<1> HIDE DEF F
<1>7. F = LayoutBody(c, F)
  BY <1>5, <1>6, Zenon
<1>8. F = [k \in 1..(n + 1) |-> IF k = 1 THEN 0 ELSE F[k - 1] + Length(c[k - 1].op, F[k - 1])]
  BY <1>7, Zenon DEF LayoutBody, n
<1>9. F[1] = 0 /\ \A k \in 1..n : F[k + 1] = F[k] + Length(c[k].op, F[k])
  <2>1. F[1] = 0
    BY <1>0, <1>8
  <2>2. ASSUME NEW k \in 1..n
        PROVE  F[k + 1] = F[k] + Length(c[k].op, F[k])
    <3>1. k + 1 \in 1..(n + 1) /\ k + 1 # 1 /\ (k + 1) - 1 = k
      BY <1>0
    <3>2. F[k + 1] = F[(k + 1) - 1] + Length(c[(k + 1) - 1].op, F[(k + 1) - 1])
      BY <1>8, <3>1
    <3> QED
      BY <3>1, <3>2
  <2> QED
    BY <2>1, <2>2
<1>10. \A k \in 1..(n + 1) : F[k] \in Nat
  <2>1. \A k \in 1..n : c[k].op \in Opcodes
    BY DEF n
  <2>2. ASSUME NEW k \in 1..((n + 1) - 1), F[k] \in Nat
        PROVE  F[k + 1] \in Nat
    <3> DEFINE op == c[k].op
    <3>1. k \in 1..n
      BY <1>0
    <3>2. F[k + 1] = F[k] + Length(op, F[k]) /\ op \in Opcodes
      BY <1>9, <2>1, <3>1
    <3> HIDE DEF op
    <3>3. Length(op, F[k]) \in 1..20
      BY <2>2, <3>2, LengthFacts
    <3> QED
      BY <2>2, <3>2, <3>3, SMTT(40)
  <2> QED
    BY <1>0, <1>9, <2>2, Typed
<1>11. F \in [1..(n + 1) -> Nat]
  BY <1>8, <1>10
<1> QED
  BY <1>9, <1>11 DEF F, n

(* A sequence of positions that never goes back.                           *)
LEMMA Increasing ==
  ASSUME NEW n \in Nat, NEW F \in [1..(n + 1) -> Int],
         \A k \in 1..n : F[k] < F[k + 1]
  PROVE  \A i \in 1..(n + 1) : \A j \in 1..(n + 1) : i < j => F[i] < F[j]
<1> SUFFICES ASSUME NEW i \in 1..(n + 1)
             PROVE  \A j \in (i + 1)..(n + 1) : F[i] < F[j]
  OBVIOUS
<1> DEFINE T == {j \in (i + 1)..(n + 1) : F[i] < F[j]}
<1>1. CASE i = n + 1
  BY <1>1
<1>2. CASE i <= n
  <2>1. i + 1 \in T /\ i + 1 \in Int /\ n + 1 \in Int
    BY <1>2
  <2>2. \A k \in (i + 1)..((n + 1) - 1) : k \in T => k + 1 \in T
    OBVIOUS
  <2> HIDE DEF T
  <2>3. \A k \in (i + 1)..(n + 1) : k \in T
    BY <2>1, <2>2, Climb
  <2> QED
    BY <2>3 DEF T
<1> QED
  BY <1>1, <1>2

TotalBody(lengths, f) ==
  [k \in 0..Len(lengths) |-> IF k = 0 THEN 0 ELSE f[k - 1] + lengths[k]]

(* Total adds the lengths up one by one.                                   *)
LEMMA TotalFacts ==
  ASSUME NEW lengths, Len(lengths) \in Nat, \A k \in 1..Len(lengths) : lengths[k] \in Nat
  PROVE  \E F \in [0..Len(lengths) -> Nat] :
            /\ F[0] = 0
            /\ \A k \in 1..Len(lengths) : F[k] = F[k - 1] + lengths[k]
            /\ Total(lengths) = F[Len(lengths)]
<1> DEFINE n == Len(lengths)
           g == [p \in ((0 + 1)..n) \X Nat |-> p[2] + lengths[p[1]]]
<1>0. n \in Nat /\ n \in Int /\ 0 \in Int /\ 0 \in Nat
  OBVIOUS
<1>1. g \in [((0 + 1)..n) \X Nat -> Nat]
  OBVIOUS
<1>2. \A k \in 1..n : \A x \in Nat : g[<<k, x>>] = x + lengths[k]
  OBVIOUS
<1> HIDE DEF g, n
<1>3. PICK f \in [0..n -> Nat] : Follows(0, n, 0, g, f)
  BY <1>0, <1>1, Recursion
<1>4. \A k \in 0..n : f[k] = IF k = 0 THEN 0 ELSE f[k - 1] + lengths[k]
  <2>1. \A k \in 0..n : f[k] = IF k = 0 THEN 0 ELSE g[<<k, f[k - 1]>>]
    BY <1>3 DEF Follows
  <2>2. \A k \in 0..n : k # 0 => k \in 1..n /\ f[k - 1] \in Nat
    BY <1>0
  <2> QED
    BY <1>2, <2>1, <2>2
<1>5. f = TotalBody(lengths, f)
  BY <1>4, Zenon DEF TotalBody, n
<1> DEFINE F == CHOOSE h : h = TotalBody(lengths, h)
<1>6. Total(lengths) = F[Len(lengths)]
  BY Zenon DEF Total, TotalBody
<1>7. F = TotalBody(lengths, F)
  BY <1>5, Zenon
<1> HIDE DEF F
<1>8. F = [k \in 0..n |-> IF k = 0 THEN 0 ELSE F[k - 1] + lengths[k]]
  BY <1>7, Zenon DEF TotalBody, n
<1>9. F[0] = 0 /\ \A k \in 1..n : F[k] = F[k - 1] + lengths[k]
  BY <1>0, <1>8
<1>10. \A k \in 0..n : F[k] \in Nat
  <2>1. \A k \in 1..n : lengths[k] \in Nat
    BY DEF n
  <2>2. ASSUME NEW k \in 0..(n - 1), F[k] \in Nat
        PROVE  F[k + 1] \in Nat
    <3>1. k + 1 \in 1..n /\ (k + 1) - 1 = k
      BY <1>0
    <3>2. F[k + 1] = F[(k + 1) - 1] + lengths[k + 1] /\ lengths[k + 1] \in Nat
      BY <1>9, <2>1, <3>1
    <3> QED
      BY <2>2, <3>1, <3>2
  <2> QED
    BY <1>0, <1>9, <2>2, Typed
<1>11. F \in [0..n -> Nat]
  BY <1>8, <1>10
<1> QED
  BY <1>6, <1>9, <1>11 DEF n

(* A total is positive when one of its parts is.                           *)
LEMMA TotalPositive ==
  ASSUME NEW lengths, Len(lengths) \in Nat, \A k \in 1..Len(lengths) : lengths[k] \in Nat
  PROVE  /\ Total(lengths) \in Nat
         /\ Total(lengths) > 0 <=> \E k \in 1..Len(lengths) : lengths[k] > 0
<1>1. PICK F \in [0..Len(lengths) -> Nat] :
        /\ F[0] = 0
        /\ \A k \in 1..Len(lengths) : F[k] = F[k - 1] + lengths[k]
        /\ Total(lengths) = F[Len(lengths)]
  BY TotalFacts
<1> DEFINE n == Len(lengths)
           T == {k \in 0..n : F[k] > 0 <=> \E j \in 1..k : lengths[j] > 0}
<1> HIDE DEF n
<1>2. n \in Nat /\ n \in Int /\ 0 \in Int /\ 0 \in T
  BY <1>1 DEF n
<1>3. ASSUME NEW k \in 0..(n - 1), k \in T
      PROVE  k + 1 \in T
  <2>1. k + 1 \in 1..n /\ F[k + 1] = F[k] + lengths[k + 1] /\ lengths[k + 1] \in Nat /\ F[k] \in Nat
    BY <1>1, <1>2, SMTT(40) DEF n
  <2>2. \A j \in Int : j \in 1..(k + 1) <=> j \in 1..k \/ j = k + 1
    OBVIOUS
  <2> QED
    BY <1>3, <2>1, <2>2
<1> HIDE DEF T
<1>4. \A k \in 0..n : k \in T
  BY <1>2, <1>3, Climb
<1>5. n \in T
  BY <1>2, <1>4
<1> QED
  BY <1>1, <1>2, <1>5 DEF T, n

-----------------------------------------------------------------------------
(* The invariant of a method that is being rewritten, phase by phase.      *)

(* What is injected in front of position i for the code before it, where   *)
(* jumps to i do not meet it, and what is injected for instruction i.      *)
Pre(i) == IF i = 1 THEN EntryInjection ELSE AfterInjection(code[i - 1].op)
Before(i) == IF i = End THEN <<>> ELSE BeforeInjection(code[i].op)

Working == phase # "none"
Copies == role = "skipped"
Adjusted == {"write", "tables", "frames", "done"}

(* The sites before this one have their injections.                        *)
Handled == IF phase = "begin" \/ Copies THEN 0 ELSE IF phase = "inject" THEN ip ELSE End
PreNow(i) == IF i <= Handled THEN Pre(i) ELSE <<>>
BeforeNow(i) == IF i < Handled THEN Before(i) ELSE <<>>

(* The instructions up to this one are written.                            *)
Instructed ==
  IF Copies \/ phase \notin Adjusted THEN 0 ELSE IF phase = "write" THEN ip - 1 ELSE Len(code)

InputInv ==
  /\ role \in Roles /\ trackers \subseteq Trackers
  /\ Working => /\ IsMethod(code) /\ Encodable(code)
                /\ start = Layout(code)
                /\ ip \in 1..Len(code)
                /\ Copies => phase \in {"begin", "done"}
                /\ phase \in {"begin", "tables", "frames", "done"} => ip = 1

SiteInv ==
  /\ Working => \A i \in 1..End : injections[i] = PreNow(i) \o BeforeNow(i)
  /\ \A i \in 1..End :
       /\ Len(injections[i]) <= 2
       /\ \A k \in 1..Len(injections[i]) : StackNeeded(injections[i][k]) <= extraStack

Widenings(i) ==
  CASE code[i].op = "goto" -> {0, 2}
    [] code[i].op = "if" -> {0, 5}
    [] code[i].op = "switch" -> {w \in -3..3 : ToBoundary(start[i]) + w \in 1..4}
    [] OTHER -> {0}

(* How far position i + 1 is behind position i.                            *)
Distance(i) ==
  Length(code[i].op, start[i]) + widening[i] + InjectedLength(BeforeNow(i))
    + InjectedLength(PreNow(i + 1))

MapInv ==
  Working =>
    /\ \A i \in 1..Len(code) : widening[i] \in Widenings(i)
    /\ map[1] = InjectedLength(PreNow(1))
    /\ \A i \in 1..Len(code) : map[i + 1] = map[i] + Distance(i)

FitInv ==
  /\ phase = "adjust" => \A i \in 1..(ip - 1) : Wanted(i) = widening[i]
  /\ phase \in Adjusted /\ ~Copies => \A i \in 1..Len(code) : Wanted(i) = widening[i]

(* The calls of the list T at instruction i.                               *)
CallItem(i, T) == Item(i, T[1], TemplateLength(T[1]), <<>>)

(* The k-th item of an output w is what is written for instruction i: the  *)
(* call in front of it, that before it, itself, or the goto_w behind the   *)
(* inverted branch.                                                        *)
IsPre(w, k, i) ==
  /\ Pre(i) # <<>> /\ w[k] = CallItem(i, Pre(i))
  /\ Starts(w)[k] = map[i] - InjectedLength(Pre(i))
IsBefore(w, k, i) ==
  /\ Before(i) # <<>> /\ w[k] = CallItem(i, Before(i))
  /\ Starts(w)[k] = map[i]
IsFirst(w, k, i) ==
  /\ w[k] = Rewritten(i)[1]
  /\ Starts(w)[k] = map[i] + InjectedLength(Before(i))
  /\ Len(Rewritten(i)) = 2 => k + 1 \in 1..Len(w) /\ w[k + 1] = Rewritten(i)[2]
IsSecond(w, k, i) ==
  /\ Len(Rewritten(i)) = 2 /\ w[k] = Rewritten(i)[2]
  /\ Starts(w)[k] = map[i] + 3

Items ==
  [from : 1..Len(code), what : Trackers \cup Opcodes \cup {"inverse"}, len : 1..20,
   deltas : Seq(Int)]

(* The output w is what is written for the instructions up to n.           *)
WrittenOK(w, n) ==
  /\ w \in Seq(Items)
  /\ Starts(w)[Len(w) + 1] = map[n + 1] - InjectedLength(Pre(n + 1))
  /\ \A k \in 1..Len(w) : \E i \in 1..n :
       IsPre(w, k, i) \/ IsBefore(w, k, i) \/ IsFirst(w, k, i) \/ IsSecond(w, k, i)
  /\ \A i \in 1..n :
       /\ Pre(i) # <<>> => \E k \in 1..Len(w) : IsPre(w, k, i)
       /\ Before(i) # <<>> => \E k \in 1..Len(w) : IsBefore(w, k, i)
       /\ \E k \in 1..Len(w) : IsFirst(w, k, i)

WrittenInv ==
  Working /\ ~Copies =>
    IF phase \in Adjusted THEN WrittenOK(written, Instructed) ELSE written = <<>>

TableInv == phase \in {"frames", "done"} /\ ~Copies => tables = NewTables

Frames == [at : 1..Len(code), extended : BOOLEAN, offset : Int]

FrameInv ==
  /\ Working => frames \in Seq(Frames)
  /\ phase \in {"begin", "inject", "adjust", "write", "tables"} => frames = <<>>
  /\ phase \in {"frames", "done"} /\ ~Copies =>
       /\ \A k \in 1..Len(frames) :
            /\ frames[k].at \in Targets
            /\ frames[k].offset = map[frames[k].at] - DeltaAdj(k)
                                   - (IF k = 1 THEN 0 ELSE map[frames[k - 1].at])
            /\ frames[k].extended <=> frames[k].offset > SameFrameMax
            /\ k > 1 => frames[k - 1].at < frames[k].at
       /\ frames # <<>> => \A t \in Unframed : frames[Len(frames)].at < t
       /\ phase = "done" => Unframed = {}

(* Nothing is injected when only the constructor of Object is tracked.     *)
Untouched == trackers = {"obj_init_tracker"} /\ role # "objectInit"

CopyInv ==
  Working =>
    /\ Copies => written = IF phase = "done" THEN Copied(code) ELSE <<>>
    /\ Untouched => /\ map = start
                    /\ \A i \in 1..Len(code) : widening[i] = 0
                    /\ ~Copies => written = [i \in 1..Instructed |-> Copied(code)[i]]

MethodInv ==
  /\ MethodTypeOK /\ InputInv /\ SiteInv /\ MapInv /\ FitInv /\ WrittenInv
  /\ TableInv /\ FrameInv /\ CopyInv

-----------------------------------------------------------------------------
(* What the invariant says of the input, the sites and the tables.         *)

(* The code of a method, and the positions of its instructions.            *)
LEMMA InputFacts ==
  ASSUME Working, InputInv
  PROVE  /\ Len(code) \in Nat /\ Len(code) >= 1 /\ End = Len(code) + 1
         /\ DOMAIN code = 1..Len(code) /\ code # <<>>
         /\ code \in Seq(Instructions)
         /\ \A i \in 1..Len(code) :
              /\ code[i].op \in Opcodes
              /\ Len(code[i].to) = Arity(code[i].op)
              /\ code[i].to \in Seq(1..Len(code))
         /\ code[Len(code)].op \notin {"newarray", "if"}
         /\ \A i \in 1..Len(code) : i \in 1..End /\ i + 1 \in 1..End
         /\ 1 \in 1..End /\ End \in 1..End
<1>1. IsMethod(code)
  BY DEF InputInv
<1>2. code \in Seq(Instructions) /\ code # <<>>
  BY <1>1 DEF IsMethod
<1>3. Len(code) \in Nat /\ Len(code) >= 1 /\ DOMAIN code = 1..Len(code)
  <2> HIDE DEF Instructions
  <2> QED
    BY <1>2
<1>4. ASSUME NEW i \in 1..Len(code)
      PROVE  /\ code[i].op \in Opcodes
             /\ Len(code[i].to) = Arity(code[i].op)
             /\ code[i].to \in Seq(1..Len(code))
  <2> DEFINE x == code[i]
             t == x.to
  <2>1. x \in Instructions
    BY <1>2, <1>3
  <2>2. x.op \in Opcodes /\ t \in Seq(Nat)
    BY <2>1 DEF Instructions
  <2>3. Len(t) = Arity(x.op) /\ ToSet(t) \subseteq 1..Len(code)
    BY <1>1, <1>3 DEF IsMethod
  <2> HIDE DEF x, t
  <2>4. \A k \in 1..Len(t) : t[k] \in 1..Len(code)
    BY <2>2, <2>3 DEF ToSet
  <2>5. t \in Seq(1..Len(code))
    BY <2>2, <2>4
  <2> QED
    BY <2>2, <2>3, <2>5 DEF x, t
<1>5. /\ \A i \in 1..Len(code) : i \in 1..End /\ i + 1 \in 1..End
      /\ 1 \in 1..End /\ End \in 1..End
  BY <1>3 DEF End
<1> QED
  BY <1>1, <1>2, <1>3, <1>4, <1>5 DEF End, IsMethod

(* The positions start where the code starts and go up.                    *)
LEMMA StartFacts ==
  ASSUME Working, InputInv
  PROVE  /\ start \in [1..End -> Nat]
         /\ start[1] = 0
         /\ \A i \in 1..Len(code) : /\ Length(code[i].op, start[i]) \in 1..20
                                    /\ start[i + 1] = start[i] + Length(code[i].op, start[i])
<1>1. /\ Len(code) \in Nat /\ End = Len(code) + 1
      /\ \A i \in 1..Len(code) : code[i].op \in Opcodes
  BY InputFacts
<1>2. start = Layout(code)
  BY DEF InputInv
<1>3. /\ start \in [1..(Len(code) + 1) -> Nat]
      /\ start[1] = 0
      /\ \A i \in 1..Len(code) : start[i + 1] = start[i] + Length(code[i].op, start[i])
  BY <1>1, <1>2, LayoutFacts
<1>4. ASSUME NEW i \in 1..Len(code) PROVE Length(code[i].op, start[i]) \in 1..20
  <2> DEFINE op == code[i].op
             p == start[i]
  <2>1. op \in Opcodes /\ p \in Nat
    BY <1>1, <1>3
  <2> HIDE DEF op, p
  <2>2. Length(op, p) \in 1..20
    BY <2>1, LengthFacts
  <2> QED
    BY <2>2, Zenon DEF op, p
<1> QED
  BY <1>1, <1>3, <1>4

(* A template is a call or nothing, and short.                             *)
LEMMA TemplateFacts ==
  /\ \A t \in Trackers : TemplateLength(t) \in 1..9 /\ StackNeeded(t) \in 1..2
  /\ InjectedLength(<<>>) = 0
  /\ \A t \in Trackers : InjectedLength(<<t>>) = TemplateLength(t)
  BY CrwAssumption DEF Trackers, OneArgument, TemplateLength, PushShort, PushPool,
                       StackNeeded, InjectedLength

Templates == {<<>>} \cup {<<t>> : t \in Trackers}

(* A list of calls at a site.                                              *)
LEMMA TemplatesFacts ==
  ASSUME NEW T \in Templates
  PROVE  /\ T \in Seq(Trackers)
         /\ Len(T) <= 1
         /\ InjectedLength(T) \in 0..9
         /\ T # <<>> => /\ Len(T) = 1 /\ T[1] \in Trackers /\ T = <<T[1]>>
                        /\ InjectedLength(T) = TemplateLength(T[1])
                        /\ InjectedLength(T) \in 1..9
<1>1. CASE T = <<>>
  BY <1>1, TemplateFacts
<1>2. ASSUME NEW t \in Trackers, T = <<t>>
      PROVE  /\ T \in Seq(Trackers) /\ Len(T) = 1 /\ T[1] = t /\ T # <<>>
             /\ InjectedLength(T) = TemplateLength(t) /\ TemplateLength(t) \in 1..9
  <2>1. InjectedLength(<<t>>) = TemplateLength(t) /\ TemplateLength(t) \in 1..9
    BY TemplateFacts
  <2> QED
    BY <1>2, <2>1
<1>3. T = <<>> \/ \E t \in Trackers : T = <<t>>
  BY DEF Templates
<1>4. CASE \E t \in Trackers : T = <<t>>
  <2>1. PICK t \in Trackers : T = <<t>>
    BY <1>4
  <2>2. /\ T \in Seq(Trackers) /\ Len(T) = 1 /\ T[1] = t /\ T # <<>>
        /\ InjectedLength(T) = TemplateLength(t) /\ TemplateLength(t) \in 1..9
    BY <1>2, <2>1
  <2> QED
    BY <2>1, <2>2
<1> QED
  BY <1>1, <1>3, <1>4

(* What is injected at each site.                                          *)
LEMMA SiteFacts ==
  ASSUME NEW op
  PROVE  /\ EntryInjection \in Templates
         /\ BeforeInjection(op) \in Templates
         /\ AfterInjection(op) \in Templates
         /\ BeforeInjection(op) # <<>> => op = "return"
         /\ AfterInjection(op) # <<>> => op = "newarray"
         /\ BeforeInjection(op) \o AfterInjection(op) \in Templates
         /\ BeforeInjection(op) = <<>> \/ AfterInjection(op) = <<>>
<1>1. /\ EntryInjection \in Templates
      /\ BeforeInjection(op) \in Templates
      /\ AfterInjection(op) \in Templates
  <2>1. ASSUME NEW t \in Trackers PROVE Template(t) \in Templates
    BY DEF Template, Templates
  <2>2. <<>> \in Templates
    BY DEF Templates
  <2> QED
    BY <2>1, <2>2 DEF EntryInjection, BeforeInjection, AfterInjection, Trackers
<1>2. /\ BeforeInjection(op) # <<>> => op = "return"
      /\ AfterInjection(op) # <<>> => op = "newarray"
  BY DEF BeforeInjection, AfterInjection
<1>3. BeforeInjection(op) = <<>> \/ AfterInjection(op) = <<>>
  BY <1>2
<1>4. BeforeInjection(op) \o AfterInjection(op) \in Templates
  <2> DEFINE b == BeforeInjection(op)
             a == AfterInjection(op)
  <2>1. b \in Seq(Trackers) /\ a \in Seq(Trackers)
    BY <1>1, TemplatesFacts
  <2> HIDE DEF a, b
  <2>2. <<>> \o a = a /\ b \o <<>> = b
    BY <2>1
  <2> QED
    BY <1>1, <1>3, <2>2 DEF a, b
<1> QED
  BY <1>1, <1>2, <1>3, <1>4

(* The same by position, for the whole of them and for what is there now.  *)
LEMMA PreFacts ==
  ASSUME NEW i
  PROVE  /\ Pre(i) \in Templates /\ Before(i) \in Templates
         /\ PreNow(i) \in Templates /\ BeforeNow(i) \in Templates
<1>1. <<>> \in Templates
  BY DEF Templates
<1>2. Pre(i) \in Templates /\ Before(i) \in Templates
  BY <1>1, SiteFacts DEF Pre, Before
<1> QED
  BY <1>1, <1>2 DEF PreNow, BeforeNow

-----------------------------------------------------------------------------
(* Reading the instructions.                                               *)

(* The types of MethodTypeOK, without what rests on the rest of the        *)
(* invariant.                                                              *)
PlainTypes ==
  /\ phase \in {"none", "begin", "inject", "adjust", "write", "tables", "frames", "done"}
  /\ ip \in 1..End
  /\ map \in [1..End -> Int]
  /\ injections \in [1..End -> Seq(Trackers)]
  /\ widening \in [1..End -> -3..5]
  /\ extraStack \in 0..2

(* A step leaves the input alone, and with it what is to be injected.      *)
LEMMA StepFrame ==
  ASSUME MethodStep
  PROVE  /\ UNCHANGED inputVars
         /\ End' = End /\ Copies' = Copies /\ Untouched' = Untouched
         /\ \A i : Pre(i)' = Pre(i) /\ Before(i)' = Before(i)
         /\ \A i : Length(code[i].op, start[i])' = Length(code[i].op, start[i])
         /\ Targets' = Targets
<1>1. UNCHANGED inputVars
  BY DEF MethodStep, CopyMethod, InjectEntry, InjectForOpcode, InstructionFits, Widen, WidenFrom,
         WriteInstruction, WriteTables, WriteFrame, FinishMethod, inputVars
<1>2. code' = code /\ start' = start /\ role' = role /\ trackers' = trackers
  BY <1>1 DEF inputVars
<1>3. \A t : Template(t)' = Template(t)
  BY <1>2 DEF Template
<1>4. EntryInjection' = EntryInjection
  BY <1>2, <1>3 DEF EntryInjection
<1>5. \A i : Pre(i)' = Pre(i) /\ Before(i)' = Before(i)
  BY <1>2, <1>3, <1>4 DEF Pre, Before, BeforeInjection, AfterInjection, End
<1> QED
  BY <1>1, <1>2, <1>5 DEF End, Copies, Untouched, Targets

(* A loop over the instructions comes to the next one, or to its end.      *)
Loops(from, next) ==
  /\ phase = from /\ ip \in 1..Len(code) /\ ~Copies
  /\ \/ ip < Len(code) /\ ip' = ip + 1 /\ phase' = from
     \/ ip = Len(code) /\ ip' = 1 /\ phase' = next

(* The step from one phase to the next.                                    *)
Moves(from, next) == phase = from /\ phase' = next /\ ip' = ip

(* The order of the phases.                                                *)
LEMMA StepPhases ==
  ASSUME PlainTypes, InputInv, MethodStep
  PROVE  /\ Working /\ Working'
         /\ CopyMethod => Moves("begin", "done") /\ Copies
         /\ InjectEntry => Moves("begin", "inject") /\ ~Copies
         /\ InjectForOpcode => Loops("inject", "adjust")
         /\ InstructionFits => Loops("adjust", "write")
         /\ Widen => /\ phase = "adjust" /\ ip \in 1..Len(code) /\ ~Copies
                     /\ ip' = 1 /\ phase' = "adjust"
         /\ WriteInstruction => Loops("write", "tables")
         /\ WriteTables => Moves("tables", "frames") /\ ~Copies
         /\ WriteFrame => Moves("frames", "frames") /\ ~Copies
         /\ FinishMethod => Moves("frames", "done") /\ ~Copies
<1>1. Working
  BY DEF MethodStep, CopyMethod, InjectEntry, InjectForOpcode, InstructionFits, Widen, WidenFrom,
         WriteInstruction, WriteTables, WriteFrame, FinishMethod, Working
<1>2. /\ Len(code) \in Nat /\ ip \in 1..Len(code)
      /\ Copies => phase \in {"begin", "done"}
  BY <1>1, InputFacts DEF InputInv
<1>3. CopyMethod => Moves("begin", "done") /\ Copies
  BY DEF CopyMethod, Moves, Copies
<1>4. InjectEntry => Moves("begin", "inject") /\ ~Copies
  BY DEF InjectEntry, Moves, Copies
<1>5. ASSUME NEW from \in {"inject", "adjust", "write"}, NEW next, phase = from, Advance(next)
      PROVE  Loops(from, next)
  <2> DEFINE n == Len(code)
  <2> HIDE DEF n
  <2>1. n \in Nat /\ ip \in 1..n /\ ~Copies
    BY <1>2, <1>5 DEF n
  <2>2. ip < n \/ (ip = n /\ ~(ip < n))
    BY <2>1
  <2> QED
    BY <1>5, <2>1, <2>2 DEF Advance, Loops, n
<1>6. InjectForOpcode => Loops("inject", "adjust")
  BY <1>5 DEF InjectForOpcode
<1>7. InstructionFits => Loops("adjust", "write")
  BY <1>5 DEF InstructionFits
<1>8. Widen => /\ phase = "adjust" /\ ip \in 1..Len(code) /\ ~Copies
               /\ ip' = 1 /\ phase' = "adjust"
  BY <1>2 DEF Widen, WidenFrom
<1>9. WriteInstruction => Loops("write", "tables")
  BY <1>5 DEF WriteInstruction
<1>10. WriteTables => Moves("tables", "frames") /\ ~Copies
  BY <1>2 DEF WriteTables, Moves
<1>11. WriteFrame => Moves("frames", "frames") /\ ~Copies
  BY <1>2 DEF WriteFrame, Moves
<1>12. FinishMethod => Moves("frames", "done") /\ ~Copies
  BY <1>2 DEF FinishMethod, Moves
<1>13. Working'
  BY <1>3, <1>4, <1>6, <1>7, <1>8, <1>9, <1>10, <1>11, <1>12 DEF MethodStep, Moves, Loops, Working
<1> QED
  BY <1>1, <1>3, <1>4, <1>6, <1>7, <1>8, <1>9, <1>10, <1>11, <1>12, <1>13

(* The input stays what it is.                                             *)
LEMMA InputStep ==
  ASSUME PlainTypes, InputInv, MethodStep
  PROVE  InputInv'
<1>1. code' = code /\ start' = start /\ role' = role /\ trackers' = trackers
  BY StepFrame DEF inputVars
<1>2. /\ IsMethod(code) /\ Encodable(code) /\ start = Layout(code)
      /\ Working
      /\ Len(code) \in Nat /\ ip \in 1..Len(code)
      /\ role \in Roles /\ trackers \subseteq Trackers
      /\ phase \in {"begin", "tables", "frames", "done"} => ip = 1
  BY StepPhases, InputFacts DEF InputInv
<1>3. ip' \in 1..Len(code)
  <2> DEFINE n == Len(code)
  <2> HIDE DEF n
  <2>1. n \in Nat /\ ip \in 1..n
    BY <1>2 DEF n
  <2>2. ip' = ip \/ ip' = 1 \/ (ip < n /\ ip' = ip + 1)
    BY StepPhases DEF MethodStep, Moves, Loops, n
  <2>3. ip' \in 1..n
    BY <2>1, <2>2
  <2> QED
    BY <2>3 DEF n
<1>4. /\ Copies' => phase' \in {"begin", "done"}
      /\ phase' \in {"begin", "tables", "frames", "done"} => ip' = 1
  BY <1>1, <1>2, StepPhases DEF MethodStep, Moves, Loops, Copies
<1>5. IsMethod(code)' /\ Encodable(code)' /\ (start = Layout(code))'
  BY <1>1, <1>2 DEF IsMethod, Encodable, Layout
<1> QED
  BY <1>1, <1>2, <1>3, <1>4, <1>5 DEF InputInv

-----------------------------------------------------------------------------
(* The position map and the widths.                                        *)

(* What widening may be, and what an instruction is long with it.          *)
LEMMA WideningFacts ==
  ASSUME Working, InputInv, NEW i \in 1..Len(code), NEW w \in Widenings(i)
  PROVE  /\ w \in -3..5
         /\ Length(code[i].op, start[i]) + w \in 1..25
         /\ code[i].op \notin {"goto", "if", "switch"} => w = 0
         /\ code[i].op = "goto" => w \in {0, 2}
         /\ code[i].op = "if" => w \in {0, 5}
<1>1. code[i].op \in Opcodes /\ start[i] \in Nat /\ Length(code[i].op, start[i]) \in 1..20
  <2>1. i \in 1..End /\ code[i].op \in Opcodes
    BY InputFacts
  <2> QED
    BY <2>1, StartFacts
<1>2. CASE code[i].op = "switch"
  <2>1. w \in -3..3 /\ ToBoundary(start[i]) + w \in 1..4
    BY <1>2 DEF Widenings
  <2>2. Length("switch", start[i]) = ToBoundary(start[i]) + 16 /\ ToBoundary(start[i]) \in 1..4
    BY <1>1, LengthFacts
  <2> DEFINE L == Length("switch", start[i])
             b == ToBoundary(start[i])
  <2> HIDE DEF L, b
  <2>3. L = b + 16 /\ b \in 1..4 /\ w \in -3..3 /\ b + w \in 1..4
    BY <2>1, <2>2 DEF L, b
  <2>4. L + w \in 1..25
    BY <2>3
  <2> QED
    BY <1>2, <2>1, <2>4 DEF L
<1>3. CASE code[i].op # "switch"
  <2> DEFINE L == Length(code[i].op, start[i])
  <2>1. L \in 1..20
    BY <1>1
  <2> HIDE DEF L
  <2>2. w \in {0, 2, 5}
    BY <1>3 DEF Widenings
  <2>3. L + w \in 1..25
    BY <2>1, <2>2
  <2>4. /\ code[i].op \notin {"goto", "if", "switch"} => w = 0
        /\ code[i].op = "goto" => w \in {0, 2}
        /\ code[i].op = "if" => w \in {0, 5}
    BY <1>3 DEF Widenings
  <2> QED
    BY <1>3, <2>2, <2>3, <2>4 DEF L
<1> QED
  BY <1>2, <1>3

(* The distance to the next position, part by part.                        *)
LEMMA DistanceFacts ==
  ASSUME Working, InputInv, NEW i \in 1..Len(code), widening[i] \in Widenings(i)
  PROVE  /\ Distance(i) \in Nat /\ Distance(i) >= 1
         /\ InjectedLength(BeforeNow(i)) \in 0..9 /\ InjectedLength(PreNow(i + 1)) \in 0..9
         /\ Length(code[i].op, start[i]) \in 1..20 /\ widening[i] \in -3..5
<1> DEFINE b == InjectedLength(BeforeNow(i))
           p == InjectedLength(PreNow(i + 1))
           L == Length(code[i].op, start[i])
           w == widening[i]
<1>1. b \in 0..9 /\ p \in 0..9
  BY PreFacts, TemplatesFacts
<1>2. L + w \in 1..25 /\ w \in -3..5
  BY WideningFacts
<1>3. L \in 1..20
  BY StartFacts
<1> HIDE DEF b, p, L, w
<1>4. L + w + b + p \in Nat /\ L + w + b + p >= 1
  BY <1>1, <1>2, <1>3
<1> QED
  BY <1>1, <1>2, <1>3, <1>4 DEF Distance, b, p, L, w

(* The map goes up.                                                        *)
LEMMA MapFacts ==
  ASSUME Working, PlainTypes, InputInv, MapInv
  PROVE  /\ map \in [1..End -> Nat]
         /\ \A i \in 1..Len(code) : map[i + 1] = map[i] + Distance(i) /\ map[i] < map[i + 1]
         /\ \A i \in 1..End : \A j \in 1..End : i < j => map[i] < map[j]
<1>1. /\ Len(code) \in Nat /\ Len(code) >= 1 /\ End = Len(code) + 1
      /\ map \in [1..End -> Int]
  BY InputFacts DEF PlainTypes
<1>2. \A i \in 1..Len(code) : /\ Distance(i) \in Nat /\ Distance(i) >= 1
                              /\ map[i + 1] = map[i] + Distance(i)
  BY DistanceFacts DEF MapInv
<1>3. map[1] \in Nat
  BY PreFacts, TemplatesFacts DEF MapInv
<1> DEFINE n == Len(code)
<1> HIDE DEF n
<1>4. n \in Nat /\ n >= 1 /\ End = n + 1 /\ map \in [1..(n + 1) -> Int]
  BY <1>1 DEF n
<1>5. ASSUME NEW i \in 1..n
      PROVE  map[i + 1] = map[i] + Distance(i) /\ map[i] < map[i + 1]
  <2> DEFINE d == Distance(i)
  <2>1. d \in Nat /\ d >= 1 /\ map[i + 1] = map[i] + d /\ map[i] \in Int
    BY <1>2, <1>4 DEF n
  <2> HIDE DEF d
  <2>2. map[i] < map[i + 1]
    BY <2>1
  <2> QED
    BY <2>1, <2>2 DEF d
<1>6. \A i \in 1..(n + 1) : \A j \in 1..(n + 1) : i < j => map[i] < map[j]
  BY <1>4, <1>5, Increasing
<1>7. \A i \in 1..(n + 1) : map[i] \in Nat
  <2>1. \A i \in 1..(n + 1) : i = 1 \/ 1 < i
    OBVIOUS
  <2>2. \A i \in 1..(n + 1) : map[i] \in Int
    BY <1>4
  <2>3. \A i \in 1..(n + 1) : i = 1 \/ map[1] < map[i]
    BY <1>4, <1>6, <2>1
  <2> QED
    BY <1>3, <2>2, <2>3
<1> QED
  BY <1>4, <1>5, <1>6, <1>7 DEF n

(* The widening that an instruction wants is one it may have.              *)
LEMMA WantedFacts ==
  ASSUME Working, PlainTypes, InputInv, MapInv, NEW i \in 1..Len(code)
  PROVE  /\ Wanted(i) \in Widenings(i)
         /\ code[i].op = "switch" => Wanted(i) = ToBoundary(map[i]) - ToBoundary(start[i])
<1>1. widening[i] \in Widenings(i)
  BY DEF MapInv
<1>2. CASE code[i].op = "switch"
  <2> DEFINE a == ToBoundary(map[i])
             b == ToBoundary(start[i])
  <2>1. map[i] \in Nat /\ start[i] \in Nat
    <3>1. i \in 1..End
      BY InputFacts
    <3> QED
      BY <3>1, MapFacts, StartFacts
  <2>2. a \in 1..4 /\ b \in 1..4
    BY <2>1, LengthFacts
  <2> HIDE DEF a, b
  <2>3. a - b \in -3..3 /\ b + (a - b) \in 1..4
    BY <2>2
  <2>4. Wanted(i) = a - b
    BY <1>2 DEF Wanted, Branches, a, b
  <2> QED
    BY <1>2, <2>3, <2>4 DEF Widenings, a, b
<1>3. CASE code[i].op # "switch"
  BY <1>1, <1>3 DEF Wanted, Widenings, Branches
<1> QED
  BY <1>2, <1>3

-----------------------------------------------------------------------------
(* The calls at the sites of injection.                                    *)

Quiet ==
  CopyMethod \/ InstructionFits \/ Widen \/ WriteInstruction \/ WriteTables \/ WriteFrame
  \/ FinishMethod

(* How many sites have their injections, before and after a step.          *)
LEMMA HandledStep ==
  ASSUME PlainTypes, InputInv, MethodStep
  PROVE  /\ InjectEntry => Handled = 0 /\ Handled' = 1
         /\ InjectForOpcode => Handled = ip /\ Handled' = ip + 1 /\ ip \in 1..Len(code)
         /\ Quiet => Handled' = Handled
<1>1. End' = End /\ Copies' = Copies /\ End = Len(code) + 1 /\ Len(code) \in Nat
  BY StepFrame, StepPhases, InputFacts
<1>2. /\ Working => ip = 1 \/ phase # "begin"
  BY DEF InputInv
<1>3. InjectEntry => Handled = 0 /\ Handled' = 1
  BY <1>1, <1>2, StepPhases DEF Handled, Moves, Working
<1>4. InjectForOpcode => Handled = ip /\ Handled' = ip + 1 /\ ip \in 1..Len(code)
  BY <1>1, StepPhases DEF Handled, Loops
<1>5. CopyMethod => Handled' = Handled
  BY <1>1, StepPhases DEF Handled, Moves
<1>6. InstructionFits \/ WriteInstruction => Handled' = Handled
  BY <1>1, StepPhases DEF Handled, Loops
<1>7. Widen => Handled' = Handled
  BY <1>1, StepPhases DEF Handled
<1>8. WriteTables \/ WriteFrame \/ FinishMethod => Handled' = Handled
  BY <1>1, StepPhases DEF Handled, Moves
<1> QED
  BY <1>3, <1>4, <1>5, <1>6, <1>7, <1>8 DEF Quiet

(* What inject_for_opcode changes at instruction n.                        *)
SiteChange(n) ==
  /\ PreNow(n + 1) = <<>> /\ PreNow(n + 1)' = AfterInjection(code[n].op)
  /\ BeforeNow(n) = <<>> /\ BeforeNow(n)' = BeforeInjection(code[n].op)
  /\ BeforeNow(n + 1) = <<>> /\ BeforeNow(n + 1)' = <<>>
  /\ \A i \in Nat : i # n + 1 => PreNow(i)' = PreNow(i)
  /\ \A i \in Nat : i # n => BeforeNow(i)' = BeforeNow(i)

(* What the sites have, before and after.                                  *)
LEMMA NowStep ==
  ASSUME PlainTypes, InputInv, MethodStep
  PROVE  /\ InjectEntry =>
              /\ PreNow(1) = <<>> /\ PreNow(1)' = EntryInjection
              /\ \A i \in Nat : i # 1 => PreNow(i)' = PreNow(i)
              /\ \A i \in Nat \ {0} : BeforeNow(i) = <<>> /\ BeforeNow(i)' = <<>>
         /\ InjectForOpcode => \A n \in 1..Len(code) : n = ip => SiteChange(n)
         /\ Quiet => \A i : PreNow(i)' = PreNow(i) /\ BeforeNow(i)' = BeforeNow(i)
<1>1. \A i : Pre(i)' = Pre(i) /\ Before(i)' = Before(i)
  BY StepFrame
<1>2. /\ \A i : PreNow(i) = IF i <= Handled THEN Pre(i) ELSE <<>>
      /\ \A i : BeforeNow(i) = IF i < Handled THEN Before(i) ELSE <<>>
  BY DEF PreNow, BeforeNow
<1>3. /\ \A i : PreNow(i)' = IF i <= Handled' THEN Pre(i) ELSE <<>>
      /\ \A i : BeforeNow(i)' = IF i < Handled' THEN Before(i) ELSE <<>>
  BY <1>1 DEF PreNow, BeforeNow
<1>4. CASE InjectEntry
  <2>1. Handled = 0 /\ Handled' = 1
    BY <1>4, HandledStep
  <2>2. Pre(1) = EntryInjection
    BY DEF Pre
  <2>3. PreNow(1) = <<>> /\ PreNow(1)' = EntryInjection
    BY <1>2, <1>3, <2>1, <2>2
  <2>4. ASSUME NEW i \in Nat, i # 1 PROVE PreNow(i)' = PreNow(i)
    <3>1. i <= 0 <=> i <= 1
      BY <2>4
    <3> QED
      BY <1>2, <1>3, <2>1, <3>1
  <2>5. ASSUME NEW i \in Nat \ {0} PROVE BeforeNow(i) = <<>> /\ BeforeNow(i)' = <<>>
    <3>1. ~(i < 0) /\ ~(i < 1)
      BY <2>5
    <3> QED
      BY <1>2, <1>3, <2>1, <3>1
  <2>6. ~InjectForOpcode /\ ~Quiet
    BY <1>4 DEF InjectEntry, Quiet, InjectForOpcode, CopyMethod, InstructionFits, Widen, WidenFrom,
                WriteInstruction, WriteTables, WriteFrame, FinishMethod
  <2> QED
    BY <2>3, <2>4, <2>5, <2>6
<1>5. CASE InjectForOpcode
  <2> SUFFICES ASSUME NEW n \in 1..Len(code), n = ip
               PROVE  SiteChange(n)
    <3>1. ~InjectEntry /\ ~Quiet
      BY <1>5 DEF InjectEntry, Quiet, InjectForOpcode, CopyMethod, InstructionFits, Widen,
                  WidenFrom, WriteInstruction, WriteTables, WriteFrame, FinishMethod
    <3> QED
      BY <1>5, <3>1
  <2>1. Handled = n /\ Handled' = n + 1 /\ End = Len(code) + 1 /\ Len(code) \in Nat
    BY <1>5, HandledStep, StepPhases, InputFacts
  <2>2. Pre(n + 1) = AfterInjection(code[n].op) /\ Before(n) = BeforeInjection(code[n].op)
    <3>1. n + 1 # 1 /\ (n + 1) - 1 = n /\ n # End
      BY <2>1
    <3> QED
      BY <3>1 DEF Pre, Before
  <2>3. ~(n + 1 <= n) /\ n + 1 <= n + 1 /\ ~(n < n) /\ n < n + 1 /\ ~(n + 1 < n)
        /\ ~(n + 1 < n + 1)
    OBVIOUS
  <2>4. /\ PreNow(n + 1) = <<>> /\ PreNow(n + 1)' = AfterInjection(code[n].op)
        /\ BeforeNow(n) = <<>> /\ BeforeNow(n)' = BeforeInjection(code[n].op)
        /\ BeforeNow(n + 1) = <<>> /\ BeforeNow(n + 1)' = <<>>
    BY <1>2, <1>3, <2>1, <2>2, <2>3
  <2>5. ASSUME NEW i \in Nat, i # n + 1 PROVE PreNow(i)' = PreNow(i)
    <3>1. i <= n <=> i <= n + 1
      BY <2>5
    <3> QED
      BY <1>2, <1>3, <2>1, <3>1
  <2>6. ASSUME NEW i \in Nat, i # n PROVE BeforeNow(i)' = BeforeNow(i)
    <3>1. i < n <=> i < n + 1
      BY <2>6
    <3> QED
      BY <1>2, <1>3, <2>1, <3>1
  <2> QED
    BY <2>4, <2>5, <2>6 DEF SiteChange
<1>6. CASE Quiet
  <2>1. Handled' = Handled
    BY <1>6, HandledStep
  <2>2. ~InjectEntry /\ ~InjectForOpcode
    BY <1>6 DEF InjectEntry, Quiet, InjectForOpcode, CopyMethod, InstructionFits, Widen,
                WidenFrom, WriteInstruction, WriteTables, WriteFrame, FinishMethod
  <2> QED
    BY <1>2, <1>3, <2>1, <2>2
<1> QED
  BY <1>4, <1>5, <1>6 DEF MethodStep, Quiet

(* A call more on a list of one is a list that fits.                       *)
LEMMA TwoCalls ==
  ASSUME NEW s \in Templates, NEW T \in Templates, NEW depth \in Nat,
         s # <<>> => StackNeeded(s[1]) <= depth, T # <<>> => StackNeeded(T[1]) <= depth
  PROVE  /\ s \o T \in Seq(Trackers)
         /\ Len(s \o T) <= 2
         /\ \A k \in 1..Len(s \o T) : StackNeeded((s \o T)[k]) <= depth
<1>1. s \in Seq(Trackers) /\ T \in Seq(Trackers) /\ Len(s) <= 1 /\ Len(T) <= 1
      /\ Len(s) \in Nat /\ Len(T) \in Nat
  BY TemplatesFacts
<1> DEFINE c == s \o T
<1>2. /\ c \in Seq(Trackers) /\ Len(c) = Len(s) + Len(T)
      /\ \A k \in 1..Len(c) : c[k] = IF k <= Len(s) THEN s[k] ELSE T[k - Len(s)]
  BY <1>1, ConcatProperties
<1> HIDE DEF c
<1>3. ASSUME NEW k \in 1..Len(c) PROVE StackNeeded(c[k]) <= depth
  <2>1. CASE k <= Len(s)
    <3>1. k = 1 /\ s # <<>> /\ c[k] = s[1]
      BY <1>1, <1>2, <2>1
    <3> QED
      BY <3>1
  <2>2. CASE ~(k <= Len(s))
    <3>1. k - Len(s) = 1 /\ T # <<>> /\ c[k] = T[1]
      BY <1>1, <1>2, <2>2
    <3> QED
      BY <3>1
  <2> QED
    BY <2>1, <2>2
<1> QED
  BY <1>1, <1>2, <1>3 DEF c

(* The operand stack grows to what a call needs.                           *)
LEMMA GrowFacts ==
  ASSUME NEW T \in Templates, GrowStack(T), extraStack \in 0..2
  PROVE  /\ extraStack' \in 0..2 /\ extraStack <= extraStack'
         /\ T # <<>> => StackNeeded(T[1]) <= extraStack'
<1>1. CASE T = <<>>
  BY <1>1 DEF GrowStack
<1>2. CASE T # <<>>
  <2> DEFINE s == StackNeeded(T[1])
  <2>1. s \in 1..2
    BY <1>2, TemplatesFacts, TemplateFacts
  <2>2. extraStack' = IF s <= extraStack THEN extraStack ELSE s
    BY <1>2 DEF GrowStack
  <2> HIDE DEF s
  <2>3. extraStack' \in 0..2 /\ extraStack <= extraStack' /\ s <= extraStack'
    BY <2>1, <2>2
  <2> QED
    BY <2>3 DEF s
<1> QED
  BY <1>1, <1>2

(* Nothing before or behind a list of calls.                               *)
LEMMA NoCalls ==
  /\ <<>> \in Templates
  /\ \A T \in Templates : T \o <<>> = T /\ <<>> \o T = T
<1>1. ASSUME NEW T \in Templates PROVE T \o <<>> = T /\ <<>> \o T = T
  <2>1. T \in Seq(Trackers)
    BY TemplatesFacts
  <2> QED
    BY <2>1
<1> QED
  BY <1>1 DEF Templates

(* inject_for_opcode as a change of the lists before and behind ip.        *)
LEMMA InjectFacts ==
  ASSUME PlainTypes, InputInv, SiteInv, InjectForOpcode, NEW n, n = ip
  PROVE  /\ n \in 1..Len(code) /\ n \in 1..End /\ n + 1 \in 1..End
         /\ injections[n] = PreNow(n) /\ injections[n + 1] = <<>>
         /\ injections'[n] = PreNow(n) \o BeforeInjection(code[n].op)
         /\ injections'[n + 1] = AfterInjection(code[n].op)
         /\ \A i \in 1..End : i \notin {n, n + 1} => injections'[i] = injections[i]
         /\ injections' \in [1..End -> Seq(Trackers)]
         /\ extraStack' \in 0..2 /\ extraStack <= extraStack'
         /\ BeforeInjection(code[n].op) # <<>> =>
              StackNeeded(BeforeInjection(code[n].op)[1]) <= extraStack'
         /\ AfterInjection(code[n].op) # <<>> =>
              StackNeeded(AfterInjection(code[n].op)[1]) <= extraStack'
<1> DEFINE b == BeforeInjection(code[n].op)
           a == AfterInjection(code[n].op)
<1>1. MethodStep
  BY DEF MethodStep
<1>2. Working /\ n \in 1..Len(code)
  BY <1>1, HandledStep, StepPhases
<1>3. n \in 1..End /\ n + 1 \in 1..End /\ n + 1 # n
  BY <1>2, InputFacts
<1>4. SiteChange(n)
  BY <1>1, <1>2, NowStep
<1>5. b \in Templates /\ a \in Templates /\ b \o a \in Templates /\ (b = <<>> \/ a = <<>>)
  BY SiteFacts
<1>6. PreNow(n) \in Templates
  BY PreFacts
<1>7. injections[n] = PreNow(n) /\ injections[n + 1] = <<>>
  BY <1>2, <1>3, <1>4, <1>6, NoCalls DEF SiteInv, SiteChange
<1>8. /\ injections' = [injections EXCEPT ![n] = @ \o b, ![n + 1] = @ \o a]
      /\ GrowStack(b \o a)
  BY DEF InjectForOpcode
<1>9. injections \in [1..End -> Seq(Trackers)] /\ extraStack \in 0..2
  BY DEF PlainTypes
<1>10. a \in Seq(Trackers) /\ PreNow(n) \o b \in Seq(Trackers)
  <2>1. a \in Seq(Trackers) /\ b \in Seq(Trackers) /\ PreNow(n) \in Seq(Trackers)
    BY <1>5, <1>6, TemplatesFacts
  <2> QED
    BY <2>1, ConcatProperties
<1> HIDE DEF a, b
<1>11. /\ injections'[n] = PreNow(n) \o b
       /\ injections'[n + 1] = a
       /\ \A i \in 1..End : i \notin {n, n + 1} => injections'[i] = injections[i]
  <2>1. injections'[n] = injections[n] \o b /\ injections'[n + 1] = injections[n + 1] \o a
    BY <1>3, <1>8, <1>9
  <2> QED
    BY <1>3, <1>5, <1>7, <1>8, <1>9, <2>1, NoCalls
<1>12. injections' \in [1..End -> Seq(Trackers)]
  <2> DEFINE S == Seq(Trackers)
             D == 1..End
             x == injections[n] \o b
             y == injections[n + 1] \o a
  <2>1. x \in S /\ y \in S /\ injections \in [D -> S]
    BY <1>5, <1>7, <1>9, <1>10, NoCalls
  <2>2. injections' = [injections EXCEPT ![n] = x, ![n + 1] = y]
    BY <1>3, <1>8, Zenon
  <2> HIDE DEF S, D, x, y
  <2>3. injections' \in [D -> S]
    BY <2>1, <2>2
  <2> QED
    BY <2>3 DEF S, D
<1>13. /\ extraStack' \in 0..2 /\ extraStack <= extraStack'
       /\ b \o a # <<>> => StackNeeded((b \o a)[1]) <= extraStack'
  BY <1>5, <1>8, <1>9, GrowFacts
<1>14. /\ b # <<>> => b \o a = b
       /\ a # <<>> => b \o a = a
  BY <1>5, NoCalls
<1>15. /\ b # <<>> => StackNeeded(b[1]) <= extraStack'
       /\ a # <<>> => StackNeeded(a[1]) <= extraStack'
  BY <1>13, <1>14
<1> QED
  BY <1>2, <1>3, <1>7, <1>10, <1>11, <1>12, <1>13, <1>15 DEF a, b

(* The injections after each step: as the tracker's methods are named, and *)
(* with room on the operand stack.                                         *)
LEMMA SiteStep ==
  ASSUME PlainTypes, InputInv, SiteInv, MethodStep
  PROVE  SiteInv'
<1>1. End' = End /\ Working /\ Working'
  BY StepFrame, StepPhases
<1>2. \A i \in 1..End : injections[i] = PreNow(i) \o BeforeNow(i)
  BY <1>1 DEF SiteInv
<1>3. \A i \in 1..End : /\ Len(injections[i]) <= 2
                        /\ \A k \in 1..Len(injections[i]) : StackNeeded(injections[i][k]) <= extraStack
  BY DEF SiteInv
<1>4. \A i \in 1..End : i \in Nat /\ i \in Nat \ {0}
  BY <1>1, InputFacts
<1>5. extraStack \in 0..2 /\ \A i \in 1..End : injections[i] \in Seq(Trackers)
  BY DEF PlainTypes
<1>6. ASSUME NEW i \in 1..End, injections'[i] = injections[i], extraStack' \in 0..2,
             extraStack <= extraStack'
      PROVE  /\ Len(injections'[i]) <= 2
             /\ \A k \in 1..Len(injections'[i]) : StackNeeded(injections'[i][k]) <= extraStack'
  <2>1. ASSUME NEW k \in 1..Len(injections[i]) PROVE StackNeeded(injections[i][k]) <= extraStack'
    <3> DEFINE s == StackNeeded(injections[i][k])
    <3>1. injections[i][k] \in Trackers
      BY <1>5
    <3>2. s \in 1..2 /\ s <= extraStack
      BY <1>3, <3>1, TemplateFacts
    <3> HIDE DEF s
    <3>3. s <= extraStack'
      BY <1>5, <1>6, <3>2
    <3> QED
      BY <3>3 DEF s
  <2> QED
    BY <1>3, <1>6, <2>1
<1>7. CASE InjectEntry
  <2>1. /\ injections' = [injections EXCEPT ![1] = EntryInjection]
        /\ GrowStack(EntryInjection) /\ EntryInjection \in Templates
    BY <1>7, SiteFacts DEF InjectEntry
  <2>2. extraStack' \in 0..2 /\ extraStack <= extraStack'
        /\ (EntryInjection # <<>> => StackNeeded(EntryInjection[1]) <= extraStack')
    BY <1>5, <2>1, GrowFacts
  <2>3. 1 \in 1..End /\ injections'[1] = EntryInjection
        /\ \A i \in 1..End : i # 1 => injections'[i] = injections[i]
    BY <1>1, <2>1, InputFacts DEF PlainTypes
  <2>4. /\ PreNow(1)' = EntryInjection
        /\ \A i \in 1..End : i # 1 => PreNow(i)' = PreNow(i)
        /\ \A i \in 1..End : BeforeNow(i) = <<>> /\ BeforeNow(i)' = <<>>
    BY <1>4, <1>7, NowStep
  <2>5. \A i \in 1..End : injections'[i] = PreNow(i)' \o BeforeNow(i)'
    <3> SUFFICES ASSUME NEW i \in 1..End PROVE injections'[i] = PreNow(i)' \o BeforeNow(i)'
      OBVIOUS
    <3>1. BeforeNow(i) = <<>> /\ BeforeNow(i)' = <<>>
      BY <2>4
    <3>2. CASE i = 1
      BY <2>1, <2>3, <2>4, <3>1, <3>2, NoCalls
    <3>3. CASE i # 1
      BY <1>2, <2>3, <2>4, <3>1, <3>3
    <3> QED
      BY <3>2, <3>3
  <2>6. ASSUME NEW i \in 1..End
        PROVE  /\ Len(injections'[i]) <= 2
               /\ \A k \in 1..Len(injections'[i]) : StackNeeded(injections'[i][k]) <= extraStack'
    <3>1. CASE i = 1
      <4>1. <<>> \in Templates /\ EntryInjection \o <<>> = EntryInjection /\ extraStack' \in Nat
        BY <2>1, <2>2, NoCalls
      <4> QED
        BY <2>1, <2>2, <2>3, <3>1, <4>1, TwoCalls
    <3>2. CASE i # 1
      BY <1>6, <2>2, <2>3, <3>2
    <3> QED
      BY <3>1, <3>2
  <2> QED
    BY <1>1, <2>5, <2>6 DEF SiteInv
<1>8. CASE InjectForOpcode
  <2>1. PICK n : n = ip
    OBVIOUS
  <2> DEFINE b == BeforeInjection(code[n].op)
             a == AfterInjection(code[n].op)
  <2>2. /\ n \in 1..Len(code) /\ n \in 1..End /\ n + 1 \in 1..End
        /\ injections[n] = PreNow(n)
        /\ injections'[n] = PreNow(n) \o b
        /\ injections'[n + 1] = a
        /\ \A i \in 1..End : i \notin {n, n + 1} => injections'[i] = injections[i]
        /\ extraStack' \in 0..2 /\ extraStack <= extraStack'
        /\ b # <<>> => StackNeeded(b[1]) <= extraStack'
        /\ a # <<>> => StackNeeded(a[1]) <= extraStack'
    BY <1>8, <2>1, InjectFacts
  <2>3. SiteChange(n)
    BY <1>8, <2>1, <2>2, NowStep
  <2>4. a \in Templates /\ b \in Templates /\ PreNow(n) \in Templates
    BY SiteFacts, PreFacts
  <2> HIDE DEF a, b
  <2>5. /\ PreNow(n + 1)' = a /\ BeforeNow(n)' = b /\ BeforeNow(n + 1)' = <<>>
        /\ \A i \in Nat : i # n + 1 => PreNow(i)' = PreNow(i)
        /\ \A i \in Nat : i # n => BeforeNow(i)' = BeforeNow(i)
    BY <2>3 DEF SiteChange, a, b
  <2>6. n # n + 1
    BY <2>2
  <2>7. \A i \in 1..End : injections'[i] = PreNow(i)' \o BeforeNow(i)'
    <3> SUFFICES ASSUME NEW i \in 1..End PROVE injections'[i] = PreNow(i)' \o BeforeNow(i)'
      OBVIOUS
    <3>1. CASE i = n
      BY <1>4, <2>2, <2>5, <2>6, <3>1
    <3>2. CASE i = n + 1
      BY <2>2, <2>4, <2>5, <3>2, NoCalls
    <3>3. CASE i \notin {n, n + 1}
      BY <1>2, <1>4, <2>2, <2>5, <3>3
    <3> QED
      BY <3>1, <3>2, <3>3
  <2>8. PreNow(n) # <<>> => StackNeeded(PreNow(n)[1]) <= extraStack'
    <3> SUFFICES ASSUME PreNow(n) # <<>> PROVE StackNeeded(PreNow(n)[1]) <= extraStack'
      OBVIOUS
    <3> DEFINE s == StackNeeded(PreNow(n)[1])
    <3>1. Len(PreNow(n)) = 1 /\ PreNow(n)[1] \in Trackers
      BY <2>4, TemplatesFacts
    <3>2. s \in 1..2 /\ s <= extraStack
      <4>1. s <= extraStack
        BY <1>3, <2>2, <3>1
      <4> QED
        BY <3>1, <4>1, TemplateFacts
    <3> HIDE DEF s
    <3>3. s <= extraStack'
      BY <1>5, <2>2, <3>2
    <3> QED
      BY <3>3 DEF s
  <2>9. ASSUME NEW i \in 1..End
        PROVE  /\ Len(injections'[i]) <= 2
               /\ \A k \in 1..Len(injections'[i]) : StackNeeded(injections'[i][k]) <= extraStack'
    <3>0. extraStack' \in Nat
      BY <2>2
    <3>1. CASE i = n
      BY <2>2, <2>4, <2>8, <3>0, <3>1, TwoCalls
    <3>2. CASE i = n + 1
      <4>1. <<>> \in Templates /\ a \o <<>> = a
        BY <2>4, NoCalls
      <4> QED
        BY <2>2, <2>4, <3>0, <3>2, <4>1, TwoCalls
    <3>3. CASE i \notin {n, n + 1}
      BY <1>6, <2>2, <3>3
    <3> QED
      BY <3>1, <3>2, <3>3
  <2> QED
    BY <1>1, <2>7, <2>9 DEF SiteInv
<1>9. CASE Quiet
  <2>1. injections' = injections /\ extraStack' = extraStack
    BY <1>9 DEF Quiet, CopyMethod, InstructionFits, Widen, WidenFrom, WriteInstruction,
                WriteTables, WriteFrame, FinishMethod
  <2>2. \A i : PreNow(i)' = PreNow(i) /\ BeforeNow(i)' = BeforeNow(i)
    BY <1>9, NowStep
  <2> QED
    BY <1>1, <1>2, <1>3, <2>1, <2>2 DEF SiteInv
<1> QED
  BY <1>7, <1>8, <1>9 DEF MethodStep, Quiet

-----------------------------------------------------------------------------
(* Shifting the map, settling the widths.                                  *)

(* AdjustMap moves what is behind instruction n: that is a distance more.  *)
LEMMA ShiftFacts ==
  ASSUME PlainTypes, InputInv, MapInv, Working, UNCHANGED inputVars,
         NEW n \in 1..Len(code), NEW d \in Int, map' = AdjustMap(map, n + 1, d),
         \A i \in 1..Len(code) : Distance(i)' = Distance(i) + (IF i = n THEN d ELSE 0)
  PROVE  /\ map' \in [1..End -> Int]
         /\ map'[1] = map[1]
         /\ \A i \in 1..Len(code) : map'[i + 1] = map'[i] + Distance(i)'
<1>1. /\ map \in [1..End -> Int] /\ Len(code) \in Nat /\ 1 \in 1..End
      /\ \A i \in 1..Len(code) : i \in 1..End /\ i + 1 \in 1..End
  BY InputFacts DEF PlainTypes
<1>2. \A j \in 1..End : map'[j] = IF j >= n + 1 THEN map[j] + d ELSE map[j]
  BY <1>1 DEF AdjustMap
<1>3. map' \in [1..End -> Int]
  BY <1>1 DEF AdjustMap
<1>4. map'[1] = map[1]
  <2>1. ~(1 >= n + 1)
    OBVIOUS
  <2> QED
    BY <1>1, <1>2, <2>1
<1>5. ASSUME NEW i \in 1..Len(code)
      PROVE  map'[i + 1] = map'[i] + Distance(i)'
  <2> DEFINE D == Distance(i)
  <2>1. PICK E : E = Distance(i)'
    OBVIOUS
  <2>2. /\ map[i + 1] = map[i] + D /\ E = D + (IF i = n THEN d ELSE 0)
        /\ map[i] \in Int /\ i \in 1..End /\ i + 1 \in 1..End
    BY <1>1, <2>1 DEF MapInv
  <2>3. D \in Nat
    BY DistanceFacts DEF MapInv
  <2>4. /\ map'[i] = IF i >= n + 1 THEN map[i] + d ELSE map[i]
        /\ map'[i + 1] = IF i + 1 >= n + 1 THEN map[i + 1] + d ELSE map[i + 1]
    BY <1>2, <2>2
  <2> HIDE DEF D
  <2>5. map'[i + 1] = map'[i] + E
    <3> DEFINE m == map[i]
               x == map[i + 1]
    <3>1. m \in Int /\ x = m + D /\ D \in Nat
      BY <2>2, <2>3
    <3> HIDE DEF m, x
    <3>2. CASE i = n
      <4>1. map'[i] = m /\ map'[i + 1] = x + d /\ E = D + d
        BY <2>2, <2>4, <3>2 DEF m, x
      <4> QED
        BY <3>1, <4>1
    <3>3. CASE i < n
      <4>1. map'[i] = m /\ map'[i + 1] = x /\ E = D + 0
        BY <2>2, <2>4, <3>3 DEF m, x
      <4> QED
        BY <3>1, <4>1
    <3>4. CASE i > n
      <4>1. map'[i] = m + d /\ map'[i + 1] = x + d /\ E = D + 0
        BY <2>2, <2>4, <3>4 DEF m, x
      <4> QED
        BY <3>1, <4>1
    <3> QED
      BY <3>2, <3>3, <3>4
  <2> QED
    BY <2>1, <2>5
<1> QED
  BY <1>3, <1>4, <1>5

(* The map after each step, and the distances in it.                       *)
LEMMA MapStep ==
  ASSUME PlainTypes, InputInv, SiteInv, MapInv, MethodStep
  PROVE  /\ MapInv'
         /\ map' \in [1..End -> Int] /\ widening' \in [1..End -> -3..5]
<1>1. /\ End' = End /\ Working /\ Working' /\ UNCHANGED inputVars
      /\ code' = code /\ start' = start
      /\ \A i : Length(code[i].op, start[i])' = Length(code[i].op, start[i])
  BY StepFrame, StepPhases DEF inputVars
<1>2. /\ \A i \in 1..Len(code) : widening[i] \in Widenings(i)
      /\ map[1] = InjectedLength(PreNow(1))
      /\ \A i \in 1..Len(code) : map[i + 1] = map[i] + Distance(i)
  BY <1>1 DEF MapInv
<1>3. /\ map \in [1..End -> Int] /\ widening \in [1..End -> -3..5]
      /\ Len(code) \in Nat /\ 1 \in 1..End
      /\ \A i \in 1..Len(code) : i \in 1..End /\ i + 1 \in 1..End
      /\ \A i \in 1..End : i \in Nat /\ i \in Nat \ {0}
  BY <1>1, InputFacts DEF PlainTypes
<1>4. /\ \A i : Widenings(i)' = Widenings(i)
      /\ \A i : Distance(i)' = Length(code[i].op, start[i]) + widening'[i]
                 + InjectedLength(BeforeNow(i)') + InjectedLength(PreNow(i + 1)')
  BY <1>1 DEF Widenings, Distance
<1>5. CASE InjectEntry
  <2> DEFINE e == InjectedLength(EntryInjection)
  <2>1. map' = AdjustMap(map, 1, e) /\ widening' = widening
    BY <1>5 DEF InjectEntry
  <2>2. e \in 0..9
    BY SiteFacts, TemplatesFacts
  <2>3. PreNow(1) = <<>> /\ PreNow(1)' = EntryInjection
        /\ (\A i \in Nat : i # 1 => PreNow(i)' = PreNow(i))
        /\ (\A i \in Nat \ {0} : BeforeNow(i) = <<>> /\ BeforeNow(i)' = <<>>)
    BY <1>5, NowStep
  <2> HIDE DEF e
  <2>4. map' \in [1..End -> Int] /\ \A j \in 1..End : map'[j] = map[j] + e
    <3>1. \A j \in 1..End : j >= 1
      BY <1>3
    <3> QED
      BY <1>3, <2>1, <2>2, <3>1 DEF AdjustMap
  <2>5. map'[1] = InjectedLength(PreNow(1)')
    <3>1. map[1] = 0
      BY <1>2, <2>3, TemplateFacts
    <3> QED
      BY <1>3, <2>2, <2>3, <2>4, <3>1 DEF e
  <2>6. ASSUME NEW i \in 1..Len(code)
        PROVE  map'[i + 1] = map'[i] + Distance(i)'
    <3>1. i + 1 # 1 /\ i + 1 \in Nat /\ i \in Nat \ {0}
      BY <1>3
    <3>2. PreNow(i + 1)' = PreNow(i + 1) /\ BeforeNow(i)' = BeforeNow(i)
      BY <2>3, <3>1
    <3> DEFINE D == Distance(i)
    <3>3. Distance(i)' = D
      BY <1>4, <2>1, <3>2 DEF Distance
    <3>4. map[i + 1] = map[i] + D /\ D \in Nat /\ map[i] \in Int
      BY <1>1, <1>2, <1>3, DistanceFacts
    <3>5. map'[i + 1] = map[i + 1] + e /\ map'[i] = map[i] + e
      BY <1>3, <2>4
    <3> HIDE DEF D
    <3>6. map'[i + 1] = map'[i] + D
      BY <2>2, <3>4, <3>5
    <3> QED
      BY <3>3, <3>6
  <2> QED
    BY <1>1, <1>2, <1>3, <1>4, <2>1, <2>4, <2>5, <2>6 DEF MapInv
<1>6. CASE InjectForOpcode
  <2>1. PICK n : n = ip
    OBVIOUS
  <2> DEFINE B == BeforeInjection(code[n].op)
             A == AfterInjection(code[n].op)
             b == InjectedLength(B)
             a == InjectedLength(A)
  <2>2. n \in 1..Len(code) /\ SiteChange(n)
    BY <1>6, <2>1, InjectFacts, NowStep
  <2>3. map' = AdjustMap(map, n + 1, b + a) /\ widening' = widening
    BY <1>6, <2>1 DEF InjectForOpcode
  <2>4. b \in 0..9 /\ a \in 0..9
    BY SiteFacts, TemplatesFacts
  <2>5. InjectedLength(<<>>) = 0
    BY TemplateFacts
  <2> HIDE DEF A, B
  <2>6. /\ PreNow(n + 1) = <<>> /\ PreNow(n + 1)' = A
        /\ BeforeNow(n) = <<>> /\ BeforeNow(n)' = B
        /\ \A i \in Nat : i # n + 1 => PreNow(i)' = PreNow(i)
        /\ \A i \in Nat : i # n => BeforeNow(i)' = BeforeNow(i)
    BY <2>2 DEF SiteChange, A, B
  <2>7. ASSUME NEW i \in 1..Len(code)
        PROVE  Distance(i)' = Distance(i) + (IF i = n THEN b + a ELSE 0)
    <3> DEFINE L == Length(code[i].op, start[i])
               w == widening[i]
               x == InjectedLength(BeforeNow(i))
               y == InjectedLength(PreNow(i + 1))
    <3>1. L \in 1..20 /\ w \in -3..5 /\ x \in 0..9 /\ y \in 0..9
      BY <1>1, <1>2, DistanceFacts
    <3>2. Distance(i) = L + w + x + y
      BY DEF Distance
    <3>3. Distance(i)' = L + w + InjectedLength(BeforeNow(i)') + InjectedLength(PreNow(i + 1)')
      BY <1>4, <2>3
    <3>4. CASE i = n
      <4>1. x = 0 /\ y = 0 /\ Distance(i)' = L + w + b + a
        BY <2>5, <2>6, <3>3, <3>4
      <4> HIDE DEF L, w, x, y, a, b
      <4>2. Distance(i)' = (L + w + x + y) + (b + a)
        BY <2>4, <3>1, <4>1
      <4> QED
        BY <3>2, <3>4, <4>2
    <3>5. CASE i # n
      <4>1. i \in Nat /\ i + 1 \in Nat /\ i + 1 # n + 1
        BY <2>2, <3>5
      <4>2. Distance(i)' = L + w + x + y
        BY <2>6, <3>3, <3>5, <4>1
      <4> HIDE DEF L, w, x, y, a, b
      <4>3. L + w + x + y = (L + w + x + y) + 0
        BY <3>1
      <4> QED
        BY <3>2, <3>5, <4>2, <4>3
    <3> QED
      BY <3>4, <3>5
  <2> DEFINE d == b + a
  <2>8. d \in Int
    BY <2>4
  <2>9. map' = AdjustMap(map, n + 1, d)
        /\ \A i \in 1..Len(code) : Distance(i)' = Distance(i) + (IF i = n THEN d ELSE 0)
    BY <2>3, <2>7
  <2> HIDE DEF d, a, b
  <2>10. /\ map' \in [1..End -> Int] /\ map'[1] = map[1]
         /\ \A i \in 1..Len(code) : map'[i + 1] = map'[i] + Distance(i)'
    BY <1>1, <2>2, <2>8, <2>9, ShiftFacts
  <2>11. PreNow(1)' = PreNow(1)
    <3>1. 1 # n + 1
      BY <2>2
    <3> QED
      BY <2>6, <3>1
  <2> QED
    BY <1>1, <1>2, <1>3, <1>4, <2>3, <2>10, <2>11 DEF MapInv
<1>7. CASE Widen
  <2>1. PICK n : n = ip
    OBVIOUS
  <2>2. PICK w : w = Wanted(n)
    OBVIOUS
  <2>3. n \in 1..Len(code)
    BY <1>7, <2>1, StepPhases
  <2>4. w \in Widenings(n) /\ w \in -3..5 /\ widening[n] \in -3..5 /\ widening[n] \in Widenings(n)
    BY <1>1, <1>2, <2>2, <2>3, WantedFacts, WideningFacts
  <2>5. /\ map' = AdjustMap(map, n + 1, w - widening[n])
        /\ widening' = [widening EXCEPT ![n] = w]
    BY <1>7, <2>1, <2>2 DEF Widen, WidenFrom
  <2>6. \A i : PreNow(i)' = PreNow(i) /\ BeforeNow(i)' = BeforeNow(i)
    BY <1>7, NowStep DEF Quiet
  <2>7. n \in 1..End
    BY <1>3, <2>3
  <2>8. /\ widening' \in [1..End -> -3..5] /\ widening'[n] = w
        /\ \A i \in 1..End : i # n => widening'[i] = widening[i]
    BY <1>3, <2>4, <2>5, <2>7
  <2> DEFINE d == w - widening[n]
  <2>9. ASSUME NEW i \in 1..Len(code)
        PROVE  Distance(i)' = Distance(i) + (IF i = n THEN d ELSE 0)
    <3> DEFINE L == Length(code[i].op, start[i])
               v == widening[i]
               x == InjectedLength(BeforeNow(i))
               y == InjectedLength(PreNow(i + 1))
    <3>1. L \in 1..20 /\ v \in -3..5 /\ x \in 0..9 /\ y \in 0..9
      BY <1>1, <1>2, DistanceFacts
    <3>2. Distance(i) = L + v + x + y /\ Distance(i)' = L + widening'[i] + x + y
      BY <1>4, <2>6 DEF Distance
    <3>3. CASE i = n
      <4>1. widening'[i] = w /\ d = w - v
        BY <2>8, <3>3
      <4> HIDE DEF L, v, x, y, d
      <4>2. L + w + x + y = (L + v + x + y) + d
        BY <2>4, <3>1, <4>1
      <4> QED
        BY <3>2, <3>3, <4>1, <4>2
    <3>4. CASE i # n
      <4>1. widening'[i] = v
        BY <1>3, <2>8, <3>4
      <4> HIDE DEF L, v, x, y, d
      <4>2. L + v + x + y = (L + v + x + y) + 0
        BY <3>1
      <4> QED
        BY <3>2, <3>4, <4>1, <4>2
    <3> QED
      BY <3>3, <3>4
  <2>10. d \in Int /\ map' = AdjustMap(map, n + 1, d)
    BY <2>4, <2>5
  <2> HIDE DEF d
  <2>11. /\ map' \in [1..End -> Int] /\ map'[1] = map[1]
         /\ \A i \in 1..Len(code) : map'[i + 1] = map'[i] + Distance(i)'
    BY <1>1, <2>3, <2>9, <2>10, ShiftFacts
  <2>12. \A i \in 1..Len(code) : widening'[i] \in Widenings(i)'
    BY <1>2, <1>3, <1>4, <2>4, <2>8
  <2> QED
    BY <1>1, <1>2, <2>6, <2>8, <2>11, <2>12 DEF MapInv
<1>8. CASE Quiet /\ ~Widen
  <2>1. map' = map /\ widening' = widening
    BY <1>8 DEF Quiet, CopyMethod, InstructionFits, WriteInstruction, WriteTables, WriteFrame,
                FinishMethod
  <2>2. \A i : PreNow(i)' = PreNow(i) /\ BeforeNow(i)' = BeforeNow(i)
    BY <1>8, NowStep
  <2>3. \A i : Distance(i)' = Distance(i)
    BY <1>4, <2>1, <2>2 DEF Distance
  <2> QED
    BY <1>1, <1>2, <1>3, <1>4, <2>1, <2>2, <2>3 DEF MapInv
<1> QED
  BY <1>5, <1>6, <1>7, <1>8 DEF MethodStep, Quiet

(* The types after each step, but for what MethodTypeOK adds.              *)
LEMMA TypesStep ==
  ASSUME PlainTypes, InputInv, SiteInv, MapInv, MethodStep
  PROVE  PlainTypes'
<1>1. End' = End /\ Working /\ InputInv' /\ code' = code
  BY StepFrame, StepPhases, InputStep DEF inputVars
<1>2. map' \in [1..End -> Int] /\ widening' \in [1..End -> -3..5]
  BY MapStep
<1>3. phase' \in {"none", "begin", "inject", "adjust", "write", "tables", "frames", "done"}
  BY StepPhases DEF MethodStep, Moves, Loops
<1>4. ip' \in 1..End
  <2>1. ip' \in 1..Len(code)
    BY <1>1, StepPhases DEF InputInv
  <2> QED
    BY <1>1, <2>1, InputFacts
<1>5. injections' \in [1..End -> Seq(Trackers)] /\ extraStack' \in 0..2
  <2>1. CASE InjectEntry
    <3>1. /\ injections' = [injections EXCEPT ![1] = EntryInjection]
          /\ GrowStack(EntryInjection) /\ EntryInjection \in Templates
      BY <2>1, SiteFacts DEF InjectEntry
    <3>2. extraStack' \in 0..2
      BY <3>1, GrowFacts DEF PlainTypes
    <3>3. EntryInjection \in Seq(Trackers)
      BY <3>1, TemplatesFacts
    <3> DEFINE S == Seq(Trackers)
               D == 1..End
    <3>4. injections \in [D -> S] /\ EntryInjection \in S
      BY <3>3 DEF PlainTypes
    <3> HIDE DEF S, D
    <3>5. injections' \in [D -> S]
      BY <3>1, <3>4
    <3> QED
      BY <3>2, <3>5 DEF S, D
  <2>2. CASE InjectForOpcode
    BY <2>2, InjectFacts
  <2>3. CASE Quiet
    BY <2>3 DEF Quiet, CopyMethod, InstructionFits, Widen, WidenFrom, WriteInstruction,
                WriteTables, WriteFrame, FinishMethod, PlainTypes
  <2> QED
    BY <2>1, <2>2, <2>3 DEF MethodStep, Quiet
<1> QED
  BY <1>1, <1>2, <1>3, <1>4, <1>5 DEF PlainTypes

(* After the last round of adjust_instruction every instruction has the    *)
(* widening it wants.                                                      *)
LEMMA FitStep ==
  ASSUME PlainTypes, InputInv, FitInv, MethodStep
  PROVE  FitInv'
<1>1. /\ code' = code /\ start' = start /\ Copies' = Copies /\ Working
      /\ Len(code) \in Nat
  BY StepFrame, StepPhases, InputFacts DEF inputVars
<1>2. ASSUME map' = map, widening' = widening
      PROVE  \A i : Wanted(i)' = Wanted(i)
  BY <1>1, <1>2 DEF Wanted
<1>3. CASE InstructionFits
  <2>1. PICK n : n = ip
    OBVIOUS
  <2>2. /\ phase = "adjust" /\ n \in 1..Len(code)
        /\ \/ n < Len(code) /\ ip' = n + 1 /\ phase' = "adjust"
           \/ n = Len(code) /\ ip' = 1 /\ phase' = "write"
    BY <1>3, <2>1, StepPhases DEF Loops
  <2>3. map' = map /\ widening' = widening /\ Wanted(n) = widening[n]
    BY <1>3, <2>1 DEF InstructionFits
  <2>4. \A i \in 1..(n - 1) : Wanted(i) = widening[i]
    BY <2>1, <2>2 DEF FitInv
  <2>5. \A i \in 1..n : i = n \/ i \in 1..(n - 1)
    BY <2>2
  <2>6. \A i \in 1..n : Wanted(i)' = widening'[i]
    BY <1>2, <2>3, <2>4, <2>5
  <2>7. CASE n < Len(code) /\ ip' = n + 1 /\ phase' = "adjust"
    <3>1. (n + 1) - 1 = n
      BY <2>2
    <3> QED
      BY <2>6, <2>7, <3>1 DEF FitInv, Adjusted
  <2>8. CASE n = Len(code) /\ ip' = 1 /\ phase' = "write"
    BY <1>1, <2>6, <2>8 DEF FitInv, Adjusted
  <2> QED
    BY <2>2, <2>7, <2>8
<1>4. CASE InjectForOpcode \/ Widen
  <2>1. phase' = "inject" \/ (phase' = "adjust" /\ ip' = 1)
    BY <1>4, StepPhases DEF Loops
  <2>2. \A i : i \notin 1..(1 - 1)
    OBVIOUS
  <2> QED
    BY <2>1, <2>2 DEF FitInv, Adjusted
<1>5. CASE CopyMethod \/ InjectEntry
  <2>1. phase' = "inject" \/ (phase' = "done" /\ Copies)
    BY <1>5, StepPhases DEF Moves
  <2> QED
    BY <1>1, <2>1 DEF FitInv, Adjusted
<1>6. CASE WriteInstruction \/ WriteTables \/ WriteFrame \/ FinishMethod
  <2>1. map' = map /\ widening' = widening
    BY <1>6 DEF WriteInstruction, WriteTables, WriteFrame, FinishMethod
  <2>2. phase \in Adjusted /\ ~Copies /\ phase' \in Adjusted
    BY <1>6, StepPhases DEF Moves, Loops, Adjusted
  <2>3. \A i \in 1..Len(code) : Wanted(i) = widening[i]
    BY <2>2 DEF FitInv
  <2>4. \A i \in 1..Len(code) : Wanted(i)' = widening'[i]
    BY <1>2, <2>1, <2>3
  <2> QED
    BY <1>1, <2>2, <2>4 DEF FitInv, Adjusted
<1> QED
  BY <1>3, <1>4, <1>5, <1>6 DEF MethodStep

-----------------------------------------------------------------------------
(* Writing the instructions.                                               *)

(* What comes behind a sequence of items begins where they end.            *)
LEMMA StartsConcat ==
  ASSUME NEW S, \A x \in S : x.len \in Nat, NEW s \in Seq(S), NEW t \in Seq(S)
  PROVE  /\ \A j \in 1..(Len(s) + 1) : Starts(s \o t)[j] = Starts(s)[j]
         /\ \A j \in 1..(Len(t) + 1) :
              Starts(s \o t)[Len(s) + j] = Starts(s)[Len(s) + 1] + Starts(t)[j]
<1> DEFINE u == s \o t
           n == Len(s)
           m == Len(t)
           F == Starts(u)
           G == Starts(t)
           H == Starts(s)
<1>1. /\ u \in Seq(S) /\ Len(u) = n + m
      /\ \A k \in 1..Len(u) : u[k] = IF k <= n THEN s[k] ELSE t[k - n]
  BY ConcatProperties
<1>2. n \in Nat /\ m \in Nat
  OBVIOUS
<1> HIDE DEF u, n, m
<1>3. /\ \A k \in 1..n : s[k].len \in Nat
      /\ \A k \in 1..m : t[k].len \in Nat
      /\ \A k \in 1..(n + m) : u[k].len \in Nat
  <2>1. \A k \in 1..n : s[k] \in S
    BY DEF n
  <2>2. \A k \in 1..m : t[k] \in S
    BY DEF m
  <2>3. \A k \in 1..(n + m) : u[k] \in S
    BY <1>1
  <2> QED
    BY <2>1, <2>2, <2>3
<1>4. /\ F \in [1..(n + m + 1) -> Nat]
      /\ \A k \in 1..(n + m) : F[k + 1] = F[k] + u[k].len
  <2>1. Len(u) = n + m /\ Len(u) \in Nat /\ \A k \in 1..Len(u) : u[k].len \in Nat
    BY <1>1, <1>2, <1>3
  <2>2. /\ F \in [1..(Len(u) + 1) -> Nat]
        /\ \A k \in 1..Len(u) : F[k + 1] = F[k] + u[k].len
    BY <2>1, StartsFacts
  <2> HIDE DEF F
  <2> QED
    BY <2>1, <2>2
<1>5. /\ G \in [1..(m + 1) -> Nat] /\ G[1] = 0
      /\ \A k \in 1..m : G[k + 1] = G[k] + t[k].len
  BY <1>2, <1>3, StartsFacts DEF m
<1>6. \A j \in 1..(n + 1) : F[j] = H[j]
  <2>1. \A k \in 1..n : u[k] = s[k]
    BY <1>1, <1>2
  <2>2. Len(s) <= Len(u) /\ Len(u) \in Nat
    BY <1>1, <1>2 DEF n
  <2> QED
    BY <1>1, <1>2, <1>3, <2>1, <2>2, StartsPrefix DEF n
<1> HIDE DEF F, G, H
<1> DEFINE h == F[n + 1]
           T == {j \in 1..(m + 1) : F[n + j] = h + G[j]}
<1>7. h \in Nat
  BY <1>2, <1>4
<1>8. 1 \in T
  BY <1>2, <1>5, <1>7
<1>9. ASSUME NEW k \in 1..((m + 1) - 1), k \in T
      PROVE  k + 1 \in T
  <2>1. k \in 1..m /\ n + k \in 1..(n + m) /\ n + (k + 1) = (n + k) + 1 /\ k + 1 \in 1..(m + 1)
    BY <1>2
  <2>2. F[(n + k) + 1] = F[n + k] + u[n + k].len /\ G[k + 1] = G[k] + t[k].len
    BY <1>4, <1>5, <2>1
  <2>3. u[n + k] = t[k]
    <3>1. ~(n + k <= n) /\ (n + k) - n = k
      BY <1>2, <2>1
    <3> QED
      BY <1>1, <2>1, <3>1
  <2>4. F[n + k] = h + G[k] /\ t[k].len \in Nat /\ G[k] \in Nat
    BY <1>3, <1>5, <1>9, <2>1
  <2>5. F[n + (k + 1)] = h + G[k + 1]
    BY <1>7, <2>1, <2>2, <2>3, <2>4
  <2> QED
    BY <2>1, <2>5
<1> HIDE DEF T
<1>10. 1 \in Int /\ m + 1 \in Int
  BY <1>2
<1>11. \A j \in 1..(m + 1) : j \in T
  BY <1>8, <1>9, <1>10, Climb
<1>12. h = H[n + 1]
  <2>1. n + 1 \in 1..(n + 1)
    BY <1>2
  <2> QED
    BY <1>6, <2>1
<1> QED
  BY <1>6, <1>11, <1>12 DEF T, F, G, H, u, n, m

(* The size of the items of one instruction before its last two.           *)
Size(s) == IF s = <<>> THEN 0 ELSE s[1].len

(* Where the items of one instruction begin: a list of one item at most,   *)
(* another one, and one or two items.                                      *)
Shape(A, C, R, B, F) ==
  /\ Len(B) = Len(A) + Len(C) + Len(R)
  /\ F[Len(B) + 1] = Size(A) + Size(C) + R[1].len + (IF Len(R) = 2 THEN R[2].len ELSE 0)
  /\ \A j \in 1..Len(B) :
       \/ A # <<>> /\ B[j] = A[1] /\ F[j] = 0
       \/ C # <<>> /\ B[j] = C[1] /\ F[j] = Size(A)
       \/ /\ B[j] = R[1] /\ F[j] = Size(A) + Size(C)
          /\ Len(R) = 2 => j + 1 \in 1..Len(B) /\ B[j + 1] = R[2]
       \/ Len(R) = 2 /\ B[j] = R[2] /\ F[j] = Size(A) + Size(C) + R[1].len
  /\ A # <<>> => \E j \in 1..Len(B) : B[j] = A[1] /\ F[j] = 0
  /\ C # <<>> => \E j \in 1..Len(B) : B[j] = C[1] /\ F[j] = Size(A)
  /\ \E j \in 1..Len(B) :
       /\ B[j] = R[1] /\ F[j] = Size(A) + Size(C)
       /\ Len(R) = 2 => j + 1 \in 1..Len(B) /\ B[j + 1] = R[2]

(* What is written for an instruction, at most two calls before its one or two *)
(* items, has the positions that these lengths give.                       *)
LEMMA BlockShape ==
  ASSUME NEW S, \A x \in S : x.len \in Nat,
         NEW A \in Seq(S), NEW C \in Seq(S), NEW R \in Seq(S),
         Len(A) <= 1, Len(C) <= 1, Len(R) \in {1, 2}
  PROVE  Shape(A, C, R, A \o C \o R, Starts(A \o C \o R))
<1> DEFINE B == A \o C \o R
           F == Starts(B)
           a == Len(A)
           c == Len(C)
           r == Len(R)
           x == Size(A)
           y == Size(C)
<1>1. /\ B \in Seq(S) /\ Len(B) = a + c + r
      /\ \A k \in 1..Len(B) : B[k] = IF k <= a THEN A[k] ELSE IF k <= a + c THEN C[k - a]
                                     ELSE R[k - (a + c)]
  <2> DEFINE E == A \o C
  <2>1. /\ E \in Seq(S) /\ Len(E) = a + c
        /\ \A k \in 1..Len(E) : E[k] = IF k <= a THEN A[k] ELSE C[k - a]
    BY ConcatProperties
  <2> HIDE DEF E
  <2>2. /\ E \o R \in Seq(S) /\ Len(E \o R) = Len(E) + r
        /\ \A k \in 1..Len(E \o R) : (E \o R)[k] = IF k <= Len(E) THEN E[k] ELSE R[k - Len(E)]
    BY <2>1, ConcatProperties
  <2>3. B = E \o R
    BY DEF E
  <2>4. a \in Nat /\ c \in Nat /\ r \in Nat
    OBVIOUS
  <2> HIDE DEF B
  <2>5. ASSUME NEW k \in 1..Len(B)
        PROVE  B[k] = IF k <= a THEN A[k] ELSE IF k <= a + c THEN C[k - a] ELSE R[k - (a + c)]
    <3>1. k <= a => k <= a + c /\ k \in 1..Len(E)
      BY <2>1, <2>4
    <3>2. k <= a + c => k \in 1..Len(E)
      BY <2>1, <2>4
    <3> QED
      BY <2>1, <2>2, <2>3, <3>1, <3>2
  <2> QED
    BY <2>1, <2>2, <2>3, <2>5
<1>2. a \in 0..1 /\ c \in 0..1 /\ r \in 1..2
  <2> HIDE DEF B, F, x, y
  <2>1. a \in Nat /\ c \in Nat /\ r \in Nat
    OBVIOUS
  <2>2. a <= 1 /\ c <= 1 /\ r \in {1, 2}
    OBVIOUS
  <2> HIDE DEF a, c, r
  <2> QED
    BY <2>1, <2>2
<1>3. (A # <<>> <=> a = 1) /\ (C # <<>> <=> c = 1)
  <2>1. (A = <<>> <=> a = 0) /\ (C = <<>> <=> c = 0)
    BY EmptySeq
  <2> QED
    BY <1>2, <2>1, SMTT(40)
<1>4. \A k \in 1..Len(B) : B[k].len \in Nat
  <2> HIDE DEF B
  <2>1. \A k \in 1..Len(B) : B[k] \in S
    BY <1>1
  <2> QED
    BY <2>1
<1> HIDE DEF B
<1>5. F[1] = 0 /\ \A k \in 1..Len(B) : F[k + 1] = F[k] + B[k].len
  <2>1. Len(B) \in Nat
    BY <1>1, <1>2
  <2> QED
    BY <1>4, <2>1, StartsFacts
<1> HIDE DEF F, a, c, r
<1>6. x \in Nat /\ y \in Nat /\ (a = 1 => x = A[1].len) /\ (c = 1 => y = C[1].len)
      /\ (a = 0 => x = 0) /\ (c = 0 => y = 0)
  <2>1. a = 1 => A[1] \in S
    BY DEF a
  <2>2. c = 1 => C[1] \in S
    BY DEF c
  <2> QED
    BY <1>2, <1>3, <2>1, <2>2 DEF Size
<1> HIDE DEF x, y
<1>7. R[1].len \in Nat /\ (r = 2 => R[2].len \in Nat)
  <2>1. R[1] \in S /\ (r = 2 => R[2] \in S)
    BY DEF r
  <2> QED
    BY <2>1
<1>8. /\ a = 1 => B[1] = A[1]
      /\ c = 1 => B[a + 1] = C[1]
      /\ B[a + c + 1] = R[1]
      /\ r = 2 => B[a + c + 2] = R[2]
  <2>1. a = 1 => B[1] = A[1]
    BY <1>1, <1>2
  <2>2. c = 1 => B[a + 1] = C[1]
    <3> SUFFICES ASSUME c = 1 PROVE B[a + 1] = C[1]
      OBVIOUS
    <3>1. a + 1 \in 1..Len(B) /\ ~(a + 1 <= a) /\ a + 1 <= a + c /\ (a + 1) - a = 1
      BY <1>1, <1>2
    <3> QED
      BY <1>1, <3>1
  <2>3. B[a + c + 1] = R[1]
    <3>1. a + c + 1 \in 1..Len(B) /\ ~(a + c + 1 <= a) /\ ~(a + c + 1 <= a + c)
          /\ (a + c + 1) - (a + c) = 1
      BY <1>1, <1>2
    <3> QED
      BY <1>1, <3>1
  <2>4. r = 2 => B[a + c + 2] = R[2]
    <3> SUFFICES ASSUME r = 2 PROVE B[a + c + 2] = R[2]
      OBVIOUS
    <3>1. a + c + 2 \in 1..Len(B) /\ ~(a + c + 2 <= a) /\ ~(a + c + 2 <= a + c)
          /\ (a + c + 2) - (a + c) = 2
      BY <1>1, <1>2
    <3> QED
      BY <1>1, <3>1
  <2> QED
    BY <2>1, <2>2, <2>3, <2>4
<1>9. F[a + 1] = x
  <2>1. CASE a = 0
    BY <1>5, <1>6, <2>1
  <2>2. CASE a = 1
    <3>1. 1 \in 1..Len(B)
      BY <1>1, <1>2
    <3>2. F[1 + 1] = F[1] + B[1].len
      BY <1>5, <3>1
    <3> QED
      BY <1>5, <1>6, <1>8, <2>2, <3>2
  <2> QED
    BY <1>2, <2>1, <2>2
<1>10. F[a + c + 1] = x + y
  <2>1. CASE c = 0
    BY <1>2, <1>6, <1>9, <2>1
  <2>2. CASE c = 1
    <3>1. a + 1 \in 1..Len(B) /\ a + c + 1 = (a + 1) + 1
      BY <1>1, <1>2, <2>2
    <3>2. F[(a + 1) + 1] = F[a + 1] + B[a + 1].len
      BY <1>5, <3>1
    <3> QED
      BY <1>6, <1>8, <1>9, <2>2, <3>1, <3>2
  <2> QED
    BY <1>2, <2>1, <2>2
<1>11. F[a + c + 2] = x + y + R[1].len
  <2>1. a + c + 1 \in 1..Len(B) /\ a + c + 2 = (a + c + 1) + 1
    BY <1>1, <1>2
  <2>2. F[(a + c + 1) + 1] = F[a + c + 1] + B[a + c + 1].len
    BY <1>5, <2>1
  <2> QED
    BY <1>8, <1>10, <2>1, <2>2
<1>12. F[Len(B) + 1] = x + y + R[1].len + (IF r = 2 THEN R[2].len ELSE 0)
  <2>1. CASE r = 1
    <3>1. Len(B) + 1 = a + c + 2
      BY <1>1, <1>2, <2>1
    <3>2. x + y + R[1].len = x + y + R[1].len + 0
      BY <1>6, <1>7
    <3> QED
      BY <1>11, <2>1, <3>1, <3>2
  <2>2. CASE r = 2
    <3>1. a + c + 2 \in 1..Len(B) /\ Len(B) + 1 = (a + c + 2) + 1
      BY <1>1, <1>2, <2>2
    <3>2. F[(a + c + 2) + 1] = F[a + c + 2] + B[a + c + 2].len
      BY <1>5, <3>1
    <3> QED
      BY <1>8, <1>11, <2>2, <3>1, <3>2
  <2> QED
    BY <1>2, <2>1, <2>2
<1>13. ASSUME NEW j \in 1..Len(B)
       PROVE  \/ A # <<>> /\ B[j] = A[1] /\ F[j] = 0
              \/ C # <<>> /\ B[j] = C[1] /\ F[j] = x
              \/ /\ B[j] = R[1] /\ F[j] = x + y
                 /\ r = 2 => j + 1 \in 1..Len(B) /\ B[j + 1] = R[2]
              \/ r = 2 /\ B[j] = R[2] /\ F[j] = x + y + R[1].len
  <2>1. \/ a = 1 /\ j = 1
        \/ c = 1 /\ j = a + 1
        \/ j = a + c + 1
        \/ r = 2 /\ j = a + c + 2
    BY <1>1, <1>2
  <2>2. r = 2 => a + c + 2 \in 1..Len(B) /\ (a + c + 1) + 1 = a + c + 2
    BY <1>1, <1>2
  <2> QED
    BY <1>3, <1>5, <1>8, <1>9, <1>10, <1>11, <2>1, <2>2
<1>14. a = 1 => 1 \in 1..Len(B)
  BY <1>1, <1>2
<1>15. c = 1 => a + 1 \in 1..Len(B)
  BY <1>1, <1>2
<1>16. a + c + 1 \in 1..Len(B) /\ (r = 2 => (a + c + 1) + 1 \in 1..Len(B) /\ (a + c + 1) + 1 = a + c + 2)
  BY <1>1, <1>2
<1>17. A # <<>> => \E j \in 1..Len(B) : B[j] = A[1] /\ F[j] = 0
  BY <1>3, <1>5, <1>8, <1>14
<1>18. C # <<>> => \E j \in 1..Len(B) : B[j] = C[1] /\ F[j] = x
  BY <1>3, <1>8, <1>9, <1>15
<1>19. \E j \in 1..Len(B) : /\ B[j] = R[1] /\ F[j] = x + y
                            /\ r = 2 => j + 1 \in 1..Len(B) /\ B[j + 1] = R[2]
  BY <1>8, <1>10, <1>16
<1> QED
  BY <1>1, <1>12, <1>13, <1>17, <1>18, <1>19 DEF Shape, a, c, r, x, y, F, B

(* The distances to the targets of instruction i.                          *)
News(i) == [k \in DOMAIN code[i].to |-> map[code[i].to[k]] - map[i]]

(* The new distances are as many as the targets, and those of the position map. *)
LEMMA NewsFacts ==
  ASSUME Working, PlainTypes, InputInv, NEW i \in 1..Len(code)
  PROVE  /\ DOMAIN code[i].to = 1..Arity(code[i].op)
         /\ \A k \in 1..Arity(code[i].op) : code[i].to[k] \in 1..Len(code)
         /\ News(i) \in Seq(Int) /\ Len(News(i)) = Arity(code[i].op)
         /\ \A k \in 1..Arity(code[i].op) : News(i)[k] = map[code[i].to[k]] - map[i]
<1> DEFINE t == code[i].to
           n == Len(code)
           a == Arity(code[i].op)
<1>1. t \in Seq(1..n) /\ Len(t) = a /\ n \in Nat /\ End = n + 1 /\ i \in 1..End
  BY InputFacts
<1>2. a \in Nat
  BY DEF Arity
<1>3. map \in [1..End -> Int]
  BY DEF PlainTypes
<1> HIDE DEF t, n, a
<1>4. DOMAIN t = 1..a /\ \A k \in 1..a : t[k] \in 1..n
  BY <1>1
<1>5. \A k \in 1..a : map[t[k]] - map[i] \in Int
  <2>1. \A j \in 1..n : map[j] \in Int
    BY <1>1, <1>3
  <2>2. map[i] \in Int
    BY <1>1, <1>3
  <2> QED
    BY <1>4, <2>1, <2>2
<1>6. News(i) = [k \in 1..a |-> map[t[k]] - map[i]]
  BY <1>4, Zenon DEF News, t
<1> DEFINE v == News(i)
<1> HIDE DEF v
<1>7. v \in [1..a -> Int] /\ \A k \in 1..a : v[k] = map[t[k]] - map[i]
  BY <1>5, <1>6 DEF v
<1>8. v \in Seq(Int) /\ Len(v) = a
  BY <1>2, <1>7
<1> QED
  BY <1>4, <1>7, <1>8 DEF t, n, a, v

(* A distance that fits into two bytes is read as it was written.          *)
LEMMA ShortFacts ==
  ASSUME NEW d \in Int, Fits(d)
  PROVE  ToShort(d) = d
<1>1. Reach \in Nat /\ Reach > 8
  BY CrwAssumption
<1>2. d + Reach \in 0..(2 * Reach - 1)
  BY <1>1 DEF Fits
<1>3. (d + Reach) % (2 * Reach) = d + Reach
  BY <1>1, <1>2
<1> QED
  BY <1>1, <1>3 DEF ToShort

(* What is written for an instruction that has the widening it wants.      *)
RewriteOK(i, R) ==
  LET op == code[i].op
      L == Length(op, start[i]) + widening[i]
  IN  /\ R \in Seq(Items) /\ R[1].from = i
      /\ R[1].what \in Opcodes \cup {"inverse"}
      /\ R[1].what = "switch" => R[1].len = Length("switch", map[i])
      /\ \/ /\ Len(R) = 1 /\ R[1].len = L
            /\ R[1].what # "inverse" /\ R[1].deltas = News(i)
            /\ op = "switch" <=> R[1].what = "switch"
         \/ /\ Len(R) = 2 /\ op = "if" /\ L = 8
            /\ R[1].what = "inverse" /\ R[1].len = 3 /\ R[1].deltas = <<8>>
            /\ R[2].what = "goto_w" /\ R[2].len = 5 /\ R[2].from = i
            /\ R[2].deltas = <<News(i)[1] - 3>>

(* An instruction is rewritten to one item, or a short if to an inverse of it *)
(* and a goto_w; the lengths and distances are those that were settled.    *)
LEMMA RewrittenFacts ==
  ASSUME Working, PlainTypes, InputInv, MapInv, NEW i \in 1..Len(code), Wanted(i) = widening[i]
  PROVE  RewriteOK(i, Rewritten(i))
<1> DEFINE op == code[i].op
           new == News(i)
           w == widening[i]
           S == [from : 1..Len(code), what : Trackers \cup Opcodes \cup {"inverse"}, len : 1..20,
                 deltas : Seq(Int)]
<1>1. op \in Opcodes /\ w \in Widenings(i) /\ i \in 1..End
  BY InputFacts DEF MapInv
<1>2. map[i] \in Nat /\ start[i] \in Nat
  BY <1>1, MapFacts, StartFacts
<1>3. new \in Seq(Int) /\ Len(new) = Arity(op)
  BY NewsFacts
<1>4. ASSUME NEW what \in Opcodes \cup {"inverse"}, NEW len \in 1..20, NEW deltas \in Seq(Int)
      PROVE  Item(i, what, len, deltas) \in S
  BY <1>4 DEF Item
<1>5. \A x \in S : <<x>> \in Seq(S) /\ Len(<<x>>) = 1
  <2> HIDE DEF S
  <2> QED
    OBVIOUS
<1>6. \A x \in S : \A y \in S : <<x, y>> \in Seq(S) /\ Len(<<x, y>>) = 2
  <2> HIDE DEF S
  <2> QED
    OBVIOUS
<1>7. Items = S
  BY DEF Items
<1> HIDE DEF S
<1> DEFINE r0 == <<Item(i, op, 3, <<ToShort(new[1])>>)>>
           r2 == <<Item(i, "goto_w", 5, new)>>
           r5 == <<Item(i, "inverse", 3, <<3 + 5>>), Item(i, "goto_w", 5, <<new[1] - 3>>)>>
           rs == <<Item(i, op, Length(op, map[i]), new)>>
           ro == <<Item(i, op, Length(op, 0), new)>>
<1>8. /\ op \in Branches /\ w = 0 => Rewritten(i) = r0
      /\ op \in Branches /\ w = 2 => Rewritten(i) = r2
      /\ op \in Branches /\ w = 5 => Rewritten(i) = r5
      /\ op = "switch" => Rewritten(i) = rs
      /\ op \notin Branches \cup {"switch"} => Rewritten(i) = ro
  <2>1. Rewritten(i) = CASE op \in Branches /\ w = 0 -> r0
                         [] op \in Branches /\ w = 2 -> r2
                         [] op \in Branches /\ w = 5 -> r5
                         [] op = "switch" -> rs
                         [] OTHER -> ro
    BY Zenon DEF Rewritten, News
  <2>2. "switch" \notin Branches
    BY DEF Branches
  <2> HIDE DEF op, w, r0, r2, r5, rs, ro
  <2> QED
    BY <2>1, <2>2
<1> HIDE DEF r0, r2, r5, rs, ro
<1>9. CASE op \in Branches
  <2>1. Len(new) = 1 /\ new[1] \in Int /\ new = <<new[1]>>
    <3>1. Len(new) = 1
      BY <1>3, <1>9 DEF Arity, Branches, Fixed
    <3> HIDE DEF new
    <3> QED
      BY <1>3, <3>1, SMTT(40)
  <2>2. new[1] = map[code[i].to[1]] - map[i]
    <3>1. 1 \in 1..Arity(op)
      BY <1>9 DEF Arity, Branches, Fixed
    <3> QED
      BY <3>1, NewsFacts
  <2>3. w = 0 => Fits(new[1])
    BY <1>9, <2>2 DEF Wanted, Branches
  <2>4. Length(op, start[i]) = 3
    BY <1>9 DEF Length, Branches
  <2> HIDE DEF new
  <2>5. CASE w = 0
    <3>1. Rewritten(i) = <<Item(i, op, 3, <<ToShort(new[1])>>)>>
      BY <1>8, <1>9, <2>5, Zenon DEF r0
    <3>2. ToShort(new[1]) = new[1]
      BY <2>1, <2>3, <2>5, ShortFacts
    <3> DEFINE x == Item(i, op, 3, new)
    <3>3. Rewritten(i) = <<x>>
      BY <2>1, <3>1, <3>2
    <3>4. x \in S
      BY <1>1, <1>3, <1>4, SMTT(40)
    <3>5. x.from = i /\ x.what = op /\ x.len = 3 /\ x.deltas = new
      BY DEF Item
    <3>6. 3 + 0 = 3 /\ op # "switch" /\ op # "inverse"
      BY <1>9 DEF Branches
    <3> HIDE DEF x
    <3>7. <<x>>[1] = x
      OBVIOUS
    <3> QED
      BY <1>1, <1>5, <1>7, <2>4, <2>5, <3>3, <3>4, <3>5, <3>6, <3>7 DEF RewriteOK, new
  <2>6. CASE w = 2
    <3>1. Rewritten(i) = <<Item(i, "goto_w", 5, new)>>
      BY <1>8, <1>9, <2>6, Zenon DEF r2
    <3> DEFINE x == Item(i, "goto_w", 5, new)
    <3>2. x \in S
      <4>1. "goto_w" \in Opcodes \cup {"inverse"} /\ 5 \in 1..20
        BY DEF Opcodes
      <4> QED
        BY <1>3, <1>4, <4>1, Zenon
    <3>3. x.from = i /\ x.what = "goto_w" /\ x.len = 5 /\ x.deltas = new
      BY DEF Item
    <3>4. 3 + 2 = 5 /\ op # "switch"
      BY <1>9 DEF Branches
    <3> HIDE DEF x
    <3>5. <<x>>[1] = x /\ Rewritten(i) = <<x>>
      BY <3>1 DEF x
    <3> QED
      BY <1>1, <1>5, <1>7, <2>4, <2>6, <3>2, <3>3, <3>4, <3>5 DEF RewriteOK, new, Opcodes
  <2>7. CASE w = 5
    <3>1. op = "if"
      BY <1>1, <1>9, <2>7 DEF Widenings, Branches
    <3> DEFINE x == Item(i, "inverse", 3, <<8>>)
               y == Item(i, "goto_w", 5, <<new[1] - 3>>)
    <3>2. Rewritten(i) = <<x, y>>
      <4>1. 3 + 5 = 8
        OBVIOUS
      <4> QED
        BY <1>8, <1>9, <2>7, <4>1 DEF r5
    <3>3. x \in S /\ y \in S
      <4>1. <<8>> \in Seq(Int)
        OBVIOUS
      <4>2. new[1] - 3 \in Int
        BY <2>1
      <4>3. <<new[1] - 3>> \in Seq(Int)
        BY <4>2
      <4>4. "goto_w" \in Opcodes \cup {"inverse"} /\ 5 \in 1..20 /\ 3 \in 1..20
            /\ "inverse" \in Opcodes \cup {"inverse"}
        BY DEF Opcodes
      <4> QED
        BY <1>4, <4>1, <4>3, <4>4, Zenon
    <3>4. /\ x.from = i /\ x.what = "inverse" /\ x.len = 3 /\ x.deltas = <<8>>
          /\ y.from = i /\ y.what = "goto_w" /\ y.len = 5 /\ y.deltas = <<new[1] - 3>>
      BY DEF Item
    <3> HIDE DEF x, y
    <3>5. <<x, y>>[1] = x /\ <<x, y>>[2] = y
      OBVIOUS
    <3>6. 3 + 5 = 8
      OBVIOUS
    <3> QED
      BY <1>6, <1>7, <2>4, <2>7, <3>1, <3>2, <3>3, <3>4, <3>5, <3>6 DEF RewriteOK, new
  <2>8. w = 0 \/ w = 2 \/ w = 5
    BY <1>1, <1>9 DEF Widenings, Branches
  <2> QED
    BY <2>5, <2>6, <2>7, <2>8
<1>10. CASE op = "switch"
  <2> DEFINE b == ToBoundary(start[i])
             c == ToBoundary(map[i])
  <2>1. w = c - b
    BY <1>10, WantedFacts
  <2>2. /\ Length("switch", map[i]) = c + 16 /\ Length("switch", start[i]) = b + 16
        /\ b \in 1..4 /\ c \in 1..4
    BY <1>2, LengthFacts
  <2> DEFINE len == Length("switch", map[i])
             x == Item(i, op, len, new)
  <2>3. len \in 1..20 /\ len = Length("switch", start[i]) + w
    <3> DEFINE L == Length("switch", start[i])
    <3> HIDE DEF b, c, len, w, L
    <3>1. len = c + 16 /\ L = b + 16 /\ b \in 1..4 /\ c \in 1..4 /\ w = c - b
      BY <2>1, <2>2 DEF len, L
    <3>2. len \in 1..20 /\ len = L + w
      BY <3>1
    <3> QED
      BY <3>2 DEF L
  <2>4. Rewritten(i) = <<x>>
    BY <1>8, <1>10 DEF rs
  <2> HIDE DEF len, new
  <2>5. x \in S /\ x.from = i /\ x.what = op /\ x.len = len /\ x.deltas = new
    BY <1>1, <1>3, <1>4, <2>3 DEF Item
  <2> HIDE DEF x
  <2>6. <<x>>[1] = x /\ op # "inverse"
    BY <1>10
  <2> QED
    BY <1>1, <1>5, <1>7, <1>10, <2>3, <2>4, <2>5, <2>6 DEF RewriteOK, new, len
<1>11. CASE op \notin Branches \cup {"switch"}
  <2> DEFINE len == Length(op, 0)
             x == Item(i, op, len, new)
  <2>1. w = 0
    BY <1>11, WideningFacts, <1>1 DEF Branches
  <2>2. len = Length(op, start[i]) /\ len \in 1..20
    BY <1>1, <1>2, <1>11, LengthFacts
  <2>3. Rewritten(i) = <<x>>
    BY <1>8, <1>11, Zenon DEF ro
  <2> HIDE DEF len, new
  <2>4. x \in S /\ x.from = i /\ x.what = op /\ x.len = len /\ x.deltas = new
    BY <1>1, <1>3, <1>4, <2>2 DEF Item
  <2> HIDE DEF x
  <2>5. <<x>>[1] = x /\ op # "inverse" /\ op # "switch"
    BY <1>1, <1>11 DEF Opcodes, Branches, Fixed
  <2>6. len = Length(op, start[i]) + w
    <3>1. len = len + 0
      BY <2>2
    <3> QED
      BY <2>1, <2>2, <3>1
  <2> QED
    BY <1>1, <1>5, <1>7, <2>3, <2>4, <2>5, <2>6 DEF RewriteOK, new
<1> QED
  BY <1>9, <1>10, <1>11

(* Behind the injection loop every site has all of its calls.              *)
LEMMA SitesDone ==
  ASSUME Working, InputInv, SiteInv, ~Copies, phase \in Adjusted \cup {"adjust"}
  PROVE  /\ \A i \in 1..End : PreNow(i) = Pre(i)
         /\ \A i \in 1..Len(code) : BeforeNow(i) = Before(i)
         /\ \A i \in 1..End : injections[i] = Pre(i) \o Before(i)
<1>1. End = Len(code) + 1 /\ Len(code) \in Nat
  BY InputFacts
<1>2. Handled = End
  BY DEF Handled, Adjusted
<1>3. (\A i \in 1..End : i <= Handled) /\ (\A i \in 1..Len(code) : i < Handled /\ i \in 1..End)
  BY <1>1, <1>2
<1>4. \A i \in 1..End : PreNow(i) = Pre(i)
  BY <1>3 DEF PreNow
<1>5. \A i \in 1..Len(code) : BeforeNow(i) = Before(i)
  BY <1>3 DEF BeforeNow
<1>6. \A i \in 1..End : BeforeNow(i) = Before(i)
  <2>1. Before(End) = <<>> /\ BeforeNow(End) = <<>>
    BY <1>1, <1>2 DEF Before, BeforeNow
  <2>2. \A i \in 1..End : i = End \/ i \in 1..Len(code)
    BY <1>1
  <2> QED
    BY <1>5, <2>1, <2>2
<1> QED
  BY <1>4, <1>5, <1>6 DEF SiteInv

(* The calls of a list as items of instruction i.                          *)
CallList(i, T) == IF T = <<>> THEN <<>> ELSE <<CallItem(i, T)>>

(* A list of calls is written as one item of its length, if it is a call.  *)
LEMMA CallListFacts ==
  ASSUME NEW i \in 1..Len(code), NEW T \in Templates
  PROVE  /\ CallList(i, T) \in Seq(Items) /\ Len(CallList(i, T)) = Len(T)
         /\ Size(CallList(i, T)) = InjectedLength(T)
         /\ T # <<>> <=> CallList(i, T) # <<>>
         /\ T # <<>> => CallList(i, T)[1] = CallItem(i, T)
         /\ T # <<>> => /\ CallItem(i, T).from = i /\ CallItem(i, T).what = T[1]
                        /\ CallItem(i, T).deltas = <<>>
<1>1. CASE T = <<>>
  <2>1. <<>> \in Seq(Items) /\ Len(<<>>) = 0
    <3> HIDE DEF Items
    <3> QED
      OBVIOUS
  <2> QED
    BY <1>1, <2>1, TemplateFacts DEF CallList, Size
<1>2. CASE T # <<>>
  <2> DEFINE x == CallItem(i, T)
  <2>1. /\ T[1] \in Trackers /\ Len(T) = 1 /\ InjectedLength(T) = TemplateLength(T[1])
    BY <1>2, TemplatesFacts
  <2>2. TemplateLength(T[1]) \in 1..20
    <3>1. TemplateLength(T[1]) \in 1..9
      BY <2>1, TemplateFacts
    <3> QED
      BY <3>1
  <2>3. <<>> \in Seq(Int)
    OBVIOUS
  <2>4. /\ x \in Items /\ x.len = TemplateLength(T[1])
        /\ x.from = i /\ x.what = T[1] /\ x.deltas = <<>>
    BY <2>1, <2>2, <2>3 DEF CallItem, Item, Items
  <2>5. CallList(i, T) = <<x>>
    BY <1>2 DEF CallList
  <2> HIDE DEF x
  <2>6. <<x>> \in Seq(Items) /\ Len(<<x>>) = 1 /\ <<x>>[1] = x /\ <<x>> # <<>>
    <3> HIDE DEF Items
    <3> QED
      BY <2>4
  <2> QED
    BY <1>2, <2>1, <2>4, <2>5, <2>6 DEF Size, x
<1> QED
  BY <1>1, <1>2

(* The calls in front of instruction i, and before it.                     *)
LEMMA CallsSplit ==
  ASSUME Working, InputInv, SiteInv, ~Copies, phase \in Adjusted, NEW i \in 1..Len(code)
  PROVE  Calls(i) = CallList(i, Pre(i)) \o CallList(i, Before(i))
<1> DEFINE P == Pre(i)
           B == Before(i)
           I == P \o B
           A == CallList(i, P)
           C == CallList(i, B)
           F == Calls(i)
<1>1. injections[i] = I
  <2>1. i \in 1..End
    BY InputFacts
  <2> QED
    BY <2>1, SitesDone
<1>2. P \in Templates /\ B \in Templates
  BY PreFacts
<1>3a. P \in Seq(Trackers) /\ B \in Seq(Trackers) /\ Len(P) <= 1 /\ Len(B) <= 1
  BY <1>2, TemplatesFacts
<1>3e. ASSUME NEW x \in Seq(Trackers)
      PROVE  Len(x) \in Nat /\ (Len(x) = 1 => x # <<>>)
  <2>1. Len(x) \in Nat
    OBVIOUS
  <2> DEFINE l == Len(x)
             e == x = <<>>
  <2>2. e => l = 0
    BY EmptySeq
  <2>3. l = 1 => ~e
    <3> HIDE DEF l, e
    <3> QED
      BY <2>2
  <2> QED
    BY <2>1, <2>3
<1>3b. Len(P) \in Nat /\ Len(B) \in Nat /\ (Len(P) = 1 => P # <<>>) /\ (Len(B) = 1 => B # <<>>)
  <2> HIDE DEF P, B, I, A, C, F
  <2> QED
    BY <1>3a, <1>3e
<1>3c. Len(P) \in 0..1
  <2> DEFINE l == Len(P)
  <2>1. l \in Nat /\ l <= 1
    BY <1>3a, <1>3b
  <2> HIDE DEF l
  <2>2. l \in 0..1
    BY <2>1
  <2> QED
    BY <2>2 DEF l
<1>3d. Len(B) \in 0..1
  <2> DEFINE l == Len(B)
  <2>1. l \in Nat /\ l <= 1
    BY <1>3a, <1>3b
  <2> HIDE DEF l
  <2>2. l \in 0..1
    BY <2>1
  <2> QED
    BY <2>2 DEF l
<1>3. P \in Seq(Trackers) /\ B \in Seq(Trackers) /\ Len(P) \in 0..1 /\ Len(B) \in 0..1
      /\ (Len(P) = 1 => P # <<>>) /\ (Len(B) = 1 => B # <<>>)
  BY <1>3a, <1>3b, <1>3c, <1>3d
<1>4. /\ A \in Seq(Items) /\ Len(A) = Len(P) /\ (P # <<>> => A[1] = CallItem(i, P))
      /\ C \in Seq(Items) /\ Len(C) = Len(B) /\ (B # <<>> => C[1] = CallItem(i, B))
  BY <1>2, CallListFacts
<1>5. F = [k \in DOMAIN I |-> Item(i, I[k], TemplateLength(I[k]), <<>>)]
  BY <1>1 DEF Calls
<1>6. /\ I \in Seq(Trackers) /\ Len(I) = Len(P) + Len(B)
      /\ \A k \in 1..Len(I) : I[k] = IF k <= Len(P) THEN P[k] ELSE B[k - Len(P)]
  BY <1>3, ConcatProperties
<1> HIDE DEF I, A, C, F, P, B
<1>7. /\ A \o C \in Seq(Items) /\ Len(A \o C) = Len(A) + Len(C)
      /\ \A k \in 1..Len(A \o C) : (A \o C)[k] = IF k <= Len(A) THEN A[k] ELSE C[k - Len(A)]
  <2> DEFINE S == Items
  <2>1. A \in Seq(S) /\ C \in Seq(S)
    BY <1>4
  <2> HIDE DEF S
  <2>2. /\ A \o C \in Seq(S) /\ Len(A \o C) = Len(A) + Len(C)
        /\ \A k \in 1..(Len(A) + Len(C)) :
             (A \o C)[k] = IF k <= Len(A) THEN A[k] ELSE C[k - Len(A)]
    BY <2>1, ConcatProperties
  <2>3. \A k \in 1..Len(A \o C) : (A \o C)[k] = IF k <= Len(A) THEN A[k] ELSE C[k - Len(A)]
    BY <2>2
  <2> QED
    BY <2>2, <2>3 DEF S
<1>8. DOMAIN I = 1..Len(I) /\ F = [k \in 1..Len(I) |-> F[k]]
  BY <1>5, <1>6
<1> DEFINE D == A \o C
<1>9. D = [k \in 1..Len(D) |-> D[k]]
  <2>1. D \in Seq(Items)
    BY <1>7
  <2> HIDE DEF D, Items
  <2> QED
    BY <2>1
<1>10. ASSUME NEW k \in 1..Len(I)
       PROVE  F[k] = D[k]
  <2>1. F[k] = Item(i, I[k], TemplateLength(I[k]), <<>>)
    BY <1>5, <1>8
  <2>2. CASE k <= Len(P)
    <3>1. k = 1 /\ Len(P) = 1 /\ k \in 1..Len(D) /\ k <= Len(A)
      BY <1>3, <1>4, <1>6, <1>7, <2>2
    <3>2. I[k] = P[1] /\ D[k] = A[1]
      BY <1>6, <1>7, <2>2, <3>1
    <3> QED
      BY <1>3, <1>4, <2>1, <3>1, <3>2 DEF CallItem
  <2>3. CASE ~(k <= Len(P))
    <3> DEFINE p == Len(P)
               b == Len(B)
               d == Len(D)
               a == Len(A)
               i0 == Len(I)
    <3>0. p \in 0..1 /\ b \in 0..1 /\ i0 = p + b /\ k \in 1..i0 /\ ~(k <= p)
      BY <1>3, <1>6, <2>3
    <3>1a. a = p /\ d = a + Len(C) /\ Len(C) = b
      BY <1>4, <1>7
    <3> HIDE DEF p, b, d, a, i0
    <3>1b. k - p = 1 /\ b = 1 /\ k \in 1..d /\ ~(k <= a) /\ k - a = 1
      BY <3>0, <3>1a
    <3>1. k - Len(P) = 1 /\ Len(B) = 1 /\ k \in 1..Len(D) /\ ~(k <= Len(A)) /\ k - Len(A) = 1
      BY <3>1b DEF p, b, d, a
    <3>2. I[k] = B[1] /\ D[k] = C[1]
      BY <1>6, <1>7, <2>3, <3>1
    <3> QED
      BY <1>3, <1>4, <2>1, <3>1, <3>2 DEF CallItem
  <2> QED
    BY <2>2, <2>3
<1>11. Len(D) = Len(I)
  BY <1>4, <1>6, <1>7
<1> HIDE DEF D
<1>12. F = D
  BY <1>8, <1>9, <1>10, <1>11
<1> QED
  BY <1>12 DEF D, F, A, C, P, B

(* The output for instruction n behind an output for those before it.      *)
LEMMA WrittenExtend ==
  ASSUME Working, PlainTypes, InputInv, SiteInv, MapInv, FitInv, ~Copies, phase \in Adjusted,
         NEW n \in 1..Len(code), NEW w, WrittenOK(w, n - 1)
  PROVE  WrittenOK(w \o Calls(n) \o Rewritten(n), n)
<1> DEFINE P == Pre(n)
           B == Before(n)
           A == CallList(n, P)
           C == CallList(n, B)
           R == Rewritten(n)
           p == InjectedLength(P)
           b == InjectedLength(B)
           X == A \o C \o R
           F == Starts(X)
           m == map[n]
           G == Starts(w)
           v == w \o X
           H == Starts(v)
           N == Len(w)
<1>1. /\ Wanted(n) = widening[n]
      /\ RewriteOK(n, R)
  BY RewrittenFacts DEF FitInv
<1>2. P \in Templates /\ B \in Templates /\ p \in 0..9 /\ b \in 0..9
  BY PreFacts, TemplatesFacts
<1>3. /\ A \in Seq(Items) /\ C \in Seq(Items) /\ Len(A) <= 1 /\ Len(C) <= 1
      /\ Size(A) = p /\ Size(C) = b
      /\ P # <<>> <=> A # <<>>
      /\ B # <<>> <=> C # <<>>
      /\ P # <<>> => A[1] = CallItem(n, P)
      /\ B # <<>> => C[1] = CallItem(n, B)
  BY <1>2, CallListFacts, TemplatesFacts
<1>4. R \in Seq(Items) /\ Len(R) \in {1, 2}
  BY <1>1 DEF RewriteOK
<1>5. \A x \in Items : x.len \in Nat
  BY SMTT(40) DEF Items
<1>6. Shape(A, C, R, X, F)
  BY <1>3, <1>4, <1>5, BlockShape
<1>7. /\ w \in Seq(Items) /\ G[N + 1] = map[(n - 1) + 1] - InjectedLength(Pre((n - 1) + 1))
  BY DEF WrittenOK
<1>8. G[N + 1] = m - p
  <2>1. (n - 1) + 1 = n
    OBVIOUS
  <2> QED
    BY <1>7, <2>1
<1>9. w \o Calls(n) \o R = v /\ X \in Seq(Items)
  <2>1. Calls(n) = A \o C
    BY CallsSplit
  <2>2. A \o C \in Seq(Items) /\ X \in Seq(Items)
    BY <1>3, <1>4, ConcatProperties
  <2> HIDE DEF A, C, R
  <2> DEFINE Y == A \o C
  <2>3. Y \in Seq(Items) /\ R \in Seq(Items) /\ w \in Seq(Items)
    BY <1>4, <1>7, <2>2
  <2> HIDE DEF Y
  <2>4. (w \o Y) \o R = w \o (Y \o R)
    BY <2>3, ConcatAssociative
  <2> QED
    BY <2>1, <2>2, <2>4 DEF Y
<1>10. /\ v \in Seq(Items) /\ Len(v) = N + Len(X)
       /\ \A k \in 1..Len(v) : v[k] = IF k <= N THEN w[k] ELSE X[k - N]
  BY <1>7, <1>9, ConcatProperties
<1>11. /\ \A j \in 1..(N + 1) : H[j] = G[j]
       /\ \A j \in 1..(Len(X) + 1) : H[N + j] = G[N + 1] + F[j]
  <2>1. X \in Seq(Items) /\ w \in Seq(Items)
    BY <1>7, <1>9
  <2> HIDE DEF X, Items
  <2> QED
    BY <1>5, <2>1, StartsConcat
<1>12. N \in Nat /\ Len(X) \in Nat
  <2> HIDE DEF X, Items
  <2> QED
    BY <1>7, <1>9
<1>13. m \in Nat
  BY MapFacts, InputFacts
<1> HIDE DEF P, B, A, C, R, p, b, X, F, m, G, v, H, N
<1>14. ASSUME NEW k \in 1..N
       PROVE  /\ k \in 1..Len(v) /\ v[k] = w[k] /\ H[k] = G[k]
              /\ k + 1 \in 1..N => k + 1 \in 1..Len(v) /\ v[k + 1] = w[k + 1]
  BY <1>10, <1>11, <1>12
<1>15. ASSUME NEW k \in 1..N, NEW i
       PROVE  /\ IsPre(w, k, i) => IsPre(v, k, i)
              /\ IsBefore(w, k, i) => IsBefore(v, k, i)
              /\ IsFirst(w, k, i) => IsFirst(v, k, i)
              /\ IsSecond(w, k, i) => IsSecond(v, k, i)
  BY <1>14 DEF IsPre, IsBefore, IsFirst, IsSecond, H, G, N
<1>16. ASSUME NEW j \in 1..Len(X)
       PROVE  /\ N + j \in 1..Len(v) /\ v[N + j] = X[j] /\ H[N + j] = (m - p) + F[j]
              /\ j + 1 \in 1..Len(X) => (N + j) + 1 \in 1..Len(v) /\ v[(N + j) + 1] = X[j + 1]
  <2>1. ASSUME NEW l \in 1..Len(X) PROVE N + l \in 1..Len(v) /\ v[N + l] = X[l]
    <3>1. N + l \in 1..Len(v) /\ ~(N + l <= N) /\ (N + l) - N = l
      BY <1>10, <1>12
    <3> QED
      BY <1>10, <3>1
  <2>2. j \in 1..(Len(X) + 1) /\ (N + j) + 1 = N + (j + 1)
    BY <1>12
  <2>3. j + 1 \in 1..Len(X) => N + (j + 1) \in 1..Len(v) /\ v[N + (j + 1)] = X[j + 1]
    BY <2>1
  <2> QED
    BY <1>8, <1>11, <2>1, <2>2, <2>3
<1>17. /\ Len(R) = 2 => R[1].len = 3 /\ b = 0
  <2>1. Len(R) = 2 => code[n].op = "if" /\ R[1].len = 3
    BY <1>1 DEF RewriteOK
  <2>2. code[n].op = "if" => B = <<>>
    BY SiteFacts DEF B, Before
  <2> QED
    BY <2>1, <2>2, TemplateFacts DEF b
<1>18. ASSUME NEW j \in 1..Len(X)
       PROVE  /\ A # <<>> /\ X[j] = A[1] /\ F[j] = 0 => IsPre(v, N + j, n)
              /\ C # <<>> /\ X[j] = C[1] /\ F[j] = Size(A) => IsBefore(v, N + j, n)
              /\ /\ X[j] = R[1] /\ F[j] = Size(A) + Size(C)
                 /\ Len(R) = 2 => j + 1 \in 1..Len(X) /\ X[j + 1] = R[2]
                 => IsFirst(v, N + j, n)
              /\ Len(R) = 2 /\ X[j] = R[2] /\ F[j] = Size(A) + Size(C) + R[1].len
                 => IsSecond(v, N + j, n)
  <2>1. /\ v[N + j] = X[j] /\ H[N + j] = (m - p) + F[j]
        /\ j + 1 \in 1..Len(X) => (N + j) + 1 \in 1..Len(v) /\ v[(N + j) + 1] = X[j + 1]
    BY <1>16
  <2>2. (m - p) + 0 = m - p /\ (m - p) + p = m /\ (m - p) + (p + b) = m + b
        /\ (b = 0 => (m - p) + (p + b + 3) = m + 3)
    BY <1>2, <1>13
  <2>3. A # <<>> /\ X[j] = A[1] /\ F[j] = 0 => IsPre(v, N + j, n)
    BY <1>3, <2>1, <2>2 DEF IsPre, P, p, m, H
  <2>4. C # <<>> /\ X[j] = C[1] /\ F[j] = Size(A) => IsBefore(v, N + j, n)
    BY <1>3, <2>1, <2>2 DEF IsBefore, B, m, H
  <2>5. ASSUME X[j] = R[1] /\ F[j] = Size(A) + Size(C),
               Len(R) = 2 => j + 1 \in 1..Len(X) /\ X[j + 1] = R[2]
        PROVE  IsFirst(v, N + j, n)
    <3>1. v[N + j] = R[1] /\ H[N + j] = m + b
          /\ (Len(R) = 2 => (N + j) + 1 \in 1..Len(v) /\ v[(N + j) + 1] = R[2])
      BY <1>3, <2>1, <2>2, <2>5
    <3> QED
      BY <3>1 DEF IsFirst, R, m, b, B, H
  <2>6. ASSUME Len(R) = 2, X[j] = R[2], F[j] = Size(A) + Size(C) + R[1].len
        PROVE  IsSecond(v, N + j, n)
    <3>1. v[N + j] = R[2] /\ H[N + j] = m + 3
      BY <1>3, <1>17, <2>1, <2>2, <2>6
    <3> QED
      BY <2>6, <3>1 DEF IsSecond, R, m, H
  <2> QED
    BY <2>3, <2>4, <2>5, <2>6
<1>19. ASSUME NEW k \in 1..Len(v)
       PROVE  \E i \in 1..n :
                IsPre(v, k, i) \/ IsBefore(v, k, i) \/ IsFirst(v, k, i) \/ IsSecond(v, k, i)
  <2>1. CASE k <= N
    <3>1. k \in 1..N
      BY <1>12, <2>1
    <3>2. PICK i \in 1..(n - 1) :
            IsPre(w, k, i) \/ IsBefore(w, k, i) \/ IsFirst(w, k, i) \/ IsSecond(w, k, i)
      BY <3>1 DEF WrittenOK, N
    <3>3. i \in 1..n
      OBVIOUS
    <3> QED
      BY <1>15, <3>1, <3>2, <3>3
  <2>2. CASE ~(k <= N)
    <3>1. PICK j \in 1..Len(X) : k = N + j
      <4>1. k - N \in 1..Len(X) /\ k = N + (k - N)
        BY <1>10, <1>12, <2>2
      <4> QED
        BY <4>1
    <3>2. \/ A # <<>> /\ X[j] = A[1] /\ F[j] = 0
          \/ C # <<>> /\ X[j] = C[1] /\ F[j] = Size(A)
          \/ /\ X[j] = R[1] /\ F[j] = Size(A) + Size(C)
             /\ Len(R) = 2 => j + 1 \in 1..Len(X) /\ X[j + 1] = R[2]
          \/ Len(R) = 2 /\ X[j] = R[2] /\ F[j] = Size(A) + Size(C) + R[1].len
      BY <1>6 DEF Shape
    <3>3. n \in 1..n
      OBVIOUS
    <3> QED
      BY <1>18, <3>1, <3>2, <3>3
  <2> QED
    BY <2>1, <2>2
<1>20. ASSUME NEW i \in 1..n
       PROVE  /\ Pre(i) # <<>> => \E k \in 1..Len(v) : IsPre(v, k, i)
              /\ Before(i) # <<>> => \E k \in 1..Len(v) : IsBefore(v, k, i)
              /\ \E k \in 1..Len(v) : IsFirst(v, k, i)
  <2>1. CASE i \in 1..(n - 1)
    <3>1. /\ Pre(i) # <<>> => \E k \in 1..N : IsPre(w, k, i)
          /\ Before(i) # <<>> => \E k \in 1..N : IsBefore(w, k, i)
          /\ \E k \in 1..N : IsFirst(w, k, i)
      BY <2>1 DEF WrittenOK, N
    <3> QED
      BY <1>14, <1>15, <3>1
  <2>2. CASE i = n
    <3>1. /\ A # <<>> => \E j \in 1..Len(X) : X[j] = A[1] /\ F[j] = 0
          /\ C # <<>> => \E j \in 1..Len(X) : X[j] = C[1] /\ F[j] = Size(A)
          /\ \E j \in 1..Len(X) :
               /\ X[j] = R[1] /\ F[j] = Size(A) + Size(C)
               /\ Len(R) = 2 => j + 1 \in 1..Len(X) /\ X[j + 1] = R[2]
      BY <1>6 DEF Shape
    <3>2. \A j \in 1..Len(X) : N + j \in 1..Len(v)
      BY <1>16
    <3>3. Pre(i) # <<>> => \E k \in 1..Len(v) : IsPre(v, k, i)
      BY <1>3, <1>18, <2>2, <3>1, <3>2 DEF P
    <3>4. Before(i) # <<>> => \E k \in 1..Len(v) : IsBefore(v, k, i)
      BY <1>3, <1>18, <2>2, <3>1, <3>2 DEF B
    <3>5. \E k \in 1..Len(v) : IsFirst(v, k, i)
      BY <1>18, <2>2, <3>1, <3>2
    <3> QED
      BY <3>3, <3>4, <3>5
  <2>3. i = n \/ i \in 1..(n - 1)
    OBVIOUS
  <2> QED
    BY <2>1, <2>2, <2>3
<1>21. H[Len(v) + 1] = map[n + 1] - InjectedLength(Pre(n + 1))
  <2> DEFINE L == Length(code[n].op, start[n])
             wd == widening[n]
             q == InjectedLength(Pre(n + 1))
  <2>1. /\ map[n + 1] = m + (L + wd + b + q)
        /\ L \in 1..20 /\ wd \in -3..5 /\ q \in 0..9 /\ b \in 0..9 /\ p \in 0..9
    <3>1. BeforeNow(n) = Before(n) /\ PreNow(n + 1) = Pre(n + 1)
      BY SitesDone, InputFacts
    <3>2. map[n + 1] = m + Distance(n) /\ widening[n] \in Widenings(n)
      BY DEF MapInv, m
    <3> QED
      BY <1>2, <3>1, <3>2, DistanceFacts DEF Distance, b, B, p
  <2>2. F[Len(X) + 1] = p + b + R[1].len + (IF Len(R) = 2 THEN R[2].len ELSE 0)
    BY <1>3, <1>6 DEF Shape
  <2>3. R[1].len + (IF Len(R) = 2 THEN R[2].len ELSE 0) = L + wd
    <3>1. \/ Len(R) = 1 /\ R[1].len = L + wd
          \/ Len(R) = 2 /\ L + wd = 8 /\ R[1].len = 3 /\ R[2].len = 5
      BY <1>1 DEF RewriteOK
    <3>0. L \in 1..20 /\ wd \in -3..5
      BY <2>1
    <3> HIDE DEF L, wd
    <3>2. L + wd + 0 = L + wd
      BY <3>0
    <3> QED
      BY <3>1, <3>2
  <2>4. H[Len(v) + 1] = (m - p) + F[Len(X) + 1]
    <3>1. Len(X) + 1 \in 1..(Len(X) + 1) /\ Len(v) + 1 = N + (Len(X) + 1)
      BY <1>10, <1>12
    <3> QED
      BY <1>8, <1>11, <3>1
  <2>5. R[1].len \in Nat /\ (Len(R) = 2 => R[2].len \in Nat)
    <3>1. R[1] \in Items /\ (Len(R) = 2 => R[2] \in Items)
      <4> HIDE DEF Items
      <4> QED
        BY <1>4
    <3> QED
      BY <1>5, <3>1
  <2> DEFINE r == IF Len(R) = 2 THEN R[2].len ELSE 0
             s == R[1].len
  <2>6. r \in Nat /\ s \in Nat /\ s + r = L + wd /\ F[Len(X) + 1] = p + b + s + r
    BY <2>2, <2>3, <2>5
  <2> HIDE DEF L, wd, q, r, s
  <2>7. H[Len(v) + 1] = map[n + 1] - q
    BY <1>13, <2>1, <2>4, <2>6
  <2> QED
    BY <2>7 DEF q
<1>22. v \in Seq(Items)
  BY <1>10
<1> QED
  BY <1>9, <1>19, <1>20, <1>21, <1>22 DEF WrittenOK, H, R

(* What is written for the instructions depends on nothing that the later  *)
(* loops change.                                                           *)
LEMMA SameWritten ==
  ASSUME MethodStep, map' = map, widening' = widening, NEW w, NEW n
  PROVE  WrittenOK(w, n)' = WrittenOK(w, n)
<1>1. code' = code /\ \A i : Pre(i)' = Pre(i) /\ Before(i)' = Before(i)
  BY StepFrame DEF inputVars
<1>2. Items' = Items
  BY <1>1 DEF Items
<1>3. \A i : Rewritten(i)' = Rewritten(i)
  BY <1>1 DEF Rewritten
<1>4. \A k, i : /\ IsPre(w, k, i)' = IsPre(w, k, i)
                /\ IsBefore(w, k, i)' = IsBefore(w, k, i)
                /\ IsFirst(w, k, i)' = IsFirst(w, k, i)
                /\ IsSecond(w, k, i)' = IsSecond(w, k, i)
  BY <1>1, <1>3 DEF IsPre, IsBefore, IsFirst, IsSecond
<1> QED
  BY <1>1, <1>2, <1>4, SMTT(40) DEF WrittenOK

(* Nothing is written for no instruction.                                  *)
LEMMA NothingWritten ==
  Working /\ InputInv /\ MapInv /\ ~Copies /\ phase \in Adjusted => WrittenOK(<<>>, 0)
<1> SUFFICES ASSUME Working, InputInv, MapInv, ~Copies, phase \in Adjusted
             PROVE  WrittenOK(<<>>, 0)
  OBVIOUS
<1>1. <<>> \in Seq(Items) /\ Len(<<>>) = 0 /\ \A k : k \notin 1..Len(<<>>)
  <2> DEFINE S == Items
  <2> HIDE DEF S
  <2>1. <<>> \in Seq(S) /\ Len(<<>>) = 0
    OBVIOUS
  <2>2. \A k : k \notin 1..0
    OBVIOUS
  <2> QED
    BY <2>1, <2>2 DEF S
<1>2. Starts(<<>>)[Len(<<>>) + 1] = 0
  <2>1. Len(<<>>) \in Nat /\ Len(<<>>) + 1 = 1
    BY <1>1
  <2>2. Starts(<<>>)[1] = 0
    BY <1>1, <2>1, StartsFacts
  <2> QED
    BY <2>1, <2>2
<1>3. map[0 + 1] - InjectedLength(Pre(0 + 1)) = 0
  <2> DEFINE p == InjectedLength(Pre(1))
  <2>1. Handled = End /\ 1 <= End /\ 0 + 1 = 1
    BY InputFacts DEF Handled, Adjusted
  <2>2. PreNow(1) = Pre(1)
    BY <2>1 DEF PreNow
  <2>3. map[1] = p
    BY <2>2 DEF MapInv
  <2>4. p \in Nat
    <3>1. p \in 0..9
      BY PreFacts, TemplatesFacts
    <3> QED
      BY <3>1
  <2> HIDE DEF p
  <2>5. map[1] - p = 0
    BY <2>3, <2>4
  <2> QED
    BY <2>1, <2>5 DEF p
<1>4. \A i : i \notin 1..0
  OBVIOUS
<1> QED
  BY <1>1, <1>2, <1>3, <1>4 DEF WrittenOK

(* The same of the next state.                                             *)
LEMMA NothingWrittenNext ==
  (Working /\ InputInv /\ MapInv /\ ~Copies /\ phase \in Adjusted => WrittenOK(<<>>, 0))'
BY NothingWritten, PTL

(* The output grows by what is written for one instruction after the other.*)
LEMMA WrittenStep ==
  ASSUME PlainTypes, InputInv, SiteInv, MapInv, FitInv, WrittenInv, MethodStep
  PROVE  WrittenInv'
<1>1. /\ code' = code /\ Copies' = Copies /\ Working /\ Working' /\ Len(code) \in Nat
      /\ Len(code) >= 1
  BY StepFrame, StepPhases, InputFacts DEF inputVars
<1>2. InputInv' /\ MapInv' /\ SiteInv'
  BY InputStep, MapStep, SiteStep
<1>3. CASE CopyMethod
  BY <1>1, <1>3, StepPhases DEF WrittenInv
<1>4. CASE InjectEntry
  <2>1. ~Copies /\ phase = "begin" /\ phase' = "inject" /\ written' = written
    BY <1>4, StepPhases DEF Moves, InjectEntry
  <2> QED
    BY <1>1, <2>1 DEF WrittenInv, Adjusted
<1>5. CASE InjectForOpcode \/ Widen
  <2>1. ~Copies /\ phase \in {"inject", "adjust"} /\ phase' \in {"inject", "adjust"}
        /\ written' = written
    BY <1>5, StepPhases DEF Loops, InjectForOpcode, Widen, WidenFrom
  <2> QED
    BY <1>1, <2>1 DEF WrittenInv, Adjusted
<1>6. CASE InstructionFits
  <2>1. ~Copies /\ phase = "adjust" /\ written' = written
        /\ (phase' = "adjust" \/ (phase' = "write" /\ ip' = 1))
    BY <1>6, StepPhases DEF Loops, InstructionFits
  <2>2. written' = <<>>
    BY <1>1, <2>1 DEF WrittenInv, Adjusted
  <2>3. ASSUME phase' = "write", ip' = 1 PROVE WrittenInv'
    <3>1. WrittenOK(<<>>, 0)'
      <4>1. (phase \in Adjusted)'
        BY <2>3 DEF Adjusted
      <4>2. Working' /\ InputInv' /\ MapInv' /\ (~Copies)' /\ (phase \in Adjusted)'
        BY <1>1, <1>2, <2>1, <4>1
      <4> QED
        BY <4>2, NothingWrittenNext
    <3>2. Instructed' = 0
      BY <1>1, <2>1, <2>3 DEF Instructed, Adjusted
    <3>3. PICK n : n = Instructed'
      OBVIOUS
    <3>4. PICK w : w = written'
      OBVIOUS
    <3>5. WrittenOK(w, n)'
      BY <2>2, <3>1, <3>2, <3>3, <3>4
    <3>6. (WrittenOK(written, Instructed))'
      BY <3>3, <3>4, <3>5
    <3> QED
      BY <3>6, <2>3 DEF WrittenInv, Adjusted
  <2> QED
    BY <2>1, <2>2, <2>3 DEF WrittenInv, Adjusted
<1>7. CASE WriteInstruction
  <2>1. /\ ~Copies /\ phase = "write" /\ ip \in 1..Len(code)
        /\ \/ ip < Len(code) /\ ip' = ip + 1 /\ phase' = "write"
           \/ ip = Len(code) /\ ip' = 1 /\ phase' = "tables"
        /\ map' = map /\ widening' = widening
    BY <1>7, StepPhases DEF Loops, WriteInstruction
  <2>2. PICK n : n = ip
    OBVIOUS
  <2>3. PICK w : w = written
    OBVIOUS
  <2>4. WrittenOK(w, n - 1)
    BY <1>1, <2>1, <2>2, <2>3 DEF WrittenInv, Adjusted, Instructed
  <2>5. PICK v : v = w \o Calls(n) \o Rewritten(n)
    OBVIOUS
  <2>6. WrittenOK(v, n)
    <3>1. phase \in Adjusted /\ n \in 1..Len(code)
      BY <2>1, <2>2 DEF Adjusted
    <3> QED
      BY <1>1, <2>1, <2>4, <2>5, <3>1, WrittenExtend
  <2>7. WrittenOK(v, n)'
    BY <2>1, <2>6, SameWritten
  <2>8. written' = v
    BY <1>7, <2>2, <2>3, <2>5 DEF WriteInstruction
  <2>9. Instructed' = n /\ phase' \in Adjusted
    <3> DEFINE l == Len(code)
    <3>1. l \in Nat /\ l' = l /\ n \in 1..l
          /\ ((n < l /\ ip' = n + 1 /\ phase' = "write") \/ (n = l /\ phase' = "tables"))
      BY <1>1, <2>1, <2>2
    <3>2. Instructed' = IF phase' = "write" THEN ip' - 1 ELSE l
      BY <1>1, <2>1, <3>1 DEF Instructed, Adjusted
    <3> HIDE DEF l
    <3> QED
      BY <3>1, <3>2 DEF Adjusted
  <2>10. (WrittenOK(written, Instructed))'
    BY <2>7, <2>8, <2>9
  <2> QED
    BY <2>9, <2>10 DEF WrittenInv
<1>8. CASE WriteTables \/ WriteFrame \/ FinishMethod
  <2>1. /\ ~Copies /\ phase \in {"tables", "frames"} /\ phase' \in {"frames", "done"}
        /\ map' = map /\ widening' = widening /\ written' = written
    BY <1>8, StepPhases DEF Moves, WriteTables, WriteFrame, FinishMethod
  <2>2. Instructed = Len(code) /\ Instructed' = Len(code)
    BY <1>1, <2>1 DEF Instructed, Adjusted
  <2>3. PICK n : n = Instructed
    OBVIOUS
  <2>4. PICK w : w = written
    OBVIOUS
  <2>5. WrittenOK(w, n)
    BY <1>1, <2>1, <2>3, <2>4 DEF WrittenInv, Adjusted
  <2>6. WrittenOK(w, n)'
    BY <2>1, <2>5, SameWritten
  <2>7. (WrittenOK(written, Instructed))'
    BY <2>1, <2>2, <2>3, <2>4, <2>6
  <2> QED
    BY <2>1, <2>7 DEF WrittenInv, Adjusted
<1> QED
  BY <1>3, <1>4, <1>5, <1>6, <1>7, <1>8 DEF MethodStep

-----------------------------------------------------------------------------
(* The tables and the stack map.                                           *)

(* The tables are written once, when nothing they depend on changes.       *)
LEMMA TableStep ==
  ASSUME PlainTypes, InputInv, TableInv, MethodStep
  PROVE  TableInv'
<1>1. Copies' = Copies /\ code' = code /\ start' = start
  BY StepFrame DEF inputVars
<1>2. map' = map => NewTables' = NewTables
  BY <1>1 DEF NewTables, Ranges, End, LineStart, VarRange, AbsoluteOffsets
<1>3. CASE WriteTables
  BY <1>2, <1>3 DEF WriteTables, TableInv
<1>4. CASE WriteFrame \/ FinishMethod
  <2>1. phase = "frames" /\ map' = map /\ tables' = tables
    BY <1>4 DEF WriteFrame, FinishMethod, tableVars
  <2> QED
    BY <1>1, <1>2, <2>1 DEF TableInv
<1>5. CASE CopyMethod
  BY <1>1, <1>5, StepPhases DEF TableInv
<1>6. CASE InjectEntry \/ InjectForOpcode \/ InstructionFits \/ Widen \/ WriteInstruction
  <2>1. phase' \in {"inject", "adjust", "write", "tables"}
    BY <1>6, StepPhases DEF Moves, Loops
  <2> QED
    BY <2>1 DEF TableInv
<1> QED
  BY <1>3, <1>4, <1>5, <1>6 DEF MethodStep

(* The targets are instructions.                                           *)
LEMMA TargetFacts ==
  ASSUME Working, InputInv
  PROVE  /\ Targets \subseteq 1..Len(code)
         /\ \A i \in 1..Len(code) : \A k \in 1..Len(code[i].to) : code[i].to[k] \in Targets
<1>1. DOMAIN code = 1..Len(code) /\ \A i \in 1..Len(code) : code[i].to \in Seq(1..Len(code))
  BY InputFacts
<1>2. ASSUME NEW i \in 1..Len(code)
      PROVE  /\ ToSet(code[i].to) \subseteq 1..Len(code)
             /\ \A k \in 1..Len(code[i].to) : code[i].to[k] \in ToSet(code[i].to)
  <2>1. code[i].to \in Seq(1..Len(code))
    BY <1>1
  <2> QED
    BY <2>1 DEF ToSet
<1> QED
  BY <1>1, <1>2 DEF Targets

(* The frames so far are those of the first targets.                       *)
LEMMA FrameStep ==
  ASSUME PlainTypes, InputInv, FrameInv, MethodStep
  PROVE  FrameInv'
<1>1. /\ Copies' = Copies /\ code' = code /\ Targets' = Targets /\ Working /\ Working'
      /\ Len(code) \in Nat /\ Frames' = Frames
  BY StepFrame, StepPhases, InputFacts DEF inputVars, Frames
<1>2. frames \in Seq(Frames)
  BY <1>1 DEF FrameInv
<1>3. CASE CopyMethod
  <2>1. frames' = frames /\ phase' = "done" /\ Copies
    BY <1>3, StepPhases DEF CopyMethod, Moves, tableVars
  <2> QED
    BY <1>1, <1>2, <2>1 DEF FrameInv
<1>4. CASE InjectEntry \/ InjectForOpcode \/ InstructionFits \/ Widen \/ WriteInstruction
  <2>1. /\ phase \in {"begin", "inject", "adjust", "write"}
        /\ phase' \in {"inject", "adjust", "write", "tables"}
    BY <1>4, StepPhases DEF Moves, Loops
  <2>2. frames' = frames
    BY <1>4 DEF InjectEntry, InjectForOpcode, InstructionFits, Widen, WidenFrom,
                WriteInstruction, tableVars
  <2> QED
    BY <1>1, <1>2, <2>1, <2>2 DEF FrameInv
<1>5. CASE WriteTables
  <2>1. phase = "tables" /\ phase' = "frames" /\ frames' = frames
    BY <1>5 DEF WriteTables
  <2>2. frames' = <<>>
    BY <2>1 DEF FrameInv
  <2>3. \A k : k \notin 1..Len(<<>>)
    OBVIOUS
  <2>4. \A k : k \notin 1..Len(frames')
    BY <2>2, <2>3
  <2> QED
    BY <1>1, <1>2, <2>1, <2>2, <2>4 DEF FrameInv
<1>6. CASE FinishMethod
  <2>1. phase = "frames" /\ phase' = "done" /\ frames' = frames /\ map' = map /\ Unframed = {}
    BY <1>6 DEF FinishMethod, tableVars
  <2>2. Unframed' = Unframed
    BY <1>1, <2>1 DEF Unframed
  <2> QED
    BY <1>1, <1>2, <2>1, <2>2 DEF FrameInv, DeltaAdj
<1>7. CASE WriteFrame
  <2> DEFINE n == Len(frames)
             t == Min(Unframed)
             last == IF n + 1 = 1 THEN 0 ELSE map[frames[(n + 1) - 1].at]
             o == map[t] - last - DeltaAdj(n + 1)
             x == [at |-> t, extended |-> o > SameFrameMax, offset |-> o]
  <2>1. /\ phase = "frames" /\ phase' = "frames" /\ map' = map /\ Unframed # {}
        /\ frames' = Append(frames, x) /\ ~Copies
    BY <1>7, StepPhases DEF WriteFrame, Moves
  <2>2. /\ t \in Targets /\ t \in 1..Len(code) /\ t \in Unframed
        /\ \A u \in Unframed : t <= u
        /\ \A u \in Targets : u \in Nat
    <3>1. Unframed \subseteq Targets /\ Targets \subseteq 1..Len(code)
      BY <1>1, TargetFacts DEF Unframed
    <3>2. 1..Len(code) \subseteq Nat
      OBVIOUS
    <3>3. t \in Unframed /\ \A u \in Unframed : t <= u
      BY <2>1, <3>1, <3>2, MinLeast
    <3> QED
      BY <3>1, <3>2, <3>3
  <2>3. n \in Nat /\ \A k \in 1..n : frames[k] \in Frames
    <3> DEFINE S == Frames
    <3>1. frames \in Seq(S)
      BY <1>2
    <3> HIDE DEF S
    <3>2. n \in Nat /\ \A k \in 1..n : frames[k] \in S
      BY <3>1
    <3> QED
      BY <3>2 DEF S
  <2>4. last \in Int /\ map[t] \in Int /\ o \in Int /\ DeltaAdj(n + 1) \in Int
    <3>1. \A i \in 1..Len(code) : map[i] \in Int
      BY <1>1, InputFacts DEF PlainTypes
    <3>2. \A k \in 1..n : map[frames[k].at] \in Int
      BY <2>3, <3>1 DEF Frames
    <3>3. n + 1 # 1 => (n + 1) - 1 \in 1..n
      BY <2>3
    <3>4. last \in Int
      BY <3>2, <3>3
    <3>5. map[t] \in Int /\ DeltaAdj(n + 1) \in Int
      BY <2>2, <3>1 DEF DeltaAdj
    <3> HIDE DEF last, t, n
    <3> QED
      BY <3>4, <3>5
  <2>5. /\ x \in Frames /\ x.at = t /\ x.offset = o
        /\ x.extended <=> x.offset > SameFrameMax
    <3>1. t \in 1..Len(code) /\ o \in Int
      BY <2>2, <2>4
    <3> DEFINE e == o > SameFrameMax
    <3>2. e \in BOOLEAN
      OBVIOUS
    <3>3. x = [at |-> t, extended |-> e, offset |-> o]
      OBVIOUS
    <3> HIDE DEF x, o, t, e
    <3>4. x \in Frames /\ x.at = t /\ x.offset = o /\ x.extended = e
      BY <3>1, <3>2, <3>3 DEF Frames
    <3> QED
      BY <3>4 DEF e
  <2> HIDE DEF o, x, t, n, last
  <2>6. /\ frames' \in Seq(Frames) /\ Len(frames') = n + 1 /\ frames'[n + 1] = x
        /\ \A k \in 1..n : frames'[k] = frames[k]
    <3> DEFINE S == Frames
    <3>1. frames \in Seq(S) /\ x \in S /\ frames' = Append(frames, x) /\ n = Len(frames)
      BY <1>2, <2>1, <2>5 DEF n
    <3> HIDE DEF S
    <3>2. /\ frames' \in Seq(S) /\ Len(frames') = n + 1 /\ frames'[n + 1] = x
          /\ \A k \in 1..n : frames'[k] = frames[k]
      BY <3>1
    <3> QED
      BY <3>2 DEF S
  <2>7. Unframed' = Unframed \ {t}
    <3>1. DOMAIN frames = 1..n /\ DOMAIN frames' = 1..(n + 1)
      <4> DEFINE S == Frames
      <4>1. frames \in Seq(S) /\ frames' \in Seq(S)
        BY <1>2, <2>6
      <4> HIDE DEF S
      <4>2. DOMAIN frames = 1..Len(frames) /\ DOMAIN frames' = 1..Len(frames')
        BY <4>1
      <4> QED
        BY <2>6, <4>2 DEF n
    <3>2. \A k \in 1..(n + 1) : k = n + 1 \/ k \in 1..n
      BY <2>3
    <3>3. n + 1 \in 1..(n + 1) /\ \A k \in 1..n : k \in 1..(n + 1)
      BY <2>3
    <3>4. {frames'[k].at : k \in DOMAIN frames'} = {frames[k].at : k \in DOMAIN frames} \cup {t}
      <4>1. ASSUME NEW k \in 1..(n + 1)
            PROVE  frames'[k].at \in {frames[j].at : j \in 1..n} \cup {t}
        BY <2>5, <2>6, <3>2
      <4>2. t \in {frames'[k].at : k \in 1..(n + 1)}
        BY <2>5, <2>6, <3>3
      <4>3. ASSUME NEW j \in 1..n PROVE frames[j].at \in {frames'[k].at : k \in 1..(n + 1)}
        BY <2>6, <3>3
      <4> QED
        BY <3>1, <4>1, <4>2, <4>3
    <3> QED
      BY <1>1, <3>4 DEF Unframed
  <2>8. ASSUME NEW k \in 1..(n + 1)
        PROVE  /\ frames'[k].at \in Targets
               /\ frames'[k].offset = map[frames'[k].at] - DeltaAdj(k)
                                   - (IF k = 1 THEN 0 ELSE map[frames'[k - 1].at])
               /\ frames'[k].extended <=> frames'[k].offset > SameFrameMax
               /\ k > 1 => frames'[k - 1].at < frames'[k].at
    <3>1. k = n + 1 \/ k \in 1..n
      BY <2>3
    <3>2. k > 1 => k - 1 \in 1..n
      BY <2>3
    <3>3. CASE k \in 1..n
      <4>2. /\ frames[k].at \in Targets
            /\ frames[k].offset = map[frames[k].at] - DeltaAdj(k)
                                   - (IF k = 1 THEN 0 ELSE map[frames[k - 1].at])
            /\ frames[k].extended <=> frames[k].offset > SameFrameMax
            /\ k > 1 => frames[k - 1].at < frames[k].at
        BY <2>1, <3>3 DEF FrameInv, n
      <4>3. k # 1 => k > 1
        BY <2>3
      <4>4. frames'[k] = frames[k] /\ (k # 1 => frames'[k - 1] = frames[k - 1])
        BY <2>6, <3>2, <3>3, <4>3
      <4> QED
        BY <4>2, <4>3, <4>4
    <3>4. CASE k = n + 1
      <4>1. frames'[k] = x /\ (k # 1 => frames'[k - 1] = frames[k - 1] /\ k - 1 = n /\ n \in 1..n)
        BY <2>3, <2>6, <3>2, <3>4
      <4>2. last = IF k = 1 THEN 0 ELSE map[frames'[k - 1].at]
        BY <3>4, <4>1 DEF last
      <4>3. o = map[t] - DeltaAdj(k) - last
        BY <2>4, <3>4 DEF o
      <4>4. k > 1 => frames[n].at < t
        <5> SUFFICES ASSUME k > 1 PROVE frames[n].at < t
          OBVIOUS
        <5>1. n \in 1..n
          BY <2>3, <3>2, <3>4
        <5>2. frames # <<>>
          <6>1. frames = <<>> => n = 0
            BY DEF n
          <6> QED
            BY <5>1, <6>1
        <5> QED
          BY <2>1, <2>2, <5>2 DEF FrameInv, n
      <4>5. k > 1 => k # 1
        OBVIOUS
      <4> QED
        BY <2>2, <2>5, <4>1, <4>2, <4>3, <4>4, <4>5
    <3> QED
      BY <3>1, <3>3, <3>4
  <2>9. \A u \in Unframed' : frames'[Len(frames')].at < u
    <3>1. ASSUME NEW u \in Unframed, u # t PROVE t < u
      <4>1. t <= u /\ t \in Nat /\ u \in Nat
        BY <2>2 DEF Unframed
      <4> QED
        BY <3>1, <4>1
    <3> QED
      BY <2>5, <2>6, <2>7, <3>1
  <2> QED
    BY <1>1, <2>1, <2>6, <2>8, <2>9 DEF FrameInv, DeltaAdj
<1> QED
  BY <1>3, <1>4, <1>5, <1>6, <1>7 DEF MethodStep

-----------------------------------------------------------------------------
(* A method without injections is copied.                                  *)

(* When nothing is injected, every list of calls is empty.                 *)
LEMMA UntouchedCalls ==
  ASSUME Untouched
  PROVE  /\ EntryInjection = <<>>
         /\ \A op : BeforeInjection(op) = <<>> /\ AfterInjection(op) = <<>>
         /\ InjectedLength(<<>>) + InjectedLength(<<>>) = 0
<1>1. /\ "call_tracker" \notin trackers /\ "return_tracker" \notin trackers
      /\ "newarray_tracker" \notin trackers /\ role # "objectInit"
  BY DEF Untouched
<1> QED
  BY <1>1, TemplateFacts DEF EntryInjection, BeforeInjection, AfterInjection, Template

(* Without calls every instruction has the widening it wants, none.        *)
LEMMA UntouchedWanted ==
  ASSUME Working, InputInv, map = start, NEW i \in 1..Len(code), widening[i] = 0
  PROVE  Wanted(i) = 0
<1>1. code[i].op \in Opcodes /\ start[i] \in Nat /\ DOMAIN code = 1..Len(code)
  BY InputFacts, StartFacts
<1>2. CASE code[i].op = "switch"
  <2> DEFINE b == ToBoundary(start[i])
  <2>1. b \in 1..4
    BY <1>1, LengthFacts
  <2> HIDE DEF b
  <2>2. b - b = 0
    BY <2>1
  <2>3. Wanted(i) = ToBoundary(map[i]) - ToBoundary(start[i])
    <3> DEFINE x == ToBoundary(map[i]) - ToBoundary(start[i])
               y == IF code[i].op = "goto" THEN 2 ELSE 5
               f == Fits(map[code[i].to[1]] - map[i])
    <3>1. Wanted(i) = CASE code[i].op = "switch" -> x
                        [] code[i].op \in Branches /\ widening[i] = 0 /\ ~f -> y
                        [] OTHER -> widening[i]
      BY Zenon DEF Wanted
    <3>2. "switch" \notin Branches
      BY DEF Branches
    <3> HIDE DEF x, y, f
    <3>3. Wanted(i) = x
      BY <1>2, <3>1, <3>2
    <3> QED
      BY <3>3 DEF x
  <2>4. Wanted(i) = b - b
    BY <2>3 DEF b
  <2> QED
    BY <2>2, <2>4
<1>3. CASE code[i].op \in Branches
  <2>1. Fits(map[code[i].to[1]] - map[i])
    BY <1>1, <1>3 DEF InputInv, Encodable
  <2> QED
    BY <1>3, <2>1 DEF Wanted, Branches
<1>4. CASE code[i].op \notin Branches \cup {"switch"}
  BY <1>4 DEF Wanted
<1> QED
  BY <1>2, <1>3, <1>4

(* Then an instruction is written as it was.                               *)
LEMMA UntouchedRewritten ==
  ASSUME Working, PlainTypes, InputInv, map = start, NEW i \in 1..Len(code), widening[i] = 0
  PROVE  Rewritten(i) = <<Copied(code)[i]>>
<1> DEFINE op == code[i].op
           new == News(i)
<1>1. op \in Opcodes /\ start[i] \in Nat /\ DOMAIN code = 1..Len(code) /\ start = Layout(code)
  BY InputFacts, StartFacts DEF InputInv
<1>2. Copied(code)[i] = Item(i, op, Length(op, start[i]), new)
  BY <1>1 DEF Copied, News
<1>6. op \in Branches => Rewritten(i) = <<Item(i, op, 3, <<ToShort(new[1])>>)>>
  <2> DEFINE w == widening[i]
             r0 == <<Item(i, op, 3, <<ToShort(new[1])>>)>>
             r2 == <<Item(i, "goto_w", 5, new)>>
             r5 == <<Item(i, "inverse", 3, <<3 + 5>>), Item(i, "goto_w", 5, <<new[1] - 3>>)>>
             rs == <<Item(i, op, Length(op, map[i]), new)>>
             ro == <<Item(i, op, Length(op, 0), new)>>
  <2>1. Rewritten(i) = CASE op \in Branches /\ w = 0 -> r0
                         [] op \in Branches /\ w = 2 -> r2
                         [] op \in Branches /\ w = 5 -> r5
                         [] op = "switch" -> rs
                         [] OTHER -> ro
    BY Zenon DEF Rewritten, News
  <2>2. "switch" \notin Branches /\ w = 0
    BY DEF Branches
  <2> HIDE DEF op, w, r0, r2, r5, rs, ro
  <2>3. op \in Branches => Rewritten(i) = r0
    BY <2>1, <2>2
  <2> QED
    BY <2>3 DEF r0
<1>3. CASE op \in Branches
  <2>1. Rewritten(i) = <<Item(i, op, 3, <<ToShort(new[1])>>)>>
    BY <1>3, <1>6
  <2>2. new \in Seq(Int) /\ Len(new) = 1 /\ new[1] = map[code[i].to[1]] - map[i]
    <3>1. Arity(op) = 1 /\ 1 \in 1..Arity(op)
      BY <1>3 DEF Arity, Branches, Fixed
    <3> QED
      BY <3>1, NewsFacts
  <2>3. Fits(new[1])
    BY <1>1, <1>3, <2>2 DEF InputInv, Encodable
  <2> HIDE DEF new
  <2>4. new[1] \in Int /\ new = <<new[1]>>
    <3>1. new \in Seq(Int) /\ Len(new) = 1
      BY <2>2
    <3> QED
      BY <3>1
  <2>5. <<ToShort(new[1])>> = new
    BY <2>3, <2>4, ShortFacts
  <2>6. Length(op, start[i]) = 3
    BY <1>3 DEF Length, Branches
  <2> QED
    BY <1>2, <2>1, <2>5, <2>6
<1>4. CASE op = "switch"
  <2>1. op \notin Branches
    BY <1>4 DEF Branches
  <2>2. Rewritten(i) = <<Item(i, op, Length(op, map[i]), new)>>
    BY <1>4, <2>1, Zenon DEF Rewritten, News
  <2> QED
    BY <1>2, <2>2
<1>5. CASE op \notin Branches \cup {"switch"}
  <2>1. Rewritten(i) = <<Item(i, op, Length(op, 0), new)>>
    BY <1>5, Zenon DEF Rewritten, News
  <2>2. Length(op, 0) = Length(op, start[i])
    BY <1>1, <1>5, LengthFacts
  <2> QED
    BY <1>2, <2>1, <2>2
<1> QED
  BY <1>3, <1>4, <1>5

(* Moving by nothing moves nothing.                                        *)
LEMMA NoShift ==
  ASSUME PlainTypes, NEW i
  PROVE  AdjustMap(map, i, 0) = map
<1> DEFINE D == 1..End
<1>1. map \in [D -> Int]
  BY DEF PlainTypes
<1> HIDE DEF D
<1>2. \A j \in D : (IF j >= i THEN map[j] + 0 ELSE map[j]) = map[j]
  BY <1>1
<1>3. AdjustMap(map, i, 0) = [j \in D |-> IF j >= i THEN map[j] + 0 ELSE map[j]]
  BY <1>1 DEF AdjustMap
<1> QED
  BY <1>1, <1>2, <1>3

(* A copy up to instruction n and the copy of instruction n.               *)
LEMMA CopyExtend ==
  ASSUME NEW c, NEW n \in Nat, n >= 1
  PROVE  [i \in 1..(n - 1) |-> c[i]] \o <<>> \o <<c[n]>> = [i \in 1..n |-> c[i]]
<1> DEFINE s == [i \in 1..(n - 1) |-> c[i]]
           S == {c[i] : i \in 1..n}
           t == <<c[n]>>
           r == [i \in 1..n |-> c[i]]
<1>1. s \in Seq(S) /\ Len(s) = n - 1 /\ t \in Seq(S) /\ Len(t) = 1 /\ t[1] = c[n]
  <2>1. n - 1 \in Nat /\ \A i \in 1..(n - 1) : c[i] \in S
    OBVIOUS
  <2>2. c[n] \in S
    OBVIOUS
  <2> HIDE DEF S
  <2> QED
    BY <2>1, <2>2
<1>2. r \in Seq(S) /\ Len(r) = n
  <2>1. \A i \in 1..n : c[i] \in S
    OBVIOUS
  <2> HIDE DEF S
  <2> QED
    BY <2>1
<1> HIDE DEF S
<1>3. s \o <<>> = s
  BY <1>1, ConcatEmptySeq
<1>4. /\ s \o t \in Seq(S) /\ Len(s \o t) = Len(s) + Len(t)
      /\ \A i \in 1..(Len(s) + Len(t)) : (s \o t)[i] = IF i <= Len(s) THEN s[i] ELSE t[i - Len(s)]
  BY <1>1, ConcatProperties
<1>5. Len(s \o t) = n
  BY <1>1, <1>4
<1>6. ASSUME NEW i \in 1..n PROVE (s \o t)[i] = r[i]
  <2>1. (s \o t)[i] = IF i <= n - 1 THEN s[i] ELSE t[i - (n - 1)]
    BY <1>1, <1>4
  <2>2. CASE i <= n - 1
    <3>1. i \in 1..(n - 1)
      BY <2>2
    <3> QED
      BY <2>1, <2>2, <3>1
  <2>3. CASE ~(i <= n - 1)
    <3>1. i = n /\ i - (n - 1) = 1
      BY <2>3
    <3> QED
      BY <1>1, <2>1, <2>3, <3>1
  <2> QED
    BY <2>2, <2>3
<1> HIDE DEF s, t, r
<1>7. s \o t = r
  <2> DEFINE q == s \o t
  <2>1. q \in Seq(S) /\ Len(q) = n /\ \A i \in 1..n : q[i] = r[i]
    BY <1>4, <1>5, <1>6
  <2> HIDE DEF q
  <2>2. q = [i \in 1..n |-> q[i]] /\ r = [i \in 1..n |-> r[i]]
    BY <1>2, <2>1
  <2>3. q = r
    BY <2>1, <2>2
  <2> QED
    BY <2>3 DEF q
<1> QED
  BY <1>3, <1>7 DEF s, t, r

(* Code that nothing is injected into is copied.                           *)
LEMMA CopyStep ==
  ASSUME PlainTypes, InputInv, SiteInv, WrittenInv, CopyInv, MethodStep
  PROVE  CopyInv'
<1>1. /\ Copies' = Copies /\ Untouched' = Untouched /\ code' = code /\ start' = start
      /\ Working /\ Working' /\ Len(code) \in Nat /\ Len(code) >= 1
  BY StepFrame, StepPhases, InputFacts DEF inputVars
<1>2. Copied(code)' = Copied(code)
  BY <1>1 DEF Copied, Layout
<1>3. Copies => written' = Copied(code) /\ phase' = "done"
  <2>1. CASE CopyMethod
    BY <2>1 DEF CopyMethod
  <2>2. CASE ~CopyMethod
    <3>1. ~Copies
      BY <2>2, StepPhases DEF MethodStep, Loops
    <3> QED
      BY <3>1
  <2> QED
    BY <2>1, <2>2
<1>4. ASSUME Untouched
      PROVE  /\ map' = start
             /\ \A i \in 1..Len(code) : widening'[i] = 0
             /\ ~Copies => written' = [i \in 1..Instructed' |-> Copied(code)[i]]
  <2>1. /\ map = start /\ \A i \in 1..Len(code) : widening[i] = 0
        /\ ~Copies => written = [i \in 1..Instructed |-> Copied(code)[i]]
    BY <1>1, <1>4 DEF CopyInv
  <2>2. ~Widen
    <3>1. Widen => ip \in 1..Len(code)
      BY StepPhases
    <3> QED
      BY <1>1, <2>1, <3>1, UntouchedWanted DEF Widen, WidenFrom
  <2>3. \A i : AdjustMap(map, i, 0) = map
    BY NoShift
  <2>4. CASE InjectEntry
    <3>1. map' = map /\ widening' = widening /\ written' = written
      BY <1>4, <2>3, <2>4, UntouchedCalls, TemplateFacts DEF InjectEntry
    <3>2. Instructed' = 0 /\ Instructed = 0
      BY <2>4, StepPhases DEF Instructed, Adjusted, Moves
    <3> QED
      BY <2>1, <3>1, <3>2
  <2>5. CASE InjectForOpcode
    <3>1. map' = map /\ widening' = widening /\ written' = written
      BY <1>4, <2>3, <2>5, UntouchedCalls DEF InjectForOpcode
    <3>2. Instructed' = 0 /\ Instructed = 0
      BY <2>5, StepPhases DEF Instructed, Adjusted, Loops
    <3> QED
      BY <2>1, <3>1, <3>2
  <2>6. CASE InstructionFits
    <3>1. map' = map /\ widening' = widening /\ written' = written
      BY <2>6 DEF InstructionFits
    <3>2. Instructed' = 0 /\ Instructed = 0
      <4>1. phase = "adjust" /\ (phase' = "adjust" \/ (phase' = "write" /\ ip' = 1))
        BY <2>6, StepPhases DEF Loops
      <4>2. 1 - 1 = 0
        OBVIOUS
      <4> QED
        BY <4>1, <4>2 DEF Instructed, Adjusted
    <3> QED
      BY <2>1, <3>1, <3>2
  <2>7. CASE WriteInstruction
    <3>1. /\ ~Copies /\ phase = "write" /\ ip \in 1..Len(code)
          /\ \/ ip < Len(code) /\ ip' = ip + 1 /\ phase' = "write"
             \/ ip = Len(code) /\ ip' = 1 /\ phase' = "tables"
          /\ map' = map /\ widening' = widening
      BY <2>7, StepPhases DEF Loops, WriteInstruction
    <3>2. PICK n : n = ip
      OBVIOUS
    <3>3. n \in 1..Len(code) /\ n \in 1..End
      BY <1>1, <3>1, <3>2, InputFacts
    <3>4. injections[n] = <<>>
      <4>1. injections[n] = PreNow(n) \o BeforeNow(n)
        BY <1>1, <3>3 DEF SiteInv
      <4>2. PreNow(n) = <<>> /\ BeforeNow(n) = <<>>
        BY <1>4, UntouchedCalls DEF PreNow, BeforeNow, Pre, Before
      <4>3. <<>> \o <<>> = <<>>
        BY NoCalls
      <4> QED
        BY <4>1, <4>2, <4>3
    <3>5. Calls(n) = <<>>
      <4>1. DOMAIN injections[n] = {}
        BY <3>4
      <4>2. Calls(n) = [k \in {} |-> Item(n, injections[n][k], TemplateLength(injections[n][k]), <<>>)]
        BY <4>1 DEF Calls
      <4> QED
        BY <4>2
    <3>6. Rewritten(n) = <<Copied(code)[n]>>
      BY <1>1, <2>1, <3>3, UntouchedRewritten
    <3>7. Instructed = n - 1 /\ Instructed' = n
      <4> DEFINE l == Len(code)
      <4>1. l \in Nat /\ l' = l /\ n \in 1..l
            /\ ((n < l /\ ip' = n + 1 /\ phase' = "write") \/ (n = l /\ phase' = "tables"))
        BY <1>1, <3>1, <3>2
      <4>2. Instructed' = IF phase' = "write" THEN ip' - 1 ELSE l
        BY <1>1, <3>1, <4>1 DEF Instructed, Adjusted
      <4>3. Instructed = n - 1
        BY <3>1, <3>2 DEF Instructed, Adjusted
      <4> HIDE DEF l
      <4> QED
        BY <4>1, <4>2, <4>3
    <3> DEFINE c == Copied(code)
    <3>8. written' = [i \in 1..(n - 1) |-> c[i]] \o <<>> \o <<c[n]>>
      BY <2>1, <2>7, <3>1, <3>2, <3>5, <3>6, <3>7 DEF WriteInstruction
    <3>9. n \in Nat /\ n >= 1
      BY <3>3
    <3> HIDE DEF c
    <3>10. written' = [i \in 1..n |-> c[i]]
      BY <3>8, <3>9, CopyExtend
    <3> QED
      BY <2>1, <3>1, <3>7, <3>10 DEF c
  <2>8. CASE WriteTables \/ WriteFrame \/ FinishMethod
    <3>1. map' = map /\ widening' = widening /\ written' = written
      BY <2>8 DEF WriteTables, WriteFrame, FinishMethod
    <3>2. Instructed' = Len(code) /\ Instructed = Len(code)
      BY <1>1, <2>8, StepPhases DEF Instructed, Adjusted, Moves
    <3> QED
      BY <2>1, <3>1, <3>2
  <2>9. CASE CopyMethod
    BY <2>1, <2>9, StepPhases DEF CopyMethod
  <2> QED
    BY <2>2, <2>4, <2>5, <2>6, <2>7, <2>8, <2>9 DEF MethodStep
<1> QED
  BY <1>1, <1>2, <1>3, <1>4 DEF CopyInv

-----------------------------------------------------------------------------
(* Every step of a method keeps its invariant.                             *)

(* While a method is rewritten the types follow from the rest.             *)
LEMMA WorkingTypes ==
  Working /\ PlainTypes /\ InputInv /\ MapInv /\ WrittenInv /\ CopyInv => MethodTypeOK
<1> SUFFICES ASSUME Working, PlainTypes, InputInv, MapInv, WrittenInv, CopyInv
             PROVE  MethodTypeOK
  OBVIOUS
<1>1. map \in [1..End -> Nat]
  BY MapFacts
<1>2. Len(code) \in Nat /\ DOMAIN code = 1..Len(code)
  BY InputFacts
<1>3. ASSUME NEW k \in DOMAIN written
      PROVE  written[k].from \in DOMAIN code /\ written[k].len > 0
  <2>1. CASE written = <<>>
    BY <1>3, <2>1
  <2>2. CASE written \in Seq(Items)
    <3>1. written[k] \in Items
      <4> HIDE DEF Items
      <4> QED
        BY <1>3, <2>2
    <3>2. written[k].from \in 1..Len(code) /\ written[k].len \in 1..20
      BY <3>1 DEF Items
    <3> QED
      BY <1>2, <3>2, SMTT(40)
  <2>3. CASE written = Copied(code)
    <3>1. k \in 1..Len(code) /\ start = Layout(code)
      BY <1>2, <1>3, <2>3 DEF Copied, InputInv
    <3>2. written[k].from = k /\ written[k].len = Length(code[k].op, start[k])
      BY <1>2, <2>3, <3>1 DEF Copied, Item
    <3>3. Length(code[k].op, start[k]) \in 1..20
      BY <3>1, StartFacts
    <3> DEFINE l == Length(code[k].op, start[k])
    <3>4. l > 0
      <4> HIDE DEF l
      <4> QED
        BY <3>3 DEF l
    <3> QED
      BY <1>2, <3>1, <3>2, <3>4
  <2> QED
    BY <2>1, <2>2, <2>3 DEF WrittenInv, WrittenOK, CopyInv
<1> QED
  BY <1>1, <1>3 DEF MethodTypeOK, PlainTypes

(* The same of the next state.                                             *)
LEMMA WorkingTypesNext ==
  (Working /\ PlainTypes /\ InputInv /\ MapInv /\ WrittenInv /\ CopyInv => MethodTypeOK)'
BY WorkingTypes, PTL

(* Types that are plain.                                                   *)
LEMMA PlainFacts ==
  ASSUME MethodTypeOK
  PROVE  PlainTypes
<1>1. map \in [1..End -> Int]
  <2> DEFINE D == 1..End
  <2>1. map \in [D -> Nat]
    BY DEF MethodTypeOK
  <2> HIDE DEF D
  <2>2. map \in [D -> Int]
    BY <2>1
  <2> QED
    BY <2>2 DEF D
<1> QED
  BY <1>1 DEF MethodTypeOK, PlainTypes

(* Every step of the rewriter keeps the invariant of a method.             *)
LEMMA MethodNext ==
  ASSUME MethodInv, MethodStep
  PROVE  MethodInv'
<1>1. /\ PlainTypes /\ InputInv /\ SiteInv /\ MapInv /\ FitInv /\ WrittenInv
      /\ TableInv /\ FrameInv /\ CopyInv
  BY PlainFacts DEF MethodInv
<1>2. Working' /\ PlainTypes' /\ InputInv' /\ SiteInv' /\ MapInv'
  BY <1>1, StepPhases, TypesStep, InputStep, SiteStep, MapStep
<1>3. FitInv' /\ WrittenInv' /\ TableInv'
  BY <1>1, FitStep, WrittenStep, TableStep
<1>4. FrameInv' /\ CopyInv'
  BY <1>1, FrameStep, CopyStep
<1>5. MethodTypeOK'
  BY <1>2, <1>3, <1>4, WorkingTypesNext
<1> QED
  BY <1>2, <1>3, <1>4, <1>5 DEF MethodInv

(* There is nothing to say of a method that is not there.                  *)
LEMMA NoMethodInv ==
  ASSUME NoMethod, trackers \subseteq Trackers
  PROVE  MethodInv
<1>1. Len(code) = 0 /\ End = 1 /\ 1..End = {1} /\ ~Working /\ phase = "none"
  BY DEF NoMethod, End, Working
<1>2. map \in [1..End -> Nat] /\ widening \in [1..End -> -3..5]
  BY <1>1 DEF NoMethod
<1>3. injections = [i \in 1..1 |-> <<>>] /\ <<>> \in Seq(Trackers)
  <2> HIDE DEF Trackers
  <2>1. <<>> \in Seq(Trackers)
    OBVIOUS
  <2>2. injections = <<<<>>>>
    BY DEF NoMethod
  <2> QED
    BY <2>1, <2>2
<1>4. injections \in [1..End -> Seq(Trackers)]
  BY <1>1, <1>3
<1>5. \A i \in 1..End : injections[i] = <<>> /\ Len(<<>>) = 0 /\ \A k : k \notin 1..0
  BY <1>1, <1>3
<1>6. MethodTypeOK
  BY <1>1, <1>2, <1>4 DEF MethodTypeOK, NoMethod
<1>7. SiteInv
  BY <1>1, <1>5 DEF SiteInv
<1>8. InputInv
  BY <1>1 DEF InputInv, NoMethod, Roles
<1> QED
  BY <1>1, <1>6, <1>7, <1>8 DEF MethodInv, MapInv, FitInv, WrittenInv, TableInv, FrameInv, CopyInv,
       Adjusted

(* When the method is done with, its variables say nothing any more.       *)
LEMMA MethodLeft ==
  ASSUME MethodInv, phase' = "none", ip' = ip, UNCHANGED <<inputVars, map, injections, widening,
         extraStack, written, tableVars>>
  PROVE  MethodInv'
<1>1. /\ code' = code /\ start' = start /\ role' = role /\ trackers' = trackers /\ map' = map
      /\ injections' = injections /\ widening' = widening /\ extraStack' = extraStack
      /\ written' = written /\ End' = End
  BY DEF inputVars, End
<1>2. MethodTypeOK'
  BY <1>1 DEF MethodInv, MethodTypeOK
<1>3. SiteInv'
  BY <1>1 DEF MethodInv, SiteInv, Working
<1>4. InputInv'
  BY <1>1 DEF MethodInv, InputInv, Working
<1> QED
  BY <1>2, <1>3, <1>4 DEF MethodInv, MapInv, FitInv, WrittenInv, TableInv, FrameInv, CopyInv,
       Adjusted, Working

(* When nothing changes the invariant stays.                               *)
LEMMA MethodStays ==
  ASSUME MethodInv, UNCHANGED <<methodVars, trackers>>
  PROVE  MethodInv'
<1>1. /\ code' = code /\ start' = start /\ role' = role /\ trackers' = trackers /\ map' = map
      /\ injections' = injections /\ widening' = widening /\ extraStack' = extraStack
      /\ written' = written /\ End' = End /\ phase' = phase /\ ip' = ip /\ tables' = tables
      /\ frames' = frames
  BY DEF methodVars, tableVars, End
<1>2. /\ Copies' = Copies /\ Untouched' = Untouched /\ Working' = Working
      /\ \A i : Pre(i)' = Pre(i) /\ Before(i)' = Before(i)
  <2>1. \A t : Template(t)' = Template(t)
    BY <1>1 DEF Template
  <2> QED
    BY <1>1, <2>1 DEF Copies, Untouched, Working, Pre, Before, EntryInjection, BeforeInjection,
                      AfterInjection
<1>3. Handled' = Handled /\ Instructed' = Instructed
  BY <1>1, <1>2 DEF Handled, Instructed
<1>4. \A i : PreNow(i)' = PreNow(i) /\ BeforeNow(i)' = BeforeNow(i)
  BY <1>2, <1>3 DEF PreNow, BeforeNow
<1>5. MethodTypeOK'
  BY <1>1 DEF MethodInv, MethodTypeOK
<1>6. SiteInv'
  BY <1>1, <1>2, <1>4 DEF MethodInv, SiteInv
<1>7. InputInv'
  BY <1>1, <1>2 DEF MethodInv, InputInv, IsMethod, Encodable, Layout
<1>8. MapInv'
  BY <1>1, <1>2, <1>4 DEF MethodInv, MapInv, Distance, Widenings
<1>9. FitInv'
  BY <1>1, <1>2 DEF MethodInv, FitInv, Wanted
<1>10. WrittenInv'
  <2>1. Items' = Items /\ \A i : Rewritten(i)' = Rewritten(i)
    BY <1>1 DEF Items, Rewritten
  <2>2. PICK w, n : w = written /\ n = Instructed
    OBVIOUS
  <2>3. \A k, i : /\ IsPre(w, k, i)' = IsPre(w, k, i)
                  /\ IsBefore(w, k, i)' = IsBefore(w, k, i)
                  /\ IsFirst(w, k, i)' = IsFirst(w, k, i)
                  /\ IsSecond(w, k, i)' = IsSecond(w, k, i)
    BY <1>1, <1>2, <2>1 DEF IsPre, IsBefore, IsFirst, IsSecond
  <2>4. WrittenOK(w, n)' = WrittenOK(w, n)
    BY <1>1, <1>2, <2>1, <2>3, SMTT(40) DEF WrittenOK
  <2>5. WrittenOK(written, Instructed)' = WrittenOK(written, Instructed)
    BY <1>1, <1>3, <2>2, <2>4
  <2> QED
    BY <1>1, <1>2, <2>5 DEF MethodInv, WrittenInv
<1>11. TableInv'
  BY <1>1, <1>2 DEF MethodInv, TableInv, NewTables, Ranges, LineStart, VarRange, AbsoluteOffsets
<1>12. FrameInv'
  <2>1. Targets' = Targets /\ Unframed' = Unframed /\ Frames' = Frames
    BY <1>1 DEF Targets, Unframed, Frames
  <2> QED
    BY <1>1, <1>2, <2>1 DEF MethodInv, FrameInv, DeltaAdj
<1>13. CopyInv'
  <2>1. Copied(code)' = Copied(code)
    BY <1>1 DEF Copied, Layout
  <2> QED
    BY <1>1, <1>2, <1>3, <2>1 DEF MethodInv, CopyInv
<1> QED
  BY <1>5, <1>6, <1>7, <1>8, <1>9, <1>10, <1>11, <1>12, <1>13 DEF MethodInv

(* method_init establishes the invariant of a method.                      *)
LEMMA MethodBegin ==
  ASSUME NEW c, NEW r \in Roles, IsMethod(c), Encodable(c), trackers \subseteq Trackers,
         MethodInit(c, r)
  PROVE  MethodInv'
<1> DEFINE N == Len(c)
           D == 1..(N + 1)
<1>1. N \in Nat /\ N >= 1 /\ \A i \in 1..N : c[i].op \in Opcodes
  <2> DEFINE I == Instructions
  <2>1. c \in Seq(I) /\ c # <<>>
    BY DEF IsMethod
  <2> HIDE DEF I
  <2>2. N \in Nat /\ \A i \in 1..N : c[i] \in I
    BY <2>1
  <2>3. N # 0
    BY <2>1, EmptySeq
  <2>4. \A i \in 1..N : c[i].op \in Opcodes
    BY <2>2 DEF I, Instructions
  <2>5. N >= 1
    <3> HIDE DEF N
    <3> QED
      BY <2>2, <2>3
  <2> QED
    BY <2>2, <2>4, <2>5
<1>2. /\ Layout(c) \in [D -> Nat] /\ Layout(c)[1] = 0
      /\ \A k \in 1..N : Layout(c)[k + 1] = Layout(c)[k] + Length(c[k].op, Layout(c)[k])
  BY <1>1, LayoutFacts
<1>3. /\ code' = c /\ start' = Layout(c) /\ role' = r /\ phase' = "begin" /\ ip' = 1
      /\ map' = Layout(c) /\ extraStack' = 0 /\ written' = <<>> /\ tables' = <<>>
      /\ frames' = <<>> /\ trackers' = trackers
      /\ injections' = [i \in D |-> <<>>] /\ widening' = [i \in D |-> 0]
  BY DEF MethodInit
<1>4. End' = N + 1 /\ Working' /\ (1..End)' = D
  BY <1>3 DEF End, Working
<1>5. \A i \in D : i \in Nat /\ i >= 1
  BY <1>1
<1>6. 1 \in D /\ 1 \in 1..N /\ \A i \in 1..N : i \in D /\ i + 1 \in D /\ i + 1 >= 1
  BY <1>1
<1>7. \A i \in Nat : i >= 1 => PreNow(i)' = <<>> /\ BeforeNow(i)' = <<>>
  <2>1. Handled' = 0
    BY <1>3 DEF Handled
  <2>2. \A i \in Nat : i >= 1 => ~(i <= 0) /\ ~(i < 0)
    OBVIOUS
  <2> QED
    BY <2>1, <2>2 DEF PreNow, BeforeNow
<1>8. Instructed' = 0
  BY <1>3 DEF Instructed, Adjusted
<1>9. <<>> \in Seq(Trackers) /\ Len(<<>>) = 0 /\ <<>> \o <<>> = <<>> /\ \A k : k \notin 1..0
  <2>1. <<>> \in Seq(Trackers)
    <3> HIDE DEF Trackers
    <3> QED
      OBVIOUS
  <2>2. Len(<<>>) = 0 /\ \A k : k \notin 1..0
    OBVIOUS
  <2> QED
    BY <2>1, <2>2, NoCalls
<1> HIDE DEF D
<1>10. MethodTypeOK'
  <2>1. injections' \in [D -> Seq(Trackers)] /\ widening' \in [D -> -3..5]
    BY <1>3, <1>9
  <2>2. \A k \in DOMAIN <<>> : FALSE
    OBVIOUS
  <2>3. (\A k \in DOMAIN written : written[k].from \in DOMAIN code /\ written[k].len > 0)'
    BY <1>3, <2>2
  <2> QED
    BY <1>2, <1>3, <1>4, <1>6, <2>1, <2>3 DEF MethodTypeOK
<1>11. InputInv'
  <2>1. IsMethod(code)' /\ Encodable(code)' /\ (start = Layout(code))'
    BY <1>3 DEF IsMethod, Encodable, Layout
  <2>2. (ip \in 1..Len(code))' /\ (Copies => phase \in {"begin", "done"})'
    BY <1>3, <1>6
  <2> QED
    BY <1>3, <2>1, <2>2 DEF InputInv
<1>12. SiteInv'
  <2>1. \A i \in D : injections'[i] = PreNow(i)' \o BeforeNow(i)'
    BY <1>3, <1>5, <1>7, <1>9
  <2>2. \A i \in D : injections'[i] = <<>>
    BY <1>3
  <2> QED
    BY <1>4, <1>9, <2>1, <2>2 DEF SiteInv
<1>13. MapInv'
  <2>1. ASSUME NEW i \in 1..N PROVE widening'[i] \in Widenings(i)' /\ widening'[i] = 0
    <3>1. widening'[i] = 0 /\ start'[i] \in Nat
      BY <1>2, <1>3, <1>6
    <3>2. ToBoundary(start'[i]) \in 1..4
      BY <3>1, LengthFacts
    <3> DEFINE b == ToBoundary(start'[i])
    <3>3. b + 0 \in 1..4 /\ 0 \in -3..3
      <4> HIDE DEF b
      <4> QED
        BY <3>2 DEF b
    <3>4. 0 \in {w \in -3..3 : b + w \in 1..4}
      BY <3>3
    <3> HIDE DEF b
    <3>5. Widenings(i)' = CASE code'[i].op = "goto" -> {0, 2}
                            [] code'[i].op = "if" -> {0, 5}
                            [] code'[i].op = "switch" -> {w \in -3..3 : b + w \in 1..4}
                            [] OTHER -> {0}
      BY DEF Widenings, b
    <3> QED
      BY <3>1, <3>4, <3>5
  <2>2. map'[1] = 0 /\ PreNow(1)' = <<>>
    BY <1>2, <1>3, <1>5, <1>6, <1>7
  <2>3. map'[1] = InjectedLength(PreNow(1))'
    BY <2>2, TemplateFacts
  <2>4. ASSUME NEW i \in 1..N PROVE map'[i + 1] = map'[i] + Distance(i)'
    <3> DEFINE L == Length(c[i].op, Layout(c)[i])
    <3>1. PreNow(i + 1)' = <<>> /\ BeforeNow(i)' = <<>>
      BY <1>5, <1>6, <1>7
    <3>2. Distance(i)' = L + 0 + InjectedLength(<<>>) + InjectedLength(<<>>)
      BY <1>3, <2>1, <3>1 DEF Distance
    <3>3. L \in Nat
      <4>1. L \in 1..20
        BY <1>1, <1>2, <1>6, LengthFacts
      <4> QED
        BY <4>1
    <3>4. InjectedLength(<<>>) = 0 /\ map'[i + 1] = map'[i] + L
      BY <1>2, <1>3, TemplateFacts
    <3> HIDE DEF L
    <3>5. Distance(i)' = L
      BY <3>2, <3>3, <3>4
    <3> QED
      BY <3>4, <3>5
  <2>5. Len(code') = N
    BY <1>3
  <2> HIDE DEF N
  <2> QED
    BY <2>1, <2>3, <2>4, <2>5 DEF MapInv
<1>14. FitInv' /\ WrittenInv' /\ TableInv'
  BY <1>3 DEF FitInv, WrittenInv, TableInv, Adjusted
<1>15. FrameInv'
  <2>1. <<>> \in Seq(Frames')
    <3> DEFINE S == Frames'
    <3> HIDE DEF S
    <3>1. <<>> \in Seq(S)
      OBVIOUS
    <3> QED
      BY <3>1 DEF S
  <2> QED
    BY <1>3, <2>1 DEF FrameInv
<1>16. CopyInv'
  <2>1. [i \in 1..0 |-> Copied(code')[i]] = <<>>
    OBVIOUS
  <2>2. \A i \in 1..N : widening'[i] = 0
    BY <1>3, <1>6
  <2>3. Len(code') = N
    BY <1>3
  <2> QED
    BY <1>3, <1>8, <2>1, <2>2, <2>3 DEF CopyInv
<1> QED
  BY <1>10, <1>11, <1>12, <1>13, <1>14, <1>15, <1>16 DEF MethodInv

-----------------------------------------------------------------------------
(* What the invariant implies once the method has been written.            *)

(* Calls are no instructions, and a jump does not pass the call before a   *)
(* return.                                                                 *)
LEMMA WhatFacts ==
  /\ \A x \in Opcodes \cup {"inverse"} : x \notin Trackers /\ x \notin Passed
  /\ Passed \subseteq Trackers
  /\ "return_tracker" \in Trackers \ Passed
  /\ \A x \in Trackers : x \notin {"inverse", "switch", "goto_w"}
BY DEF Opcodes, Fixed, Branches, Trackers, Passed

(* What the injected calls are.                                            *)
LEMMA PreWhat ==
  ASSUME NEW i
  PROVE  /\ Pre(i) # <<>> => Pre(i)[1] \in Passed
         /\ Before(i) # <<>> => Before(i)[1] = "return_tracker"
<1>1. \A t : Template(t) # <<>> => Template(t)[1] = t
  BY DEF Template
<1>2. EntryInjection # <<>> => EntryInjection[1] \in Passed
  BY <1>1 DEF EntryInjection, Passed
<1>3. \A op : AfterInjection(op) # <<>> => AfterInjection(op)[1] \in Passed
  BY <1>1 DEF AfterInjection, Passed
<1>4. \A op : BeforeInjection(op) # <<>> => BeforeInjection(op)[1] = "return_tracker"
  BY <1>1 DEF BeforeInjection
<1> QED
  BY <1>2, <1>3, <1>4 DEF Pre, Before

(* The four kinds of items in the output of a finished method.             *)
PassedPlace(k) == written[k].what \in Passed /\ written[k].deltas = <<>>
ReturnPlace(k, i) ==
  /\ written[k].what = "return_tracker" /\ written[k].deltas = <<>>
  /\ Offsets[k] = map[i]
FirstPlace(k, i) ==
  /\ written[k].what \in Opcodes \cup {"inverse"}
  /\ IsFirst(written, k, i)
SecondPlace(k, i) ==
  /\ written[k].what = "goto_w"
  /\ IsSecond(written, k, i)

Rewrote == MethodInv /\ Done /\ ~Copies

(* A finished method: the invariant, sorted.                               *)
LEMMA RewroteFacts ==
  ASSUME Rewrote
  PROVE  /\ Working /\ PlainTypes /\ InputInv /\ SiteInv /\ MapInv
         /\ WrittenOK(written, Len(code))
         /\ \A i \in 1..Len(code) : Wanted(i) = widening[i] /\ RewriteOK(i, Rewritten(i))
         /\ map \in [1..End -> Nat]
         /\ \A i \in 1..End : \A j \in 1..End : i <= j => map[i] <= map[j]
         /\ tables = NewTables
         /\ written \in Seq(Items) /\ Len(written) \in Nat /\ DOMAIN written = 1..Len(written)
         /\ Offsets \in [1..(Len(written) + 1) -> Nat]
         /\ \A k \in 1..Len(written) : Offsets[k + 1] = Offsets[k] + written[k].len
         /\ \A j \in 1..Len(written) : \A k \in 1..Len(written) : j <= k => Offsets[j] <= Offsets[k]
<1>1. /\ Working /\ PlainTypes /\ InputInv /\ SiteInv /\ MapInv /\ FitInv /\ WrittenInv
      /\ TableInv /\ phase = "done" /\ ~Copies
  BY PlainFacts DEF Rewrote, MethodInv, Done, Working
<1>2. WrittenOK(written, Len(code))
  BY <1>1 DEF WrittenInv, Adjusted, Instructed
<1>3. \A i \in 1..Len(code) : Wanted(i) = widening[i]
  BY <1>1 DEF FitInv, Adjusted
<1>4. \A i \in 1..Len(code) : RewriteOK(i, Rewritten(i))
  BY <1>1, <1>3, RewrittenFacts
<1>5. map \in [1..End -> Nat] /\ \A i \in 1..End : \A j \in 1..End : i < j => map[i] < map[j]
  BY <1>1, MapFacts
<1>6. ASSUME NEW i \in 1..End, NEW j \in 1..End, i <= j
      PROVE  map[i] <= map[j]
  <2>1. i = j \/ i < j
    BY <1>6
  <2>2. map[i] \in Nat /\ map[j] \in Nat
    BY <1>5
  <2>3. i < j => map[i] < map[j]
    BY <1>5
  <2> QED
    BY <2>1, <2>2, <2>3
<1>7. tables = NewTables
  BY <1>1 DEF TableInv
<1>8. written \in Seq(Items) /\ Len(written) \in Nat /\ DOMAIN written = 1..Len(written)
      /\ \A k \in 1..Len(written) : written[k] \in Items
  <2> DEFINE S == Items
  <2>1. written \in Seq(S)
    BY <1>2 DEF WrittenOK
  <2> HIDE DEF S
  <2>2. Len(written) \in Nat /\ DOMAIN written = 1..Len(written)
        /\ \A k \in 1..Len(written) : written[k] \in S
    BY <2>1
  <2> QED
    BY <2>1, <2>2 DEF S
<1>9. \A k \in 1..Len(written) : written[k].len \in Nat
  <2>1. \A x \in Items : x.len \in Nat
    BY SMTT(40) DEF Items
  <2> QED
    BY <1>8, <2>1
<1>10. /\ Offsets \in [1..(Len(written) + 1) -> Nat]
       /\ \A k \in 1..Len(written) : Offsets[k + 1] = Offsets[k] + written[k].len
  BY <1>8, <1>9, StartsFacts DEF Offsets
<1>11. ASSUME NEW j \in 1..Len(written), NEW k \in 1..Len(written), j <= k
       PROVE  Offsets[j] <= Offsets[k]
  <2> DEFINE N == Len(written)
             a == Offsets[j]
             b == Offsets[k]
             l == written[j].len
  <2>1. N \in Nat /\ j \in 1..N /\ k \in 1..N /\ j \in 1..(N + 1) /\ k \in 1..(N + 1)
    BY <1>8
  <2>2. a \in Nat /\ b \in Nat /\ l \in Nat
    BY <1>9, <1>10, <2>1
  <2>3. j = k \/ k \in (j + 1)..(N + 1)
    <3> HIDE DEF N
    <3> QED
      BY <1>11, <2>1
  <2>4. j = k => a = b
    OBVIOUS
  <2>5. k \in (j + 1)..(N + 1) => a + l <= b
    BY <1>8, <1>9, <2>1, StartsIncrease DEF Offsets
  <2> HIDE DEF N, a, b, l
  <2>6. a <= b
    BY <2>2, <2>3, <2>4, <2>5
  <2> QED
    BY <2>6 DEF a, b
<1> QED
  BY <1>1, <1>2, <1>3, <1>4, <1>5, <1>6, <1>7, <1>8, <1>10, <1>11

(* Every item of the output belongs to an instruction.                     *)
LEMMA PlaceFacts ==
  ASSUME Rewrote, NEW k \in 1..Len(written)
  PROVE  \E i \in 1..Len(code) :
           /\ written[k].from = i
           /\ PassedPlace(k) \/ ReturnPlace(k, i) \/ FirstPlace(k, i) \/ SecondPlace(k, i)
<1>1. PICK i \in 1..Len(code) :
        IsPre(written, k, i) \/ IsBefore(written, k, i) \/ IsFirst(written, k, i)
        \/ IsSecond(written, k, i)
  BY RewroteFacts DEF WrittenOK
<1>2. RewriteOK(i, Rewritten(i))
  BY RewroteFacts
<1>3. CASE IsPre(written, k, i)
  BY <1>3, PreWhat DEF IsPre, PassedPlace, CallItem, Item
<1>4. CASE IsBefore(written, k, i)
  BY <1>4, PreWhat DEF IsBefore, ReturnPlace, CallItem, Item, Offsets
<1>5. CASE IsFirst(written, k, i)
  BY <1>2, <1>5 DEF IsFirst, FirstPlace, RewriteOK
<1>6. CASE IsSecond(written, k, i)
  <2>1. written[k].from = i /\ written[k].what = "goto_w"
    BY <1>2, <1>6 DEF IsSecond, RewriteOK
  <2> QED
    BY <1>6, <2>1 DEF SecondPlace
<1> QED
  BY <1>1, <1>3, <1>4, <1>5, <1>6

(* Where the bytes of an instruction are.                                  *)
LEMMA InstructionPlace ==
  ASSUME Rewrote, NEW i \in 1..Len(code), NEW k \in 1..Len(written),
         FirstPlace(k, i) \/ SecondPlace(k, i)
  PROVE  map[i] <= Offsets[k] /\ Offsets[k] < map[i + 1]
<1> DEFINE m == map[i]
           b == InjectedLength(Before(i))
           L == Length(code[i].op, start[i])
           w == widening[i]
           q == InjectedLength(PreNow(i + 1))
           R == Rewritten(i)
           o == Offsets[k]
<1>1. m \in Nat /\ b \in 0..9
  BY RewroteFacts, InputFacts, PreFacts, TemplatesFacts
<1>2. map[i + 1] = m + (L + w + b + q)
  <2>1. BeforeNow(i) = Before(i)
    BY RewroteFacts, SitesDone, InputFacts DEF Rewrote, Done, Adjusted
  <2>2. map[i + 1] = map[i] + Distance(i)
    BY RewroteFacts DEF MapInv
  <2> QED
    BY <2>1, <2>2 DEF Distance
<1>3. /\ L \in 1..20 /\ w \in -3..5 /\ q \in 0..9 /\ L + w \in 1..25
  <2>1. widening[i] \in Widenings(i) /\ Working /\ InputInv
    BY RewroteFacts DEF MapInv
  <2> QED
    BY <2>1, DistanceFacts, WideningFacts
<1>4. Len(R) = 2 => L + w = 8
  <2>1. RewriteOK(i, R)
    BY RewroteFacts
  <2> HIDE DEF R
  <2>2. Len(R) = 1 \/ (Len(R) = 2 /\ L + w = 8)
    BY <2>1, Zenon DEF RewriteOK
  <2>3. Len(R) = 1 => Len(R) # 2
    OBVIOUS
  <2> QED
    BY <2>2, <2>3
<1>5. o = m + b \/ (Len(R) = 2 /\ o = m + 3)
  BY DEF FirstPlace, SecondPlace, IsFirst, IsSecond, Offsets
<1> HIDE DEF m, b, L, w, q, R, o
<1>6. m <= o /\ o < map[i + 1]
  BY <1>1, <1>2, <1>3, <1>4, <1>5
<1> QED
  BY <1>6 DEF m, o

(* A jump to an instruction arrives where mi->map says.                    *)
LEMMA LandingFacts ==
  ASSUME Rewrote, NEW t \in 1..Len(code)
  PROVE  Landing(t) = map[t]
<1> DEFINE T == {k \in DOMAIN written : written[k].from = t /\ written[k].what \notin Passed}
           N == Len(written)
<1>1. DOMAIN written = 1..N /\ N \in Nat
  BY RewroteFacts
<1>2. ASSUME NEW k \in T
      PROVE  k \in 1..N /\ Offsets[k] \in Nat /\ map[t] <= Offsets[k]
  <2>1. k \in 1..N /\ k \in 1..(N + 1) /\ written[k].from = t /\ written[k].what \notin Passed
    BY <1>1
  <2>2. ReturnPlace(k, t) \/ FirstPlace(k, t) \/ SecondPlace(k, t)
    BY <2>1, PlaceFacts DEF PassedPlace
  <2>3. Offsets[k] \in Nat
    BY <2>1, RewroteFacts
  <2>4. map[t] <= Offsets[k]
    <3>1. CASE ReturnPlace(k, t)
      <4>1. Offsets[k] = map[t]
        BY <3>1 DEF ReturnPlace
      <4> QED
        BY <2>3, <4>1
    <3>2. CASE FirstPlace(k, t) \/ SecondPlace(k, t)
      BY <2>1, <3>2, InstructionPlace
    <3> QED
      BY <2>2, <3>1, <3>2
  <2> QED
    BY <2>1, <2>3, <2>4
<1>3. \E k \in T : Offsets[k] = map[t]
  <2>1. CASE Before(t) # <<>>
    <3>1. PICK k \in 1..N : IsBefore(written, k, t)
      BY <2>1, RewroteFacts DEF WrittenOK
    <3>2. written[k].from = t /\ written[k].what = "return_tracker" /\ Offsets[k] = map[t]
      BY <3>1, PreWhat DEF IsBefore, CallItem, Item, Offsets
    <3>3. k \in T
      BY <1>1, <3>2, WhatFacts
    <3> QED
      BY <3>2, <3>3
  <2>2. CASE Before(t) = <<>>
    <3>1. PICK k \in 1..N : IsFirst(written, k, t)
      BY RewroteFacts DEF WrittenOK
    <3>2. RewriteOK(t, Rewritten(t))
      BY RewroteFacts
    <3>3. written[k].from = t /\ written[k].what \in Opcodes \cup {"inverse"}
          /\ Offsets[k] = map[t] + InjectedLength(<<>>)
      BY <2>2, <3>1, <3>2 DEF IsFirst, RewriteOK, Offsets
    <3>4. map[t] \in Nat /\ InjectedLength(<<>>) = 0
      BY RewroteFacts, InputFacts, TemplateFacts
    <3>5. Offsets[k] = map[t]
      BY <3>3, <3>4
    <3>6. k \in T
      BY <1>1, <3>3, WhatFacts
    <3> QED
      BY <3>5, <3>6
  <2> QED
    BY <2>1, <2>2
<1>4. PICK k \in T : Offsets[k] = map[t]
  BY <1>3
<1>5. T \subseteq Nat /\ T # {}
  BY <1>2, <1>4
<1> DEFINE l == Min(T)
<1>6. l \in T /\ l <= k
  BY <1>4, <1>5, MinLeast
<1>7. Landing(t) = Offsets[l]
  BY DEF Landing
<1> HIDE DEF T, l
<1>8. Offsets[l] <= Offsets[k] /\ map[t] <= Offsets[l] /\ Offsets[l] \in Nat
  BY <1>2, <1>4, <1>6, RewroteFacts
<1>9. map[t] \in Nat
  BY RewroteFacts, InputFacts
<1> QED
  BY <1>4, <1>7, <1>8, <1>9

(* The assertions of inject_bytecodes hold of every site.                  *)
LEMMA FitsConsequence ==
  ASSUME MethodInv
  PROVE  InjectionFits
<1>1. PlainTypes /\ SiteInv
  BY PlainFacts DEF MethodInv
<1>2. DOMAIN injections = 1..End /\ extraStack \in 0..2
  BY <1>1 DEF PlainTypes
<1> SUFFICES ASSUME NEW i \in 1..End
             PROVE  LET lengths == [k \in DOMAIN injections[i] |-> TemplateLength(injections[i][k])]
                    IN  /\ \A k \in DOMAIN lengths : 2 * lengths[k] <= LARGEST_INJECTION
                        /\ Total(lengths) <= LARGEST_INJECTION
                        /\ \A k \in DOMAIN lengths : StackNeeded(injections[i][k]) <= extraStack
  BY <1>2 DEF InjectionFits
<1> DEFINE s == injections[i]
           n == Len(s)
           l == [k \in DOMAIN s |-> TemplateLength(s[k])]
<1>3. s \in Seq(Trackers) /\ n <= 2 /\ \A k \in 1..n : StackNeeded(s[k]) <= extraStack
  BY <1>1 DEF PlainTypes, SiteInv
<1>4. n \in Nat /\ DOMAIN s = 1..n /\ \A k \in 1..n : s[k] \in Trackers
  <2> HIDE DEF s, Trackers
  <2> QED
    BY <1>3
<1>5. DOMAIN l = 1..n /\ Len(l) = n /\ \A k \in 1..n : l[k] \in 1..9
  <2>1. l = [k \in 1..n |-> TemplateLength(s[k])]
    BY <1>4
  <2>2. \A k \in 1..n : TemplateLength(s[k]) \in 1..9
    BY <1>4, TemplateFacts
  <2>3. l \in Seq(1..9) /\ Len(l) = n
    <3> HIDE DEF s, n, l
    <3> QED
      BY <1>4, <2>1, <2>2
  <2> HIDE DEF s, n, l
  <2> QED
    BY <2>3
<1> HIDE DEF l, n, s
<1>6. \A k \in 1..n : l[k] \in Nat /\ 2 * l[k] <= 36
  <2> SUFFICES ASSUME NEW k \in 1..n PROVE l[k] \in Nat /\ 2 * l[k] <= 36
    OBVIOUS
  <2>1. PICK x : x = l[k]
    OBVIOUS
  <2>2. x \in 1..9
    BY <1>5, <2>1
  <2>3. x \in Nat /\ 2 * x <= 36
    BY <2>2
  <2> QED
    BY <2>1, <2>3
<1>7. PICK F \in [0..n -> Nat] :
        /\ F[0] = 0
        /\ \A k \in 1..n : F[k] = F[k - 1] + l[k]
        /\ Total(l) = F[n]
  BY <1>4, <1>5, <1>6, TotalFacts
<1>8. F[n] <= 36
  <2>1. n = 0 \/ n = 1 \/ n = 2
    BY <1>3, <1>4 DEF n
  <2>2. CASE n = 0
    BY <1>7, <2>2
  <2>3. CASE n = 1
    <3>1. 1 \in 1..n /\ 1 - 1 = 0
      BY <2>3
    <3>2. F[1] = 0 + l[1] /\ l[1] \in 1..9
      BY <1>5, <1>7, <3>1
    <3> QED
      BY <2>3, <3>2
  <2>4. CASE n = 2
    <3>1. 1 \in 1..n /\ 2 \in 1..n /\ 1 - 1 = 0 /\ 2 - 1 = 1
      BY <2>4
    <3>2. F[1] = 0 + l[1] /\ F[2] = F[1] + l[2] /\ l[1] \in 1..9 /\ l[2] \in 1..9
      BY <1>5, <1>7, <3>1
    <3> QED
      BY <2>4, <3>2
  <2> QED
    BY <2>1, <2>2, <2>3, <2>4
<1>9. LARGEST_INJECTION = 36
  BY DEF LARGEST_INJECTION
<1> QED
  BY <1>3, <1>5, <1>6, <1>7, <1>8, <1>9 DEF l, n, s

(* What BranchesLand and SwitchesAligned say of one item.                  *)
Lands(k) ==
  LET item == written[k]
  IN  IF item.what = "inverse"
      THEN Offsets[k] + item.deltas[1] = Offsets[k + 2]
      ELSE \A d \in DOMAIN item.deltas :
             Offsets[k] + item.deltas[d] = Landing(code[item.from].to[d])

Aligned(k) == written[k].what = "switch" => written[k].len = Length("switch", Offsets[k])

(* An instruction that goes on elsewhere has no call before it.            *)
LEMMA NoCallBefore ==
  ASSUME NEW i \in 1..Len(code), code[i].op \in {"switch", "if"} \/ Arity(code[i].op) # 0
  PROVE  InjectedLength(Before(i)) = 0
<1>1. code[i].op # "return"
  BY DEF Arity, Fixed
<1>2. Before(i) = <<>>
  BY <1>1, SiteFacts DEF Before
<1> QED
  BY <1>2, TemplateFacts

(* In rewritten code the jumps arrive.                                     *)
LEMMA RewroteLands ==
  ASSUME Rewrote, NEW k \in 1..Len(written)
  PROVE  Lands(k) /\ Aligned(k)
<1>1. PICK i \in 1..Len(code) :
        /\ written[k].from = i
        /\ PassedPlace(k) \/ ReturnPlace(k, i) \/ FirstPlace(k, i) \/ SecondPlace(k, i)
  BY PlaceFacts
<1> DEFINE R == Rewritten(i)
           m == map[i]
           t(d) == code[i].to[d]
           op == code[i].op
<1>2. /\ Working /\ InputInv /\ PlainTypes /\ RewriteOK(i, R)
      /\ DOMAIN code[i].to = 1..Arity(op)
      /\ \A d \in 1..Arity(op) : t(d) \in 1..Len(code)
      /\ News(i) \in Seq(Int) /\ Len(News(i)) = Arity(op)
      /\ \A d \in 1..Arity(op) : News(i)[d] = map[t(d)] - m
  BY RewroteFacts, NewsFacts
<1>3. \A j \in 1..Len(code) : map[j] \in Nat /\ Landing(j) = map[j]
  BY RewroteFacts, InputFacts, LandingFacts
<1>4. CASE PassedPlace(k) \/ ReturnPlace(k, i)
  <2>1. written[k].what \in Trackers /\ written[k].deltas = <<>>
    BY <1>4, WhatFacts DEF PassedPlace, ReturnPlace
  <2>2. DOMAIN <<>> = {}
    OBVIOUS
  <2> QED
    BY <2>1, <2>2, WhatFacts DEF Lands, Aligned
<1>5. CASE FirstPlace(k, i)
  <2>1. /\ written[k] = R[1] /\ Offsets[k] = m + InjectedLength(Before(i))
        /\ Len(R) = 2 => k + 1 \in 1..Len(written) /\ written[k + 1] = R[2]
    BY <1>5 DEF FirstPlace, IsFirst, Offsets
  <2>2. Arity(op) # 0 \/ op \in {"switch", "if"} => Offsets[k] = m
    <3>1. m \in Nat
      BY <1>3
    <3>2. Arity(op) # 0 \/ op \in {"switch", "if"} => InjectedLength(Before(i)) = 0
      BY NoCallBefore
    <3> HIDE DEF m, op
    <3> QED
      BY <2>1, <3>1, <3>2
  <2>3. CASE /\ Len(R) = 1
             /\ R[1].what # "inverse" /\ R[1].deltas = News(i)
             /\ op = "switch" <=> R[1].what = "switch"
    <3>1. ASSUME NEW d \in DOMAIN News(i)
          PROVE  Offsets[k] + News(i)[d] = Landing(t(d))
      <4>1. d \in 1..Arity(op) /\ Arity(op) # 0
        <5> DEFINE a == Arity(op)
                   s == News(i)
        <5>1. s \in Seq(Int) /\ Len(s) = a /\ d \in DOMAIN s
          BY <1>2
        <5> HIDE DEF a, s
        <5>2. d \in 1..a /\ a # 0
          BY <5>1
        <5> QED
          BY <5>2 DEF a
      <4>2. /\ Offsets[k] = m /\ News(i)[d] = map[t(d)] - m /\ t(d) \in 1..Len(code)
        BY <1>2, <2>2, <4>1
      <4>3. m \in Nat /\ map[t(d)] \in Nat /\ Landing(t(d)) = map[t(d)]
        BY <1>3, <4>2
      <4> DEFINE x == map[t(d)]
      <4> HIDE DEF m, x
      <4>4. Offsets[k] = m /\ News(i)[d] = x - m /\ m \in Nat /\ x \in Nat
        BY <4>2, <4>3 DEF x
      <4>5. Offsets[k] + News(i)[d] = x
        BY <4>4
      <4> QED
        BY <4>3, <4>5 DEF x
    <3>2. Lands(k)
      BY <1>1, <2>1, <2>3, <3>1 DEF Lands
    <3>3. Aligned(k)
      <4>1. R[1].what = "switch" => R[1].len = Length("switch", m)
        BY <1>2 DEF RewriteOK
      <4> QED
        BY <2>1, <2>2, <2>3, <4>1 DEF Aligned
    <3> QED
      BY <3>2, <3>3
  <2>4. CASE /\ Len(R) = 2 /\ op = "if"
             /\ R[1].what = "inverse" /\ R[1].len = 3 /\ R[1].deltas = <<8>>
             /\ R[2].len = 5
    <3>1. k + 1 \in 1..Len(written) /\ written[k].len = 3 /\ written[k + 1].len = 5
          /\ written[k].what = "inverse" /\ written[k].deltas = <<8>>
      BY <2>1, <2>4
    <3>2. Offsets[k + 1] = Offsets[k] + 3 /\ Offsets[(k + 1) + 1] = Offsets[k + 1] + 5
      BY <3>1, RewroteFacts
    <3>3. (k + 1) + 1 = k + 2 /\ Offsets[k] \in Nat
      <4>1. m \in Nat /\ Offsets[k] = m
        BY <1>3, <2>2, <2>4
      <4> QED
        BY <4>1
    <3>4. Offsets[k] + 8 = Offsets[k + 2]
      BY <3>2, <3>3
    <3>5. <<8>>[1] = 8
      OBVIOUS
    <3>6. "inverse" # "switch"
      OBVIOUS
    <3> QED
      BY <3>1, <3>4, <3>5, <3>6 DEF Lands, Aligned
  <2> QED
    BY <1>2, <2>3, <2>4, Zenon DEF RewriteOK
<1>6. CASE SecondPlace(k, i)
  <2>1. /\ written[k] = R[2] /\ Offsets[k] = m + 3 /\ Len(R) = 2
    BY <1>6 DEF SecondPlace, IsSecond, Offsets
  <2>2. Len(R) # 1
    BY <2>1
  <2>3. /\ op = "if" /\ R[2].what = "goto_w" /\ R[2].deltas = <<News(i)[1] - 3>>
    BY <1>2, <2>2, Zenon DEF RewriteOK
  <2>4. Arity(op) = 1 /\ 1 \in 1..Arity(op)
    BY <2>3 DEF Arity, Fixed
  <2>5. News(i)[1] = map[t(1)] - m /\ t(1) \in 1..Len(code) /\ m \in Nat
        /\ map[t(1)] \in Nat /\ Landing(t(1)) = map[t(1)]
    BY <1>2, <1>3, <2>4
  <2> DEFINE x == map[t(1)]
             y == News(i)[1]
  <2>6. y = x - m /\ m \in Nat /\ x \in Nat /\ Offsets[k] = m + 3
    BY <2>1, <2>5
  <2> HIDE DEF x, m, y
  <2>7. Offsets[k] + (y - 3) = x
    BY <2>6
  <2>8. DOMAIN <<y - 3>> = {1} /\ <<y - 3>>[1] = y - 3
    OBVIOUS
  <2>9. "goto_w" # "inverse" /\ "goto_w" # "switch"
    OBVIOUS
  <2> QED
    BY <1>1, <2>1, <2>3, <2>5, <2>7, <2>8, <2>9 DEF Lands, Aligned, x, y
<1> QED
  BY <1>1, <1>4, <1>5, <1>6

(* What RangesCover says of a range and one item.                          *)
InRange(k, from, to) == Offsets[k] \in from..(to - 1)

(* The instructions of a range are in the mapped range, and no others.     *)
LEMMA RangeFacts ==
  ASSUME Rewrote, NEW r \in Ranges, NEW k \in DOMAIN written, IsInstruction(k)
  PROVE  /\ InRange(k, map[r[1]], map[r[2]]) <=> written[k].from \in r[1]..(r[2] - 1)
         /\ r[1] = 1 => (InRange(k, 0, map[r[2]]) <=> written[k].from \in r[1]..(r[2] - 1))
         /\ map[r[1]] \in Nat /\ map[r[2]] \in Nat
<1>1. DOMAIN written = 1..Len(written) /\ Working /\ InputInv
  BY RewroteFacts
<1>2. PICK i \in 1..Len(code) : /\ written[k].from = i
                                /\ FirstPlace(k, i) \/ SecondPlace(k, i)
  <2>1. PICK i \in 1..Len(code) :
          /\ written[k].from = i
          /\ PassedPlace(k) \/ ReturnPlace(k, i) \/ FirstPlace(k, i) \/ SecondPlace(k, i)
    BY <1>1, PlaceFacts
  <2>2. written[k].what \notin Trackers
    BY DEF IsInstruction
  <2>3. ~PassedPlace(k) /\ ~ReturnPlace(k, i)
    BY <2>2, WhatFacts DEF PassedPlace, ReturnPlace
  <2> QED
    BY <2>1, <2>3
<1>3. r[1] \in 1..End /\ r[2] \in 1..End /\ r[1] < r[2]
  BY DEF Ranges
<1>4. i \in 1..End /\ i + 1 \in 1..End
  BY <1>1, InputFacts
<1>5. map[i] <= Offsets[k] /\ Offsets[k] < map[i + 1]
  BY <1>1, <1>2, InstructionPlace
<1> DEFINE a == r[1]
           b == r[2]
           ma == map[a]
           mb == map[b]
           mi == map[i]
           mj == map[i + 1]
           o == Offsets[k]
<1>6. ma \in Nat /\ mb \in Nat /\ mi \in Nat /\ mj \in Nat
  BY <1>3, <1>4, RewroteFacts
<1>7. o \in Nat
  <2>1. k \in 1..(Len(written) + 1)
    BY <1>1, RewroteFacts
  <2> QED
    BY <2>1, RewroteFacts
<1>8. a \in Nat /\ b \in Nat /\ i \in Nat /\ a >= 1 /\ i >= 1
  <2>1. a \in 1..End /\ b \in 1..End /\ i \in 1..End /\ End \in Nat
    BY <1>1, <1>3, <1>4, InputFacts
  <2> HIDE DEF a, b
  <2> QED
    BY <2>1
<1>9. /\ a <= i => ma <= mi
      /\ i + 1 <= a => mj <= ma
      /\ b <= i => mb <= mi
      /\ i + 1 <= b => mj <= mb
  BY <1>3, <1>4, RewroteFacts
<1>10. mi <= o /\ o < mj
  BY <1>5
<1> HIDE DEF a, b, ma, mb, mi, mj, o
<1>11. o \in ma..(mb - 1) <=> i \in a..(b - 1)
  BY <1>6, <1>7, <1>8, <1>9, <1>10
<1>12. a = 1 => (o \in 0..(mb - 1) <=> i \in a..(b - 1))
  BY <1>6, <1>7, <1>8, <1>9, <1>10
<1> QED
  BY <1>2, <1>6, <1>11, <1>12 DEF InRange, a, b, ma, mb, o

(* Only the first instruction is at position 0.                            *)
LEMMA StartZero ==
  ASSUME Working, InputInv, NEW i \in 1..End
  PROVE  start[i] = 0 <=> i = 1
<1> DEFINE N == Len(code)
<1>1. N \in Nat /\ End = N + 1
  BY InputFacts
<1>2. start \in [1..(N + 1) -> Nat] /\ start[1] = 0
  BY <1>1, StartFacts
<1>3. start \in [1..(N + 1) -> Int]
  <2> DEFINE D == 1..(N + 1)
  <2>1. start \in [D -> Nat]
    BY <1>2
  <2> HIDE DEF D
  <2>2. start \in [D -> Int]
    BY <2>1
  <2> QED
    BY <2>2 DEF D
<1>4. ASSUME NEW k \in 1..N PROVE start[k] < start[k + 1]
  <2> DEFINE l == Length(code[k].op, start[k])
  <2>1. l \in 1..20 /\ start[k + 1] = start[k] + l
    BY StartFacts
  <2>2. start[k] \in Nat
    BY <1>1, <1>2
  <2> HIDE DEF l
  <2> QED
    BY <2>1, <2>2
<1> HIDE DEF N
<1>5. \A j \in 1..(N + 1) : \A k \in 1..(N + 1) : j < k => start[j] < start[k]
  BY <1>1, <1>3, <1>4, Increasing
<1>6. i = 1 \/ 1 < i
  BY <1>1
<1>7. 1 < i => 0 < start[i]
  BY <1>1, <1>2, <1>5
<1>8. start[i] \in Nat
  BY <1>1, <1>2
<1> QED
  BY <1>2, <1>6, <1>7, <1>8

(* What fits into two bytes is written as it is.                           *)
LEMMA TwoBytes ==
  ASSUME NEW n \in Nat, n < 2 * Reach
  PROVE  U2(n) = n
<1>1. Reach \in Nat /\ Reach > 8
  BY CrwAssumption
<1> QED
  BY <1>1 DEF U2

(* The positions of short code fit into two bytes.                         *)
LEMMA ShortMap ==
  ASSUME Rewrote, Short
  PROVE  \A i \in 1..End : map[i] \in Nat /\ map[i] < 2 * Reach /\ U2(map[i]) = map[i]
<1>1. /\ Len(code) \in Nat /\ Len(code) >= 1 /\ End = Len(code) + 1 /\ End \in 1..End
      /\ code[Len(code)].op # "newarray"
  BY RewroteFacts, InputFacts
<1>2. /\ Offsets[Len(written) + 1] = map[Len(code) + 1] - InjectedLength(Pre(Len(code) + 1))
      /\ map \in [1..End -> Nat]
      /\ \A i \in 1..End : \A j \in 1..End : i <= j => map[i] <= map[j]
  BY RewroteFacts DEF WrittenOK, Offsets
<1>3. Pre(End) = <<>>
  <2>1. End # 1 /\ End - 1 = Len(code)
    BY <1>1
  <2> QED
    BY <1>1, <2>1, SiteFacts DEF Pre
<1>4. map[End] < 2 * Reach
  <2>1. InjectedLength(<<>>) = 0 /\ map[End] \in Nat
    BY <1>1, <1>2, TemplateFacts
  <2>2. Offsets[Len(written) + 1] = map[End] - 0
    BY <1>1, <1>2, <1>3, <2>1
  <2>3. Offsets[Len(written) + 1] < 2 * Reach
    BY DEF Short
  <2> DEFINE m == map[End]
             o == Offsets[Len(written) + 1]
  <2>4. m \in Nat /\ o = m - 0 /\ o < 2 * Reach
    BY <2>1, <2>2, <2>3
  <2> HIDE DEF m, o
  <2>5. m < 2 * Reach
    BY <2>4
  <2> QED
    BY <2>5 DEF m
<1>5. ASSUME NEW i \in 1..End
      PROVE  map[i] \in Nat /\ map[i] < 2 * Reach
  <2> DEFINE m == map[i]
             e == map[End]
  <2>1. i <= End
    BY <1>1
  <2>2. m \in Nat /\ e \in Nat /\ m <= e /\ e < 2 * Reach
    BY <1>1, <1>2, <1>4, <2>1
  <2>3. 2 * Reach \in Nat
    BY CrwAssumption
  <2> HIDE DEF m, e
  <2>4. m \in Nat /\ m < 2 * Reach
    BY <2>2, <2>3
  <2> QED
    BY <2>4 DEF m
<1> QED
  BY <1>5, TwoBytes

(* The tables of a finished method.                                        *)
LEMMA CoverConsequence ==
  ASSUME Rewrote, Short
  PROVE  RangesCover
<1>1. Working /\ InputInv /\ tables = NewTables /\ DOMAIN code = 1..Len(code)
  BY RewroteFacts, InputFacts
<1>2. ASSUME NEW r \in Ranges
      PROVE  LET handled == tables.handled[r]
                 variable == tables.variables[r]
                 covers(from, to) ==
                   \A k \in DOMAIN written : IsInstruction(k) =>
                     (Offsets[k] \in from..(to - 1) <=> written[k].from \in r[1]..(r[2] - 1))
             IN  /\ covers(handled[1], handled[2])
                 /\ covers(variable[1], variable[1] + variable[2])
  <2> DEFINE s == LineStart(r[1])
             e == map[r[2]]
             m == map[r[1]]
  <2>1. r[1] \in 1..End /\ r[2] \in 1..End /\ r[1] <= r[2]
    BY <1>1, InputFacts DEF Ranges
  <2>2. e \in Nat /\ m \in Nat /\ m <= e /\ e < 2 * Reach /\ U2(e) = e /\ U2(m) = m
    BY <2>1, RewroteFacts, ShortMap
  <2>3. s = IF r[1] = 1 THEN 0 ELSE m
    BY <1>1, <2>1, StartZero DEF LineStart
  <2>4. s \in Nat /\ s < 2 * Reach /\ e - s \in Nat /\ e - s < 2 * Reach /\ s + (e - s) = e
    <3>1. 2 * Reach \in Nat
      BY CrwAssumption
    <3> HIDE DEF s, e, m
    <3> QED
      BY <2>2, <2>3, <3>1
  <2>5. tables.handled[r] = <<m, e>> /\ tables.variables[r] = <<s, e - s>>
    <3>1. U2(s) = s /\ U2(e - s) = e - s
      <4> HIDE DEF s, e
      <4> QED
        BY <2>4, TwoBytes
    <3>2. tables.handled[r] = <<U2(m), U2(e)>> /\ tables.variables[r] = <<U2(s), U2(e - s)>>
      BY <1>1 DEF NewTables, VarRange
    <3> HIDE DEF s, e, m
    <3> QED
      BY <2>2, <3>1, <3>2
  <2>6. ASSUME NEW k \in DOMAIN written, IsInstruction(k)
        PROVE  /\ Offsets[k] \in m..(e - 1) <=> written[k].from \in r[1]..(r[2] - 1)
               /\ Offsets[k] \in s..(e - 1) <=> written[k].from \in r[1]..(r[2] - 1)
    <3>1. /\ InRange(k, m, e) <=> written[k].from \in r[1]..(r[2] - 1)
          /\ r[1] = 1 => (InRange(k, 0, e) <=> written[k].from \in r[1]..(r[2] - 1))
      BY <2>6, RangeFacts
    <3> HIDE DEF s, e, m
    <3> QED
      BY <2>3, <3>1 DEF InRange
  <2>7. <<m, e>>[1] = m /\ <<m, e>>[2] = e /\ <<s, e - s>>[1] = s /\ <<s, e - s>>[2] = e - s
    OBVIOUS
  <2> HIDE DEF s, e, m
  <2> QED
    BY <2>5, <2>4, <2>6, <2>7
<1>3. ASSUME NEW i \in 1..Len(code)
      PROVE  /\ tables.handlers[i] = Landing(i)
             /\ tables.lines[i] = IF i = 1 THEN 0 ELSE Landing(i)
  <2>1. tables.handlers[i] = U2(map[i]) /\ tables.lines[i] = U2(LineStart(i))
    BY <1>1 DEF NewTables
  <2>2. i \in 1..End
    BY <1>1, InputFacts
  <2>3. U2(map[i]) = map[i] /\ Landing(i) = map[i]
    BY <2>2, ShortMap, LandingFacts
  <2>4. LineStart(i) = IF i = 1 THEN 0 ELSE map[i]
    BY <1>1, <2>2, StartZero DEF LineStart
  <2>5. U2(0) = 0
    <3>1. 0 \in Nat /\ 0 < 2 * Reach
      BY CrwAssumption
    <3> QED
      BY <3>1, TwoBytes
  <2> QED
    BY <2>1, <2>3, <2>4, <2>5
<1> QED
  BY <1>1, <1>2, <1>3 DEF RangesCover

PositionsBody(f) ==
  [k \in DOMAIN frames |-> IF k = 1 THEN frames[1].offset ELSE f[k - 1] + frames[k].offset + 1]

(* The frames of a finished method, sorted.                                *)
LEMMA FrameFacts ==
  ASSUME Rewrote
  PROVE  /\ Len(frames) \in Nat /\ DOMAIN frames = 1..Len(frames)
         /\ Targets = {frames[k].at : k \in DOMAIN frames}
         /\ \A k \in 1..Len(frames) :
              /\ frames[k].at \in 1..Len(code) /\ map[frames[k].at] \in Nat
              /\ frames[k].extended <=> frames[k].offset > SameFrameMax
         /\ 1 \in 1..Len(frames) => frames[1].offset = map[frames[1].at]
         /\ \A k \in 2..Len(frames) :
              /\ k - 1 \in 1..Len(frames)
              /\ frames[k].offset = map[frames[k].at] - 1 - map[frames[k - 1].at]
              /\ map[frames[k - 1].at] < map[frames[k].at]
<1>1. FrameInv /\ phase = "done" /\ ~Copies /\ Working /\ InputInv /\ PlainTypes /\ MapInv
  BY PlainFacts DEF Rewrote, MethodInv, Done, Working
<1> DEFINE n == Len(frames)
<1>2. n \in Nat /\ DOMAIN frames = 1..n
  <2> DEFINE S == Frames
  <2>1. frames \in Seq(S)
    BY <1>1 DEF FrameInv
  <2> HIDE DEF S
  <2> QED
    BY <2>1
<1>3. /\ Unframed = {}
      /\ \A k \in 1..n :
            /\ frames[k].at \in Targets
            /\ frames[k].offset = map[frames[k].at] - DeltaAdj(k)
                                   - (IF k = 1 THEN 0 ELSE map[frames[k - 1].at])
            /\ frames[k].extended <=> frames[k].offset > SameFrameMax
            /\ k > 1 => frames[k - 1].at < frames[k].at
  BY <1>1 DEF FrameInv
<1>4. Targets = {frames[k].at : k \in DOMAIN frames}
  <2>1. Targets \subseteq {frames[k].at : k \in DOMAIN frames}
    BY <1>3 DEF Unframed
  <2>2. {frames[k].at : k \in DOMAIN frames} \subseteq Targets
    BY <1>2, <1>3
  <2> QED
    BY <2>1, <2>2
<1>5. \A k \in 1..n : frames[k].at \in 1..Len(code) /\ frames[k].at \in 1..End
                      /\ map[frames[k].at] \in Nat
  <2>1. \A i \in 1..Len(code) : i \in 1..End /\ map[i] \in Nat
    BY RewroteFacts, InputFacts
  <2>2. Targets \subseteq 1..Len(code)
    BY <1>1, TargetFacts
  <2> QED
    BY <1>3, <2>1, <2>2
<1>6. 1 \in 1..n => frames[1].offset = map[frames[1].at]
  <2> SUFFICES ASSUME 1 \in 1..n PROVE frames[1].offset = map[frames[1].at]
    OBVIOUS
  <2> DEFINE m == map[frames[1].at]
  <2>1. frames[1].offset = m - 0 - 0 /\ m \in Nat
    BY <1>3, <1>5 DEF DeltaAdj
  <2> HIDE DEF m
  <2>2. frames[1].offset = m
    BY <2>1
  <2> QED
    BY <2>2 DEF m
<1>7. ASSUME NEW k \in 2..n
      PROVE  /\ k - 1 \in 1..n
             /\ frames[k].offset = map[frames[k].at] - 1 - map[frames[k - 1].at]
             /\ map[frames[k - 1].at] < map[frames[k].at]
  <2>1. k \in 1..n /\ k - 1 \in 1..n /\ k # 1 /\ k > 1
    BY <1>2
  <2>2. frames[k - 1].at < frames[k].at /\ frames[k - 1].at \in 1..End /\ frames[k].at \in 1..End
    BY <1>3, <1>5, <2>1
  <2>3. map[frames[k - 1].at] < map[frames[k].at]
    BY <1>1, <2>2, MapFacts
  <2>4. frames[k].offset = map[frames[k].at] - 1 - map[frames[k - 1].at]
    BY <1>3, <2>1 DEF DeltaAdj
  <2> QED
    BY <2>1, <2>3, <2>4
<1> QED
  BY <1>2, <1>3, <1>4, <1>5, <1>6, <1>7

(* The verifier finds each frame at the new position of its target.        *)
LEMMA PositionFacts ==
  ASSUME Rewrote
  PROVE  \A k \in 1..Len(frames) : FramePositions[k] = map[frames[k].at]
<1> DEFINE n == Len(frames)
           m(k) == map[frames[k].at]
           f == [k \in 1..n |-> m(k)]
           F == FramePositions
<1>1. n \in Nat /\ DOMAIN frames = 1..n
  BY FrameFacts
<1>2. \A k \in 1..n : m(k) \in Nat
  BY FrameFacts
<1>3. /\ 1 \in 1..n => frames[1].offset = m(1)
      /\ \A k \in 2..n : k - 1 \in 1..n /\ frames[k].offset = m(k) - 1 - m(k - 1)
  BY FrameFacts
<1> HIDE DEF n, m
<1>4. \A k \in 1..n : k = 1 \/ k \in 2..n
  BY <1>1
<1>5. \A k \in 2..n : m(k - 1) + frames[k].offset + 1 = m(k) /\ k \in 1..n
  <2> SUFFICES ASSUME NEW k \in 2..n
               PROVE  m(k - 1) + frames[k].offset + 1 = m(k) /\ k \in 1..n
    OBVIOUS
  <2>1. k \in 1..n
    BY <1>1
  <2>2. m(k) \in Nat /\ m(k - 1) \in Nat /\ frames[k].offset = m(k) - 1 - m(k - 1)
    BY <1>2, <1>3, <2>1
  <2> QED
    BY <2>1, <2>2
<1>6. f = PositionsBody(f)
  <2>1. \A k \in 1..n :
          m(k) = IF k = 1 THEN frames[1].offset ELSE f[k - 1] + frames[k].offset + 1
    <3> SUFFICES ASSUME NEW k \in 1..n
                 PROVE  m(k) = IF k = 1 THEN frames[1].offset
                                        ELSE f[k - 1] + frames[k].offset + 1
      OBVIOUS
    <3>1. CASE k = 1
      BY <1>3, <3>1
    <3>2. CASE k \in 2..n
      <4>1. f[k - 1] = m(k - 1) /\ k # 1
        BY <1>3, <3>2
      <4> HIDE DEF f
      <4> QED
        BY <1>5, <3>2, <4>1
    <3> QED
      BY <1>4, <3>1, <3>2
  <2>2. f = [k \in 1..n |-> m(k)]
    OBVIOUS
  <2> HIDE DEF f
  <2> QED
    BY <1>1, <2>1, <2>2 DEF PositionsBody
<1>7. F = CHOOSE h : h = PositionsBody(h)
  BY Zenon DEF FramePositions, PositionsBody
<1> HIDE DEF f, F
<1>8. F = PositionsBody(F)
  BY <1>6, <1>7, Zenon
<1>9. \A k \in 1..n : F[k] = IF k = 1 THEN frames[1].offset ELSE F[k - 1] + frames[k].offset + 1
  BY <1>1, <1>8 DEF PositionsBody
<1> DEFINE T == {k \in 1..n : F[k] = m(k)}
<1>10. CASE n = 0
  BY <1>10 DEF n
<1>11. CASE n # 0
  <2>1. 1 \in T
    <3>1. 1 \in 1..n
      BY <1>1, <1>11
    <3> QED
      BY <1>3, <1>9, <3>1
  <2>2. ASSUME NEW k \in 1..(n - 1), k \in T PROVE k + 1 \in T
    <3>1. k + 1 \in 2..n /\ k + 1 \in 1..n /\ k + 1 # 1 /\ (k + 1) - 1 = k
      BY <1>1
    <3>2. F[k + 1] = F[(k + 1) - 1] + frames[k + 1].offset + 1
      BY <1>9, <3>1
    <3>3. F[k] = m(k)
      BY <2>2
    <3>4. F[k + 1] = m((k + 1) - 1) + frames[k + 1].offset + 1
      BY <3>1, <3>2, <3>3
    <3> QED
      BY <1>5, <3>1, <3>4
  <2> HIDE DEF T
  <2>3. \A k \in 1..n : k \in T
    <3>1. 1 \in Int /\ n \in Int
      BY <1>1
    <3> QED
      BY <2>1, <2>2, <3>1, Climb
  <2> QED
    BY <2>3 DEF T, n, m, F
<1> QED
  BY <1>10, <1>11

(* An item goes to targets of its instruction, but for an inverse.         *)
LEMMA DeltaFacts ==
  ASSUME Rewrote, NEW k \in 1..Len(written), written[k].what # "inverse"
  PROVE  /\ written[k].from \in 1..Len(code)
         /\ \A d \in DOMAIN written[k].deltas : d \in 1..Len(code[written[k].from].to)
<1>1. PICK i \in 1..Len(code) :
        /\ written[k].from = i
        /\ PassedPlace(k) \/ ReturnPlace(k, i) \/ FirstPlace(k, i) \/ SecondPlace(k, i)
  BY PlaceFacts
<1> DEFINE R == Rewritten(i)
           a == Arity(code[i].op)
           D == DOMAIN written[k].deltas
<1>2. RewriteOK(i, R) /\ Len(code[i].to) = a /\ Working /\ InputInv /\ PlainTypes
  BY RewroteFacts, InputFacts
<1>3. DOMAIN News(i) = 1..a
  <2> DEFINE s == News(i)
  <2>1. s \in Seq(Int) /\ Len(s) = a
    BY <1>2, NewsFacts
  <2> HIDE DEF s, a
  <2>2. DOMAIN s = 1..a
    BY <2>1
  <2> QED
    BY <2>2 DEF s
<1>4. CASE PassedPlace(k) \/ ReturnPlace(k, i)
  <2>1. D = {}
    BY <1>4 DEF PassedPlace, ReturnPlace
  <2> QED
    BY <1>1, <2>1
<1>5. CASE FirstPlace(k, i)
  <2>1. written[k] = R[1] /\ R[1].what # "inverse"
    BY <1>5 DEF FirstPlace, IsFirst
  <2>2. R[1].deltas = News(i)
    BY <1>2, <2>1, Zenon DEF RewriteOK
  <2> QED
    BY <1>1, <1>2, <1>3, <2>1, <2>2
<1>6. CASE SecondPlace(k, i)
  <2>1. written[k] = R[2] /\ Len(R) = 2
    BY <1>6 DEF SecondPlace, IsSecond
  <2>2. Len(R) # 1
    BY <2>1
  <2>3. code[i].op = "if" /\ R[2].deltas = <<News(i)[1] - 3>>
    BY <1>2, <2>2, Zenon DEF RewriteOK
  <2>4. a = 1
    BY <2>3 DEF Arity, Fixed
  <2>5. D = {1}
    BY <2>1, <2>3
  <2> HIDE DEF D
  <2> QED
    BY <1>1, <1>2, <2>4, <2>5 DEF D
<1> QED
  BY <1>1, <1>4, <1>5, <1>6

(* Each target of an instruction is where one of its items goes.           *)
LEMMA TargetJump ==
  ASSUME Rewrote, NEW i \in 1..Len(code), NEW d \in 1..Len(code[i].to)
  PROVE  \E k \in 1..Len(written) :
           written[k].what # "inverse" /\ map[code[i].to[d]] \in JumpsTo(k)
<1> DEFINE R == Rewritten(i)
           op == code[i].op
           t == code[i].to[d]
<1>1. PICK k \in 1..Len(written) : IsFirst(written, k, i)
  BY RewroteFacts DEF WrittenOK
<1>2. /\ RewriteOK(i, R) /\ Len(code[i].to) = Arity(op) /\ Working /\ InputInv /\ PlainTypes
      /\ d \in 1..Arity(op) /\ t \in 1..Len(code)
  <2>1. /\ RewriteOK(i, R) /\ Len(code[i].to) = Arity(op) /\ Working /\ InputInv /\ PlainTypes
    BY RewroteFacts, InputFacts
  <2> QED
    BY <2>1, NewsFacts
<1>3. /\ written[k] = R[1]
      /\ Len(R) = 2 => k + 1 \in 1..Len(written) /\ written[k + 1] = R[2]
  BY <1>1 DEF IsFirst
<1>4. R[1].from = i /\ Landing(t) = map[t]
  BY <1>2, LandingFacts DEF RewriteOK
<1>5. CASE /\ R[1].what # "inverse" /\ R[1].deltas = News(i)
  <2>1. d \in DOMAIN News(i)
    <3> DEFINE s == News(i)
               a == Arity(op)
    <3>1. s \in Seq(Int) /\ Len(s) = a /\ d \in 1..a
      BY <1>2, NewsFacts
    <3> HIDE DEF s, a
    <3> QED
      BY <3>1 DEF s
  <2>2. Lands(k)
    BY RewroteLands
  <2>3. Offsets[k] + written[k].deltas[d] = Landing(t)
    BY <1>3, <1>4, <1>5, <2>1, <2>2 DEF Lands
  <2> QED
    BY <1>3, <1>4, <1>5, <2>1, <2>3 DEF JumpsTo
<1>6. CASE /\ Len(R) = 2 /\ op = "if"
           /\ R[2].what = "goto_w" /\ R[2].from = i /\ R[2].deltas = <<News(i)[1] - 3>>
  <2>1. k + 1 \in 1..Len(written) /\ written[k + 1] = R[2]
    BY <1>3, <1>6
  <2>2. d = 1
    BY <1>2, <1>6 DEF Arity, Fixed
  <2>3. d \in DOMAIN <<News(i)[1] - 3>>
    BY <2>2
  <2>4. Lands(k + 1)
    BY <2>1, RewroteLands
  <2>5. Offsets[k + 1] + written[k + 1].deltas[d] = Landing(t)
    BY <1>6, <2>1, <2>3, <2>4 DEF Lands
  <2> QED
    BY <1>4, <1>6, <2>1, <2>3, <2>5 DEF JumpsTo
<1> QED
  BY <1>2, <1>5, <1>6, Zenon DEF RewriteOK

(* The written code goes where the position map has the targets.           *)
LEMMA JumpFacts ==
  ASSUME Rewrote
  PROVE  UNION {JumpsTo(k) : k \in DOMAIN written \ Inverted} = {map[t] : t \in Targets}
<1> DEFINE J == UNION {JumpsTo(k) : k \in DOMAIN written \ Inverted}
<1>1. /\ DOMAIN written = 1..Len(written) /\ DOMAIN code = 1..Len(code)
      /\ Working /\ InputInv
  BY RewroteFacts, InputFacts
<1>2. ASSUME NEW k \in DOMAIN written \ Inverted, NEW p \in JumpsTo(k)
      PROVE  \E t \in Targets : p = map[t]
  <2>1. k \in 1..Len(written) /\ written[k].what # "inverse"
    BY <1>1 DEF Inverted
  <2>2. PICK d \in DOMAIN written[k].deltas : p = Offsets[k] + written[k].deltas[d]
    BY DEF JumpsTo
  <2> DEFINE i == written[k].from
             t == code[i].to[d]
  <2>3. i \in 1..Len(code) /\ d \in 1..Len(code[i].to)
    BY <2>1, DeltaFacts
  <2>4. t \in Targets /\ t \in 1..Len(code)
    BY <1>1, <2>3, TargetFacts
  <2>5. p = Landing(t)
    <3>1. Lands(k)
      BY <2>1, RewroteLands
    <3> QED
      BY <2>1, <2>2, <3>1 DEF Lands
  <2> QED
    BY <2>4, <2>5, LandingFacts
<1>3. ASSUME NEW t \in Targets
      PROVE  \E k \in DOMAIN written \ Inverted : map[t] \in JumpsTo(k)
  <2>1. PICK i \in 1..Len(code) : t \in ToSet(code[i].to)
    BY <1>1 DEF Targets
  <2>2. PICK d \in 1..Len(code[i].to) : t = code[i].to[d]
    <3>1. code[i].to \in Seq(1..Len(code))
      BY <1>1, InputFacts
    <3> QED
      BY <2>1, <3>1 DEF ToSet
  <2>3. PICK k \in 1..Len(written) : written[k].what # "inverse" /\ map[t] \in JumpsTo(k)
    BY <2>2, TargetJump
  <2> QED
    BY <1>1, <2>3 DEF Inverted
<1>4. J \subseteq {map[t] : t \in Targets}
  BY <1>2
<1>5. {map[t] : t \in Targets} \subseteq J
  BY <1>3
<1> QED
  BY <1>4, <1>5

(* The stack map of a finished method.                                     *)
LEMMA FrameConsequence ==
  ASSUME Rewrote
  PROVE  FramesAtTargets
<1>1. DOMAIN frames = 1..Len(frames) /\ Targets = {frames[k].at : k \in DOMAIN frames}
  BY FrameFacts
<1>2. ASSUME NEW k \in 1..Len(frames)
      PROVE  /\ FramePositions[k] = map[frames[k].at]
             /\ frames[k].extended \/ frames[k].offset \in 0..SameFrameMax
             /\ tables.absolute[frames[k].at] = FramePositions[k]
  <2> DEFINE t == frames[k].at
             o == frames[k].offset
  <2>1. t \in 1..Len(code) /\ map[t] \in Nat /\ (frames[k].extended <=> o > SameFrameMax)
    BY FrameFacts
  <2>2. FramePositions[k] = map[t]
    BY <2>1, PositionFacts
  <2>3. tables.absolute[t] = map[t]
    <3>1. DOMAIN code = 1..Len(code) /\ tables = NewTables
      BY RewroteFacts, InputFacts
    <3> QED
      BY <2>1, <3>1 DEF NewTables, AbsoluteOffsets
  <2>4. o \in Nat
    <3>1. CASE k = 1
      BY <2>1, <3>1, FrameFacts
    <3>2. CASE k # 1
      <4> DEFINE l == map[frames[k - 1].at]
                 m == map[t]
      <4>1. k \in 2..Len(frames)
        BY <3>2, FrameFacts
      <4>2. o = m - 1 - l /\ l < m
        BY <4>1, FrameFacts
      <4>3. l \in Nat /\ m \in Nat
        BY <4>1, FrameFacts
      <4> HIDE DEF l, m, o
      <4> QED
        BY <4>2, <4>3
    <3> QED
      BY <3>1, <3>2
  <2>5. SameFrameMax \in Nat
    BY CrwAssumption
  <2> HIDE DEF o
  <2>6. frames[k].extended \/ o \in 0..SameFrameMax
    BY <2>1, <2>4, <2>5
  <2> QED
    BY <2>2, <2>3, <2>6 DEF o
<1>3. {FramePositions[k] : k \in DOMAIN frames} = {map[t] : t \in Targets}
  <2>1. \A k \in DOMAIN frames : FramePositions[k] = map[frames[k].at] /\ frames[k].at \in Targets
    BY <1>1, <1>2
  <2>2. \A t \in Targets : \E k \in DOMAIN frames : frames[k].at = t
    BY <1>1
  <2> QED
    BY <2>1, <2>2
<1> QED
  BY <1>1, <1>2, <1>3, JumpFacts DEF FramesAtTargets

(* Copied code keeps its positions.                                        *)
LEMMA CopiedFacts ==
  ASSUME Working, InputInv
  PROVE  LET w == Copied(code)
         IN  /\ w \in Seq(Items) /\ Len(w) = Len(code) /\ DOMAIN w = 1..Len(code)
             /\ \A k \in 1..Len(code) :
                  /\ w[k] = Item(k, code[k].op, Length(code[k].op, start[k]),
                                 [d \in DOMAIN code[k].to |-> start[code[k].to[d]] - start[k]])
                  /\ Starts(w)[k] = start[k]
<1> DEFINE w == Copied(code)
           N == Len(code)
           S == Items
           G == Starts(w)
<1>1. /\ N \in Nat /\ DOMAIN code = 1..N /\ start = Layout(code)
      /\ \A i \in 1..N : code[i].op \in Opcodes /\ code[i].to \in Seq(1..N) /\ i \in 1..End
                         /\ i + 1 \in 1..End
      /\ End = N + 1
  BY InputFacts DEF InputInv
<1>2. /\ start \in [1..End -> Nat] /\ start[1] = 0
      /\ \A i \in 1..N : /\ Length(code[i].op, start[i]) \in 1..20
                         /\ start[i + 1] = start[i] + Length(code[i].op, start[i])
  BY StartFacts
<1>3. w = [i \in 1..N |->
             Item(i, code[i].op, Length(code[i].op, start[i]),
                  [d \in DOMAIN code[i].to |-> start[code[i].to[d]] - start[i]])]
  BY <1>1 DEF Copied
<1>4. ASSUME NEW i \in 1..N PROVE w[i] \in S
  <2> DEFINE t == code[i].to
             ds == [d \in DOMAIN t |-> start[t[d]] - start[i]]
             l == Length(code[i].op, start[i])
  <2>1. t \in Seq(1..N)
    BY <1>1
  <2>2. ds \in Seq(Int)
    <3>1. Len(t) \in Nat /\ DOMAIN t = 1..Len(t) /\ \A d \in 1..Len(t) : t[d] \in 1..N
      <4> DEFINE D == 1..N
      <4>1. t \in Seq(D)
        BY <2>1
      <4> HIDE DEF t, D
      <4>2. Len(t) \in Nat /\ DOMAIN t = 1..Len(t) /\ \A d \in 1..Len(t) : t[d] \in D
        BY <4>1
      <4> QED
        BY <4>2 DEF D
    <3>2. \A d \in 1..Len(t) : start[t[d]] \in Nat /\ start[i] \in Nat
      BY <1>1, <1>2, <3>1
    <3>3. \A d \in 1..Len(t) : start[t[d]] - start[i] \in Int
      BY <3>2
    <3> DEFINE e(d) == start[t[d]] - start[i]
    <3>4. ds = [d \in 1..Len(t) |-> e(d)] /\ \A d \in 1..Len(t) : e(d) \in Int
      BY <3>1, <3>3
    <3> HIDE DEF t, e, ds
    <3> QED
      BY <3>1, <3>4
  <2>3. w[i] = Item(i, code[i].op, l, ds)
    BY <1>3
  <2>4. l \in 1..20 /\ code[i].op \in Opcodes
    BY <1>1, <1>2
  <2> HIDE DEF ds, l
  <2> QED
    BY <2>2, <2>3, <2>4 DEF Items, Item
<1>5. w \in Seq(S) /\ Len(w) = N /\ DOMAIN w = 1..N
  <2>1. w = [i \in 1..N |-> w[i]]
    BY <1>3
  <2> HIDE DEF w, N, S
  <2> QED
    BY <1>1, <1>4, <2>1
<1>6. \A k \in 1..N : w[k].len = Length(code[k].op, start[k])
  BY <1>3 DEF Item
<1>7. \A k \in 1..N : w[k].len \in Nat
  <2>1. \A x \in 1..20 : x \in Nat
    OBVIOUS
  <2> QED
    BY <1>2, <1>6, <2>1
<1>8. G[1] = 0 /\ \A k \in 1..N : G[k + 1] = G[k] + w[k].len
  <2> HIDE DEF w, N
  <2> QED
    BY <1>1, <1>5, <1>7, StartsFacts
<1> DEFINE T == {k \in 1..(N + 1) : G[k] = start[k]}
<1>9. \A k \in 1..(N + 1) : k \in T
  <2>1. 1 \in T
    BY <1>1, <1>2, <1>8
  <2>2. ASSUME NEW k \in 1..((N + 1) - 1), k \in T PROVE k + 1 \in T
    <3>1. k \in 1..N /\ k + 1 \in 1..(N + 1)
      BY <1>1
    <3>2. G[k + 1] = start[k] + Length(code[k].op, start[k])
      BY <1>6, <1>8, <2>2, <3>1
    <3> QED
      BY <1>2, <3>1, <3>2
  <2> HIDE DEF T, N
  <2>3. 1 \in Int /\ N + 1 \in Int
    BY <1>1
  <2> QED
    BY <2>1, <2>2, <2>3, Climb
<1>10. \A k \in 1..N : k \in 1..(N + 1)
  BY <1>1
<1> QED
  BY <1>3, <1>5, <1>9, <1>10

(* In copied code the jumps arrive where they did.                         *)
LEMMA CopiedLands ==
  ASSUME MethodInv, Done, Copies, NEW k \in DOMAIN written
  PROVE  Lands(k) /\ Aligned(k)
<1> DEFINE N == Len(code)
<1>1. Working /\ InputInv /\ written = Copied(code)
  BY DEF MethodInv, CopyInv, Done, Working
<1>2. /\ DOMAIN written = 1..N /\ N \in Nat
      /\ \A j \in 1..N :
           /\ written[j] = Item(j, code[j].op, Length(code[j].op, start[j]),
                                [d \in DOMAIN code[j].to |-> start[code[j].to[d]] - start[j]])
           /\ Offsets[j] = start[j]
           /\ start[j] \in Nat
  BY <1>1, CopiedFacts, InputFacts, StartFacts DEF Offsets
<1>3. \A j \in 1..N : /\ written[j].from = j /\ written[j].what = code[j].op
                      /\ written[j].len = Length(code[j].op, start[j])
                      /\ written[j].deltas
                           = [d \in DOMAIN code[j].to |-> start[code[j].to[d]] - start[j]]
                      /\ code[j].op \in Opcodes
  BY <1>1, <1>2, InputFacts DEF Item
<1>4. ASSUME NEW t \in 1..N
      PROVE  Landing(t) = start[t]
  <2> DEFINE T == {j \in DOMAIN written : written[j].from = t /\ written[j].what \notin Passed}
             l == Min(T)
  <2>1. T = {t}
    <3>1. \A j \in 1..N : written[j].from = j /\ written[j].what \notin Passed
      BY <1>3, WhatFacts
    <3>2. T = {j \in 1..N : written[j].from = t /\ written[j].what \notin Passed}
      BY <1>2
    <3> HIDE DEF T, N
    <3> QED
      BY <3>1, <3>2
  <2>2. l = t
    <3>1. T \subseteq Nat /\ T # {}
      BY <2>1
    <3>2. l \in T
      BY <3>1, MinLeast
    <3> QED
      BY <2>1, <3>2
  <2>3. Landing(t) = Offsets[l]
    BY DEF Landing
  <2> HIDE DEF l
  <2> QED
    BY <1>2, <2>2, <2>3
<1>5. k \in 1..N
  BY <1>2
<1>6. Lands(k)
  <2>1. written[k].what # "inverse"
    BY <1>3, <1>5 DEF Opcodes, Fixed, Branches
  <2>2. ASSUME NEW d \in DOMAIN written[k].deltas
        PROVE  Offsets[k] + written[k].deltas[d] = Landing(code[written[k].from].to[d])
    <3> DEFINE t == code[k].to[d]
               x == start[t]
               y == start[k]
    <3>1. d \in DOMAIN code[k].to /\ written[k].deltas[d] = x - y
      <4> DEFINE f == [e \in DOMAIN code[k].to |-> start[code[k].to[e]] - start[k]]
      <4>1. written[k].deltas = f
        BY <1>3, <1>5
      <4>2. d \in DOMAIN f
        BY <2>2, <4>1
      <4>3. d \in DOMAIN code[k].to
        BY <4>2
      <4>4. f[d] = x - y
        BY <4>3
      <4> QED
        BY <4>1, <4>3, <4>4
    <3>2. t \in 1..N
      <4>1. code[k].to \in Seq(1..N)
        BY <1>1, <1>5, InputFacts
      <4> DEFINE D == 1..N
                 s == code[k].to
      <4>2. s \in Seq(D) /\ d \in DOMAIN s
        BY <3>1, <4>1
      <4> HIDE DEF D, s
      <4>3. s[d] \in D
        BY <4>2
      <4> QED
        BY <4>3 DEF D, s
    <3>3. x \in Nat /\ y \in Nat /\ Offsets[k] = y /\ Landing(t) = x /\ written[k].from = k
      BY <1>2, <1>3, <1>4, <1>5, <3>2
    <3> HIDE DEF x, y
    <3>4. Offsets[k] + written[k].deltas[d] = x
      BY <3>1, <3>3
    <3> QED
      BY <3>3, <3>4
  <2> QED
    BY <2>1, <2>2 DEF Lands
<1>7. Aligned(k)
  BY <1>2, <1>3, <1>5, ZenonT(40) DEF Aligned
<1> QED
  BY <1>6, <1>7

(* What the invariant says of the method that has been rewritten.          *)
LEMMA MethodConsequences ==
  ASSUME MethodInv
  PROVE  InjectionFits /\ BranchesLand /\ SwitchesAligned /\ RangesCover /\ FramesAtTargets
<1>1. InjectionFits
  BY FitsConsequence
<1>2. ASSUME Done, NEW k \in DOMAIN written
      PROVE  Lands(k) /\ Aligned(k)
  <2>1. CASE Copies
    BY <1>2, <2>1, CopiedLands
  <2>2. CASE ~Copies
    <3>1. Rewrote
      BY <1>2, <2>2 DEF Rewrote
    <3> QED
      BY <1>2, <3>1, RewroteLands, RewroteFacts
  <2> QED
    BY <2>1, <2>2
<1>3. BranchesLand
  BY <1>2 DEF BranchesLand, Lands
<1>4. SwitchesAligned
  BY <1>2 DEF SwitchesAligned, Aligned
<1>5. CASE Done /\ role # "skipped" /\ Short
  <2>1. Rewrote
    BY <1>5 DEF Rewrote, Copies
  <2> QED
    BY <1>1, <1>3, <1>4, <1>5, <2>1, CoverConsequence, FrameConsequence
<1>6. CASE ~(Done /\ role # "skipped" /\ Short)
  BY <1>1, <1>3, <1>4, <1>6 DEF RangesCover, FramesAtTargets
<1> QED
  BY <1>5, <1>6

=============================================================================

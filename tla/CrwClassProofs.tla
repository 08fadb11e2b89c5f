--------------------------- MODULE CrwClassProofs ---------------------------
(***************************************************************************)
(* Proofs about the rewriting of a class.  The invariant Inv joins that of *)
(* the method, CrwMethodProofs, with the stages of the class, the growth   *)
(* of the constant pool and its mirror, and what is promised of every      *)
(* attribute that has been written.  From it follow the properties of      *)
(* CrwClass and CrwMethod, for every class file of ClassAssumption and     *)
(* every set of trackers.                                                  *)
(***************************************************************************)
EXTENDS CrwMethodProofs, CrwClass

-----------------------------------------------------------------------------
(* The constant pool and its mirror.                                       *)

(* Slot i of the mirror s is for entry j of the pool x.                    *)
Slot(s, x, i, j) ==
  \/ At(x, j) = i /\ s[i] = x[j]
  \/ IsWide(x[j]) /\ At(x, j) + 1 = i /\ s[i] = Unused

(* The mirror s holds the first n entries of the pool x, or all of it.     *)
Mirrors(s, x, n) ==
  /\ Len(s) + 1 = At(x, n + 1)
  /\ \A i \in 1..Len(s) : \E j \in 1..n : Slot(s, x, i, j)
Decodes(s, x) == Mirrors(s, x, Len(x))

(* Each entry is behind the one before, and behind the unused slot too.    *)
LEMMA AtFacts ==
  ASSUME NEW x
  PROVE  /\ At(x, 1) = 1
         /\ \A k \in Nat : /\ IsFiniteSet(WideBefore(x, k)) /\ At(x, k) \in Nat
                           /\ k >= 1 => At(x, k + 1) = At(x, k) + (IF IsWide(x[k]) THEN 2 ELSE 1)
<1>1. ASSUME NEW k \in Nat PROVE IsFiniteSet(WideBefore(x, k))
  <2>1. IsFiniteSet(1..(k - 1))
    BY FS_Interval
  <2>2. WideBefore(x, k) \subseteq 1..(k - 1)
    BY DEF WideBefore
  <2> QED
    BY <2>1, <2>2, FS_Subset
<1>2. ASSUME NEW k \in Nat PROVE Cardinality(WideBefore(x, k)) \in Nat
  BY <1>1, FS_CardinalityType
<1>3. At(x, 1) = 1
  <2>1. WideBefore(x, 1) = {}
    BY DEF WideBefore
  <2>2. Cardinality({}) = 0
    BY FS_EmptySet
  <2> QED
    BY <2>1, <2>2 DEF At
<1>4. ASSUME NEW k \in Nat, k >= 1
      PROVE  At(x, k + 1) = At(x, k) + (IF IsWide(x[k]) THEN 2 ELSE 1)
  <2> DEFINE A == WideBefore(x, k)
             B == WideBefore(x, k + 1)
             a == Cardinality(A)
             b == Cardinality(B)
  <2>1. B = IF IsWide(x[k]) THEN A \cup {k} ELSE A
    <3>1. (k + 1) - 1 = k /\ \A j : j \in 1..k <=> j = k \/ j \in 1..(k - 1)
      BY <1>4
    <3>2. \A j : j \in B <=> (j = k \/ j \in 1..(k - 1)) /\ IsWide(x[j])
      BY <3>1 DEF WideBefore
    <3>3. \A j : j \in A <=> j \in 1..(k - 1) /\ IsWide(x[j])
      BY DEF WideBefore
    <3> HIDE DEF A, B
    <3>4. IsWide(x[k]) => B = A \cup {k}
      BY <3>2, <3>3
    <3>5. ~IsWide(x[k]) => B = A
      BY <3>2, <3>3
    <3> QED
      BY <3>4, <3>5
  <2>2. k \notin A /\ IsFiniteSet(A)
    BY <1>1 DEF WideBefore
  <2>3. Cardinality(A \cup {k}) = a + 1
    BY <2>2, FS_AddElement
  <2>4. a \in Nat /\ b \in Nat
    BY <1>2
  <2>5. At(x, k) = k + a /\ At(x, k + 1) = (k + 1) + b
    BY DEF At
  <2>6. b = IF IsWide(x[k]) THEN a + 1 ELSE a
    BY <2>1, <2>3
  <2> HIDE DEF a, b, A, B
  <2>7. CASE IsWide(x[k])
    BY <2>4, <2>5, <2>6, <2>7
  <2>8. CASE ~IsWide(x[k])
    BY <2>4, <2>5, <2>6, <2>8
  <2> QED
    BY <2>7, <2>8
<1>5. ASSUME NEW k \in Nat PROVE At(x, k) \in Nat
  BY <1>2 DEF At
<1> QED
  BY <1>1, <1>3, <1>4, <1>5

(* So entries further back are further back in the mirror.                 *)
LEMMA AtIncreases ==
  ASSUME NEW x, NEW n \in Nat, NEW i \in 1..(n + 1), NEW j \in 1..(n + 1), i < j
  PROVE  At(x, i) + (IF IsWide(x[i]) THEN 2 ELSE 1) <= At(x, j)
<1> DEFINE F == [k \in 1..(n + 1) |-> At(x, k)]
<1>1. \A k \in 1..(n + 1) : k \in Nat /\ k >= 1
  OBVIOUS
<1>2. \A k \in 1..(n + 1) : At(x, k) \in Int
  <2>1. \A k \in 1..(n + 1) : At(x, k) \in Nat
    BY <1>1, AtFacts
  <2> QED
    BY <2>1
<1>3. F \in [1..(n + 1) -> Int]
  BY <1>2
<1>4. \A k \in 1..(n + 1) : F[k] = At(x, k)
  OBVIOUS
<1>5. ASSUME NEW k \in 1..n PROVE F[k] < F[k + 1]
  <2>1. k \in 1..(n + 1) /\ k + 1 \in 1..(n + 1) /\ k \in Nat /\ k >= 1
    OBVIOUS
  <2>2. At(x, k + 1) = At(x, k) + (IF IsWide(x[k]) THEN 2 ELSE 1) /\ At(x, k) \in Nat
    BY <2>1, AtFacts
  <2> HIDE DEF F
  <2> QED
    BY <1>4, <2>1, <2>2
<1> HIDE DEF F
<1>6. \A k \in 1..(n + 1) : \A l \in 1..(n + 1) : k < l => F[k] < F[l]
  BY <1>3, <1>5, Increasing
<1>7. i + 1 \in 1..(n + 1) /\ (i + 1 = j \/ i + 1 < j)
  OBVIOUS
<1>8. At(x, i + 1) = At(x, i) + (IF IsWide(x[i]) THEN 2 ELSE 1)
  BY <1>1, AtFacts
<1>9. i + 1 < j => At(x, i + 1) < At(x, j)
  BY <1>4, <1>6, <1>7
<1>10. At(x, i + 1) \in Int /\ At(x, j) \in Int
  BY <1>2, <1>7
<1>11. At(x, i + 1) <= At(x, j)
  BY <1>7, <1>9, <1>10
<1> QED
  BY <1>8, <1>11

(* Entries of one slot go behind the others, in the mirror and the pool.   *)
LEMMA ConcatDecodes ==
  ASSUME NEW E, NEW s \in Seq(E), NEW x \in Seq(E), NEW new \in Seq(E),
         Decodes(s, x), \A k \in 1..Len(new) : ~IsWide(new[k])
  PROVE  Decodes(s \o new, x \o new)
<1> DEFINE n == Len(x)
           m == Len(s)
           l == Len(new)
           y == x \o new
           t == s \o new
<1>1. s \in Seq(E) /\ x \in Seq(E) /\ new \in Seq(E)
  OBVIOUS
<1>2. n \in Nat /\ m \in Nat /\ l \in Nat
  BY <1>1
<1>3. /\ Len(y) = n + l /\ \A k \in 1..(n + l) : y[k] = IF k <= n THEN x[k] ELSE new[k - n]
      /\ Len(t) = m + l /\ \A k \in 1..(m + l) : t[k] = IF k <= m THEN s[k] ELSE new[k - m]
  BY <1>1, ConcatProperties
<1>4. m + 1 = At(x, n + 1) /\ \A i \in 1..m : \E j \in 1..n : Slot(s, x, i, j)
  BY DEF Decodes, Mirrors
<1> HIDE DEF y, t, n, m, l
<1>5. \A k \in 1..n : y[k] = x[k] /\ k \in 1..(n + l)
  BY <1>2, <1>3
<1>6. \A k \in 1..l : y[n + k] = new[k] /\ n + k \in 1..(n + l)
  <2> SUFFICES ASSUME NEW k \in 1..l PROVE y[n + k] = new[k] /\ n + k \in 1..(n + l)
    OBVIOUS
  <2>1. n + k \in 1..(n + l) /\ ~(n + k <= n) /\ (n + k) - n = k
    BY <1>2
  <2> QED
    BY <1>3, <2>1
<1>7. \A k \in 1..l : t[m + k] = new[k] /\ m + k \in 1..(m + l)
  <2> SUFFICES ASSUME NEW k \in 1..l PROVE t[m + k] = new[k] /\ m + k \in 1..(m + l)
    OBVIOUS
  <2>1. m + k \in 1..(m + l) /\ ~(m + k <= m) /\ (m + k) - m = k
    BY <1>2
  <2> QED
    BY <1>3, <2>1
<1>8. ASSUME NEW k \in 1..(n + 1) PROVE At(y, k) = At(x, k)
  <2>1. \A j \in 1..(k - 1) : j \in 1..n
    BY <1>2
  <2>2. WideBefore(y, k) = WideBefore(x, k)
    BY <1>5, <2>1 DEF WideBefore
  <2> QED
    BY <2>2 DEF At
<1>9. ASSUME NEW k \in 1..(l + 1) PROVE At(y, n + k) = m + k
  <2>1. \A j : j \in 1..((n + k) - 1) <=>
          j \in 1..((n + 1) - 1) \/ (j \in 1..((n + k) - 1) /\ j > n)
    BY <1>2
  <2>2. ASSUME NEW j \in 1..((n + k) - 1), j > n PROVE ~IsWide(y[j])
    <3>1. j - n \in 1..l /\ n + (j - n) = j
      BY <1>2, <2>2
    <3>2. y[j] = new[j - n]
      BY <1>6, <3>1
    <3>3. \A i \in 1..l : ~IsWide(new[i])
      BY DEF l
    <3> QED
      BY <3>1, <3>2, <3>3
  <2>3. \A j \in 1..((n + 1) - 1) : j \in 1..n
    BY <1>2
  <2>4. WideBefore(y, n + k) = WideBefore(x, n + 1)
    BY <1>5, <2>1, <2>2, <2>3 DEF WideBefore
  <2>5. Cardinality(WideBefore(x, n + 1)) \in Nat
    <3>1. n + 1 \in Nat
      BY <1>2
    <3>2. IsFiniteSet(WideBefore(x, n + 1))
      BY <3>1, AtFacts
    <3> QED
      BY <3>2, FS_CardinalityType
  <2> DEFINE c == Cardinality(WideBefore(x, n + 1))
  <2>6. At(y, n + k) = (n + k) + c /\ m + 1 = (n + 1) + c
    BY <1>4, <2>4 DEF At
  <2> HIDE DEF c
  <2>7. c \in Nat
    BY <2>5 DEF c
  <2> QED
    BY <1>2, <2>6, <2>7
<1>10. Len(t) + 1 = At(y, Len(y) + 1)
  <2>1. l + 1 \in 1..(l + 1) /\ (n + l) + 1 = n + (l + 1) /\ m + (l + 1) = (m + l) + 1
    BY <1>2
  <2> QED
    BY <1>3, <1>9, <2>1
<1>11. ASSUME NEW i \in 1..(m + l) PROVE \E j \in 1..(n + l) : Slot(t, y, i, j)
  <2>1. CASE i <= m
    <3>1. i \in 1..m /\ t[i] = s[i]
      BY <1>2, <1>3, <2>1
    <3>2. PICK j \in 1..n : Slot(s, x, i, j)
      BY <1>4, <3>1
    <3>3. j \in 1..(n + 1) /\ j \in 1..(n + l)
      BY <1>2
    <3>4. At(y, j) = At(x, j) /\ y[j] = x[j]
      BY <1>5, <1>8, <3>3
    <3> QED
      BY <3>1, <3>2, <3>3, <3>4 DEF Slot
  <2>2. CASE ~(i <= m)
    <3> DEFINE k == i - m
    <3>1. k \in 1..l /\ k \in 1..(l + 1) /\ m + k = i
      BY <1>2, <2>2
    <3> HIDE DEF k
    <3>2. At(y, n + k) = i /\ t[i] = new[k] /\ y[n + k] = new[k] /\ n + k \in 1..(n + l)
      BY <1>6, <1>7, <1>9, <3>1
    <3> QED
      BY <3>2 DEF Slot
  <2> QED
    BY <2>1, <2>2
<1> QED
  BY <1>3, <1>10, <1>11 DEF Decodes, Mirrors, y, t

(* One entry, with its one or two slots.                                   *)
LEMMA AddFacts ==
  ASSUME NEW E, Unused \in E, NEW s \in Seq(E), NEW e \in E
  PROVE  LET t == AddSlots(s, e)
         IN  /\ t \in Seq(E)
             /\ Len(t) = Len(s) + (IF IsWide(e) THEN 2 ELSE 1)
             /\ \A i \in 1..Len(s) : t[i] = s[i]
             /\ t[Len(s) + 1] = e
             /\ IsWide(e) => t[Len(s) + 2] = Unused
<1> DEFINE t == AddSlots(s, e)
           u == Unused
           n == Len(s)
<1>1. u \in E
  OBVIOUS
<1>2. s \in Seq(E) /\ e \in E
  OBVIOUS
<1> HIDE DEF u
<1>3. n \in Nat
  BY <1>2
<1>4. CASE IsWide(e)
  <2> DEFINE r == <<e, u>>
  <2>1. r \in Seq(E) /\ Len(r) = 2 /\ r[1] = e /\ r[2] = u
    BY <1>1, <1>2
  <2>2. t = s \o r
    BY <1>4 DEF AddSlots, u
  <2> HIDE DEF r, t
  <2>3. /\ s \o r \in Seq(E) /\ Len(s \o r) = Len(s) + Len(r)
        /\ \A i \in 1..(Len(s) + Len(r)) : (s \o r)[i] = IF i <= Len(s) THEN s[i] ELSE r[i - Len(s)]
    BY <1>2, <2>1, ConcatProperties
  <2>4. \A i \in 1..(n + 2) : t[i] = IF i <= n THEN s[i] ELSE r[i - n]
    BY <2>1, <2>2, <2>3
  <2>5. t \in Seq(E) /\ Len(t) = n + 2
    BY <2>1, <2>2, <2>3
  <2> HIDE DEF n
  <2>6. /\ \A i \in 1..n : t[i] = s[i]
        /\ t[n + 1] = e /\ t[n + 2] = u
    <3>1. /\ n + 1 \in 1..(n + 2) /\ n + 2 \in 1..(n + 2) /\ ~(n + 1 <= n) /\ ~(n + 2 <= n)
          /\ (n + 1) - n = 1 /\ (n + 2) - n = 2
      BY <1>3
    <3>2. \A i \in 1..n : i \in 1..(n + 2) /\ i <= n
      BY <1>3
    <3> QED
      BY <2>1, <2>4, <3>1, <3>2
  <2> QED
    BY <1>4, <2>5, <2>6 DEF n, t, u
<1>5. CASE ~IsWide(e)
  <2> DEFINE r == <<e>>
  <2>1. r \in Seq(E) /\ Len(r) = 1 /\ r[1] = e
    BY <1>2
  <2>2. t = s \o r
    BY <1>5 DEF AddSlots
  <2> HIDE DEF r, t
  <2>3. /\ s \o r \in Seq(E) /\ Len(s \o r) = Len(s) + Len(r)
        /\ \A i \in 1..(Len(s) + Len(r)) : (s \o r)[i] = IF i <= Len(s) THEN s[i] ELSE r[i - Len(s)]
    BY <1>2, <2>1, ConcatProperties
  <2>4. \A i \in 1..(n + 1) : t[i] = IF i <= n THEN s[i] ELSE r[i - n]
    BY <2>1, <2>2, <2>3
  <2>5. t \in Seq(E) /\ Len(t) = n + 1
    BY <2>1, <2>2, <2>3
  <2> HIDE DEF n
  <2>6. /\ \A i \in 1..n : t[i] = s[i]
        /\ t[n + 1] = e
    <3>1. n + 1 \in 1..(n + 1) /\ ~(n + 1 <= n) /\ (n + 1) - n = 1
      BY <1>3
    <3>2. \A i \in 1..n : i \in 1..(n + 1) /\ i <= n
      BY <1>3
    <3> QED
      BY <2>1, <2>4, <3>1, <3>2
  <2> QED
    BY <1>5, <2>5, <2>6 DEF n, t
<1> QED
  BY <1>4, <1>5

MirrorBody(items, f) ==
  [k \in 0..Len(items) |-> IF k = 0 THEN <<>> ELSE AddSlots(f[k - 1], items[k])]

(* The mirror of the pool of a class file.                                 *)
LEMMA MirrorFacts ==
  ASSUME NEW E, Unused \in E, NEW x \in Seq(E)
  PROVE  Mirror(x) \in Seq(E) /\ Decodes(Mirror(x), x)
<1> DEFINE S == Seq(E)
           n == Len(x)
           g == [p \in ((0 + 1)..n) \X S |-> AddSlots(p[2], x[p[1]])]
<1>1. n \in Nat /\ \A k \in 1..n : x[k] \in E
  OBVIOUS
<1>2. <<>> \in S
  OBVIOUS
<1>3. \A k \in 1..n : \A s \in S : AddSlots(s, x[k]) \in S
  BY <1>1, AddFacts
<1> HIDE DEF S, n
<1>4. g \in [((0 + 1)..n) \X S -> S]
  BY <1>3
<1>5. \A k \in 1..n : \A s \in S : g[<<k, s>>] = AddSlots(s, x[k])
  OBVIOUS
<1> HIDE DEF g
<1>6. PICK f \in [0..n -> S] : Follows(0, n, <<>>, g, f)
  <2>1. 0 \in Int /\ n \in Int
    BY <1>1
  <2> QED
    BY <1>2, <1>4, <2>1, Recursion
<1>7. \A k \in 0..n : f[k] = IF k = 0 THEN <<>> ELSE AddSlots(f[k - 1], x[k])
  <2>1. \A k \in 0..n : f[k] = IF k = 0 THEN <<>> ELSE g[<<k, f[k - 1]>>]
    BY <1>6 DEF Follows
  <2>2. \A k \in 0..n : k # 0 => k \in 1..n /\ f[k - 1] \in S
    BY <1>1
  <2> QED
    BY <1>5, <2>1, <2>2
<1>8. f = MirrorBody(x, f)
  BY <1>7, Zenon DEF MirrorBody, n
<1> DEFINE F == CHOOSE h : h = MirrorBody(x, h)
<1>9. Mirror(x) = F[Len(x)]
  BY Zenon DEF Mirror, MirrorBody
<1>10. F = MirrorBody(x, F)
  BY <1>8, Zenon
<1> HIDE DEF F
<1>11. F = [k \in 0..n |-> IF k = 0 THEN <<>> ELSE AddSlots(F[k - 1], x[k])]
  BY <1>10, Zenon DEF MirrorBody, n
<1>12. F[0] = <<>> /\ \A k \in 0..(n - 1) : F[k + 1] = AddSlots(F[k], x[k + 1]) /\ k + 1 \in 1..n
  <2>1. F[0] = <<>>
    BY <1>1, <1>11
  <2>2. ASSUME NEW k \in 0..(n - 1)
        PROVE  F[k + 1] = AddSlots(F[k], x[k + 1]) /\ k + 1 \in 1..n
    <3>1. k + 1 \in 0..n /\ k + 1 # 0 /\ (k + 1) - 1 = k /\ k + 1 \in 1..n
      BY <1>1
    <3>2. F[k + 1] = AddSlots(F[(k + 1) - 1], x[k + 1])
      BY <1>11, <3>1
    <3> QED
      BY <3>1, <3>2
  <2> QED
    BY <2>1, <2>2
<1> DEFINE Q == {k \in 0..n : F[k] \in S /\ Mirrors(F[k], x, k)}
<1>13. 0 \in Q
  <2>1. Len(<<>>) = 0 /\ \A i : i \notin 1..0
    OBVIOUS
  <2>2. At(x, 0 + 1) = 0 + 1
    <3>1. 0 + 1 = 1
      OBVIOUS
    <3> QED
      BY <3>1, AtFacts
  <2>3. Mirrors(<<>>, x, 0)
    BY <2>1, <2>2 DEF Mirrors
  <2> QED
    BY <1>1, <1>2, <1>12, <2>3
<1>14. ASSUME NEW k \in 0..(n - 1), k \in Q PROVE k + 1 \in Q
  <2> DEFINE s == F[k]
             e == x[k + 1]
             t == AddSlots(s, e)
             m == Len(s)
  <2>1. s \in S /\ Mirrors(s, x, k) /\ F[k + 1] = t /\ k + 1 \in 1..n /\ k \in Nat
        /\ k + 1 \in 0..n
    BY <1>1, <1>12, <1>14
  <2>2. e \in E
    BY <1>1, <2>1
  <2>3. /\ t \in S
        /\ Len(t) = m + (IF IsWide(e) THEN 2 ELSE 1)
        /\ \A i \in 1..m : t[i] = s[i]
        /\ t[m + 1] = e
        /\ IsWide(e) => t[m + 2] = Unused
    BY <2>1, <2>2, AddFacts DEF S
  <2>4. m \in Nat
    <3>1. s \in Seq(E)
      BY <2>1 DEF S
    <3> HIDE DEF s
    <3> QED
      BY <3>1
  <2>5. m + 1 = At(x, k + 1) /\ \A i \in 1..m : \E j \in 1..k : Slot(s, x, i, j)
    BY <2>1 DEF Mirrors
  <2>6. At(x, (k + 1) + 1) = At(x, k + 1) + (IF IsWide(e) THEN 2 ELSE 1)
    <3>1. k + 1 \in Nat /\ k + 1 >= 1
      BY <2>1
    <3> QED
      BY <3>1, AtFacts
  <2> HIDE DEF s, t, m
  <2> DEFINE w == IF IsWide(e) THEN 2 ELSE 1
             a == At(x, k + 1)
  <2>7. w \in Nat /\ (w = 1 \/ (w = 2 /\ IsWide(e))) /\ a = m + 1 /\ Len(t) = m + w
        /\ At(x, (k + 1) + 1) = a + w
    BY <2>3, <2>5, <2>6
  <2> HIDE DEF w
  <2>8. Len(t) + 1 = At(x, (k + 1) + 1)
    BY <2>4, <2>7
  <2>9. ASSUME NEW i \in 1..Len(t) PROVE \E j \in 1..(k + 1) : Slot(t, x, i, j)
    <3>1. i \in 1..m \/ i = m + 1 \/ (i = m + 2 /\ IsWide(e))
      <4> HIDE DEF e
      <4> QED
        BY <2>4, <2>7
    <3>2. CASE i \in 1..m
      <4>1. PICK j \in 1..k : Slot(s, x, i, j)
        BY <2>5, <3>2
      <4>2. j \in 1..(k + 1)
        BY <2>1
      <4> QED
        BY <2>3, <3>2, <4>1, <4>2 DEF Slot
    <3>3. k + 1 \in 1..(k + 1)
      BY <2>1
    <3>4. CASE i = m + 1
      BY <2>3, <2>5, <3>3, <3>4 DEF Slot
    <3>5. CASE i = m + 2 /\ IsWide(e)
      <4>1. At(x, k + 1) + 1 = i
        BY <2>4, <2>5, <3>5
      <4> QED
        BY <2>3, <3>3, <3>5, <4>1 DEF Slot
    <3> QED
      BY <3>1, <3>2, <3>4, <3>5
  <2> QED
    BY <2>1, <2>3, <2>8, <2>9 DEF Mirrors
<1>15. n \in Q
  <2> HIDE DEF Q
  <2>1. 0 \in Int /\ n \in Int /\ n \in 0..n
    BY <1>1
  <2>2. \A k \in 0..n : k \in Q
    BY <1>13, <1>14, <2>1, Climb
  <2> QED
    BY <2>1, <2>2
<1> QED
  BY <1>9, <1>15 DEF Decodes, S, n

(* What a JVM finds in a pool is what its mirror says.                     *)
LEMMA EntryFacts ==
  ASSUME NEW E, NEW s \in Seq(E), NEW x \in Seq(E), Decodes(s, x)
  PROVE  /\ \A i \in 1..Len(s) : EntryAt(x, i) = s[i]
         /\ EntryAt(x, Len(s) + 1) = Unused
         /\ \A i : EntryAt(x, i) # Unused => i \in 1..Len(s)
<1> DEFINE n == Len(x)
           m == Len(s)
           c == m + 1
           found(i) == {k \in 1..n : At(x, k) = i}
<1>1. n \in Nat /\ m \in Nat /\ DOMAIN x = 1..n
  OBVIOUS
<1>2. \A i : EntryAt(x, i) = IF found(i) = {} THEN Unused ELSE x[CHOOSE k \in found(i) : TRUE]
  <2> SUFFICES ASSUME NEW i
               PROVE  EntryAt(x, i)
                      = IF found(i) = {} THEN Unused ELSE x[CHOOSE k \in found(i) : TRUE]
    OBVIOUS
  <2> DEFINE A == {k \in DOMAIN x : At(x, k) = i}
             B == found(i)
  <2>1. A = B
    BY <1>1
  <2>2. EntryAt(x, i) = IF A = {} THEN Unused ELSE x[CHOOSE k \in A : TRUE]
    BY Zenon DEF EntryAt
  <2> HIDE DEF A, B
  <2>3. EntryAt(x, i) = IF B = {} THEN Unused ELSE x[CHOOSE k \in B : TRUE]
    BY <2>1, <2>2
  <2> QED
    BY Zenon, <2>3 DEF B
<1>3. m + 1 = At(x, n + 1) /\ \A i \in 1..m : \E j \in 1..n : Slot(s, x, i, j)
  BY DEF Decodes, Mirrors
<1>4. c = m + 1
  OBVIOUS
<1> HIDE DEF n, m, c
<1>5. \A k \in 1..(n + 1) : At(x, k) \in Nat
  <2>1. \A k \in 1..(n + 1) : k \in Nat
    BY <1>1
  <2> QED
    BY <2>1, AtFacts
<1>6. ASSUME NEW i \in 1..(n + 1), NEW j \in 1..(n + 1), i < j
      PROVE  At(x, i) + (IF IsWide(x[i]) THEN 2 ELSE 1) <= At(x, j)
  BY <1>1, <1>6, AtIncreases
<1>7. \A k \in 1..n : k \in 1..(n + 1) /\ k < n + 1
  BY <1>1
<1>8. n + 1 \in 1..(n + 1)
  BY <1>1
<1>9. ASSUME NEW i \in 1..m PROVE EntryAt(x, i) = s[i]
  <2>1. PICK j \in 1..n : Slot(s, x, i, j)
    BY <1>3
  <2>3. CASE At(x, j) = i /\ s[i] = x[j]
    <3>1. ASSUME NEW k \in 1..n, At(x, k) = i PROVE k = j
      <4>1. k < j => At(x, k) + (IF IsWide(x[k]) THEN 2 ELSE 1) <= At(x, j)
        BY <1>6, <1>7
      <4>2. j < k => At(x, j) + (IF IsWide(x[j]) THEN 2 ELSE 1) <= At(x, k)
        BY <1>6, <1>7
      <4>3. i \in Int /\ j \in Int /\ k \in Int
        BY <1>1
      <4> QED
        BY <2>3, <3>1, <4>1, <4>2, <4>3
    <3>2. found(i) = {j}
      BY <2>3, <3>1
    <3> HIDE DEF found
    <3>3. (CHOOSE k \in found(i) : TRUE) = j
      BY <3>2
    <3> QED
      BY <1>2, <2>3, <3>2, <3>3
  <2>4. CASE IsWide(x[j]) /\ At(x, j) + 1 = i /\ s[i] = Unused
    <3>1. ASSUME NEW k \in 1..n, At(x, k) = i PROVE FALSE
      <4>1. k < j => At(x, k) + (IF IsWide(x[k]) THEN 2 ELSE 1) <= At(x, j)
        BY <1>6, <1>7
      <4>2. j < k => At(x, j) + 2 <= At(x, k)
        BY <1>6, <1>7, <2>4
      <4>3. i \in Int /\ j \in Int /\ k \in Int /\ At(x, j) \in Nat
        BY <1>1, <1>5, <1>7
      <4> QED
        BY <2>4, <3>1, <4>1, <4>2, <4>3
    <3>2. found(i) = {}
      BY <3>1
    <3> QED
      BY <1>2, <2>4, <3>2
  <2> QED
    BY <2>1, <2>3, <2>4 DEF Slot
<1>10. EntryAt(x, c) = Unused
  <2>1. ASSUME NEW k \in 1..n, At(x, k) = c PROVE FALSE
    <3>1. At(x, k) + (IF IsWide(x[k]) THEN 2 ELSE 1) <= At(x, n + 1)
      BY <1>6, <1>7, <1>8
    <3> QED
      BY <1>1, <1>3, <1>4, <2>1, <3>1
  <2>2. found(c) = {}
    BY <2>1
  <2> QED
    BY <1>2, <2>2
<1>11. ASSUME NEW i, EntryAt(x, i) # Unused PROVE i \in 1..m
  <2>1. PICK k \in 1..n : At(x, k) = i
    BY <1>2, <1>11
  <2>2. At(x, k) + (IF IsWide(x[k]) THEN 2 ELSE 1) <= At(x, n + 1)
    BY <1>6, <1>7, <1>8
  <2>3. k = 1 \/ At(x, 1) + (IF IsWide(x[1]) THEN 2 ELSE 1) <= At(x, k)
    BY <1>1, <1>6, <1>7
  <2>4. At(x, 1) = 1 /\ At(x, k) \in Nat
    BY <1>5, <1>7, AtFacts
  <2> QED
    BY <1>1, <1>3, <2>1, <2>2, <2>3, <2>4
<1> QED
  BY <1>9, <1>10, <1>11 DEF m, c

(* The same of the pool that is written.                                   *)
LEMMA DecodedFacts ==
  ASSUME NEW E, cpool.slots \in Seq(E), cpool.items \in Seq(E),
         Decodes(cpool.slots, cpool.items), cpool.count = Len(cpool.slots) + 1
  PROVE  /\ \A i \in 1..Len(cpool.slots) : Decoded[i] = cpool.slots[i]
         /\ Decoded[cpool.count] = Unused
<1> DEFINE s == cpool.slots
           x == cpool.items
           m == Len(s)
<1>1. s \in Seq(E) /\ x \in Seq(E) /\ Decodes(s, x) /\ m \in Nat /\ cpool.count = m + 1
  OBVIOUS
<1>2. /\ \A i \in 1..m : EntryAt(x, i) = s[i]
      /\ EntryAt(x, m + 1) = Unused
  BY <1>1, EntryFacts
<1>3. \A i \in 0..cpool.count : Decoded[i] = EntryAt(x, i)
  BY DEF Decoded
<1> HIDE DEF m, s, x
<1>4. \A i \in 1..m : i \in 0..cpool.count
  BY <1>1
<1>5. cpool.count \in 0..cpool.count
  BY <1>1
<1> QED
  BY <1>1, <1>2, <1>3, <1>4, <1>5 DEF m, s, x

-----------------------------------------------------------------------------
(* The invariant of the class.                                             *)

(* The entries that are added, and all that the pool may hold.             *)
NewTags == {"Utf8", "Integer", "Class", "NameAndType", "Methodref"}
NewTexts == {"", TrackerClass, Call, Constructed} \cup Trackers
New == [tag : NewTags, text : NewTexts, index1 : Nat, index2 : Nat]
Known == ToSet(file.pool) \cup {Unused} \cup New

Pools == [slots : Seq(Known), items : Seq(Known), class : Nat, count : Nat,
          index : [Trackers -> Nat]]

Old == Mirror(file.pool)
Loaded == stage \notin {"arguments", "aborted"} /\ ~input.empty
NeedsNumber == trackers \cap {"call_tracker", "return_tracker"} # {} /\ ClassNumber > 32767
Indexed == {t \in trackers : cpool.index[t] # 0}

(* How many entries are added.                                             *)
Added ==
  IF stage = "number" THEN 0
  ELSE (IF NeedsNumber THEN 1 ELSE 0)
       + (IF stage = "class" THEN 0 ELSE 2 + 4 * Cardinality(Indexed))

(* The new entries are behind the old ones, in the mirror and the image.   *)
Grown ==
  \E new \in Seq(New) : /\ Len(new) = Added
                        /\ cpool.slots = Old \o new
                        /\ cpool.items = file.pool \o new

NumberFound ==
  /\ ClassNumberIndex \in 1..Len(cpool.slots)
  /\ cpool.slots[ClassNumberIndex] = NumberEntry

ClassFound ==
  LET c == cpool.class
  IN  /\ c \in 2..Len(cpool.slots)
      /\ cpool.slots[c] = Entry("Class", "", c - 1, 0)
      /\ cpool.slots[c - 1] = Utf8(TrackerClass)

MethodFound(t) ==
  LET n == cpool.index[t]
  IN  /\ n \in 4..Len(cpool.slots)
      /\ cpool.slots[n] = Entry("Methodref", "", cpool.class, n - 1)
      /\ cpool.slots[n - 1] = Entry("NameAndType", "", n - 3, n - 2)
      /\ cpool.slots[n - 2] = Utf8(Signature(t))
      /\ cpool.slots[n - 3] = Utf8(t)

PoolInv ==
  /\ cpool \in Pools
  /\ stage \in {"arguments", "number", "class"} => Indexed = {}
  /\ Loaded =>
       /\ Decodes(cpool.slots, cpool.items)
       /\ Grown
       /\ stage # "number" /\ NeedsNumber => NumberFound
       /\ stage \notin {"number", "class"} => ClassFound
       /\ \A t \in Indexed : MethodFound(t)
       /\ stage \notin {"number", "class", "trackers"} =>
            /\ Unindexed = {}
            /\ cpool.count = Len(cpool.slots) + 1

(* An item as it can be written.                                           *)
AnyItem == [from : Nat, what : Trackers \cup Opcodes \cup {"inverse"}, len : Nat, deltas : Seq(Int)]

BeforeMethods == {"arguments", "number", "class", "trackers", "header", "aborted"}

(* Is method m the constructor of Object, by the pool of the class file?   *)
IsObjectConstructor(m) ==
  /\ file.name = "java/lang/Object"
  /\ Old[file.methods[m].name].text = "<init>"
  /\ Old[file.methods[m].descr].text = "()V"

StageInv ==
  /\ input \in Inputs /\ \A c \in Bodies(file) : Encodable(c)
  /\ trackers = input.trackers
  /\ stage \in BeforeMethods \cup {"methods", "attributes", "code", "returned"}
  /\ stage \in {"number", "class", "trackers", "header", "methods", "attributes", "code"} => Loaded
  /\ isObjectClass \in BOOLEAN /\ image \in BOOLEAN
  /\ stage \in {"methods", "attributes", "code"} => (isObjectClass <=> ~file.hasSuper)
  /\ mnum \in 0..Len(file.methods)
  /\ output \in Seq(Seq(Seq(AnyItem))) /\ Len(output) = mnum
  /\ mnum > 0 => Loaded /\ stage \notin BeforeMethods
  /\ stage \in {"attributes", "code"} => mnum # 0 /\ attribute = Len(output[mnum])
  /\ \A m \in 1..mnum : Len(output[m]) <= Len(file.methods[m].attributes)
  /\ IF stage = "code"
     THEN /\ Working /\ HasAttribute
          /\ code = Attribute.body
          /\ role = "objectInit" <=> IsObjectConstructor(mnum)
     ELSE ~Working

(* What is written for an attribute of method m with this body.            *)
AsPromised(m, body, items) ==
  LET tracking == {k \in DOMAIN items : items[k].what = "obj_init_tracker"}
      tracked == IsObjectConstructor(m) /\ "obj_init_tracker" \in trackers /\ body # <<>>
  IN  /\ tracking = IF tracked THEN {1} ELSE {}
      /\ trackers = {"obj_init_tracker"} /\ ~tracked => items = Copied(body)
Attributed(m, a) == AsPromised(m, file.methods[m].attributes[a].body, output[m][a])

OutputInv ==
  /\ \A m \in 1..mnum : \A a \in 1..Len(output[m]) : Attributed(m, a)
  /\ injectionCount \in Nat
  /\ injectionCount > 0 <=> \E m \in 1..mnum : \E a \in 1..Len(output[m]) :
                              CallsIn(output[m][a]) # {}
  /\ Returned => (image <=> injectionCount > 0)
  /\ ~Returned => image = FALSE

ClassInv == StageInv /\ PoolInv /\ OutputInv

-----------------------------------------------------------------------------
(* Every step extends the pool as it should.                               *)

(* A new entry has one slot, and is none of the unused ones.               *)
LEMMA NewFacts ==
  /\ \A e \in New : ~IsWide(e) /\ e # Unused
  /\ \A tag \in NewTags : \A text \in NewTexts : \A i \in Nat : \A j \in Nat :
       Entry(tag, text, i, j) \in New
  /\ \A t \in Trackers : Utf8(t) \in New /\ Utf8(Signature(t)) \in New
  /\ Utf8(TrackerClass) \in New /\ NumberEntry \in New
  /\ \A i \in Nat : \A j \in Nat : /\ Entry("Integer", "", i, j) \in New
                                   /\ Entry("Class", "", i, j) \in New
                                   /\ Entry("NameAndType", "", i, j) \in New
                                   /\ Entry("Methodref", "", i, j) \in New
<1>1. \A e \in New : e.tag \in NewTags
  BY DEF New
<1>2. \A tag \in NewTags : tag \notin {"Long", "Double", "none"}
  BY DEF NewTags
<1>3. \A e \in New : ~IsWide(e) /\ e # Unused
  <2>1. Unused.tag = "none"
    BY DEF Unused, Entry
  <2> SUFFICES ASSUME NEW e \in New PROVE ~IsWide(e) /\ e # Unused
    OBVIOUS
  <2>2. e.tag \notin {"Long", "Double", "none"}
    BY <1>1, <1>2
  <2>3. ~IsWide(e)
    BY <2>2 DEF IsWide
  <2> QED
    BY <2>1, <2>2, <2>3
<1>4. \A tag \in NewTags : \A text \in NewTexts : \A i \in Nat : \A j \in Nat :
        Entry(tag, text, i, j) \in New
  BY DEF New, Entry
<1>5. 0 \in Nat /\ {"Utf8", "Integer", "Class", "NameAndType", "Methodref"} \subseteq NewTags
  BY DEF NewTags
<1>6. "" \in NewTexts /\ TrackerClass \in NewTexts
  BY DEF NewTexts
<1>7. \A t \in Trackers : t \in NewTexts /\ Signature(t) \in NewTexts
  BY DEF NewTexts, Signature
<1>8. NumberEntry \in New
  <2> DEFINE high == ClassNumber \div 65536
             low == ClassNumber % 65536
  <2>1. high \in Nat /\ low \in Nat
    BY CrwAssumption
  <2>2. NumberEntry = Entry("Integer", "", high, low)
    BY DEF NumberEntry
  <2> HIDE DEF high, low
  <2> QED
    BY <1>4, <1>5, <1>6, <2>1, <2>2
<1> QED
  BY <1>3, <1>4, <1>5, <1>6, <1>7, <1>8 DEF Utf8

(* The class file and what is known of it.                                 *)
LEMMA FileFacts ==
  ASSUME input \in Inputs
  PROVE  /\ input.trackers \subseteq Trackers
         /\ input.empty \in BOOLEAN /\ file.hasSuper \in BOOLEAN
         /\ file.hasSuper <=> file.name # "java/lang/Object"
         /\ IsClassFile(file)
         /\ ClassNumber > 32767 => ClassNumberIndex = At(file.pool, Len(file.pool) + 1)
<1>1. file.hasSuper <=> file.name # "java/lang/Object"
  BY ClassAssumption DEF file, IsClassFile
<1>2. /\ input.trackers \subseteq Trackers
      /\ input.empty \in BOOLEAN /\ file.hasSuper \in BOOLEAN
      /\ IsClassFile(file)
  BY ClassAssumption DEF file
<1>3. file.pool \in {i.file.pool : i \in Inputs}
  BY DEF file
<1> QED
  BY <1>1, <1>2, <1>3, ClassAssumption

(* The mirror of the old pool; a string of it is nothing but its text.     *)
LEMMA OldFacts ==
  ASSUME input \in Inputs
  PROVE  /\ Unused \in Known /\ New \subseteq Known
         /\ file.pool \in Seq(Known) /\ Old \in Seq(Known)
         /\ Decodes(Old, file.pool)
         /\ \A i \in 1..Len(Old) : Old[i].tag = "Utf8" => Old[i] = Utf8(Old[i].text)
<1> DEFINE x == file.pool
           S == ToSet(x)
           K == Known
<1>1. x \in Seq(S) /\ \A k \in DOMAIN x : x[k].tag = "Utf8" => x[k] = Utf8(x[k].text)
  BY FileFacts DEF IsClassFile
<1>2. S \subseteq K /\ Unused \in K /\ New \subseteq K
  BY DEF Known
<1> HIDE DEF S, K, x
<1>3. x \in Seq(K)
  BY <1>1, <1>2
<1>4. Mirror(x) \in Seq(K) /\ Decodes(Mirror(x), x)
  BY <1>2, <1>3, MirrorFacts
<1>5. \A i \in 1..Len(Old) : \E j \in 1..Len(x) : Slot(Old, x, i, j)
  BY <1>4 DEF Decodes, Mirrors, Old, x
<1>6. \A j \in 1..Len(x) : j \in DOMAIN x
  BY <1>3
<1>7. Unused.tag # "Utf8"
  BY DEF Unused, Entry
<1>8. \A i \in 1..Len(Old) : Old[i].tag = "Utf8" => Old[i] = Utf8(Old[i].text)
  BY <1>1, <1>5, <1>6, <1>7 DEF Slot
<1> QED
  BY <1>2, <1>3, <1>4, <1>8 DEF K, x, Old

(* The index of the entry behind the old ones.                             *)
LEMMA NumberIndex ==
  ASSUME input \in Inputs, ClassNumber > 32767
  PROVE  ClassNumberIndex = Len(Old) + 1
BY FileFacts, OldFacts DEF Decodes, Mirrors

(* What new entries behind the others leave and bring.                     *)
LEMMA GrowPool ==
  ASSUME NEW E, NEW s \in Seq(E), NEW x \in Seq(E), New \subseteq E, NEW es \in Seq(New),
         Decodes(s, x)
  PROVE  /\ s \o es \in Seq(E) /\ x \o es \in Seq(E)
         /\ Len(s \o es) = Len(s) + Len(es)
         /\ Decodes(s \o es, x \o es)
         /\ \A i \in 1..Len(s) : (s \o es)[i] = s[i]
         /\ \A i \in 1..Len(es) : (s \o es)[Len(s) + i] = es[i]
<1>1. es \in Seq(E) /\ s \in Seq(E) /\ x \in Seq(E)
  OBVIOUS
<1>2. \A k \in 1..Len(es) : ~IsWide(es[k])
  <2>1. \A k \in 1..Len(es) : es[k] \in New
    OBVIOUS
  <2> QED
    BY <2>1, NewFacts
<1>3. Decodes(s \o es, x \o es)
  BY <1>1, <1>2, ConcatDecodes
<1>4. /\ s \o es \in Seq(E) /\ x \o es \in Seq(E) /\ Len(s \o es) = Len(s) + Len(es)
      /\ \A i \in 1..(Len(s) + Len(es)) : (s \o es)[i] = IF i <= Len(s) THEN s[i] ELSE es[i - Len(s)]
  BY <1>1, ConcatProperties
<1> DEFINE m == Len(s)
           l == Len(es)
           t == s \o es
<1>5. m \in Nat /\ l \in Nat
  BY <1>1
<1> HIDE DEF m, l, t
<1>6. \A i \in 1..(m + l) : t[i] = IF i <= m THEN s[i] ELSE es[i - m]
  BY <1>4 DEF m, l, t
<1>7. \A i \in 1..m : t[i] = s[i]
  <2>1. \A i \in 1..m : i \in 1..(m + l) /\ i <= m
    BY <1>5
  <2> QED
    BY <1>6, <2>1
<1>8. \A i \in 1..l : t[m + i] = es[i]
  <2>1. \A i \in 1..l : m + i \in 1..(m + l) /\ ~(m + i <= m) /\ (m + i) - m = i
    BY <1>5
  <2> QED
    BY <1>6, <2>1
<1> QED
  BY <1>3, <1>4, <1>7, <1>8 DEF m, l, t

(* What the pool becomes with new entries; what was found still is.        *)
LEMMA PoolGrows ==
  ASSUME input \in Inputs, PoolInv, Loaded, input' = input, trackers' = trackers,
         NEW es \in Seq(New),
         cpool'.slots = cpool.slots \o es, cpool'.items = cpool.items \o es
  PROVE  /\ Known' = Known
         /\ cpool'.slots \in Seq(Known) /\ cpool'.items \in Seq(Known)
         /\ Decodes(cpool'.slots, cpool'.items)
         /\ Len(cpool.slots) \in Nat
         /\ Len(cpool'.slots) = Len(cpool.slots) + Len(es)
         /\ \A i \in 1..Len(es) : cpool'.slots[Len(cpool.slots) + i] = es[i]
         /\ \E new \in Seq(New) : /\ Len(new) = Added + Len(es)
                                  /\ cpool'.slots = Old' \o new
                                  /\ cpool'.items = file'.pool \o new
         /\ NumberFound => NumberFound'
         /\ ClassFound /\ cpool'.class = cpool.class => ClassFound'
         /\ \A t : /\ MethodFound(t) /\ cpool'.class = cpool.class
                   /\ cpool'.index[t] = cpool.index[t]
                   => MethodFound(t)'
<1> DEFINE s == cpool.slots
           x == cpool.items
           t == cpool'.slots
           m == Len(s)
           l == Len(es)
<1>1. s \in Seq(Known) /\ x \in Seq(Known) /\ Decodes(s, x)
  BY DEF PoolInv, Pools
<1>2. file' = file /\ Old' = Old /\ Known' = Known
  BY DEF file, Old, Known, New
<1>3. New \subseteq Known /\ Old \in Seq(Known) /\ file.pool \in Seq(Known)
  BY OldFacts
<1>4. /\ s \o es \in Seq(Known) /\ x \o es \in Seq(Known)
      /\ Len(s \o es) = m + l
      /\ Decodes(s \o es, x \o es)
      /\ \A i \in 1..m : (s \o es)[i] = s[i]
      /\ \A i \in 1..l : (s \o es)[m + i] = es[i]
  BY <1>1, <1>3, GrowPool
<1>5. t = s \o es /\ cpool'.items = x \o es
  OBVIOUS
<1>6. m \in Nat /\ l \in Nat
  BY <1>1, LenProperties
<1>7. \E new \in Seq(New) : /\ Len(new) = Added + l
                            /\ s \o es = Old \o new
                            /\ x \o es = file.pool \o new
  <2>1. PICK old \in Seq(New) : Len(old) = Added /\ s = Old \o old /\ x = file.pool \o old
    BY DEF PoolInv, Grown
  <2>2. old \o es \in Seq(New) /\ Len(old \o es) = Len(old) + l
    BY ConcatProperties
  <2>3. old \in Seq(Known) /\ es \in Seq(Known)
    BY <1>3
  <2>4. (Old \o old) \o es = Old \o (old \o es)
    BY <1>3, <2>3, ConcatAssociative, SMTT(40)
  <2>5. (file.pool \o old) \o es = file.pool \o (old \o es)
    <3> DEFINE p == file.pool
    <3>1. p \in Seq(Known)
      BY <1>3
    <3> HIDE DEF p
    <3>2. (p \o old) \o es = p \o (old \o es)
      BY <2>3, <3>1, ConcatAssociative, SMTT(40)
    <3> QED
      BY <3>2 DEF p
  <2> HIDE DEF s, x, l
  <2> QED
    BY <2>1, <2>2, <2>4, <2>5
<1> HIDE DEF m, l, s, x, t
<1>8. Len(t) = m + l /\ \A i \in 1..m : t[i] = s[i] /\ i \in 1..Len(t)
  <2>1. \A i \in 1..m : i \in 1..(m + l)
    BY <1>6
  <2> QED
    BY <1>4, <1>5, <2>1
<1>9. NumberFound => NumberFound'
  <2> DEFINE e == NumberEntry
             i == ClassNumberIndex
  <2>1. NumberFound => i \in 1..m /\ s[i] = e
    BY DEF NumberFound, m, s
  <2>2. i \in 1..Len(t) /\ t[i] = e => NumberFound'
    BY DEF NumberFound, t
  <2> HIDE DEF e, i
  <2> QED
    BY <1>8, <2>1, <2>2
<1>10. ClassFound /\ cpool'.class = cpool.class => ClassFound'
  <2> SUFFICES ASSUME ClassFound, cpool'.class = cpool.class PROVE ClassFound'
    OBVIOUS
  <2> DEFINE c == cpool.class
  <2>1. /\ c \in 2..m /\ s[c] = Entry("Class", "", c - 1, 0) /\ s[c - 1] = Utf8(TrackerClass)
    BY DEF ClassFound, m, s
  <2> HIDE DEF c
  <2>2. c \in 1..m /\ c - 1 \in 1..m /\ c \in 2..(m + l)
    <3>1. c \in 2..m
      BY <2>1
    <3> QED
      BY <1>6, <3>1
  <2>3. c \in 2..Len(t) /\ t[c] = Entry("Class", "", c - 1, 0) /\ t[c - 1] = Utf8(TrackerClass)
    BY <1>8, <2>1, <2>2
  <2> QED
    BY <2>3 DEF ClassFound, t, c
<1>11. ASSUME NEW u, MethodFound(u), cpool'.class = cpool.class, cpool'.index[u] = cpool.index[u]
       PROVE  MethodFound(u)'
  <2> DEFINE n == cpool.index[u]
  <2>1. /\ n \in 4..m
        /\ s[n] = Entry("Methodref", "", cpool.class, n - 1)
        /\ s[n - 1] = Entry("NameAndType", "", n - 3, n - 2)
        /\ s[n - 2] = Utf8(Signature(u))
        /\ s[n - 3] = Utf8(u)
    BY <1>11 DEF MethodFound, m, s
  <2> HIDE DEF n
  <2>2. n \in 1..m /\ n - 1 \in 1..m /\ n - 2 \in 1..m /\ n - 3 \in 1..m /\ n \in 4..(m + l)
    <3>1. n \in 4..m
      BY <2>1
    <3> QED
      BY <1>6, <3>1
  <2>3. /\ n \in 4..Len(t)
        /\ t[n] = Entry("Methodref", "", cpool.class, n - 1)
        /\ t[n - 1] = Entry("NameAndType", "", n - 3, n - 2)
        /\ t[n - 2] = Utf8(Signature(u))
        /\ t[n - 3] = Utf8(u)
    BY <1>8, <2>1, <2>2
  <2> QED
    BY <1>11, <2>3 DEF MethodFound, t, n
<1> USE DEF m, l, s, x, t
<1>12. /\ Len(t) = m + l /\ m \in Nat
       /\ t \in Seq(Known) /\ cpool'.items \in Seq(Known) /\ Decodes(t, cpool'.items)
  BY <1>4, <1>5, <1>6
<1>13. \A i \in 1..l : t[m + i] = es[i]
  BY <1>4, <1>5
<1>14. \E new \in Seq(New) : /\ Len(new) = Added + l
                             /\ t = Old' \o new
                             /\ cpool'.items = file'.pool \o new
  BY <1>2, <1>5, <1>7
<1> HIDE DEF m, l, s, x, t
<1> QED
  BY <1>2, <1>9, <1>10, <1>11, <1>12, <1>13, <1>14 DEF m, l, s, x, t

Early == {"arguments", "number", "class", "trackers"}
SamePool == UNCHANGED <<input, trackers, cpool>>

(* What depends on nothing but the input.                                  *)
LEMMA SameFile ==
  ASSUME input' = input, trackers' = trackers
  PROVE  /\ file' = file /\ Old' = Old /\ Known' = Known /\ Pools' = Pools
         /\ NeedsNumber' = NeedsNumber
  BY DEF file, Old, Known, New, Pools, NeedsNumber

(* Behind the new count nothing happens to the pool.                       *)
LEMMA PoolKept ==
  ASSUME PoolInv, SamePool, stage' \notin {"arguments", "number", "class"} \/ stage' = stage,
         Loaded' => stage' = stage \/ (Loaded /\ stage \notin Early /\ stage' \notin Early)
  PROVE  PoolInv'
<1>1. /\ file' = file /\ Old' = Old /\ Known' = Known /\ Pools' = Pools
      /\ NeedsNumber' = NeedsNumber
  BY SameFile DEF SamePool
<1>2. cpool' = cpool /\ input' = input /\ trackers' = trackers
  BY DEF SamePool
<1>3. Indexed' = Indexed /\ Unindexed' = Unindexed
  BY <1>2 DEF Indexed, Unindexed
<1>4. /\ NumberFound' = NumberFound /\ ClassFound' = ClassFound
      /\ \A t : MethodFound(t)' = MethodFound(t)
  BY <1>2 DEF NumberFound, ClassFound, MethodFound
<1>5. cpool \in Pools /\ (stage \in {"arguments", "number", "class"} => Indexed = {})
  BY DEF PoolInv
<1>6. ASSUME Loaded' PROVE Loaded
  <2>1. CASE stage' = stage
    BY <1>2, <1>6, <2>1 DEF Loaded
  <2> QED
    BY <1>6, <2>1
<1>7. Loaded' => Added' = Added
  <2>1. Loaded' => /\ stage = "number" <=> stage' = "number"
                   /\ stage = "class" <=> stage' = "class"
    BY DEF Early
  <2> QED
    BY <1>1, <1>3, <2>1 DEF Added
<1>8. ASSUME Loaded'
      PROVE  /\ Decodes(cpool'.slots, cpool'.items)
             /\ Grown'
             /\ stage' # "number" /\ NeedsNumber' => NumberFound'
             /\ stage' \notin {"number", "class"} => ClassFound'
             /\ \A t \in Indexed' : MethodFound(t)'
             /\ stage' \notin {"number", "class", "trackers"} =>
                  /\ Unindexed' = {}
                  /\ cpool'.count = Len(cpool'.slots) + 1
  <2>1. /\ Decodes(cpool.slots, cpool.items)
        /\ Grown
        /\ stage # "number" /\ NeedsNumber => NumberFound
        /\ stage \notin {"number", "class"} => ClassFound
        /\ \A t \in Indexed : MethodFound(t)
        /\ stage \notin {"number", "class", "trackers"} =>
             /\ Unindexed = {}
             /\ cpool.count = Len(cpool.slots) + 1
    BY <1>6, <1>8 DEF PoolInv
  <2>2. Grown'
    <3>1. PICK new \in Seq(New) : /\ Len(new) = Added
                                  /\ cpool.slots = Old \o new
                                  /\ cpool.items = file.pool \o new
      BY <2>1 DEF Grown
    <3>2. Added' = Added /\ New' = New
      BY <1>7, <1>8 DEF New
    <3> QED
      BY <1>1, <1>2, <3>1, <3>2 DEF Grown
  <2>3. stage' = stage \/ (stage \notin Early /\ stage' \notin Early)
    BY <1>8
  <2>4. /\ stage' # "number" /\ NeedsNumber => NumberFound
        /\ stage' \notin {"number", "class"} => ClassFound
        /\ stage' \notin {"number", "class", "trackers"} =>
             /\ Unindexed = {}
             /\ cpool.count = Len(cpool.slots) + 1
    BY <2>1, <2>3 DEF Early
  <2> QED
    BY <1>1, <1>2, <1>3, <1>4, <2>1, <2>2, <2>4
<1> QED
  BY <1>1, <1>2, <1>3, <1>5, <1>8 DEF PoolInv

(* The pool of the class file is copied.                                   *)
LEMMA PoolCopied ==
  ASSUME input \in Inputs, PoolInv, CopyPool
  PROVE  PoolInv'
<1> DEFINE K == Known
           c == [cpool EXCEPT !.slots = Old, !.items = file.pool]
<1>1. /\ stage = "arguments" /\ stage' = "number" /\ cpool' = c
      /\ input' = input /\ trackers' = trackers
  BY DEF CopyPool, Stage, Old
<1>2. file' = file /\ Old' = Old /\ Known' = Known /\ Pools' = Pools
  BY <1>1, SameFile
<1>3. cpool \in Pools /\ Indexed = {}
  BY <1>1 DEF PoolInv
<1>4. Old \in Seq(Known) /\ file.pool \in Seq(Known) /\ Decodes(Old, file.pool)
  BY OldFacts
<1>5. /\ c \in Pools /\ c.slots = Old /\ c.items = file.pool /\ c.class = cpool.class
      /\ c.index = cpool.index
  BY <1>3, <1>4 DEF Pools
<1> HIDE DEF c
<1>6. Indexed' = {}
  BY <1>1, <1>3, <1>5 DEF Indexed
<1>7. Grown'
  <2>1. <<>> \in Seq(New) /\ Len(<<>>) = 0
    OBVIOUS
  <2>2. Old \o <<>> = Old /\ file.pool \o <<>> = file.pool
    BY <1>4, ConcatEmptySeq
  <2>3. Added' = 0 /\ New' = New
    BY <1>1 DEF Added, New
  <2> QED
    BY <1>1, <1>2, <1>5, <2>1, <2>2, <2>3 DEF Grown
<1> QED
  BY <1>1, <1>2, <1>4, <1>5, <1>6, <1>7 DEF PoolInv

(* A class number gets its entry.                                          *)
LEMMA NumberAdded ==
  ASSUME input \in Inputs, trackers \subseteq Trackers, PoolInv, Loaded, AddClassNumber
  PROVE  PoolInv'
<1>1. stage = "number" /\ stage' = "class" /\ input' = input /\ trackers' = trackers
  BY DEF AddClassNumber, Stage
<1>2. cpool' = IF NeedsNumber THEN With(<<NumberEntry>>) ELSE cpool
  BY DEF AddClassNumber, NeedsNumber
<1>3. /\ file' = file /\ Old' = Old /\ Known' = Known /\ Pools' = Pools
      /\ NeedsNumber' = NeedsNumber
  BY <1>1, SameFile
<1>4. /\ cpool \in Pools /\ Indexed = {} /\ Decodes(cpool.slots, cpool.items) /\ Grown
  BY <1>1 DEF PoolInv
<1>5. Added = 0
  BY <1>1 DEF Added
<1>6. New' = New
  BY DEF New
<1>7. CASE ~NeedsNumber
  <2>1. cpool' = cpool /\ Indexed' = {}
    BY <1>1, <1>2, <1>4, <1>7 DEF Indexed
  <2>2. Added' = 0
    BY <1>1, <1>3, <1>7 DEF Added
  <2>3. Grown'
    BY <1>3, <1>4, <1>5, <1>6, <2>1, <2>2 DEF Grown
  <2> QED
    BY <1>1, <1>3, <1>4, <1>7, <2>1, <2>3 DEF PoolInv
<1>8. CASE NeedsNumber
  <2> DEFINE es == <<NumberEntry>>
             s == cpool.slots \o es
             x == cpool.items \o es
             c == [cpool EXCEPT !.slots = s, !.items = x]
             e == NumberEntry
  <2>1. es \in Seq(New) /\ Len(es) = 1 /\ es[1] = e
    <3>1. e \in New
      BY NewFacts
    <3> HIDE DEF e
    <3>2. <<e>> \in Seq(New) /\ Len(<<e>>) = 1 /\ <<e>>[1] = e
      BY <3>1
    <3> QED
      BY <3>2 DEF e
  <2>2. cpool' = c
    BY <1>2, <1>8 DEF With
  <2> HIDE DEF e, es
  <2>3. c.slots = s /\ c.items = x /\ c.class = cpool.class /\ c.index = cpool.index
        /\ (s \in Seq(Known) /\ x \in Seq(Known) => c \in Pools)
    BY <1>4 DEF Pools
  <2> HIDE DEF c
  <2>4. cpool'.slots = cpool.slots \o es /\ cpool'.items = cpool.items \o es
    BY <2>2, <2>3
  <2>5. /\ cpool'.slots \in Seq(Known) /\ cpool'.items \in Seq(Known)
        /\ Decodes(cpool'.slots, cpool'.items)
        /\ Len(cpool.slots) \in Nat
        /\ Len(cpool'.slots) = Len(cpool.slots) + Len(es)
        /\ \A i \in 1..Len(es) : cpool'.slots[Len(cpool.slots) + i] = es[i]
        /\ \E new \in Seq(New) : /\ Len(new) = Added + Len(es)
                                 /\ cpool'.slots = Old' \o new
                                 /\ cpool'.items = file'.pool \o new
    BY <1>1, <2>1, <2>4, PoolGrows
  <2>6. cpool' \in Pools /\ Indexed' = {}
    BY <1>1, <1>4, <2>2, <2>3, <2>5 DEF Indexed
  <2>7. Grown'
    <3>1. Added' = 1
      BY <1>1, <1>3, <1>8 DEF Added
    <3>2. Added' = Added + Len(es)
      BY <1>5, <2>1, <3>1
    <3> QED
      BY <1>6, <2>5, <3>2 DEF Grown
  <2>8. NumberFound'
    <3> DEFINE m == Len(cpool.slots)
               i == ClassNumberIndex
    <3>1. cpool.slots = Old
      <4>1. PICK new \in Seq(New) : Len(new) = 0 /\ cpool.slots = Old \o new
        BY <1>4, <1>5 DEF Grown
      <4>2. new = <<>>
        BY <4>1, EmptySeq
      <4>3. Old \in Seq(Known)
        BY OldFacts
      <4> QED
        BY <4>1, <4>2, <4>3, ConcatEmptySeq
    <3>2. i = m + 1
      BY <1>8, <3>1, NumberIndex DEF NeedsNumber
    <3>3. m \in Nat /\ Len(cpool'.slots) = m + 1 /\ cpool'.slots[m + 1] = es[1]
      <4>1. 1 \in 1..1
        OBVIOUS
      <4> QED
        BY <2>1, <2>5, <4>1
    <3> HIDE DEF m, i
    <3>4. i \in 1..Len(cpool'.slots) /\ cpool'.slots[i] = e
      BY <2>1, <3>2, <3>3
    <3> QED
      BY <3>4 DEF NumberFound, i, e
  <2> QED
    BY <1>1, <1>3, <2>5, <2>6, <2>7, <2>8 DEF PoolInv
<1> QED
  BY <1>7, <1>8

(* There are four trackers.                                                *)
LEMMA TrackersFacts == IsFiniteSet(Trackers) /\ Cardinality(Trackers) \in 0..4
<1> DEFINE A == {"obj_init_tracker"}
           B == A \cup {"call_tracker"}
           C == B \cup {"return_tracker"}
           D == C \cup {"newarray_tracker"}
<1>1. IsFiniteSet(A) /\ Cardinality(A) = 1
  BY FS_Singleton
<1>2. "call_tracker" \notin A /\ "return_tracker" \notin B /\ "newarray_tracker" \notin C
  OBVIOUS
<1>3. Trackers = D
  BY DEF Trackers
<1> HIDE DEF A
<1>4. IsFiniteSet(B) /\ Cardinality(B) = 2
  BY <1>1, <1>2, FS_AddElement
<1> HIDE DEF B
<1>5. IsFiniteSet(C) /\ Cardinality(C) = 3
  BY <1>2, <1>4, FS_AddElement
<1> HIDE DEF C
<1>6. IsFiniteSet(D) /\ Cardinality(D) = 4
  BY <1>2, <1>5, FS_AddElement
<1> QED
  BY <1>3, <1>6

(* The tracker class gets its entries.                                     *)
LEMMA ClassAdded ==
  ASSUME input \in Inputs, trackers \subseteq Trackers, PoolInv, Loaded, AddTrackerClass
  PROVE  PoolInv'
<1> DEFINE m == Len(cpool.slots)
           e1 == Utf8(TrackerClass)
           e2 == Entry("Class", "", m + 1, 0)
           es == <<e1, e2>>
           s == cpool.slots \o es
           x == cpool.items \o es
           c == [[cpool EXCEPT !.slots = s, !.items = x] EXCEPT !.class = m + 1 + 1]
<1>1. stage = "class" /\ stage' = "trackers" /\ input' = input /\ trackers' = trackers
  BY DEF AddTrackerClass, Stage
<1>2. cpool' = c
  BY DEF AddTrackerClass, With, NewIndex
<1>3. /\ file' = file /\ Old' = Old /\ Known' = Known /\ Pools' = Pools
      /\ NeedsNumber' = NeedsNumber /\ New' = New
  BY <1>1, SameFile DEF New
<1>4. /\ cpool \in Pools /\ Indexed = {} /\ Decodes(cpool.slots, cpool.items) /\ Grown
      /\ NeedsNumber => NumberFound
  BY <1>1 DEF PoolInv
<1>5. m \in Nat
  <2>1. cpool.slots \in Seq(Known)
    BY <1>4 DEF Pools
  <2> QED
    BY <2>1, LenProperties
<1>6. es \in Seq(New) /\ Len(es) = 2 /\ es[1] = e1 /\ es[2] = e2
  <2>1. e1 \in New /\ e2 \in New
    <3>1. m + 1 \in Nat /\ 0 \in Nat
      BY <1>5
    <3> HIDE DEF m
    <3> QED
      BY <3>1, NewFacts
  <2> HIDE DEF e1, e2
  <2> QED
    BY <2>1
<1> HIDE DEF e1, e2, es, m
<1>7. /\ c.slots = s /\ c.items = x /\ c.class = m + 2 /\ c.index = cpool.index
      /\ (s \in Seq(Known) /\ x \in Seq(Known) => c \in Pools)
  <2>1. m + 1 + 1 = m + 2 /\ m + 1 + 1 \in Nat
    BY <1>5
  <2> HIDE DEF s, x
  <2> QED
    BY <1>4, <2>1 DEF Pools
<1> HIDE DEF c
<1>8. cpool'.slots = cpool.slots \o es /\ cpool'.items = cpool.items \o es
  BY <1>2, <1>7
<1>9. /\ cpool'.slots \in Seq(Known) /\ cpool'.items \in Seq(Known)
      /\ Decodes(cpool'.slots, cpool'.items)
      /\ Len(cpool'.slots) = m + Len(es)
      /\ \A i \in 1..Len(es) : cpool'.slots[m + i] = es[i]
      /\ \E new \in Seq(New) : /\ Len(new) = Added + Len(es)
                               /\ cpool'.slots = Old' \o new
                               /\ cpool'.items = file'.pool \o new
      /\ NumberFound => NumberFound'
  BY <1>1, <1>6, <1>8, PoolGrows DEF m
<1>10. cpool' \in Pools /\ Indexed' = {}
  BY <1>1, <1>2, <1>4, <1>7, <1>9 DEF Indexed
<1>11. Grown'
  <2>1. Cardinality({}) = 0
    BY FS_EmptySet
  <2>2. Added' = (IF NeedsNumber THEN 1 ELSE 0) + (2 + 4 * 0)
    BY <1>1, <1>3, <1>10, <2>1 DEF Added
  <2>3. Added = (IF NeedsNumber THEN 1 ELSE 0) + 0
    BY <1>1 DEF Added
  <2>4. Added' = Added + Len(es)
    BY <1>6, <2>2, <2>3
  <2> QED
    BY <1>3, <1>9, <2>4 DEF Grown
<1>12. ClassFound'
  <2> DEFINE t == cpool'.slots
             k == cpool'.class
  <2>1. k = m + 2 /\ Len(t) = m + 2 /\ t[m + 1] = e1 /\ t[m + 2] = e2
    <3>1. 1 \in 1..2 /\ 2 \in 1..2
      OBVIOUS
    <3> QED
      BY <1>2, <1>6, <1>7, <1>9, <3>1
  <2> HIDE DEF t, k
  <2>2. k \in 2..Len(t) /\ k - 1 = m + 1
    BY <1>5, <2>1
  <2>3. t[k] = Entry("Class", "", k - 1, 0) /\ t[k - 1] = Utf8(TrackerClass)
    BY <2>1, <2>2 DEF e1, e2
  <2> QED
    BY <2>2, <2>3 DEF ClassFound, t, k
<1> QED
  BY <1>1, <1>3, <1>4, <1>9, <1>10, <1>11, <1>12 DEF PoolInv

(* Each tracker that is named gets its entries.                            *)
LEMMA TrackerAdded ==
  ASSUME input \in Inputs, trackers \subseteq Trackers, PoolInv, Loaded,
         stage = "trackers", stage' = stage, input' = input, trackers' = trackers,
         NEW t \in Unindexed,
         cpool' = [With(MethodEntries(t)) EXCEPT !.index[t] = NewIndex + 3]
  PROVE  PoolInv'
<1> DEFINE m == Len(cpool.slots)
           e1 == Utf8(t)
           e2 == Utf8(Signature(t))
           e3 == Entry("NameAndType", "", m + 1, m + 1 + 1)
           e4 == Entry("Methodref", "", cpool.class, m + 1 + 2)
           es == <<e1, e2, e3, e4>>
           s == cpool.slots \o es
           x == cpool.items \o es
           d == [cpool EXCEPT !.slots = s, !.items = x]
           c == [d EXCEPT !.index[t] = m + 1 + 3]
<1>1. cpool' = c
  BY DEF With, NewIndex, MethodEntries
<1>2. /\ file' = file /\ Old' = Old /\ Known' = Known /\ Pools' = Pools
      /\ NeedsNumber' = NeedsNumber /\ New' = New
  BY SameFile DEF New
<1>3. /\ cpool \in Pools /\ Decodes(cpool.slots, cpool.items) /\ Grown
      /\ (NeedsNumber => NumberFound) /\ ClassFound
      /\ \A u \in Indexed : MethodFound(u)
  BY DEF PoolInv
<1>4. t \in trackers /\ t \in Trackers /\ cpool.index[t] = 0
  BY DEF Unindexed
<1>5. m \in Nat /\ cpool.class \in Nat /\ cpool.index \in [Trackers -> Nat]
  <2>1. cpool.slots \in Seq(Known) /\ cpool.class \in Nat /\ cpool.index \in [Trackers -> Nat]
    BY <1>3 DEF Pools
  <2> QED
    BY <2>1, LenProperties
<1>6. /\ es \in Seq(New) /\ Len(es) = 4
      /\ es[1] = e1 /\ es[2] = e2 /\ es[3] = e3 /\ es[4] = e4
  <2>1. e1 \in New /\ e2 \in New /\ e3 \in New /\ e4 \in New
    <3>1. m + 1 \in Nat /\ m + 1 + 1 \in Nat /\ m + 1 + 2 \in Nat
      BY <1>5
    <3> HIDE DEF m
    <3> QED
      BY <1>4, <1>5, <3>1, NewFacts
  <2> HIDE DEF e1, e2, e3, e4
  <2> QED
    BY <2>1
<1> HIDE DEF e1, e2, e3, e4, es, m
<1>7. /\ c.slots = s /\ c.items = x /\ c.class = cpool.class
      /\ c.index = [cpool.index EXCEPT ![t] = m + 4]
      /\ (s \in Seq(Known) /\ x \in Seq(Known) => c \in Pools)
  <2>1. m + 1 + 3 = m + 4 /\ m + 4 \in Nat
    BY <1>5
  <2>2. [cpool.index EXCEPT ![t] = m + 4] \in [Trackers -> Nat]
    BY <1>5, <2>1
  <2> HIDE DEF s, x
  <2>3. d.index = cpool.index /\ d.slots = s /\ d.items = x /\ d.class = cpool.class
        /\ (s \in Seq(Known) /\ x \in Seq(Known) => d \in Pools)
    BY <1>3 DEF Pools
  <2>4. DOMAIN d = DOMAIN cpool
    OBVIOUS
  <2>5. cpool \in [slots : Seq(Known), items : Seq(Known), class : Nat, count : Nat,
                   index : [Trackers -> Nat]]
    BY <1>3 DEF Pools
  <2>6. c = [d EXCEPT !.index = [cpool.index EXCEPT ![t] = m + 4]]
    BY <2>1, <2>3
  <2> HIDE DEF d, c
  <2> QED
    BY <2>2, <2>3, <2>4, <2>5, <2>6 DEF Pools
<1> HIDE DEF c, d
<1>8. cpool'.slots = cpool.slots \o es /\ cpool'.items = cpool.items \o es
  BY <1>1, <1>7
<1>9. /\ cpool'.slots \in Seq(Known) /\ cpool'.items \in Seq(Known)
      /\ Decodes(cpool'.slots, cpool'.items)
      /\ Len(cpool'.slots) = m + Len(es)
      /\ \A i \in 1..Len(es) : cpool'.slots[m + i] = es[i]
      /\ \E new \in Seq(New) : /\ Len(new) = Added + Len(es)
                               /\ cpool'.slots = Old' \o new
                               /\ cpool'.items = file'.pool \o new
      /\ NumberFound => NumberFound'
      /\ ClassFound /\ cpool'.class = cpool.class => ClassFound'
      /\ \A u : /\ MethodFound(u) /\ cpool'.class = cpool.class
                /\ cpool'.index[u] = cpool.index[u]
                => MethodFound(u)'
  BY <1>6, <1>8, PoolGrows DEF m
<1>10. /\ cpool' \in Pools /\ cpool'.class = cpool.class
       /\ cpool'.index[t] = m + 4
       /\ \A u \in Trackers : u # t => cpool'.index[u] = cpool.index[u]
  BY <1>1, <1>4, <1>5, <1>7, <1>9, ZenonT(40)
<1>11. Indexed' = Indexed \cup {t} /\ t \notin Indexed
  <2>1. m + 4 # 0
    BY <1>5
  <2>2. \A u \in trackers : u \in Trackers
    OBVIOUS
  <2> QED
    BY <1>4, <1>10, <2>1, <2>2 DEF Indexed
<1>12. Grown'
  <2> DEFINE n == Cardinality(Indexed)
  <2>1. IsFiniteSet(Indexed)
    <3>1. IsFiniteSet(Trackers)
      BY TrackersFacts
    <3>2. Indexed \subseteq Trackers
      BY DEF Indexed
    <3> QED
      BY <3>1, <3>2, FS_Subset
  <2>2. n \in Nat /\ Cardinality(Indexed') = n + 1
    BY <1>11, <2>1, FS_CardinalityType, FS_AddElement
  <2>3. Added' = (IF NeedsNumber THEN 1 ELSE 0) + (2 + 4 * (n + 1))
    BY <1>2, <2>2 DEF Added
  <2>4. Added = (IF NeedsNumber THEN 1 ELSE 0) + (2 + 4 * n)
    BY DEF Added
  <2> HIDE DEF n
  <2>5. Added' = Added + Len(es)
    BY <1>6, <2>2, <2>3, <2>4
  <2> QED
    BY <1>2, <1>9, <2>5 DEF Grown
<1>13. MethodFound(t)'
  <2> DEFINE r == cpool'.slots
             k == cpool'.index[t]
             b == cpool.class
  <2>1. k = m + 4 /\ Len(r) = m + 4
        /\ r[m + 1] = e1 /\ r[m + 2] = e2 /\ r[m + 3] = e3 /\ r[m + 4] = e4
    <3>1. 1 \in 1..4 /\ 2 \in 1..4 /\ 3 \in 1..4 /\ 4 \in 1..4
      OBVIOUS
    <3> QED
      BY <1>6, <1>9, <1>10, <3>1
  <2> HIDE DEF r, k, b
  <2>2. /\ k \in 4..Len(r) /\ k - 1 = m + 3 /\ k - 2 = m + 2 /\ k - 3 = m + 1
        /\ m + 1 + 1 = m + 2 /\ m + 1 + 2 = m + 3
    BY <1>5, <2>1
  <2>3. /\ r[k] = Entry("Methodref", "", b, k - 1)
        /\ r[k - 1] = Entry("NameAndType", "", k - 3, k - 2)
        /\ r[k - 2] = Utf8(Signature(t))
        /\ r[k - 3] = Utf8(t)
    BY <2>1, <2>2 DEF e1, e2, e3, e4, b
  <2> QED
    BY <1>10, <2>2, <2>3 DEF MethodFound, r, k, b
<1>14. \A u \in Indexed' : MethodFound(u)'
  <2>1. \A u \in Indexed : u \in Trackers /\ u # t
    BY <1>11 DEF Indexed
  <2> QED
    BY <1>3, <1>9, <1>10, <1>11, <1>13, <2>1
<1> QED
  BY <1>2, <1>3, <1>9, <1>10, <1>12, <1>14 DEF PoolInv

(* The new count is the next index.                                        *)
LEMMA CountWritten ==
  ASSUME input \in Inputs, PoolInv, Loaded, WriteCount
  PROVE  PoolInv'
<1> DEFINE m == Len(cpool.slots)
           c == [cpool EXCEPT !.count = m + 1]
<1>1. /\ stage = "trackers" /\ stage' = "header" /\ input' = input /\ trackers' = trackers
      /\ cpool' = c /\ Unindexed = {}
  BY DEF WriteCount, Stage, NewIndex
<1>2. /\ file' = file /\ Old' = Old /\ Known' = Known /\ Pools' = Pools
      /\ NeedsNumber' = NeedsNumber /\ New' = New
  BY <1>1, SameFile DEF New
<1>3. /\ cpool \in Pools /\ Decodes(cpool.slots, cpool.items) /\ Grown
      /\ (NeedsNumber => NumberFound) /\ ClassFound
      /\ \A u \in Indexed : MethodFound(u)
  BY <1>1 DEF PoolInv
<1>4. m \in Nat
  <2>1. cpool.slots \in Seq(Known)
    BY <1>3 DEF Pools
  <2> QED
    BY <2>1, LenProperties
<1> HIDE DEF m
<1>5. /\ c \in Pools /\ c.slots = cpool.slots /\ c.items = cpool.items /\ c.class = cpool.class
      /\ c.index = cpool.index /\ c.count = m + 1
  <2>1. m + 1 \in Nat
    BY <1>4
  <2> QED
    BY <1>3, <2>1 DEF Pools
<1> HIDE DEF c
<1>6. Indexed' = Indexed /\ Unindexed' = {}
  BY <1>1, <1>5 DEF Indexed, Unindexed
<1>7. /\ NumberFound => NumberFound'
      /\ ClassFound => ClassFound'
      /\ \A t : MethodFound(t) => MethodFound(t)'
  BY <1>1, <1>5 DEF NumberFound, ClassFound, MethodFound
<1>8. Grown'
  <2>1. Added' = Added
    BY <1>1, <1>2, <1>6 DEF Added
  <2> QED
    BY <1>1, <1>2, <1>3, <1>5, <2>1 DEF Grown
<1>9. cpool'.count = Len(cpool'.slots) + 1
  BY <1>1, <1>5 DEF m
<1> QED
  BY <1>1, <1>2, <1>3, <1>5, <1>6, <1>7, <1>8, <1>9 DEF PoolInv

(* Every step keeps the pool in order.                                     *)
LEMMA PoolStep ==
  ASSUME StageInv, PoolInv, Next
  PROVE  PoolInv'
<1>1. input \in Inputs
  BY DEF StageInv
<1>2. trackers \subseteq Trackers
  BY <1>1, FileFacts DEF StageInv
<1>3. stage \in {"number", "class", "trackers", "header", "methods", "attributes", "code"} => Loaded
  BY DEF StageInv
<1>4. CASE NoFile
  <2>1. SamePool /\ stage' = "returned" /\ ~Loaded'
    BY <1>4 DEF NoFile, Stage, SamePool, Loaded
  <2> QED
    BY <2>1, PoolKept
<1>5. CASE Abort
  <2>1. SamePool /\ stage' = "aborted" /\ ~Loaded'
    BY <1>5 DEF Abort, Stage, SamePool, Loaded
  <2> QED
    BY <2>1, PoolKept
<1>6. CASE CopyPool
  BY <1>1, <1>6, PoolCopied
<1>7. CASE AddClassNumber
  <2>1. stage = "number"
    BY <1>7 DEF AddClassNumber, Stage
  <2> QED
    BY <1>1, <1>2, <1>3, <1>7, <2>1, NumberAdded
<1>8. CASE AddTrackerClass
  <2>1. stage = "class"
    BY <1>8 DEF AddTrackerClass, Stage
  <2> QED
    BY <1>1, <1>2, <1>3, <1>8, <2>1, ClassAdded
<1>9. CASE AddTrackerMethod
  <2> DEFINE T == {i \in 1..4 : TrackerOrder[i] \in Unindexed}
             t == TrackerOrder[Min(T)]
  <2>1. /\ stage = "trackers" /\ Unindexed # {} /\ stage' = stage /\ input' = input
        /\ trackers' = trackers
        /\ cpool' = [With(MethodEntries(t)) EXCEPT !.index[t] = NewIndex + 3]
    BY <1>9 DEF AddTrackerMethod
  <2>2. \A u \in Trackers : \E i \in 1..4 : TrackerOrder[i] = u
    BY DEF Trackers, TrackerOrder
  <2>3. Unindexed \subseteq Trackers
    BY <1>2 DEF Unindexed
  <2>4. T \subseteq Nat /\ T # {}
    BY <2>1, <2>2, <2>3
  <2>5. Min(T) \in T
    BY <2>4, MinLeast
  <2>6. t \in Unindexed
    BY <2>5
  <2> HIDE DEF t
  <2> QED
    BY <1>1, <1>2, <1>3, <2>1, <2>6, TrackerAdded
<1>10. CASE WriteCount
  <2>1. stage = "trackers"
    BY <1>10 DEF WriteCount, Stage
  <2> QED
    BY <1>1, <1>3, <1>10, <2>1, CountWritten
<1>11. ASSUME SamePool, stage \in {"header", "methods", "attributes", "code"},
              stage' \in {"methods", "attributes", "code", "returned"}
       PROVE  PoolInv'
  <2>1. Loaded /\ stage \notin Early /\ stage' \notin Early
        /\ stage' \notin {"arguments", "number", "class"}
    BY <1>3, <1>11 DEF Early
  <2> QED
    BY <1>11, <2>1, PoolKept
<1>12. CASE SkipInterface
  BY <1>11, <1>12 DEF SkipInterface, Stage, SamePool
<1>13. CASE CopyHeader
  BY <1>11, <1>13 DEF CopyHeader, Stage, SamePool
<1>14. CASE BeginMethod
  BY <1>11, <1>14 DEF BeginMethod, Stage, SamePool
<1>15. CASE CopyAttribute
  BY <1>11, <1>15 DEF CopyAttribute, Stage, SamePool
<1>16. CASE BeginCode
  BY <1>11, <1>16 DEF BeginCode, Stage, SamePool, MethodInit
<1>17. CASE RewriteCode
  <2>1. trackers' = trackers
    BY <1>17, StepFrame DEF RewriteCode, inputVars
  <2> QED
    BY <1>11, <1>17, <2>1 DEF RewriteCode, classVars, SamePool
<1>18. CASE EndCode
  BY <1>11, <1>18 DEF EndCode, Stage, SamePool
<1>19. CASE EndMethod
  BY <1>11, <1>19 DEF EndMethod, Stage, SamePool
<1>20. CASE FinishClass
  BY <1>11, <1>20 DEF FinishClass, Stage, SamePool
<1> QED
  BY <1>4, <1>5, <1>6, <1>7, <1>8, <1>9, <1>10, <1>12, <1>13, <1>14, <1>15, <1>16, <1>17,
     <1>18, <1>19, <1>20 DEF Next

-----------------------------------------------------------------------------
(* The stages, and the methods that are written.                           *)

(* What a class file has in its methods.                                   *)
LEMMA FileMethods ==
  ASSUME StageInv, NEW m \in 1..Len(file.methods)
  PROVE  /\ file.methods[m].name \in 1..Len(Old) /\ file.methods[m].descr \in 1..Len(Old)
         /\ Old[file.methods[m].name].tag = "Utf8" /\ Old[file.methods[m].descr].tag = "Utf8"
         /\ Len(file.methods[m].attributes) \in Nat
         /\ \A a \in 1..Len(file.methods[m].attributes) :
              LET at == file.methods[m].attributes[a]
              IN  /\ at.name \in 1..Len(Old)
                  /\ IF Old[at.name].text = "Code" THEN IsMethod(at.body) /\ Encodable(at.body)
                                                   ELSE at.body = <<>>
<1> DEFINE f == file
           ms == f.methods
           x == ms[m]
           as == x.attributes
           isName(index) == index \in 1..Len(Old) /\ Old[index].tag = "Utf8"
<1>1. input \in Inputs /\ \A c \in Bodies(f) : Encodable(c)
  BY DEF StageInv
<1>2. \A i : EntryAt(f.pool, i).tag = "Utf8" => isName(i) /\ EntryAt(f.pool, i) = Old[i]
  <2>1. Old \in Seq(Known) /\ f.pool \in Seq(Known) /\ Decodes(Old, f.pool)
    BY <1>1, OldFacts
  <2>2. /\ \A i \in 1..Len(Old) : EntryAt(f.pool, i) = Old[i]
        /\ \A i : EntryAt(f.pool, i) # Unused => i \in 1..Len(Old)
    BY <2>1, EntryFacts
  <2>3. Unused.tag # "Utf8"
    BY DEF Unused, Entry
  <2> QED
    BY <2>2, <2>3
<1>3. IsClassFile(f)
  BY <1>1, FileFacts
<1>4. /\ ms \in Seq(ToSet(ms))
      /\ \A y \in ToSet(ms) :
           /\ EntryAt(f.pool, y.name).tag = "Utf8" /\ EntryAt(f.pool, y.descr).tag = "Utf8"
           /\ y.attributes \in Seq(ToSet(y.attributes))
           /\ \A a \in ToSet(y.attributes) :
                /\ EntryAt(f.pool, a.name).tag = "Utf8"
                /\ IF EntryAt(f.pool, a.name).text = "Code" THEN IsMethod(a.body)
                                                           ELSE a.body = <<>>
  BY <1>3, Zenon DEF IsClassFile
<1> HIDE DEF isName
<1>5. /\ ms \in Seq(ToSet(ms))
      /\ \A y \in ToSet(ms) :
           /\ isName(y.name) /\ isName(y.descr)
           /\ y.attributes \in Seq(ToSet(y.attributes))
           /\ \A a \in ToSet(y.attributes) :
                /\ isName(a.name)
                /\ IF Old[a.name].text = "Code" THEN IsMethod(a.body) ELSE a.body = <<>>
  BY <1>2, <1>4, Zenon
<1>6. m \in DOMAIN ms
  <2> DEFINE S == ToSet(ms)
  <2>1. ms \in Seq(S)
    BY <1>5
  <2> HIDE DEF S
  <2> QED
    BY <2>1
<1>7. x \in ToSet(ms)
  BY <1>6 DEF ToSet
<1> HIDE DEF f, ms, x
<1>8. /\ isName(x.name) /\ isName(x.descr)
      /\ as \in Seq(ToSet(as))
      /\ \A a \in ToSet(as) :
           /\ isName(a.name)
           /\ IF Old[a.name].text = "Code" THEN IsMethod(a.body) ELSE a.body = <<>>
  BY <1>5, <1>7
<1> HIDE DEF as
<1>9. Len(as) \in Nat /\ DOMAIN as = 1..Len(as)
  <2> DEFINE S == ToSet(as)
  <2>1. as \in Seq(S)
    BY <1>8
  <2> HIDE DEF S
  <2>2. Len(as) \in Nat
    BY <2>1, LenProperties
  <2>3. DOMAIN as = 1..Len(as)
    BY <2>1, LenProperties
  <2> QED
    BY <2>2, <2>3
<1>10. ASSUME NEW a \in 1..Len(as)
       PROVE  /\ isName(as[a].name)
              /\ IF Old[as[a].name].text = "Code" THEN IsMethod(as[a].body) /\ Encodable(as[a].body)
                                                  ELSE as[a].body = <<>>
  <2>1. as[a] \in ToSet(as)
    BY <1>9 DEF ToSet
  <2>2. as[a].body \in {b.body : b \in ToSet(as)}
    BY <2>1
  <2>3. as[a].body \in Bodies(f)
    BY <1>7, <2>2 DEF Bodies, as, ms
  <2> QED
    BY <1>1, <1>8, <2>1, <2>3
<1> QED
  BY <1>8, <1>9, <1>10 DEF isName, as, x, ms, f

(* The strings of the class file are where they were.                      *)
LEMMA OldText ==
  ASSUME input \in Inputs, PoolInv, Loaded
  PROVE  \A i \in 1..Len(Old) : /\ i \in 1..Len(cpool.slots)
                                /\ cpool.slots[i] = Old[i] /\ Text(i) = Old[i].text
<1>1. PICK new \in Seq(New) : cpool.slots = Old \o new
  BY DEF PoolInv, Grown
<1>2. Old \in Seq(Known) /\ new \in Seq(Known)
  BY OldFacts
<1> DEFINE m == Len(Old)
           l == Len(new)
           s == cpool.slots
<1>3. /\ Len(s) = m + l
      /\ \A i \in 1..(m + l) : s[i] = IF i <= m THEN Old[i] ELSE new[i - m]
  BY <1>1, <1>2, ConcatProperties
<1>4. m \in Nat /\ l \in Nat
  BY <1>2, LenProperties
<1> HIDE DEF m, l
<1>5. \A i \in 1..m : i \in 1..(m + l) /\ i <= m
  BY <1>4
<1> QED
  BY <1>3, <1>5 DEF Text, m

(* The role of the code that is dealt with.                                *)
LEMMA RoleFacts ==
  ASSUME StageInv, PoolInv, stage = "attributes", HasAttribute, NEW c
  PROVE  /\ RoleOf(c) \in Roles
         /\ RoleOf(c) = "objectInit" <=> IsObjectConstructor(mnum)
<1>1. /\ mnum # 0 /\ mnum \in 0..Len(file.methods) /\ input \in Inputs /\ Loaded
      /\ isObjectClass <=> ~file.hasSuper
  BY DEF StageInv
<1>2. mnum \in 1..Len(file.methods)
  BY <1>1
<1>3. /\ Text(Method.name) = Old[file.methods[mnum].name].text
      /\ Text(Method.descr) = Old[file.methods[mnum].descr].text
  BY <1>1, <1>2, FileMethods, OldText DEF Method
<1>4. IsObjectInit <=> IsObjectConstructor(mnum)
  BY <1>1, <1>3, FileFacts DEF IsObjectInit, IsObjectConstructor
<1> QED
  BY <1>4 DEF RoleOf, Roles

(* The output grows by one attribute.                                      *)
LEMMA OutputGrows ==
  ASSUME NEW S, output \in Seq(Seq(S)), mnum \in 1..Len(output), NEW items \in S,
         WriteAttribute(items)
  PROVE  /\ output' \in Seq(Seq(S)) /\ Len(output') = Len(output)
         /\ Len(output[mnum]) \in Nat
         /\ Len(output'[mnum]) = Len(output[mnum]) + 1
         /\ \A a \in 1..Len(output[mnum]) : output'[mnum][a] = output[mnum][a]
         /\ output'[mnum][Len(output[mnum]) + 1] = items
         /\ \A m \in 1..Len(output) : m # mnum => output'[m] = output[m]
<1> DEFINE o == output[mnum]
           n == Append(o, items)
           T == Seq(S)
<1>1. output' = [output EXCEPT ![mnum] = n]
  BY DEF WriteAttribute
<1>2. o \in Seq(S) /\ items \in S
  <2>1. output \in Seq(T) /\ mnum \in 1..Len(output)
    OBVIOUS
  <2> HIDE DEF T
  <2>2. output[mnum] \in T
    BY <2>1, ElementOfSeq
  <2> QED
    BY <2>2 DEF T
<1> HIDE DEF o
<1>3. /\ n \in Seq(S) /\ Len(o) \in Nat /\ Len(n) = Len(o) + 1
      /\ \A a \in 1..Len(o) : n[a] = o[a]
      /\ n[Len(o) + 1] = items
  BY <1>2, AppendProperties, LenProperties
<1> HIDE DEF n
<1>4. n \in T /\ output \in Seq(T)
  BY <1>3
<1> HIDE DEF T
<1>5. /\ output' \in Seq(T) /\ Len(output') = Len(output) /\ output'[mnum] = n
      /\ \A m \in 1..Len(output) : m # mnum => output'[m] = output[m]
  BY <1>1, <1>4
<1> QED
  BY <1>3, <1>5 DEF o, T

(* Every item that is written is of the same kind.                         *)
LEMMA WrittenItems ==
  ASSUME MethodInv, Done
  PROVE  written \in Seq(AnyItem)
<1>1. Working /\ InputInv
  BY DEF MethodInv, Done, Working
<1>2. Len(code) \in Nat
  BY <1>1, InputFacts
<1>3. Items \subseteq AnyItem
  <2>1. 1..Len(code) \subseteq Nat /\ 1..20 \subseteq Nat
    BY <1>2
  <2> QED
    BY <2>1 DEF Items, AnyItem
<1>4. written \in Seq(Items)
  <2>1. CASE Copies
    <3>1. written = Copied(code)
      BY <1>1, <2>1 DEF MethodInv, CopyInv, Done
    <3>2. Copied(code) \in Seq(Items)
      BY <1>1, CopiedFacts
    <3> QED
      BY <3>1, <3>2
  <2>2. CASE ~Copies
    BY <2>2, RewroteFacts DEF Rewrote
  <2> QED
    BY <2>1, <2>2
<1> QED
  BY <1>3, <1>4

(* The steps before the methods ...                                        *)
FirstSteps ==
  \/ NoFile \/ Abort \/ CopyPool \/ AddClassNumber \/ AddTrackerClass
  \/ AddTrackerMethod \/ WriteCount \/ SkipInterface \/ CopyHeader
KeepMethods == UNCHANGED <<input, trackers, mnum, output, injectionCount, methodVars>>

(* ... leave the methods alone, and the other steps the input.             *)
LEMMA ClassSteps ==
  /\ NoFile => /\ stage = "arguments" /\ stage' = "returned" /\ input.empty
               /\ KeepMethods /\ UNCHANGED <<isObjectClass, image>>
  /\ Abort => /\ stage = "arguments" /\ stage' = "aborted"
              /\ KeepMethods /\ UNCHANGED <<isObjectClass, image>>
  /\ CopyPool => /\ stage = "arguments" /\ stage' = "number" /\ ~input.empty
                 /\ KeepMethods /\ UNCHANGED <<isObjectClass, image>>
  /\ AddClassNumber => /\ stage = "number" /\ stage' = "class"
                       /\ KeepMethods /\ UNCHANGED <<isObjectClass, image>>
  /\ AddTrackerClass => /\ stage = "class" /\ stage' = "trackers"
                        /\ KeepMethods /\ UNCHANGED <<isObjectClass, image>>
  /\ AddTrackerMethod => /\ stage = "trackers" /\ stage' = "trackers"
                         /\ KeepMethods /\ UNCHANGED <<isObjectClass, image>>
  /\ WriteCount => /\ stage = "trackers" /\ stage' = "header"
                   /\ KeepMethods /\ UNCHANGED <<isObjectClass, image>>
  /\ SkipInterface => /\ stage = "header" /\ stage' = "returned"
                      /\ KeepMethods /\ UNCHANGED <<isObjectClass, image>>
  /\ CopyHeader => /\ stage = "header" /\ stage' = "methods" /\ KeepMethods /\ image' = image
                   /\ isObjectClass' = ~file.hasSuper
  /\ BeginMethod => UNCHANGED <<input, trackers, methodVars>>
  /\ CopyAttribute => UNCHANGED <<input, trackers, methodVars>>
  /\ BeginCode => UNCHANGED <<input, trackers>>
  /\ RewriteCode => MethodStep /\ UNCHANGED <<input, trackers>>
  /\ EndCode => UNCHANGED <<input, trackers>>
  /\ EndMethod => UNCHANGED <<input, trackers, methodVars>>
  /\ FinishClass => UNCHANGED <<input, trackers, methodVars>>
<1>1. NoFile => /\ stage = "arguments" /\ stage' = "returned" /\ input.empty
                /\ KeepMethods /\ UNCHANGED <<isObjectClass, image>>
  BY DEF NoFile, Stage, KeepMethods
<1>2. Abort => /\ stage = "arguments" /\ stage' = "aborted"
               /\ KeepMethods /\ UNCHANGED <<isObjectClass, image>>
  BY DEF Abort, Stage, KeepMethods
<1>3. CopyPool => /\ stage = "arguments" /\ stage' = "number" /\ ~input.empty
                  /\ KeepMethods /\ UNCHANGED <<isObjectClass, image>>
  BY DEF CopyPool, Stage, KeepMethods
<1>4. AddClassNumber => /\ stage = "number" /\ stage' = "class"
                        /\ KeepMethods /\ UNCHANGED <<isObjectClass, image>>
  BY DEF AddClassNumber, Stage, KeepMethods
<1>5. AddTrackerClass => /\ stage = "class" /\ stage' = "trackers"
                         /\ KeepMethods /\ UNCHANGED <<isObjectClass, image>>
  BY DEF AddTrackerClass, Stage, KeepMethods
<1>6. AddTrackerMethod => /\ stage = "trackers" /\ stage' = "trackers"
                          /\ KeepMethods /\ UNCHANGED <<isObjectClass, image>>
  BY DEF AddTrackerMethod, KeepMethods
<1>7. WriteCount => /\ stage = "trackers" /\ stage' = "header"
                    /\ KeepMethods /\ UNCHANGED <<isObjectClass, image>>
  BY DEF WriteCount, Stage, KeepMethods
<1>8. SkipInterface => /\ stage = "header" /\ stage' = "returned"
                       /\ KeepMethods /\ UNCHANGED <<isObjectClass, image>>
  BY DEF SkipInterface, Stage, KeepMethods
<1>9. CopyHeader => /\ stage = "header" /\ stage' = "methods" /\ KeepMethods /\ image' = image
                    /\ isObjectClass' = ~file.hasSuper
  BY DEF CopyHeader, Stage, KeepMethods
<1>10. /\ BeginMethod => UNCHANGED <<input, trackers, methodVars>>
       /\ CopyAttribute => UNCHANGED <<input, trackers, methodVars>>
       /\ BeginCode => UNCHANGED <<input, trackers>>
       /\ EndCode => UNCHANGED <<input, trackers>>
       /\ EndMethod => UNCHANGED <<input, trackers, methodVars>>
       /\ FinishClass => UNCHANGED <<input, trackers, methodVars>>
  BY DEF BeginMethod, CopyAttribute, BeginCode, MethodInit, EndCode, EndMethod, FinishClass
<1>11. RewriteCode => MethodStep /\ UNCHANGED <<input, trackers>>
  BY StepFrame DEF RewriteCode, inputVars, classVars
<1> QED
  BY <1>1, <1>2, <1>3, <1>4, <1>5, <1>6, <1>7, <1>8, <1>9, <1>10, <1>11

(* What no step of the class changes.                                      *)
LEMMA NextKeeps ==
  ASSUME Next
  PROVE  /\ input' = input /\ trackers' = trackers /\ file' = file /\ Old' = Old
         /\ AnyItem' = AnyItem /\ BeforeMethods' = BeforeMethods
         /\ Bodies(file)' = Bodies(file) /\ \A c : Encodable(c)' = Encodable(c)
         /\ \A m : IsObjectConstructor(m)' = IsObjectConstructor(m)
<1>1. input' = input /\ trackers' = trackers
  BY ClassSteps DEF Next, KeepMethods
<1>2. file' = file /\ Old' = Old
  BY <1>1 DEF file, Old
<1>3. \A m : IsObjectConstructor(m)' = IsObjectConstructor(m)
  BY <1>2 DEF IsObjectConstructor
<1>4. Bodies(file)' = Bodies(file)
  BY <1>2
<1>5. \A c : Encodable(c)' = Encodable(c)
  OBVIOUS
<1>6. AnyItem' = AnyItem /\ BeforeMethods' = BeforeMethods
  OBVIOUS
<1> QED
  BY <1>1, <1>2, <1>3, <1>4, <1>5, <1>6

(* The steps before the methods keep the stages in order.                  *)
LEMMA StageFirst ==
  ASSUME StageInv, Next, FirstSteps
  PROVE  StageInv'
<1>1. /\ input' = input /\ trackers' = trackers /\ file' = file
      /\ AnyItem' = AnyItem /\ BeforeMethods' = BeforeMethods
  BY NextKeeps
<1>2. /\ stage \in BeforeMethods /\ stage # "aborted" /\ stage' \notin {"attributes", "code"}
      /\ stage' \in BeforeMethods \cup {"methods", "returned"}
      /\ stage' = "number" => stage = "arguments" /\ ~input.empty
      /\ stage' \in {"class", "trackers", "header", "methods"} =>
           stage \in {"number", "class", "trackers", "header"}
      /\ isObjectClass' = ~file.hasSuper \/ isObjectClass' = isObjectClass
      /\ stage' = "methods" => isObjectClass' = ~file.hasSuper
      /\ KeepMethods /\ image' = image
  BY ClassSteps DEF FirstSteps, BeforeMethods
<1>3. /\ input \in Inputs /\ trackers = input.trackers
      /\ \A c \in Bodies(file) : Encodable(c)
      /\ mnum \in 0..Len(file.methods) /\ Len(output) = mnum
      /\ output \in Seq(Seq(Seq(AnyItem))) /\ isObjectClass \in BOOLEAN /\ image \in BOOLEAN
  BY DEF StageInv
<1>4. mnum = 0
  BY <1>2, <1>3 DEF StageInv
<1>5. Working' = Working /\ ~Working
  BY <1>2 DEF StageInv, BeforeMethods, Working, methodVars, KeepMethods
<1>6. stage' \in {"number", "class", "trackers", "header", "methods"} => Loaded'
  <2>1. CASE stage' = "number"
    BY <1>1, <1>2, <2>1 DEF Loaded
  <2>2. CASE stage' \in {"class", "trackers", "header", "methods"}
    <3>1. Loaded
      BY <1>2, <2>2 DEF StageInv
    <3> QED
      BY <1>1, <2>2, <3>1 DEF Loaded
  <2> QED
    BY <2>1, <2>2
<1>7. stage' # "code" /\ stage' # "attributes"
  BY <1>2
<1>8. isObjectClass' \in BOOLEAN
  BY <1>2, <1>3
<1>9. \A m \in 1..mnum : FALSE
  BY <1>4
<1>10. (\A c \in Bodies(file) : Encodable(c))'
  BY <1>3, NextKeeps
<1>11. mnum' = mnum /\ output' = output /\ image' = image
  BY <1>2 DEF KeepMethods
<1> QED
  BY <1>1, <1>2, <1>3, <1>4, <1>5, <1>6, <1>7, <1>8, <1>9, <1>10, <1>11 DEF StageInv

Attributes == Seq(AnyItem)

(* The next method.                                                        *)
LEMMA StageBegins ==
  ASSUME StageInv, Next, BeginMethod
  PROVE  StageInv'
<1> DEFINE T == Seq(Attributes)
           N == Len(file.methods)
<1>1. /\ stage = "methods" /\ stage' = "attributes" /\ mnum < N /\ mnum' = mnum + 1
      /\ attribute' = 0 /\ output' = Append(output, <<>>)
      /\ UNCHANGED <<isObjectClass, image, methodVars>>
  BY DEF BeginMethod, Stage
<1>2. /\ input' = input /\ trackers' = trackers /\ file' = file
      /\ AnyItem' = AnyItem /\ BeforeMethods' = BeforeMethods
      /\ Bodies(file)' = Bodies(file) /\ \A c : Encodable(c)' = Encodable(c)
  BY NextKeeps
<1>3. /\ input \in Inputs /\ trackers = input.trackers
      /\ \A c \in Bodies(file) : Encodable(c)
      /\ mnum \in 0..N /\ Len(output) = mnum
      /\ output \in Seq(T) /\ isObjectClass \in BOOLEAN /\ image \in BOOLEAN
      /\ Loaded /\ (isObjectClass <=> ~file.hasSuper) /\ ~Working
      /\ \A m \in 1..mnum : Len(output[m]) <= Len(file.methods[m].attributes)
  BY <1>1 DEF StageInv, Attributes
<1>4. <<>> \in T /\ Len(<<>>) = 0
  OBVIOUS
<1>5. N \in Nat
  <2>1. file.methods \in Seq(ToSet(file.methods))
    BY <1>3, FileFacts DEF IsClassFile
  <2> QED
    BY <2>1, LenProperties
<1> HIDE DEF T, N
<1> DEFINE o == Append(output, <<>>)
<1>6. /\ o \in Seq(T) /\ Len(o) = mnum + 1
      /\ \A m \in 1..mnum : o[m] = output[m]
      /\ o[mnum + 1] = <<>>
  BY <1>3, <1>4, AppendProperties
<1> HIDE DEF o
<1>7. output' = o
  BY <1>1 DEF o
<1>8. mnum' \in 0..N /\ mnum' # 0 /\ mnum' \in 1..N
  BY <1>1, <1>3, <1>5
<1>9. ASSUME NEW m \in 1..(mnum + 1) PROVE Len(o[m]) <= Len(file.methods[m].attributes)
  <2>1. CASE m = mnum + 1
    <3>1. m \in 1..N
      BY <1>1, <1>8, <2>1
    <3>2. Len(file.methods[m].attributes) \in Nat
      BY <3>1, FileMethods DEF N
    <3> QED
      BY <1>4, <1>6, <2>1, <3>2
  <2>2. CASE m # mnum + 1
    <3>1. m \in 1..mnum
      BY <1>3, <2>2
    <3> QED
      BY <1>3, <1>6, <3>1
  <2> QED
    BY <2>1, <2>2
<1>10. attribute' = Len(output'[mnum'])
  BY <1>1, <1>4, <1>6, <1>7
<1>11. Loaded' /\ ~Working' /\ stage' \notin BeforeMethods
  BY <1>1, <1>2, <1>3 DEF Loaded, Working, methodVars, BeforeMethods
<1>12. (\A c \in Bodies(file) : Encodable(c))'
  BY <1>2, <1>3
<1>13. output' \in Seq(T) /\ Len(output') = mnum' /\ mnum' = mnum + 1
  BY <1>1, <1>6, <1>7
<1>14. \A m \in 1..mnum' : Len(output'[m]) <= Len(file'.methods[m].attributes)
  BY <1>2, <1>7, <1>9, <1>13
<1>15. T = Seq(Seq(AnyItem))
  BY DEF T, Attributes
<1> HIDE DEF o
<1> QED
  BY <1>1, <1>2, <1>3, <1>8, <1>10, <1>11, <1>12, <1>13, <1>14, <1>15 DEF StageInv, N

(* One more attribute of the method is written.                            *)
LEMMA StageWrites ==
  ASSUME StageInv, Next, stage \in {"attributes", "code"}, stage' = "attributes", HasAttribute,
         NEW items \in Attributes, WriteAttribute(items), ~Working',
         UNCHANGED <<isObjectClass, mnum, image>>
  PROVE  StageInv'
<1> DEFINE T == Seq(Attributes)
           N == Len(file.methods)
           L == Len(Method.attributes)
<1>1. attribute' = attribute + 1 /\ attribute < L
  BY DEF WriteAttribute, HasAttribute
<1>2. /\ input' = input /\ trackers' = trackers /\ file' = file
      /\ AnyItem' = AnyItem /\ BeforeMethods' = BeforeMethods
      /\ Bodies(file)' = Bodies(file) /\ \A c : Encodable(c)' = Encodable(c)
  BY NextKeeps
<1>3. /\ input \in Inputs /\ trackers = input.trackers
      /\ \A c \in Bodies(file) : Encodable(c)
      /\ mnum \in 0..N /\ Len(output) = mnum /\ mnum # 0 /\ attribute = Len(output[mnum])
      /\ output \in Seq(T) /\ isObjectClass \in BOOLEAN /\ image \in BOOLEAN
      /\ Loaded /\ (isObjectClass <=> ~file.hasSuper)
      /\ \A m \in 1..mnum : Len(output[m]) <= Len(file.methods[m].attributes)
  BY DEF StageInv, Attributes
<1>4. mnum \in 1..Len(output) /\ mnum \in 1..N
  BY <1>3
<1>5. L \in Nat /\ L = Len(file.methods[mnum].attributes)
  BY <1>4, FileMethods DEF Method
<1>6. /\ output' \in Seq(T) /\ Len(output') = Len(output)
      /\ Len(output[mnum]) \in Nat
      /\ Len(output'[mnum]) = Len(output[mnum]) + 1
      /\ \A m \in 1..Len(output) : m # mnum => output'[m] = output[m]
  BY <1>3, <1>4, OutputGrows
<1> HIDE DEF T, N, L
<1>7. Len(output'[mnum]) <= L
  BY <1>1, <1>3, <1>5, <1>6
<1>8. \A m \in 1..mnum' : Len(output'[m]) <= Len(file'.methods[m].attributes)
  BY <1>2, <1>3, <1>5, <1>6, <1>7
<1>9. Loaded' /\ stage' \notin BeforeMethods /\ stage' # "code"
  BY <1>2, <1>3 DEF Loaded, BeforeMethods
<1>10. (\A c \in Bodies(file) : Encodable(c))'
  BY <1>2, <1>3
<1>11. attribute' = Len(output'[mnum']) /\ mnum' = mnum
  BY <1>1, <1>3, <1>6
<1>12. T = Seq(Seq(AnyItem))
  BY DEF T, Attributes
<1> QED
  BY <1>2, <1>3, <1>6, <1>8, <1>9, <1>10, <1>11, <1>12 DEF StageInv, N

(* Nothing of the methods but the code that is dealt with changes.         *)
LEMMA StageSame ==
  ASSUME StageInv, Next, UNCHANGED <<isObjectClass, mnum, attribute, output>>,
         image' \in BOOLEAN, stage \notin BeforeMethods,
         stage' \in {"methods", "attributes", "code", "returned"},
         stage \in {"methods", "attributes", "code"},
         stage' \in {"attributes", "code"} => stage \in {"attributes", "code"},
         IF stage' = "code" THEN /\ Working' /\ HasAttribute
                                 /\ code' = Attribute.body
                                 /\ role' = "objectInit" <=> IsObjectConstructor(mnum)
                            ELSE ~Working'
  PROVE  StageInv'
<1>1. /\ input' = input /\ trackers' = trackers /\ file' = file
      /\ AnyItem' = AnyItem /\ BeforeMethods' = BeforeMethods
      /\ Bodies(file)' = Bodies(file) /\ \A c : Encodable(c)' = Encodable(c)
      /\ IsObjectConstructor(mnum)' = IsObjectConstructor(mnum)
  <2>1. \A m : IsObjectConstructor(m)' = IsObjectConstructor(m)
    BY NextKeeps
  <2>2. mnum' = mnum
    OBVIOUS
  <2> QED
    BY <2>2, NextKeeps DEF IsObjectConstructor
<1>2. Loaded' /\ stage' \notin BeforeMethods
  <2>1. Loaded
    BY DEF StageInv
  <2> QED
    BY <1>1, <2>1 DEF Loaded, BeforeMethods
<1>3. HasAttribute' = HasAttribute /\ Attribute' = Attribute
  BY <1>1 DEF HasAttribute, Attribute, Method
<1>4. (\A c \in Bodies(file) : Encodable(c))'
  BY <1>1 DEF StageInv
<1>5. /\ input' \in Inputs /\ trackers' = input'.trackers
      /\ isObjectClass' \in BOOLEAN
      /\ isObjectClass' <=> ~file'.hasSuper
      /\ mnum' \in 0..Len(file'.methods)
      /\ output' \in Seq(Seq(Seq(AnyItem'))) /\ Len(output') = mnum'
      /\ stage' \in {"attributes", "code"} => mnum' # 0 /\ attribute' = Len(output'[mnum'])
      /\ \A m \in 1..mnum' : Len(output'[m]) <= Len(file'.methods[m].attributes)
  BY <1>1 DEF StageInv
<1> QED
  BY <1>1, <1>2, <1>3, <1>4, <1>5 DEF StageInv

(* A method is dealt with as the invariant says.                           *)
LEMMA MethodInvStep ==
  ASSUME StageInv, PoolInv, MethodInv, Next
  PROVE  MethodInv'
<1>1. input \in Inputs /\ trackers \subseteq Trackers
  <2>1. input \in Inputs /\ trackers = input.trackers
    BY DEF StageInv
  <2> QED
    BY <2>1, FileFacts
<1>2. CASE UNCHANGED <<methodVars, trackers>>
  BY <1>2, MethodStays
<1>3. CASE BeginCode
  <2> DEFINE c == Attribute.body
             r == RoleOf(c)
  <2>1. /\ stage = "attributes" /\ HasAttribute /\ MethodInit(c, r)
        /\ Text(Attribute.name) = "Code"
    BY <1>3 DEF BeginCode, Stage
  <2>2. /\ mnum # 0 /\ mnum \in 0..Len(file.methods) /\ Len(output) = mnum
        /\ attribute = Len(output[mnum]) /\ Loaded
        /\ output \in Seq(Seq(Seq(AnyItem)))
    BY <2>1 DEF StageInv
  <2>3. mnum \in 1..Len(file.methods) /\ mnum \in 1..Len(output)
    BY <2>2
  <2>4. attribute \in Nat
    <3> DEFINE T == Seq(Seq(AnyItem))
    <3>1. output \in Seq(T)
      BY <2>2
    <3> HIDE DEF T
    <3>2. output[mnum] \in T
      BY <2>3, <3>1, ElementOfSeq
    <3> QED
      BY <2>2, <3>2, LenProperties DEF T
  <2>5. Len(Method.attributes) \in Nat
    BY <2>3, FileMethods DEF Method
  <2>6. attribute + 1 \in 1..Len(Method.attributes)
    BY <2>1, <2>4, <2>5 DEF HasAttribute
  <2>7. /\ Attribute.name \in 1..Len(Old)
        /\ Old[Attribute.name].text = "Code" => IsMethod(c) /\ Encodable(c)
    BY <2>3, <2>6, FileMethods DEF Method, Attribute
  <2>8. IsMethod(c) /\ Encodable(c)
    BY <1>1, <2>1, <2>2, <2>7, OldText
  <2>9. r \in Roles
    BY <2>1, RoleFacts
  <2> HIDE DEF c, r
  <2> QED
    BY <1>1, <2>1, <2>8, <2>9, MethodBegin
<1>4. CASE RewriteCode
  BY <1>4, MethodNext DEF RewriteCode
<1>5. CASE EndCode
  <2>1. phase' = "none" /\ ip' = ip /\ UNCHANGED <<inputVars, map, injections, widening,
           extraStack, written, tableVars>>
    BY <1>5 DEF EndCode, inputVars
  <2> QED
    BY <2>1, MethodLeft
<1> QED
  BY <1>2, <1>3, <1>4, <1>5, ClassSteps DEF Next, KeepMethods

(* Every step keeps the stages in order.                                   *)
LEMMA StageStep ==
  ASSUME StageInv, PoolInv, MethodInv, Next
  PROVE  StageInv'
<1>1. CASE FirstSteps
  BY <1>1, StageFirst
<1>2. CASE BeginMethod
  BY <1>2, StageBegins
<1>3. stage # "code" => ~Working
  BY DEF StageInv
<1>4. image \in BOOLEAN /\ \A x \in {"methods", "attributes", "code"} : x \notin BeforeMethods
  BY DEF StageInv, BeforeMethods
<1>5. CASE CopyAttribute
  <2>1. /\ stage = "attributes" /\ stage' = "attributes" /\ HasAttribute /\ WriteAttribute(<<>>)
        /\ UNCHANGED <<isObjectClass, mnum, image>> /\ phase' = phase
    BY <1>5 DEF CopyAttribute, Stage, methodVars
  <2>2. ~Working'
    BY <1>3, <2>1 DEF Working
  <2>3. <<>> \in Attributes
    BY DEF Attributes
  <2> QED
    BY <2>1, <2>2, <2>3, StageWrites
<1>6. CASE BeginCode
  <2> DEFINE c == Attribute.body
  <2>1. /\ stage = "attributes" /\ stage' = "code" /\ HasAttribute /\ MethodInit(c, RoleOf(c))
        /\ UNCHANGED <<isObjectClass, mnum, attribute, output, image>>
    BY <1>6 DEF BeginCode, Stage
  <2>2. code' = c /\ role' = RoleOf(c) /\ Working'
    BY <2>1 DEF MethodInit, Working
  <2>3. role' = "objectInit" <=> IsObjectConstructor(mnum)
    BY <2>1, <2>2, RoleFacts
  <2> QED
    BY <1>4, <2>1, <2>2, <2>3, StageSame
<1>7. CASE RewriteCode
  <2>1. /\ stage = "code" /\ stage' = "code" /\ MethodStep
        /\ UNCHANGED <<isObjectClass, mnum, attribute, output, image>>
    BY <1>7 DEF RewriteCode, classVars
  <2>2. /\ Working /\ HasAttribute
        /\ code = Attribute.body
        /\ role = "objectInit" <=> IsObjectConstructor(mnum)
    BY <2>1 DEF StageInv
  <2>3. code' = code /\ role' = role
    BY <2>1, StepFrame DEF inputVars
  <2>4. Working'
    BY <2>1, StepPhases, PlainFacts DEF MethodInv
  <2> QED
    BY <1>4, <2>1, <2>2, <2>3, <2>4, StageSame
<1>8. CASE EndCode
  <2>1. /\ stage = "code" /\ stage' = "attributes" /\ phase = "done" /\ phase' = "none"
        /\ WriteAttribute(written)
        /\ UNCHANGED <<isObjectClass, mnum, image>>
    BY <1>8 DEF EndCode, Stage
  <2>2. HasAttribute
    BY <2>1 DEF StageInv
  <2>3. written \in Attributes
    BY <2>1, WrittenItems DEF Done, Attributes
  <2>4. ~Working'
    BY <2>1 DEF Working
  <2> QED
    BY <2>1, <2>2, <2>3, <2>4, StageWrites
<1>9. CASE EndMethod
  <2>1. /\ stage = "attributes" /\ stage' = "methods" /\ phase' = phase
        /\ UNCHANGED <<isObjectClass, mnum, attribute, output, image>>
    BY <1>9 DEF EndMethod, Stage, methodVars
  <2>2. ~Working'
    BY <1>3, <2>1 DEF Working
  <2> QED
    BY <1>4, <2>1, <2>2, StageSame
<1>10. CASE FinishClass
  <2>1. /\ stage = "methods" /\ stage' = "returned" /\ phase' = phase
        /\ UNCHANGED <<isObjectClass, mnum, attribute, output>>
        /\ image' = (injectionCount > 0)
    BY <1>10 DEF FinishClass, Stage, methodVars
  <2>2. ~Working'
    BY <1>3, <2>1 DEF Working
  <2>3. image' \in BOOLEAN
    BY <2>1
  <2> QED
    BY <1>4, <2>1, <2>2, <2>3, StageSame
<1> QED
  BY <1>1, <1>2, <1>5, <1>6, <1>7, <1>8, <1>9, <1>10 DEF Next, FirstSteps

-----------------------------------------------------------------------------
(* What is written for a method is as promised.                            *)

(* Where the call at the entry of the constructor is.                      *)
Tracking == {k \in DOMAIN written : written[k].what = "obj_init_tracker"}
ConstructorCall == role = "objectInit" /\ "obj_init_tracker" \in trackers

(* Which calls there are in front of an instruction.                       *)
LEMMA EntryCall ==
  ASSUME NEW i
  PROVE  /\ Pre(i) # <<>> => Pre(i)[1] \in Trackers
         /\ Pre(i) # <<>> /\ Pre(i)[1] = "obj_init_tracker" => i = 1 /\ ConstructorCall
         /\ ConstructorCall => Pre(1) # <<>> /\ Pre(1)[1] = "obj_init_tracker"
         /\ Before(i) # <<>> => Before(i)[1] = "return_tracker"
<1>1. \A t : Template(t) # <<>> => t \in trackers /\ Template(t)[1] = t
  BY DEF Template
<1>2. \A t : t \in trackers => Template(t) # <<>> /\ Template(t)[1] = t
  BY DEF Template
<1>3. EntryInjection # <<>> /\ EntryInjection[1] = "obj_init_tracker" => ConstructorCall
  BY <1>1 DEF EntryInjection, ConstructorCall
<1>4. ConstructorCall => EntryInjection # <<>> /\ EntryInjection[1] = "obj_init_tracker"
  BY <1>2 DEF EntryInjection, ConstructorCall
<1>5. \A op : AfterInjection(op) # <<>> => AfterInjection(op)[1] = "newarray_tracker"
  BY <1>1 DEF AfterInjection
<1>6. Pre(1) = EntryInjection
  BY DEF Pre
<1>7. i # 1 /\ Pre(i) # <<>> => Pre(i)[1] = "newarray_tracker"
  BY <1>5 DEF Pre
<1>8. Pre(i) # <<>> => Pre(i)[1] \in Trackers
  BY PreWhat, WhatFacts
<1> QED
  BY <1>3, <1>4, <1>6, <1>7, <1>8, PreWhat

(* The first byte of the output belongs to the first item.                 *)
LEMMA FirstItem ==
  ASSUME Rewrote, NEW k \in 1..Len(written), Offsets[k] = 0
  PROVE  k = 1
<1> DEFINE N == Len(written)
           a == Offsets[1]
           b == Offsets[k]
           l == written[1].len
<1>1. N \in Nat /\ written \in Seq(Items)
  BY RewroteFacts
<1>2. \A j \in 1..N : written[j].len \in 1..20
  <2>1. \A j \in 1..N : written[j] \in Items
    BY <1>1, ElementOfSeq
  <2> QED
    BY <2>1 DEF Items
<1>3. \A j \in 1..N : written[j].len \in Nat
  <2>1. \A x \in 1..20 : x \in Nat
    OBVIOUS
  <2> HIDE DEF N
  <2> QED
    BY <1>2, <2>1
<1>4. 1 \in 1..N
  BY <1>1
<1>5. Offsets \in [1..(N + 1) -> Nat] /\ Offsets[1] = 0
  BY <1>1, <1>3, StartsFacts DEF Offsets
<1>6. k # 1 => k \in (1 + 1)..(N + 1)
  <2> HIDE DEF N
  <2>1. k \in 1..N
    BY DEF N
  <2> QED
    BY <1>1, <2>1
<1>7. k # 1 => a + l <= b
  BY <1>1, <1>3, <1>4, <1>6, StartsIncrease DEF Offsets
<1>8. l \in 1..20
  BY <1>2, <1>4
<1>9. a = 0 /\ b = 0
  BY <1>5
<1> HIDE DEF a, b, l
<1> QED
  BY <1>7, <1>8, <1>9

(* The constructor of Object begins with its call; no other code has it.   *)
LEMMA FinishedTracking ==
  ASSUME MethodInv, Done
  PROVE  Tracking = IF ConstructorCall THEN {1} ELSE {}
<1>1. Working /\ InputInv
  BY DEF MethodInv, Done, Working
<1>2. CASE Copies
  <2>1. written = Copied(code)
    BY <1>1, <1>2 DEF MethodInv, CopyInv, Done
  <2>2. /\ DOMAIN written = 1..Len(code)
        /\ \A k \in 1..Len(code) : written[k].what = code[k].op
    BY <1>1, <2>1, CopiedFacts DEF Item
  <2>3. \A k \in 1..Len(code) : code[k].op \in Opcodes
    BY <1>1, InputFacts
  <2>4. "obj_init_tracker" \notin Opcodes
    BY DEF Opcodes, Fixed, Branches
  <2>5. Tracking = {}
    BY <2>2, <2>3, <2>4 DEF Tracking
  <2>6. ~ConstructorCall
    BY <1>2 DEF Copies, ConstructorCall
  <2> QED
    BY <2>5, <2>6
<1>3. CASE ~Copies
  <2>1. Rewrote
    BY <1>3 DEF Rewrote
  <2>2. DOMAIN written = 1..Len(written) /\ WrittenOK(written, Len(code)) /\ MapInv /\ SiteInv
    BY <2>1, RewroteFacts
  <2>3. 1 \in 1..Len(code) /\ 1 \in 1..End
    BY <1>1, InputFacts
  <2>4. map[1] - InjectedLength(Pre(1)) = 0
    <3>1. PreNow(1) = Pre(1)
      BY <1>1, <1>3, <2>2, <2>3, SitesDone DEF Done, Adjusted
    <3>2. map[1] = InjectedLength(Pre(1))
      BY <1>1, <2>2, <3>1 DEF MapInv
    <3>3. InjectedLength(Pre(1)) \in 0..9
      BY PreFacts, TemplatesFacts
    <3> DEFINE a == map[1]
               b == InjectedLength(Pre(1))
    <3> HIDE DEF a, b
    <3>4. a = b /\ b \in 0..9
      BY <3>2, <3>3 DEF a, b
    <3>5. a - b = 0
      BY <3>4
    <3> QED
      BY <3>5 DEF a, b
  <2>5. \A k \in 1..Len(written) : IsPre(written, k, 1) => k = 1
    <3> SUFFICES ASSUME NEW k \in 1..Len(written), IsPre(written, k, 1) PROVE k = 1
      OBVIOUS
    <3>1. Offsets[k] = 0
      BY <2>4 DEF IsPre, Offsets
    <3> QED
      BY <2>1, <3>1, FirstItem
  <2>6. ASSUME NEW k \in 1..Len(written), written[k].what = "obj_init_tracker"
        PROVE  k = 1 /\ ConstructorCall
    <3>1. PICK i \in 1..Len(code) :
            IsPre(written, k, i) \/ IsBefore(written, k, i) \/ IsFirst(written, k, i)
            \/ IsSecond(written, k, i)
      BY <2>2 DEF WrittenOK
    <3>2. RewriteOK(i, Rewritten(i))
      BY <2>1, RewroteFacts
    <3>3. "obj_init_tracker" \notin Opcodes \cup {"inverse"}
      BY DEF Opcodes, Fixed, Branches
    <3>4. ~IsFirst(written, k, i)
      BY <2>6, <3>2, <3>3 DEF IsFirst, RewriteOK
    <3>5. ~IsSecond(written, k, i)
      BY <2>6, <3>2 DEF IsSecond, RewriteOK
    <3>6. ~IsBefore(written, k, i)
      <4>1. IsBefore(written, k, i) => written[k].what = "return_tracker"
        BY EntryCall DEF IsBefore, CallItem, Item
      <4> QED
        BY <2>6, <4>1
    <3>7. IsPre(written, k, i) /\ Pre(i) # <<>> /\ written[k].what = Pre(i)[1]
      BY <3>1, <3>4, <3>5, <3>6 DEF IsPre, CallItem, Item
    <3>8. i = 1 /\ ConstructorCall
      BY <2>6, <3>7, EntryCall
    <3> QED
      BY <2>5, <3>7, <3>8
  <2>7. ConstructorCall => 1 \in 1..Len(written) /\ written[1].what = "obj_init_tracker"
    <3> SUFFICES ASSUME ConstructorCall
                 PROVE  1 \in 1..Len(written) /\ written[1].what = "obj_init_tracker"
      OBVIOUS
    <3>1. Pre(1) # <<>> /\ Pre(1)[1] = "obj_init_tracker"
      BY EntryCall
    <3>2. PICK k \in 1..Len(written) : IsPre(written, k, 1)
      BY <2>2, <2>3, <3>1 DEF WrittenOK
    <3>3. k = 1
      BY <2>5, <3>2
    <3> QED
      BY <3>1, <3>2, <3>3 DEF IsPre, CallItem, Item
  <2>8. Tracking = {k \in 1..Len(written) : written[k].what = "obj_init_tracker"}
    BY <2>2 DEF Tracking
  <2> QED
    BY <2>6, <2>7, <2>8
<1> QED
  BY <1>2, <1>3

(* Where only the constructor is tracked, all other code is as it was.     *)
LEMMA FinishedCopy ==
  ASSUME MethodInv, Done, trackers = {"obj_init_tracker"}, role # "objectInit"
  PROVE  written = Copied(code)
<1>1. Working /\ InputInv /\ CopyInv /\ phase = "done"
  BY DEF MethodInv, Done, Working
<1>2. CASE Copies
  BY <1>1, <1>2 DEF CopyInv
<1>3. CASE ~Copies
  <2>1. written = [i \in 1..Instructed |-> Copied(code)[i]]
    BY <1>1, <1>3 DEF CopyInv, Untouched
  <2>2. Instructed = Len(code)
    BY <1>1, <1>3 DEF Instructed, Adjusted
  <2>3. DOMAIN Copied(code) = 1..Len(code)
    BY <1>1, CopiedFacts
  <2>4. Copied(code) = [i \in DOMAIN Copied(code) |-> Copied(code)[i]]
    BY DEF Copied
  <2> QED
    BY <2>1, <2>2, <2>3, <2>4
<1> QED
  BY <1>2, <1>3

(* The injections of a method are counted one by one.                      *)
LEMMA InjectedFacts ==
  ASSUME Working, MethodInv
  PROVE  /\ Injected \in Nat
         /\ Injected > 0 <=> \E i \in 1..End : injections[i] # <<>>
<1> DEFINE J == injections
           T == Seq(Trackers)
           L == [i \in DOMAIN J |-> Len(J[i])]
           N == End
<1>1. Injected = Total(L)
  BY DEF Injected
<1>2. J \in [1..N -> T]
  BY DEF MethodInv, MethodTypeOK
<1>3. N \in Nat /\ N >= 1
  BY InputFacts DEF MethodInv
<1> HIDE DEF J, N, T
<1>4. \A i \in 1..N : Len(J[i]) \in Nat /\ (Len(J[i]) > 0 <=> J[i] # <<>>)
  <2> SUFFICES ASSUME NEW i \in 1..N
               PROVE  Len(J[i]) \in Nat /\ (Len(J[i]) > 0 <=> J[i] # <<>>)
    OBVIOUS
  <2> DEFINE s == J[i]
             l == Len(s)
  <2>1. s \in Seq(Trackers)
    BY <1>2 DEF T
  <2> HIDE DEF s
  <2>2. l \in Nat /\ (s # <<>> => l \in Nat \ {0}) /\ (s = <<>> => l = 0)
    BY <2>1, EmptySeq, LenProperties
  <2> HIDE DEF l
  <2>3. l \in Nat /\ (l > 0 <=> s # <<>>)
    BY <2>2
  <2> QED
    BY <2>3 DEF s, l
<1>5. L = [i \in 1..N |-> Len(J[i])]
  BY <1>2
<1> HIDE DEF L
<1>6. Len(L) = N
  BY <1>3, <1>5
<1>7. \A i \in 1..Len(L) : L[i] \in Nat
  BY <1>4, <1>5, <1>6
<1>8. /\ Total(L) \in Nat
      /\ Total(L) > 0 <=> \E i \in 1..Len(L) : L[i] > 0
  BY <1>3, <1>6, <1>7, TotalPositive
<1>9. (\E i \in 1..Len(L) : L[i] > 0) <=> \E i \in 1..N : J[i] # <<>>
  BY <1>4, <1>5, <1>6
<1> QED
  BY <1>1, <1>8, <1>9 DEF J, N

(* They are counted exactly when they are written.                         *)
LEMMA FinishedCount ==
  ASSUME MethodInv, Done
  PROVE  /\ Injected \in Nat
         /\ Injected > 0 <=> CallsIn(written) # {}
<1>1. Working /\ InputInv /\ SiteInv /\ phase = "done"
  BY DEF MethodInv, Done, Working
<1>2. Injected \in Nat /\ (Injected > 0 <=> \E i \in 1..End : injections[i] # <<>>)
  BY <1>1, InjectedFacts
<1>3. CASE Copies
  <2>1. written = Copied(code)
    BY <1>1, <1>3 DEF MethodInv, CopyInv
  <2>2. /\ DOMAIN written = 1..Len(code)
        /\ \A k \in 1..Len(code) : written[k].what = code[k].op
    BY <1>1, <2>1, CopiedFacts DEF Item
  <2>3. \A k \in 1..Len(code) : code[k].op \in Opcodes
    BY <1>1, InputFacts
  <2>4. CallsIn(written) = {}
    BY <2>2, <2>3, WhatFacts DEF CallsIn
  <2>5. ASSUME NEW i \in 1..End PROVE injections[i] = <<>>
    <3>1. Handled = 0
      BY <1>3 DEF Handled
    <3>2. Len(code) \in Nat /\ End = Len(code) + 1
      BY <1>1, InputFacts
    <3>3. ~(i <= Handled) /\ ~(i < Handled)
      BY <3>1, <3>2
    <3>4. PreNow(i) = <<>> /\ BeforeNow(i) = <<>>
      BY <3>3 DEF PreNow, BeforeNow
    <3>5. <<>> \o <<>> = <<>>
      OBVIOUS
    <3> QED
      BY <1>1, <3>4, <3>5 DEF SiteInv
  <2> QED
    BY <1>2, <2>4, <2>5
<1>4. CASE ~Copies
  <2>1. Rewrote
    BY <1>4 DEF Rewrote
  <2>2. DOMAIN written = 1..Len(written) /\ WrittenOK(written, Len(code))
    BY <2>1, RewroteFacts
  <2>3. \A i \in 1..End : injections[i] = Pre(i) \o Before(i)
    BY <1>1, <1>4, SitesDone DEF Adjusted
  <2>4. \A i \in 1..End : injections[i] # <<>> <=> Pre(i) # <<>> \/ Before(i) # <<>>
    <3> SUFFICES ASSUME NEW i \in 1..End
                 PROVE  injections[i] # <<>> <=> Pre(i) # <<>> \/ Before(i) # <<>>
      OBVIOUS
    <3>1. Pre(i) \in Seq(Trackers) /\ Before(i) \in Seq(Trackers)
      BY PreFacts, TemplatesFacts
    <3> QED
      BY <2>3, <3>1, ConcatEqualIffEmpty
  <2>5. Pre(End) = <<>> /\ Before(End) = <<>>
    <3>1. End # 1 /\ End - 1 = Len(code) /\ code[Len(code)].op # "newarray"
      BY <1>1, InputFacts
    <3>2. AfterInjection(code[Len(code)].op) = <<>>
      BY <3>1 DEF AfterInjection
    <3> QED
      BY <3>1, <3>2 DEF Pre, Before
  <2>6. \A i \in 1..End : i = End \/ i \in 1..Len(code)
    BY <1>1, InputFacts
  <2>7. \A i \in 1..Len(code) : i \in 1..End
    BY <1>1, InputFacts
  <2>8. Injected > 0 <=> \E i \in 1..Len(code) : Pre(i) # <<>> \/ Before(i) # <<>>
    BY <1>2, <2>4, <2>5, <2>6, <2>7
  <2>9. ASSUME NEW i \in 1..Len(code), Pre(i) # <<>> \/ Before(i) # <<>>
        PROVE  CallsIn(written) # {}
    <3>1. CASE Pre(i) # <<>>
      <4>1. PICK k \in 1..Len(written) : IsPre(written, k, i)
        BY <2>2, <3>1 DEF WrittenOK
      <4>2. written[k].what = Pre(i)[1] /\ Pre(i)[1] \in Trackers
        BY <3>1, <4>1, EntryCall DEF IsPre, CallItem, Item
      <4> QED
        BY <2>2, <4>2 DEF CallsIn
    <3>2. CASE Before(i) # <<>>
      <4>1. PICK k \in 1..Len(written) : IsBefore(written, k, i)
        BY <2>2, <3>2 DEF WrittenOK
      <4>2. written[k].what = "return_tracker"
        BY <3>2, <4>1, EntryCall DEF IsBefore, CallItem, Item
      <4> QED
        BY <2>2, <4>2 DEF CallsIn, Trackers
    <3> QED
      BY <2>9, <3>1, <3>2
  <2>10. ASSUME CallsIn(written) # {}
         PROVE  \E i \in 1..Len(code) : Pre(i) # <<>> \/ Before(i) # <<>>
    <3>1. PICK k \in 1..Len(written) : written[k].what \in Trackers
      BY <2>2, <2>10 DEF CallsIn
    <3>2. PICK i \in 1..Len(code) :
            IsPre(written, k, i) \/ IsBefore(written, k, i) \/ IsFirst(written, k, i)
            \/ IsSecond(written, k, i)
      BY <2>2 DEF WrittenOK
    <3>3. RewriteOK(i, Rewritten(i))
      BY <2>1, RewroteFacts
    <3>4. ~IsFirst(written, k, i)
      BY <3>1, <3>3, WhatFacts DEF IsFirst, RewriteOK
    <3>5. ~IsSecond(written, k, i)
      BY <3>1, <3>3, WhatFacts DEF IsSecond, RewriteOK
    <3> QED
      BY <3>2, <3>4, <3>5 DEF IsPre, IsBefore
  <2> QED
    BY <1>2, <2>8, <2>9, <2>10
<1> QED
  BY <1>2, <1>3, <1>4

(* Is there a call in the output?                                          *)
AnyCall == \E m \in 1..mnum : \E a \in 1..Len(output[m]) : CallsIn(output[m][a]) # {}

(* The parts of OutputInv, with its last quantifiers under a name.         *)
LEMMA OutputParts ==
  OutputInv <=>
    /\ \A m \in 1..mnum : \A a \in 1..Len(output[m]) : Attributed(m, a)
    /\ injectionCount \in Nat
    /\ injectionCount > 0 <=> AnyCall
    /\ Returned => (image <=> injectionCount > 0)
    /\ ~Returned => image = FALSE
  BY DEF OutputInv, AnyCall

(* The same of the state that a step leads to.                             *)
LEMMA OutputPartsNext ==
  (OutputInv <=>
     /\ \A m \in 1..mnum : \A a \in 1..Len(output[m]) : Attributed(m, a)
     /\ injectionCount \in Nat
     /\ injectionCount > 0 <=> AnyCall
     /\ Returned => (image <=> injectionCount > 0)
     /\ ~Returned => image = FALSE)'
BY OutputParts, PTL

(* No step changes what is promised of an attribute.                       *)
LEMMA SamePromise ==
  ASSUME Next
  PROVE  \A m, body, items : AsPromised(m, body, items)' = AsPromised(m, body, items)
<1>1. /\ trackers' = trackers
      /\ \A m : IsObjectConstructor(m)' = IsObjectConstructor(m)
  BY NextKeeps
<1> QED
  BY <1>1 DEF AsPromised

(* Nothing is written.                                                     *)
LEMMA OutputSame ==
  ASSUME StageInv, OutputInv, Next, UNCHANGED <<mnum, output, injectionCount>>,
         Returned' => (image' <=> injectionCount > 0),
         ~Returned' => image' = FALSE
  PROVE  OutputInv'
<1>1. file' = file /\ \A m, body, items : AsPromised(m, body, items)' = AsPromised(m, body, items)
  BY NextKeeps, SamePromise
<1>2. /\ \A m \in 1..mnum : \A a \in 1..Len(output[m]) : Attributed(m, a)
      /\ injectionCount \in Nat
      /\ injectionCount > 0 <=> AnyCall
  BY OutputParts
<1>3. AnyCall' <=> AnyCall
  BY DEF AnyCall, CallsIn
<1>4. \A m \in 1..mnum' : \A a \in 1..Len(output'[m]) : Attributed(m, a)'
  <2> SUFFICES ASSUME NEW m \in 1..mnum, NEW a \in 1..Len(output[m]) PROVE Attributed(m, a)'
    OBVIOUS
  <2>1. AsPromised(m, file.methods[m].attributes[a].body, output[m][a])
    BY <1>2 DEF Attributed
  <2>2. AsPromised(m, file.methods[m].attributes[a].body, output[m][a])'
    BY <1>1, <2>1
  <2> QED
    BY <2>2 DEF Attributed
<1> QED
  BY <1>2, <1>3, <1>4, OutputPartsNext

(* The next method begins, with nothing written.                           *)
LEMMA OutputBegins ==
  ASSUME StageInv, OutputInv, Next, BeginMethod
  PROVE  OutputInv'
<1> DEFINE T == Seq(Attributes)
           o == Append(output, <<>>)
<1>1. /\ stage = "methods" /\ stage' = "attributes" /\ mnum' = mnum + 1 /\ output' = o
      /\ UNCHANGED <<injectionCount, image>>
  BY DEF BeginMethod, Stage
<1>2. file' = file /\ \A m, body, items : AsPromised(m, body, items)' = AsPromised(m, body, items)
  BY NextKeeps, SamePromise
<1>3. /\ \A m \in 1..mnum : \A a \in 1..Len(output[m]) : Attributed(m, a)
      /\ injectionCount \in Nat
      /\ injectionCount > 0 <=> AnyCall
      /\ ~Returned => image = FALSE
  BY OutputParts
<1>4. output \in Seq(T) /\ Len(output) = mnum
  BY DEF StageInv, Attributes
<1>5. <<>> \in T /\ Len(<<>>) = 0
  OBVIOUS
<1> HIDE DEF T
<1>6. /\ Len(output) \in Nat /\ \A m \in 1..mnum : o[m] = output[m]
      /\ o[mnum + 1] = <<>>
  BY <1>4, <1>5, AppendProperties, LenProperties
<1> HIDE DEF o
<1>7. /\ \A m \in 1..mnum' : m \in 1..mnum \/ m = mnum + 1
      /\ \A m \in 1..mnum : m \in 1..mnum'
  BY <1>1, <1>4, <1>6
<1>8. \A a \in 1..Len(o[mnum + 1]) : FALSE
  BY <1>5, <1>6
<1>9. AnyCall' <=> AnyCall
  BY <1>1, <1>6, <1>7, <1>8 DEF AnyCall, CallsIn
<1>10. ASSUME NEW m \in 1..mnum', NEW a \in 1..Len(output'[m]) PROVE Attributed(m, a)'
  <2>1. m \in 1..mnum /\ output'[m] = output[m]
    BY <1>1, <1>6, <1>7, <1>8, <1>10
  <2>2. AsPromised(m, file.methods[m].attributes[a].body, output[m][a])
    BY <1>3, <1>10, <2>1 DEF Attributed
  <2>3. AsPromised(m, file.methods[m].attributes[a].body, output[m][a])'
    BY <1>2, <2>1, <2>2
  <2> QED
    BY <2>3 DEF Attributed
<1>11. ~Returned' /\ image' = FALSE
  BY <1>1, <1>3 DEF Returned
<1> QED
  BY <1>1, <1>3, <1>9, <1>10, <1>11, OutputPartsNext

(* An attribute is written as it is promised.                              *)
LEMMA OutputWrites ==
  ASSUME StageInv, OutputInv, Next, stage \in {"attributes", "code"}, stage' = "attributes",
         HasAttribute, NEW items \in Attributes, WriteAttribute(items),
         AsPromised(mnum, Attribute.body, items),
         NEW d \in Nat, d > 0 <=> CallsIn(items) # {}, injectionCount' = injectionCount + d,
         UNCHANGED <<mnum, image>>
  PROVE  OutputInv'
<1> DEFINE T == Seq(Attributes)
           l == Len(output[mnum])
<1>1. file' = file /\ \A m, body, its : AsPromised(m, body, its)' = AsPromised(m, body, its)
  BY NextKeeps, SamePromise
<1>2. /\ \A m \in 1..mnum : \A a \in 1..Len(output[m]) : Attributed(m, a)
      /\ injectionCount \in Nat
      /\ injectionCount > 0 <=> AnyCall
      /\ ~Returned => image = FALSE
  BY OutputParts
<1>3. /\ output \in Seq(T) /\ Len(output) = mnum /\ mnum \in 0..Len(file.methods) /\ mnum # 0
      /\ attribute = l
  BY DEF StageInv, Attributes
<1>4. mnum \in 1..mnum /\ mnum \in 1..Len(output)
  BY <1>3
<1>5. /\ l \in Nat
      /\ Len(output'[mnum]) = l + 1
      /\ \A a \in 1..l : output'[mnum][a] = output[mnum][a]
      /\ output'[mnum][l + 1] = items
      /\ \A m \in 1..mnum : m # mnum => output'[m] = output[m]
  BY <1>3, <1>4, OutputGrows
<1>6. Attribute.body = file.methods[mnum].attributes[l + 1].body
  BY <1>3 DEF Attribute, Method
<1> HIDE DEF l
<1>7. /\ \A a \in 1..(l + 1) : a \in 1..l \/ a = l + 1
      /\ \A a \in 1..l : a \in 1..(l + 1)
      /\ l + 1 \in 1..(l + 1)
  BY <1>5
<1>8. AnyCall' <=> AnyCall \/ CallsIn(items) # {}
  <2>1. AnyCall' <=> \E m \in 1..mnum : \E a \in 1..Len(output'[m]) : CallsIn(output'[m][a]) # {}
    BY DEF AnyCall, CallsIn
  <2>2. ASSUME NEW m \in 1..mnum, NEW a \in 1..Len(output'[m]), CallsIn(output'[m][a]) # {}
        PROVE  AnyCall \/ CallsIn(items) # {}
    BY <1>5, <1>7, <2>2 DEF AnyCall, l
  <2>3. ASSUME NEW m \in 1..mnum, NEW a \in 1..Len(output[m]), CallsIn(output[m][a]) # {}
        PROVE  a \in 1..Len(output'[m]) /\ CallsIn(output'[m][a]) # {}
    BY <1>5, <1>7, <2>3 DEF l
  <2>4. AnyCall => AnyCall'
    BY <2>1, <2>3 DEF AnyCall
  <2>5. CallsIn(items) # {} => AnyCall'
    BY <1>4, <1>5, <1>7, <2>1
  <2> QED
    BY <2>1, <2>2, <2>4, <2>5
<1>9. injectionCount' \in Nat /\ (injectionCount' > 0 <=> injectionCount > 0 \/ d > 0)
  BY <1>2
<1>10. ASSUME NEW m \in 1..mnum, NEW a \in 1..Len(output'[m]) PROVE Attributed(m, a)'
  <2>1. AsPromised(m, file.methods[m].attributes[a].body, output'[m][a])
    <3>1. CASE m # mnum
      <4>1. output'[m] = output[m]
        BY <1>5, <3>1
      <4> QED
        BY <1>2, <1>10, <4>1 DEF Attributed
    <3>2. CASE m = mnum /\ a \in 1..l
      <4>1. output'[m][a] = output[m][a]
        BY <1>5, <3>2
      <4> QED
        BY <1>2, <3>2, <4>1 DEF Attributed, l
    <3>3. CASE m = mnum /\ a = l + 1
      BY <1>5, <1>6, <3>3
    <3> QED
      BY <1>5, <1>7, <1>10, <3>1, <3>2, <3>3
  <2>2. AsPromised(m, file.methods[m].attributes[a].body, output[m][a])'
    BY <1>1, <2>1
  <2> QED
    BY <2>2 DEF Attributed
<1>11. ~Returned' /\ image' = FALSE
  <2>1. ~Returned /\ ~Returned'
    BY DEF Returned
  <2> QED
    BY <1>2, <2>1
<1> QED
  BY <1>2, <1>8, <1>9, <1>10, <1>11, OutputPartsNext

(* Every step keeps the output as it is promised.                          *)
LEMMA OutputStep ==
  ASSUME StageInv, PoolInv, MethodInv, OutputInv, Next
  PROVE  OutputInv'
<1>1. /\ injectionCount \in Nat
      /\ injectionCount > 0 <=> AnyCall
      /\ ~Returned => image = FALSE
  BY OutputParts
<1>2. CASE FirstSteps
  <2>1. /\ stage \in BeforeMethods /\ stage # "returned" /\ KeepMethods /\ image' = image
    BY <1>2, ClassSteps DEF FirstSteps, BeforeMethods
  <2>2. mnum = 0
    BY <2>1 DEF StageInv
  <2>3. ~AnyCall
    BY <2>2 DEF AnyCall
  <2>4. image' = FALSE /\ UNCHANGED <<mnum, output, injectionCount>>
    BY <1>1, <2>1 DEF Returned, KeepMethods
  <2> QED
    BY <1>1, <2>3, <2>4, OutputSame
<1>3. CASE BeginMethod
  BY <1>3, OutputBegins
<1>4. CASE CopyAttribute
  <2> DEFINE items == <<>>
  <2>1. /\ stage = "attributes" /\ stage' = "attributes" /\ HasAttribute /\ WriteAttribute(items)
        /\ Text(Attribute.name) # "Code"
        /\ UNCHANGED <<mnum, image, injectionCount>>
    BY <1>4 DEF CopyAttribute, Stage
  <2>2. items \in Attributes /\ DOMAIN items = {}
    BY DEF Attributes
  <2>3. Attribute.body = <<>>
    <3>1. /\ mnum # 0 /\ mnum \in 0..Len(file.methods) /\ Len(output) = mnum
          /\ attribute = Len(output[mnum]) /\ Loaded /\ input \in Inputs
          /\ output \in Seq(Seq(Seq(AnyItem)))
      BY <2>1 DEF StageInv
    <3>2. mnum \in 1..Len(file.methods) /\ mnum \in 1..Len(output)
      BY <3>1
    <3>3. attribute \in Nat
      <4> DEFINE T == Seq(Seq(AnyItem))
      <4>1. output \in Seq(T)
        BY <3>1
      <4> HIDE DEF T
      <4>2. output[mnum] \in T
        BY <3>2, <4>1, ElementOfSeq
      <4> QED
        BY <3>1, <4>2, LenProperties DEF T
    <3>4. Len(Method.attributes) \in Nat
      BY <3>2, FileMethods DEF Method
    <3>5. attribute + 1 \in 1..Len(Method.attributes)
      BY <2>1, <3>3, <3>4 DEF HasAttribute
    <3>6. /\ Attribute.name \in 1..Len(Old)
          /\ Old[Attribute.name].text # "Code" => Attribute.body = <<>>
      BY <3>2, <3>5, FileMethods DEF Method, Attribute
    <3> QED
      BY <2>1, <3>1, <3>6, OldText
  <2>4. AsPromised(mnum, Attribute.body, items)
    <3>1. Copied(<<>>) = <<>>
      BY DEF Copied
    <3> QED
      BY <2>2, <2>3, <3>1 DEF AsPromised
  <2>5. CallsIn(items) = {}
    BY <2>2 DEF CallsIn
  <2> HIDE DEF items
  <2>6. 0 \in Nat /\ ~(0 > 0) /\ injectionCount' = injectionCount + 0
    BY <1>1, <2>1
  <2> QED
    BY <2>1, <2>2, <2>4, <2>5, <2>6, OutputWrites
<1>5. CASE BeginCode
  <2>1. /\ stage # "returned" /\ stage' # "returned"
        /\ UNCHANGED <<mnum, output, injectionCount, image>>
    BY <1>5 DEF BeginCode, Stage
  <2> QED
    BY <1>1, <2>1, OutputSame DEF Returned
<1>6. CASE RewriteCode
  <2>1. /\ stage # "returned" /\ stage' # "returned"
        /\ UNCHANGED <<mnum, output, injectionCount, image>>
    BY <1>6 DEF RewriteCode, classVars
  <2> QED
    BY <1>1, <2>1, OutputSame DEF Returned
<1>7. CASE EndCode
  <2>1. /\ stage = "code" /\ stage' = "attributes" /\ Done
        /\ WriteAttribute(written)
        /\ injectionCount' = injectionCount + Injected
        /\ UNCHANGED <<mnum, image>>
    BY <1>7 DEF EndCode, Stage, Done
  <2>2. /\ HasAttribute /\ Working /\ code = Attribute.body
        /\ role = "objectInit" <=> IsObjectConstructor(mnum)
    BY <2>1 DEF StageInv
  <2>3. code # <<>>
    BY <2>2, InputFacts DEF MethodInv
  <2>4. AsPromised(mnum, Attribute.body, written)
    <3>1. Tracking = IF ConstructorCall THEN {1} ELSE {}
      BY <2>1, FinishedTracking
    <3>2. trackers = {"obj_init_tracker"} /\ role # "objectInit" => written = Copied(code)
      BY <2>1, FinishedCopy
    <3>3. ConstructorCall <=> (IsObjectConstructor(mnum) /\ "obj_init_tracker" \in trackers
                               /\ code # <<>>)
      BY <2>2, <2>3 DEF ConstructorCall
    <3>4. trackers = {"obj_init_tracker"} => "obj_init_tracker" \in trackers
      OBVIOUS
    <3> QED
      BY <2>2, <2>3, <3>1, <3>2, <3>3, <3>4 DEF AsPromised, Tracking
  <2>5. written \in Attributes
    BY <2>1, WrittenItems DEF Attributes
  <2>6. Injected \in Nat /\ (Injected > 0 <=> CallsIn(written) # {})
    BY <2>1, FinishedCount
  <2> QED
    BY <2>1, <2>2, <2>4, <2>5, <2>6, OutputWrites
<1>8. CASE EndMethod
  <2>1. /\ stage # "returned" /\ stage' # "returned"
        /\ UNCHANGED <<mnum, output, injectionCount, image>>
    BY <1>8 DEF EndMethod, Stage
  <2> QED
    BY <1>1, <2>1, OutputSame DEF Returned
<1>9. CASE FinishClass
  <2>1. /\ stage' = "returned" /\ image' = (injectionCount > 0)
        /\ UNCHANGED <<mnum, output, injectionCount>>
    BY <1>9 DEF FinishClass, Stage
  <2> QED
    BY <2>1, OutputSame DEF Returned
<1> QED
  BY <1>2, <1>3, <1>4, <1>5, <1>6, <1>7, <1>8, <1>9 DEF Next, FirstSteps

-----------------------------------------------------------------------------
(* The invariant is inductive.                                             *)

Inv == StageInv /\ PoolInv /\ OutputInv /\ MethodInv

(* Nothing is dealt with when java_crw_demo is called.                     *)
LEMMA InvInit ==
  ASSUME Init
  PROVE  Inv
<1>1. /\ input \in Inputs /\ trackers = input.trackers /\ stage = "arguments"
      /\ isObjectClass = FALSE /\ image = FALSE /\ mnum = 0 /\ output = <<>> /\ injectionCount = 0
      /\ \A c \in Bodies(file) : Encodable(c)
      /\ cpool = [slots |-> <<>>, items |-> <<>>, class |-> 0, count |-> 0,
                  index |-> [t \in Trackers |-> 0]]
      /\ NoMethod
  BY DEF Init
<1>2. trackers \subseteq Trackers
  BY <1>1, FileFacts
<1>3. MethodInv
  BY <1>1, <1>2, NoMethodInv
<1>4. StageInv
  <2>1. ~Working
    BY <1>1 DEF NoMethod, Working
  <2>2. Len(file.methods) \in Nat
    <3>1. file.methods \in Seq(ToSet(file.methods))
      BY <1>1, FileFacts DEF IsClassFile
    <3> QED
      BY <3>1, LenProperties
  <2>3. mnum \in 0..Len(file.methods)
    BY <1>1, <2>2
  <2>4. /\ output \in Seq(Seq(Seq(AnyItem))) /\ Len(output) = mnum
    BY <1>1
  <2>5. ~(mnum > 0) /\ \A m \in 1..mnum : FALSE
    BY <1>1
  <2> QED
    BY <1>1, <2>1, <2>3, <2>4, <2>5 DEF StageInv, BeforeMethods
<1>5. PoolInv
  <2>1. \A t \in trackers : cpool.index[t] = 0
    BY <1>1, <1>2
  <2>2. Indexed = {}
    BY <2>1 DEF Indexed
  <2>3. cpool \in Pools
    <3> DEFINE K == Known
    <3>1. <<>> \in Seq(K) /\ 0 \in Nat /\ [t \in Trackers |-> 0] \in [Trackers -> Nat]
      OBVIOUS
    <3> HIDE DEF K
    <3>2. cpool \in [slots : Seq(K), items : Seq(K), class : Nat, count : Nat,
                     index : [Trackers -> Nat]]
      BY <1>1, <3>1
    <3> QED
      BY <3>2 DEF Pools, K
  <2>4. ~Loaded
    BY <1>1 DEF Loaded
  <2> QED
    BY <2>2, <2>3, <2>4 DEF PoolInv
<1>6. OutputInv
  <2>1. ~AnyCall /\ ~Returned /\ \A m \in 1..mnum : FALSE
    BY <1>1 DEF AnyCall, Returned
  <2>2. injectionCount \in Nat /\ ~(injectionCount > 0)
    BY <1>1
  <2> QED
    BY <1>1, <2>1, <2>2, OutputParts
<1> QED
  BY <1>3, <1>4, <1>5, <1>6 DEF Inv

(* Nothing changes.                                                        *)
LEMMA InvStays ==
  ASSUME Inv, UNCHANGED vars
  PROVE  Inv'
<1>1. UNCHANGED <<methodVars, trackers>> /\ UNCHANGED classVars
  BY DEF vars
<1>2. MethodInv'
  BY <1>1, MethodStays DEF Inv
<1>3. /\ input' = input /\ stage' = stage /\ cpool' = cpool /\ isObjectClass' = isObjectClass
      /\ mnum' = mnum /\ attribute' = attribute /\ output' = output
      /\ injectionCount' = injectionCount /\ image' = image /\ trackers' = trackers
      /\ code' = code /\ role' = role /\ phase' = phase
  BY <1>1 DEF classVars, methodVars
<1>4. PoolInv'
  <2>1. SamePool
    BY <1>3 DEF SamePool
  <2> QED
    BY <1>3, <2>1, PoolKept DEF Inv
<1>5. StageInv'
  <2>1. file' = file
    BY <1>3 DEF file
  <2>2. Loaded' = Loaded /\ Working' = Working /\ HasAttribute' = HasAttribute
        /\ Attribute' = Attribute /\ Bodies(file)' = Bodies(file)
        /\ \A m : IsObjectConstructor(m)' = IsObjectConstructor(m)
    BY <1>3, <2>1 DEF Loaded, Working, HasAttribute, Attribute, Method, IsObjectConstructor, Old
  <2>3. IsObjectConstructor(mnum)' = IsObjectConstructor(mnum)
    BY <1>3, <2>1 DEF IsObjectConstructor, Old
  <2>4. StageInv
    BY DEF Inv
  <2> QED
    BY <1>3, <2>1, <2>2, <2>3, <2>4 DEF StageInv, BeforeMethods
<1>6. OutputInv'
  <2>1. file' = file /\ \A m : IsObjectConstructor(m)' = IsObjectConstructor(m)
    BY <1>3 DEF file, IsObjectConstructor, Old
  <2>2. \A m, body, items : AsPromised(m, body, items)' = AsPromised(m, body, items)
    BY <1>3, <2>1 DEF AsPromised
  <2>3. /\ \A m \in 1..mnum : \A a \in 1..Len(output[m]) : Attributed(m, a)
        /\ injectionCount \in Nat
        /\ injectionCount > 0 <=> AnyCall
        /\ Returned => (image <=> injectionCount > 0)
        /\ ~Returned => image = FALSE
    BY OutputParts DEF Inv
  <2>4. AnyCall' = AnyCall /\ Returned' = Returned
    BY <1>3 DEF AnyCall, CallsIn, Returned
  <2>5. ASSUME NEW m \in 1..mnum, NEW a \in 1..Len(output[m]) PROVE Attributed(m, a)'
    <3>1. AsPromised(m, file.methods[m].attributes[a].body, output[m][a])
      BY <2>3 DEF Attributed
    <3>2. AsPromised(m, file.methods[m].attributes[a].body, output[m][a])'
      BY <1>3, <2>1, <2>2, <3>1
    <3> QED
      BY <3>2 DEF Attributed
  <2> QED
    BY <1>3, <2>3, <2>4, <2>5, OutputPartsNext
<1> QED
  BY <1>2, <1>4, <1>5, <1>6 DEF Inv

(* The invariant is inductive.                                             *)
LEMMA InvNext ==
  ASSUME Inv, [Next]_vars
  PROVE  Inv'
<1>1. CASE Next
  BY <1>1, StageStep, PoolStep, OutputStep, MethodInvStep DEF Inv
<1>2. CASE UNCHANGED vars
  BY <1>2, InvStays
<1> QED
  BY <1>1, <1>2

(* The invariant: the stages are passed in order, the pool of the class    *)
(* file is extended, the method dealt with is rewritten as it should, and  *)
(* what has been written is what is promised.                              *)
THEOREM InvHolds == Spec => []Inv
<1>1. Init => Inv
  BY InvInit
<1>2. Inv /\ [Next]_vars => Inv'
  BY InvNext
<1> QED
  BY <1>1, <1>2, PTL DEF Spec

-----------------------------------------------------------------------------
(* What the invariant implies.                                             *)

(* From the new count on, the pool is decoded as the mirror says.          *)
LEMMA DecodedPool ==
  ASSUME Inv, Loaded, stage \notin {"number", "class", "trackers"}
  PROVE  /\ cpool.slots \in Seq(Known) /\ Len(cpool.slots) \in Nat
         /\ cpool.count = Len(cpool.slots) + 1
         /\ \A i \in 1..Len(cpool.slots) : Decoded[i] = cpool.slots[i]
         /\ Decoded[cpool.count] = Unused
<1>1. /\ cpool.slots \in Seq(Known) /\ cpool.items \in Seq(Known)
      /\ Decodes(cpool.slots, cpool.items)
      /\ cpool.count = Len(cpool.slots) + 1
  BY DEF Inv, PoolInv, Pools
<1> QED
  BY <1>1, DecodedFacts, LenProperties

(* A JVM finds the method of every tracker the caller named.               *)
LEMMA TrackerResolves ==
  ASSUME Inv, Loaded, stage \notin {"number", "class", "trackers"}, NEW t \in trackers
  PROVE  Resolves(t)
<1> DEFINE s == cpool.slots
           N == Len(s)
           n == cpool.index[t]
           c == cpool.class
<1>1. N \in Nat /\ \A i \in 1..N : Decoded[i] = s[i]
  BY DecodedPool
<1>2. MethodFound(t) /\ ClassFound
  <2>1. Unindexed = {} /\ ClassFound /\ \A u \in Indexed : MethodFound(u)
    BY DEF Inv, PoolInv
  <2>2. t \in Indexed
    BY <2>1 DEF Unindexed, Indexed
  <2> QED
    BY <2>1, <2>2
<1>3. /\ n \in 4..N
      /\ s[n] = Entry("Methodref", "", c, n - 1)
      /\ s[n - 1] = Entry("NameAndType", "", n - 3, n - 2)
      /\ s[n - 2] = Utf8(Signature(t))
      /\ s[n - 3] = Utf8(t)
  BY <1>2 DEF MethodFound
<1>4. c \in 2..N /\ s[c] = Entry("Class", "", c - 1, 0) /\ s[c - 1] = Utf8(TrackerClass)
  BY <1>2 DEF ClassFound
<1> HIDE DEF s, N, n, c
<1>5. /\ n \in 1..N /\ n - 1 \in 1..N /\ n - 2 \in 1..N /\ n - 3 \in 1..N
      /\ c \in 1..N /\ c - 1 \in 1..N
  <2>1. n \in 4..N /\ c \in 2..N
    BY <1>3, <1>4
  <2> QED
    BY <1>1, <2>1
<1>6. /\ Decoded[n] = Entry("Methodref", "", c, n - 1)
      /\ Decoded[n - 1] = Entry("NameAndType", "", n - 3, n - 2)
      /\ Decoded[n - 2] = Utf8(Signature(t))
      /\ Decoded[n - 3] = Utf8(t)
      /\ Decoded[c] = Entry("Class", "", c - 1, 0)
      /\ Decoded[c - 1] = Utf8(TrackerClass)
  BY <1>1, <1>3, <1>4, <1>5
<1> DEFINE m == Decoded[n]
           y == Decoded[m.index2]
<1>7. m.tag = "Methodref" /\ m.index1 = c /\ m.index2 = n - 1
  <2>1. m = [tag |-> "Methodref", text |-> "", index1 |-> c, index2 |-> n - 1]
    BY <1>6 DEF Entry
  <2> HIDE DEF m
  <2> QED
    BY <2>1
<1> HIDE DEF m
<1>8. y.index1 = n - 3 /\ y.index2 = n - 2 /\ Decoded[m.index1].index1 = c - 1
  <2> DEFINE k == Decoded[m.index1]
  <2>1. y = [tag |-> "NameAndType", text |-> "", index1 |-> n - 3, index2 |-> n - 2]
    BY <1>6, <1>7 DEF Entry
  <2>2. k = [tag |-> "Class", text |-> "", index1 |-> c - 1, index2 |-> 0]
    BY <1>6, <1>7 DEF Entry
  <2> HIDE DEF y, k
  <2>3. y.index1 = n - 3 /\ y.index2 = n - 2 /\ k.index1 = c - 1
    BY <2>1, <2>2
  <2> QED
    BY <2>3 DEF k
<1> HIDE DEF y
<1>9. /\ m.tag = "Methodref"
      /\ Decoded[Decoded[m.index1].index1] = Utf8(TrackerClass)
      /\ Decoded[y.index1] = Utf8(t)
      /\ Decoded[y.index2] = Utf8(Signature(t))
  BY <1>6, <1>7, <1>8
<1> QED
  BY <1>9, Zenon DEF Resolves, m, y, n

(* The two halves of the class number.                                     *)
LEMMA NumberHalves == IsClassNumber(NumberEntry)
<1> DEFINE high == ClassNumber \div 65536
           low == ClassNumber % 65536
<1>1. high * 65536 + low = ClassNumber
  BY CrwAssumption
<1>2. NumberEntry = Entry("Integer", "", high, low)
  BY DEF NumberEntry
<1> HIDE DEF high, low
<1>3. NumberEntry.tag = "Integer" /\ NumberEntry.index1 = high /\ NumberEntry.index2 = low
  <2>1. NumberEntry = [tag |-> "Integer", text |-> "", index1 |-> high, index2 |-> low]
    BY <1>2 DEF Entry
  <2> QED
    BY <2>1
<1> QED
  BY <1>1, <1>3 DEF IsClassNumber

(* The invariant implies that the pool of the image is as the mirror.      *)
LEMMA PoolConsequence ==
  ASSUME Inv
  PROVE  PoolDecodes
<1> SUFFICES ASSUME stage = "header"
             PROVE  /\ \A i \in DOMAIN cpool.slots : Decoded[i] = cpool.slots[i]
                    /\ Decoded[cpool.count] = Unused /\ Decoded[cpool.count - 1] # Unused
                    /\ Len(cpool.items) - Len(file.pool) <= 32
                    /\ \A t \in trackers : Resolves(t)
                    /\ trackers \cap {"call_tracker", "return_tracker"} # {}
                       /\ ClassNumber > 32767 => IsClassNumber(Decoded[ClassNumberIndex])
  BY DEF PoolDecodes
<1> DEFINE s == cpool.slots
           x == cpool.items
           N == Len(s)
<1>1. Loaded /\ input \in Inputs
  BY DEF Inv, StageInv
<1>2. /\ s \in Seq(Known) /\ N \in Nat
      /\ cpool.count = N + 1
      /\ \A i \in 1..N : Decoded[i] = s[i]
      /\ Decoded[cpool.count] = Unused
  BY <1>1, DecodedPool
<1>3. DOMAIN s = 1..N
  <2> HIDE DEF s
  <2> QED
    BY <1>2, LenProperties
<1>4. PICK new \in Seq(New) : Len(new) = Added /\ s = Old \o new /\ x = file.pool \o new
  BY <1>1 DEF Inv, PoolInv, Grown
<1> DEFINE l == Len(new)
           m == Len(Old)
           p == file.pool
<1>5. Old \in Seq(Known) /\ new \in Seq(Known) /\ p \in Seq(Known)
  BY <1>1, OldFacts
<1>6. l \in 2..19
  <2>1. IsFiniteSet(Trackers) /\ Cardinality(Trackers) \in 0..4
    BY TrackersFacts
  <2>2. Indexed \subseteq Trackers
    <3>1. trackers \subseteq Trackers
      BY <1>1, FileFacts DEF Inv, StageInv
    <3> QED
      BY <3>1 DEF Indexed
  <2> DEFINE k == Cardinality(Indexed)
             q == Cardinality(Trackers)
  <2>3. IsFiniteSet(Indexed) /\ k <= q
    BY <2>1, <2>2, FS_Subset
  <2>4. k \in Nat
    BY <2>3, FS_CardinalityType
  <2>5. l = (IF NeedsNumber THEN 1 ELSE 0) + (2 + 4 * k)
    BY <1>4 DEF Added
  <2> HIDE DEF k, l, q
  <2>6. q \in 0..4
    BY <2>1 DEF q
  <2> QED
    BY <2>3, <2>4, <2>5, <2>6
<1> HIDE DEF s, x, N, l, m, p
<1>7. m \in Nat /\ Len(p) \in Nat
  BY <1>5, LenProperties DEF m
<1>8. Len(x) = Len(p) + l /\ N = m + l
  BY <1>4, <1>5, ConcatProperties DEF N, l, m, p
<1>9. Decoded[cpool.count - 1] # Unused
  <2>1. /\ N \in 1..N /\ cpool.count - 1 = N /\ N \in 1..(m + l)
        /\ ~(N <= m) /\ N - m = l /\ l \in 1..l
    BY <1>2, <1>6, <1>7, <1>8
  <2>2. \A i \in 1..(Len(Old) + Len(new)) :
          (Old \o new)[i] = IF i <= Len(Old) THEN Old[i] ELSE new[i - Len(Old)]
    BY <1>5, ConcatProperties
  <2>3. s[N] = new[l]
    BY <1>4, <2>1, <2>2 DEF m, l
  <2>4. new[l] \in New
    BY <2>1, ElementOfSeq DEF l
  <2> QED
    BY <1>2, <2>1, <2>3, <2>4, NewFacts
<1>10. Len(x) - Len(p) <= 32
  BY <1>6, <1>7, <1>8
<1>11. \A t \in trackers : Resolves(t)
  BY <1>1, TrackerResolves
<1>12. ASSUME NeedsNumber
       PROVE  IsClassNumber(Decoded[ClassNumberIndex])
  <2>1. NumberFound
    BY <1>1, <1>12 DEF Inv, PoolInv
  <2>2. Decoded[ClassNumberIndex] = NumberEntry
    BY <1>2, <2>1 DEF NumberFound, s, N
  <2> QED
    BY <2>2, NumberHalves
<1> QED
  BY <1>2, <1>3, <1>9, <1>10, <1>11, <1>12 DEF NeedsNumber, s, x, p

(* An image is returned exactly when a call was injected.                  *)
LEMMA ImageConsequence ==
  ASSUME Inv
  PROVE  ImageIffInjected
<1>1. DOMAIN output = 1..mnum /\ \A m \in 1..mnum : DOMAIN output[m] = 1..Len(output[m])
  <2> DEFINE T == Seq(Attributes)
  <2>1. output \in Seq(T) /\ Len(output) = mnum
    BY DEF Inv, StageInv, Attributes
  <2> HIDE DEF T
  <2>2. DOMAIN output = 1..mnum /\ \A m \in 1..mnum : output[m] \in T
    BY <2>1, LenProperties, ElementOfSeq
  <2>3. \A m \in 1..mnum : DOMAIN output[m] = 1..Len(output[m])
    BY <2>2, LenProperties DEF T
  <2> QED
    BY <2>2, <2>3
<1>2. Returned => (image <=> injectionCount > 0)
  BY OutputParts DEF Inv
<1>3. injectionCount > 0 <=> AnyCall
  BY OutputParts DEF Inv
<1> QED
  BY <1>1, <1>2, <1>3 DEF ImageIffInjected, AnyCall

(* The constructor of Object is tracked, and no other method.              *)
LEMMA ConstructorConsequence ==
  ASSUME Inv
  PROVE  ConstructorTracked
<1> SUFFICES ASSUME Returned, NEW m \in DOMAIN output, NEW a \in DOMAIN output[m]
             PROVE  LET body == file.methods[m].attributes[a].body
                        items == output[m][a]
                        tracking == {k \in DOMAIN items : items[k].what = "obj_init_tracker"}
                        tracked == IsConstructor(m) /\ "obj_init_tracker" \in trackers /\ body # <<>>
                    IN  /\ tracking = IF tracked THEN {1} ELSE {}
                        /\ trackers = {"obj_init_tracker"} /\ ~tracked => items = Copied(body)
  BY Zenon DEF ConstructorTracked
<1>1. m \in 1..mnum /\ a \in 1..Len(output[m])
  <2> DEFINE T == Seq(Attributes)
  <2>1. output \in Seq(T) /\ Len(output) = mnum
    BY DEF Inv, StageInv, Attributes
  <2> HIDE DEF T
  <2>2. DOMAIN output = 1..mnum
    BY <2>1, LenProperties
  <2>3. output[m] \in T
    BY <2>1, <2>2, ElementOfSeq
  <2>4. DOMAIN output[m] = 1..Len(output[m])
    BY <2>3, LenProperties DEF T
  <2> QED
    BY <2>2, <2>4
<1>2. /\ mnum \in 0..Len(file.methods) /\ input \in Inputs
      /\ mnum > 0 => Loaded
      /\ StageInv /\ PoolInv
  BY DEF Inv, StageInv
<1>3. m \in 1..Len(file.methods) /\ Loaded
  BY <1>1, <1>2
<1>4. Attributed(m, a)
  BY <1>1, OutputParts DEF Inv
<1>5. IsConstructor(m) <=> IsObjectConstructor(m)
  <2> DEFINE x == file.methods[m].name
             y == file.methods[m].descr
  <2>1. x \in 1..Len(Old) /\ y \in 1..Len(Old) /\ Old[x].tag = "Utf8" /\ Old[y].tag = "Utf8"
    BY <1>2, <1>3, FileMethods
  <2>2. \A i \in 1..Len(Old) : i \in 1..Len(cpool.slots) /\ cpool.slots[i] = Old[i]
    BY <1>2, <1>3, OldText
  <2>3. \A i \in 1..Len(Old) : Old[i].tag = "Utf8" => Old[i] = Utf8(Old[i].text)
    BY <1>2, OldFacts
  <2>4. \A i \in 1..Len(cpool.slots) : Decoded[i] = cpool.slots[i]
    BY <1>3, DecodedPool DEF Returned
  <2>5. Decoded[x] = Utf8(Old[x].text) /\ Decoded[y] = Utf8(Old[y].text)
    BY <2>1, <2>2, <2>3, <2>4
  <2>6. \A t, u : Utf8(t) = Utf8(u) <=> t = u
    BY DEF Utf8, Entry
  <2>7. Decoded[x] = Utf8("<init>") <=> Old[x].text = "<init>"
    BY <2>5, <2>6
  <2>8. Decoded[y] = Utf8("()V") <=> Old[y].text = "()V"
    BY <2>5, <2>6
  <2> QED
    BY <2>7, <2>8 DEF IsConstructor, IsObjectConstructor
<1> QED
  BY <1>4, <1>5 DEF Attributed, AsPromised

(* The invariant gives every variable its type.                            *)
LEMMA TypeConsequence ==
  ASSUME Inv
  PROVE  TypeOK
<1>1. MethodTypeOK /\ isObjectClass \in BOOLEAN /\ image \in BOOLEAN
      /\ mnum \in 0..Len(file.methods) /\ Len(output) = mnum
  BY DEF Inv, StageInv, MethodInv
<1>2. stage \in {"arguments", "number", "class", "trackers", "header", "methods", "attributes",
                 "code", "returned", "aborted"}
  BY DEF Inv, StageInv, BeforeMethods
<1>3. cpool.index \in [Trackers -> Nat]
  BY DEF Inv, PoolInv, Pools
<1>4. injectionCount \in Nat
  BY OutputParts DEF Inv
<1> QED
  BY <1>1, <1>2, <1>3, <1>4 DEF TypeOK

-----------------------------------------------------------------------------
(* The theorems.                                                           *)

(* Every variable of the rewriter has its type, in every reachable state: the *)
(* written items name instructions of the method, the tables stay tables of *)
(* pairs, the pool holds entries and a class file is never left half read. *)
THEOREM TypeCorrect == Spec => []TypeOK
<1>1. Inv => TypeOK
  BY TypeConsequence
<1> QED
  BY <1>1, InvHolds, PTL

(* The assertions of inject_bytecodes never fail, whatever the class file and *)
(* the trackers: an injection takes half of the buffer at most, what meets at *)
(* one site fits into it, and it finds the stack that it pushes on.        *)
THEOREM InjectionAlwaysFits == Spec => []InjectionFits
<1>1. Inv => InjectionFits
  BY MethodConsequences DEF Inv
<1> QED
  BY <1>1, InvHolds, PTL

(* When a method has been written, every branch and every case of a switch *)
(* arrives where its target is now: at the calls injected before the target *)
(* when there are any, and behind an inverted branch the next one goes on. *)
THEOREM BranchesAlwaysLand == Spec => []BranchesLand
<1>1. Inv => BranchesLand
  BY MethodConsequences DEF Inv
<1> QED
  BY <1>1, InvHolds, PTL

(* A switch that has been written has the padding of the position it really *)
(* has, although its position changed while the widths were being settled. *)
THEOREM SwitchesAlwaysAligned == Spec => []SwitchesAligned
<1>1. Inv => SwitchesAligned
  BY MethodConsequences DEF Inv
<1> QED
  BY <1>1, InvHolds, PTL

(* As long as the code is no longer than two bytes can count, an exception *)
(* handler and a variable cover the instructions they covered in the class *)
(* file, and a handler and a line begin where their code begins.           *)
THEOREM RangesAlwaysCover == Spec => []RangesCover
<1>1. Inv => RangesCover
  BY MethodConsequences DEF Inv
<1> QED
  BY <1>1, InvHolds, PTL

(* Decoded as the verifier decodes it, the stack map that is written has a *)
(* frame wherever a branch of the written code goes but for the inverse of *)
(* a widened if, whose target has none, and nowhere else; the short forms  *)
(* fit.  As above, the code is no longer than two bytes can count.         *)
THEOREM FramesAlwaysAtTargets == Spec => []FramesAtTargets
<1>1. Inv => FramesAtTargets
  BY MethodConsequences DEF Inv
<1> QED
  BY <1>1, InvHolds, PTL

(* A JVM that reads the pool of the image finds every entry where the mirror *)
(* has it, the old ones unmoved, the method of every tracker under the index *)
(* that is used by the calls, and the pool's end at the new count.         *)
THEOREM PoolAlwaysDecodes == Spec => []PoolDecodes
<1>1. Inv => PoolDecodes
  BY PoolConsequence
<1> QED
  BY <1>1, InvHolds, PTL

(* java_crw_demo returns an image exactly when it injected a call, so that the *)
(* agent replaces a class exactly when there is something to replace it by. *)
THEOREM ImageAlwaysIffInjected == Spec => []ImageIffInjected
<1>1. Inv => ImageIffInjected
  BY ImageConsequence
<1> QED
  BY <1>1, InvHolds, PTL

(* The constructor of java.lang.Object begins with the call of the tracker, no *)
(* other method has that call, and when the agent names no other tracker, all *)
(* other code is what it was.                                              *)
THEOREM ConstructorAlwaysTracked == Spec => []ConstructorTracked
<1>1. Inv => ConstructorTracked
  BY ConstructorConsequence
<1> QED
  BY <1>1, InvHolds, PTL

=============================================================================

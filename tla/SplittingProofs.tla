--------------------------- MODULE SplittingProofs ---------------------------
(***************************************************************************)
(* What splitInLists computes, for lists of any length: an entry that fits *)
(* a message is in exactly one list, and the lists are bounded.            *)
(*                                                                         *)
(* The definitions are functions defined by recursion on the positions of  *)
(* the list.  What holds of all their values is proved with the least      *)
(* number at which it would not hold; the well-founded order of the        *)
(* natural numbers gives that there is one.                                *)
(***************************************************************************)
EXTENDS Splitting, TLAPS, SequenceTheorems, FiniteSetTheorems, WellFoundedInduction

(***************************************************************************)
(* Induction over an interval.                                             *)
(***************************************************************************)
LessThan == {ss \in Nat \X Nat : ss[1] < ss[2]}

LEMMA LessThanWellFounded == IsWellFoundedOn(LessThan, Nat)
<1>1. OpToRel(<, Nat) = LessThan BY DEF OpToRel, LessThan
<1> QED BY <1>1, NatLessThanWellFounded

LEMMA Least ==
    ASSUME NEW T \in SUBSET Nat, T # {}
    PROVE  \E m \in T : \A n \in T : m <= n
<1>1. PICK m \in T : \A n \in T : <<n, m>> \notin LessThan
  BY LessThanWellFounded, WFMin
<1>2. ASSUME NEW n \in T PROVE m <= n
  <2>1. m \in Nat /\ n \in Nat /\ <<n, m>> \notin LessThan BY <1>1
  <2>2. n < m => <<n, m>> \in LessThan BY <2>1 DEF LessThan
  <2> QED BY <2>1, <2>2
<1> QED BY <1>2

LEMMA Upwards ==
    ASSUME NEW n \in Nat, NEW S \in SUBSET (0..n), 0 \in S,
           \A i \in 0..(n - 1) : i \in S => i + 1 \in S
    PROVE  S = 0..n
<1> DEFINE T == (0..n) \ S
<1> SUFFICES ASSUME T # {} PROVE FALSE OBVIOUS
<1>1. T \in SUBSET Nat OBVIOUS
<1>2. PICK m \in T : \A k \in T : m <= k
  <2> HIDE DEF T
  <2> QED BY <1>1, Least
<1>3. m \in 1..n BY <1>2
<1>4. m - 1 \in 0..(n - 1) /\ m - 1 \in 0..n /\ ~(m <= m - 1) /\ (m - 1) + 1 = m BY <1>3
<1>5. m - 1 \in S BY <1>2, <1>4
<1>6. m \in S BY <1>4, <1>5
<1> QED BY <1>2, <1>6

(***************************************************************************)
(* A function defined by recursion over an interval exists.                *)
(***************************************************************************)
Follows(k, c, step, g) == g[0] = c /\ \A i \in 1..k : g[i] = step[i][g[i - 1]]

LEMMA OneFurther ==
    ASSUME NEW V, NEW c, NEW k \in Nat, NEW step, NEW g \in [0..k -> V],
           step[k + 1] \in [V -> V], Follows(k, c, step, g)
    PROVE  \E h \in [0..(k + 1) -> V] : Follows(k + 1, c, step, h)
<1> DEFINE new == step[k + 1][g[k]]
           h == [i \in 0..(k + 1) |-> IF i = k + 1 THEN new ELSE g[i]]
<1>1. k \in 0..k /\ g[k] \in V OBVIOUS
<1>2. new \in V BY <1>1
<1>3. h \in [0..(k + 1) -> V]
  <2> HIDE DEF new
  <2> QED BY <1>2
<1>4. h[k + 1] = new /\ \A i \in 0..k : h[i] = g[i]
  <2> HIDE DEF new
  <2> QED OBVIOUS
<1> HIDE DEF h
<1>5. h[0] = c BY <1>4 DEF Follows
<1>6. ASSUME NEW i \in 1..(k + 1) PROVE h[i] = step[i][h[i - 1]]
  <2>1. i - 1 \in 0..k BY <1>6
  <2>2. h[i - 1] = g[i - 1] BY <1>4, <2>1
  <2>3. CASE i = k + 1
    <3>1. i - 1 = k BY <2>3
    <3> QED BY <1>4, <2>2, <2>3, <3>1
  <2>4. CASE i # k + 1
    <3>1. i \in 1..k /\ i \in 0..k BY <2>4
    <3>2. h[i] = g[i] BY <1>4, <3>1
    <3> QED BY <2>2, <3>1, <3>2 DEF Follows
  <2> QED BY <2>3, <2>4
<1> QED BY <1>3, <1>5, <1>6 DEF Follows

LEMMA RecursionExists ==
    ASSUME NEW n \in Nat, NEW V, NEW c \in V, NEW step \in [1..n -> [V -> V]]
    PROVE  \E g \in [0..n -> V] : Follows(n, c, step, g)
<1> DEFINE S == {k \in 0..n : \E g \in [0..k -> V] : Follows(k, c, step, g)}
<1>1. 0 \in S
  <2> DEFINE g == [i \in 0..0 |-> c]
  <2>1. g \in [0..0 -> V] /\ g[0] = c OBVIOUS
  <2>2. Follows(0, c, step, g) BY <2>1 DEF Follows
  <2> HIDE DEF g
  <2> QED BY <2>1, <2>2
<1>2. ASSUME NEW k \in 0..(n - 1), k \in S PROVE k + 1 \in S
  <2>1. PICK g \in [0..k -> V] : Follows(k, c, step, g) BY <1>2
  <2>2. k \in Nat /\ k + 1 \in 1..n /\ k + 1 \in 0..n BY <1>2
  <2>3. step[k + 1] \in [V -> V] BY <2>2
  <2>4. \E h \in [0..(k + 1) -> V] : Follows(k + 1, c, step, h) BY <2>1, <2>2, <2>3, OneFurther
  <2> QED BY <2>2, <2>4
<1>3. S \in SUBSET (0..n) OBVIOUS
<1>4. n \in S
  <2> HIDE DEF S
  <2>1. S = 0..n BY <1>1, <1>2, <1>3, Upwards
  <2> QED BY <2>1
<1> QED BY <1>4

(***************************************************************************)
(* Entries: sequences of positive lengths.                                 *)
(***************************************************************************)
Entries == Seq(Nat \ {0})

LEMMA EntryType ==
    ASSUME NEW s \in Entries
    PROVE  /\ Len(s) \in Nat /\ DOMAIN s = 1..Len(s)
           /\ \A i \in 1..Len(s) : s[i] \in Nat \ {0}
BY LenProperties, ElementOfSeq DEF Entries

(***************************************************************************)
(* The size of a part of a list.                                           *)
(***************************************************************************)
Share(s, l, i) == IF i \in l THEN s[i] ELSE 0

LEMMA SumsStep ==
    ASSUME NEW s \in Entries, NEW l
    PROVE  /\ Sums(s, l) \in [0..Len(s) -> Nat]
           /\ Sums(s, l)[0] = 0
           /\ \A i \in 1..Len(s) : Sums(s, l)[i] = Sums(s, l)[i - 1] + Share(s, l, i)
<1> DEFINE n == Len(s)
           step == [i \in 1..n |-> [v \in Nat |-> v + Share(s, l, i)]]
           Eq(g) == g = [i \in 0..n |-> IF i = 0 THEN 0 ELSE g[i - 1] + Share(s, l, i)]
           f == Sums(s, l)
<1>1. n \in Nat /\ \A i \in 1..n : Share(s, l, i) \in Nat BY EntryType DEF Share
<1>2. \A i \in 1..n : step[i] = [v \in Nat |-> v + Share(s, l, i)] OBVIOUS
<1>3. step \in [1..n -> [Nat -> Nat]] BY <1>1
<1> HIDE DEF step
<1>4. PICK g \in [0..n -> Nat] : Follows(n, 0, step, g)
  BY <1>1, <1>3, RecursionExists
<1>5. Eq(g)
  <2>1. \A i \in 1..n : i - 1 \in 0..n /\ g[i - 1] \in Nat BY <1>1, <1>4
  <2>2. \A i \in 1..n : g[i] = g[i - 1] + Share(s, l, i)
    BY <1>2, <1>4, <2>1 DEF Follows
  <2>3. g[0] = 0 BY <1>4 DEF Follows
  <2>4. \A i \in 0..n : i # 0 => i \in 1..n BY <1>1
  <2> QED BY <1>4, <2>2, <2>3, <2>4
<1>6. f = CHOOSE h : Eq(h) BY DEF Sums, Share
<1> HIDE DEF f
<1>7. Eq(f)
  <2> HIDE DEF Eq
  <2> QED BY <1>5, <1>6
<1>8. /\ DOMAIN f = 0..n /\ f[0] = 0
      /\ \A i \in 1..n : i - 1 \in 0..n /\ f[i] = f[i - 1] + Share(s, l, i)
  <2> DEFINE r == [i \in 0..n |-> IF i = 0 THEN 0 ELSE f[i - 1] + Share(s, l, i)]
  <2>1. /\ DOMAIN r = 0..n /\ r[0] = 0
        /\ \A i \in 1..n : i - 1 \in 0..n /\ r[i] = f[i - 1] + Share(s, l, i)
    BY <1>1
  <2>2. f = r BY <1>7
  <2> HIDE DEF r
  <2> QED BY <2>1, <2>2
<1>9. f \in [0..n -> Nat]
  <2> DEFINE S == {i \in 0..n : f[i] \in Nat}
  <2>1. 0 \in S BY <1>1, <1>8
  <2>2. ASSUME NEW i \in 0..(n - 1), i \in S PROVE i + 1 \in S
    <3>1. i + 1 \in 1..n /\ i + 1 \in 0..n /\ (i + 1) - 1 = i BY <1>1
    <3>2. f[i + 1] = f[i] + Share(s, l, i + 1) BY <1>8, <3>1
    <3>3. f[i] \in Nat /\ Share(s, l, i + 1) \in Nat BY <1>1, <2>2, <3>1
    <3> QED BY <3>1, <3>2, <3>3
  <2>3. S \in SUBSET (0..n) OBVIOUS
  <2>4. S = 0..n
    <3> HIDE DEF S
    <3> QED BY <1>1, <2>1, <2>2, <2>3, Upwards
  <2>5. f = [i \in 0..n |-> f[i]] BY <1>7
  <2> QED BY <2>4, <2>5
<1> QED BY <1>8, <1>9 DEF f

LEMMA SizeType ==
    ASSUME NEW s \in Entries, NEW l
    PROVE  Size(s, l) \in Nat
BY SumsStep, EntryType DEF Size

\* A part without entries has no length.
LEMMA SizeEmpty ==
    ASSUME NEW s \in Entries
    PROVE  Size(s, {}) = 0
<1> DEFINE n == Len(s)
           f == Sums(s, {})
           S == {i \in 0..n : f[i] = 0}
<1>1. n \in Nat BY EntryType
<1>2. f[0] = 0 /\ \A i \in 1..n : f[i] = f[i - 1] + 0 BY SumsStep DEF Share
<1> HIDE DEF f
<1>3. 0 \in S BY <1>1, <1>2
<1>4. ASSUME NEW i \in 0..(n - 1), i \in S PROVE i + 1 \in S
  <2>1. i + 1 \in 1..n /\ i + 1 \in 0..n /\ (i + 1) - 1 = i BY <1>1
  <2> QED BY <1>2, <1>4, <2>1
<1>5. S = 0..n
  <2>1. S \in SUBSET (0..n) OBVIOUS
  <2> HIDE DEF S
  <2> QED BY <1>1, <1>3, <1>4, <2>1, Upwards
<1>6. n \in S BY <1>1, <1>5
<1> QED BY <1>6 DEF Size, f

\* One entry more makes a part longer by its length.
LEMMA SizeAdd ==
    ASSUME NEW s \in Entries, NEW l, NEW x \in 1..Len(s), x \notin l
    PROVE  Size(s, l \cup {x}) = Size(s, l) + s[x]
<1> DEFINE n == Len(s)
           f == Sums(s, l)
           g == Sums(s, l \cup {x})
           More(i) == IF x <= i THEN s[x] ELSE 0
           S == {i \in 0..n : g[i] = f[i] + More(i)}
<1>1. n \in Nat /\ s[x] \in Nat BY EntryType
<1>2. /\ f \in [0..n -> Nat] /\ f[0] = 0
      /\ \A i \in 1..n : f[i] = f[i - 1] + Share(s, l, i)
  BY SumsStep
<1>3. /\ g \in [0..n -> Nat] /\ g[0] = 0
      /\ \A i \in 1..n : g[i] = g[i - 1] + Share(s, l \cup {x}, i)
  BY SumsStep
<1>4. \A i \in 1..n : /\ Share(s, l, i) \in Nat
                      /\ Share(s, l \cup {x}, i) = IF i = x THEN s[x] ELSE Share(s, l, i)
                      /\ Share(s, l, x) = 0
  BY EntryType DEF Share
<1> HIDE DEF f, g
<1>5. 0 \in S BY <1>1, <1>2, <1>3
<1>6. ASSUME NEW i \in 0..(n - 1), i \in S PROVE i + 1 \in S
  <2>1. i + 1 \in 1..n /\ i + 1 \in 0..n /\ i \in 0..n /\ (i + 1) - 1 = i BY <1>1
  <2>2. /\ f[i + 1] = f[i] + Share(s, l, i + 1)
        /\ g[i + 1] = g[i] + Share(s, l \cup {x}, i + 1)
        /\ g[i] = f[i] + More(i)
    BY <1>2, <1>3, <1>6, <2>1
  <2>3. f[i] \in Nat /\ Share(s, l, i + 1) \in Nat BY <1>2, <1>4, <2>1
  <2>4. CASE i + 1 = x
    <3>1. More(i) = 0 /\ More(i + 1) = s[x] BY <2>4, <1>1
    <3>2. Share(s, l \cup {x}, i + 1) = s[x] /\ Share(s, l, i + 1) = 0 BY <1>4, <2>1, <2>4
    <3> HIDE DEF More
    <3> QED BY <1>1, <2>1, <2>2, <2>3, <3>1, <3>2
  <2>5. CASE i + 1 # x
    <3>1. More(i) = More(i + 1) /\ More(i) \in Nat BY <2>5, <1>1
    <3>2. Share(s, l \cup {x}, i + 1) = Share(s, l, i + 1) BY <1>4, <2>1, <2>5
    <3> HIDE DEF More
    <3> QED BY <1>1, <2>1, <2>2, <2>3, <3>1, <3>2
  <2> QED BY <2>4, <2>5
<1>7. S = 0..n
  <2>1. S \in SUBSET (0..n) OBVIOUS
  <2> HIDE DEF S
  <2> QED BY <1>1, <1>5, <1>6, <2>1, Upwards
<1>8. n \in S /\ More(n) = s[x] BY <1>1, <1>7
<1> QED BY <1>8 DEF Size, f, g

(***************************************************************************)
(* The loop.                                                               *)
(***************************************************************************)
Acc(s) == [count : 0..Limit, from : 1..(Len(s) + 1), lists : Seq(SUBSET (1..Len(s)))]

LEMMA StepType ==
    ASSUME NEW s \in Entries, NEW acc \in Acc(s), NEW i \in 1..Len(s)
    PROVE  SplitStep(s, acc, i) \in Acc(s)
<1> DEFINE n == Len(s)
<1>1. n \in Nat /\ s[i] \in Nat /\ Limit \in Nat BY EntryType, LimitAssumption
<1>2. /\ acc.count \in 0..Limit /\ acc.from \in 1..(n + 1)
      /\ acc.lists \in Seq(SUBSET (1..n))
      /\ acc = [count |-> acc.count, from |-> acc.from, lists |-> acc.lists]
  BY DEF Acc
<1>3. /\ acc.from..i \in SUBSET (1..n) /\ acc.from..(i - 1) \in SUBSET (1..n)
      /\ i \in 1..(n + 1) /\ i + 1 \in 1..(n + 1)
  BY <1>1, <1>2
<1>4. /\ Append(acc.lists, acc.from..i) \in Seq(SUBSET (1..n))
      /\ Append(acc.lists, acc.from..(i - 1)) \in Seq(SUBSET (1..n))
  BY <1>2, <1>3, AppendProperties
<1>5. CASE s[i] > Limit BY <1>5 DEF SplitStep
<1>6. CASE ~(s[i] > Limit) /\ acc.count + s[i] = Limit
  <2>1. SplitStep(s, acc, i)
          = [count |-> 0, from |-> i + 1, lists |-> Append(acc.lists, acc.from..i)]
    BY <1>6 DEF SplitStep
  <2> QED BY <1>1, <1>3, <1>4, <2>1 DEF Acc
<1>7. CASE ~(s[i] > Limit) /\ acc.count + s[i] > Limit
  <2>1. SplitStep(s, acc, i)
          = [count |-> s[i], from |-> i, lists |-> Append(acc.lists, acc.from..(i - 1))]
    BY <1>1, <1>2, <1>7 DEF SplitStep
  <2> QED BY <1>1, <1>3, <1>4, <1>7, <2>1 DEF Acc
<1>8. CASE ~(s[i] > Limit) /\ acc.count + s[i] < Limit
  <2>1. SplitStep(s, acc, i) = [acc EXCEPT !.count = acc.count + s[i]]
    BY <1>1, <1>2, <1>8 DEF SplitStep
  <2>2. acc.count + s[i] \in 0..Limit BY <1>1, <1>2, <1>8
  <2> QED BY <1>2, <2>1, <2>2 DEF Acc
<1> QED BY <1>1, <1>2, <1>5, <1>6, <1>7, <1>8

\* The loop does what it is written to do: turn i follows turn i - 1.
LEMMA TurnsStep ==
    ASSUME NEW s \in Entries
    PROVE  /\ Turns(s)[0] = SplitStart
           /\ \A i \in 0..Len(s) : Turns(s)[i] \in Acc(s)
           /\ \A i \in 1..Len(s) : Turns(s)[i] = SplitStep(s, Turns(s)[i - 1], i)
<1> DEFINE n == Len(s)
           V == Acc(s)
           step == [i \in 1..n |-> [v \in V |-> SplitStep(s, v, i)]]
           Eq(g) == g = [i \in 0..n |-> IF i = 0 THEN SplitStart ELSE SplitStep(s, g[i - 1], i)]
           f == Turns(s)
<1>1. n \in Nat /\ \A i \in 1..n : \A v \in V : SplitStep(s, v, i) \in V
  BY EntryType, StepType
<1>2. SplitStart \in V
  BY <1>1, LimitAssumption, EmptySeq DEF SplitStart, Acc
<1> HIDE DEF V
<1>3. \A i \in 1..n : step[i] = [v \in V |-> SplitStep(s, v, i)] OBVIOUS
<1>4. step \in [1..n -> [V -> V]] BY <1>1
<1> HIDE DEF step
<1>5. PICK g \in [0..n -> V] : Follows(n, SplitStart, step, g)
  BY <1>1, <1>2, <1>4, RecursionExists
<1>6. Eq(g)
  <2>1. \A i \in 1..n : i - 1 \in 0..n /\ g[i - 1] \in V BY <1>1, <1>5
  <2>2. \A i \in 1..n : g[i] = SplitStep(s, g[i - 1], i)
    <3>1. TAKE i \in 1..n
    <3>2. g[i] = step[i][g[i - 1]] BY <1>5 DEF Follows
    <3>3. step[i] = [v \in V |-> SplitStep(s, v, i)] BY <1>3
    <3> QED BY <2>1, <3>2, <3>3
  <2>3. g[0] = SplitStart BY <1>5 DEF Follows
  <2>4. \A i \in 0..n : i # 0 => i \in 1..n BY <1>1
  <2>5. \A i \in 0..n : g[i] = IF i = 0 THEN SplitStart ELSE SplitStep(s, g[i - 1], i)
    BY <2>2, <2>3, <2>4
  <2> QED BY <1>5, <2>5
<1>7. f = CHOOSE h : Eq(h) BY DEF Turns
<1> HIDE DEF f
<1>8. Eq(f)
  <2> HIDE DEF Eq
  <2> QED BY <1>6, <1>7
<1>9. f[0] = SplitStart /\ \A i \in 1..n : f[i] = SplitStep(s, f[i - 1], i)
  <2> DEFINE r == [i \in 0..n |-> IF i = 0 THEN SplitStart ELSE SplitStep(s, f[i - 1], i)]
  <2>1. r[0] = SplitStart /\ \A i \in 1..n : r[i] = SplitStep(s, f[i - 1], i)
    BY <1>1
  <2>2. f = r BY <1>8
  <2> HIDE DEF r
  <2> QED BY <2>1, <2>2
<1>10. \A i \in 0..n : f[i] \in V
  <2> DEFINE S == {i \in 0..n : f[i] \in V}
  <2>1. 0 \in S BY <1>1, <1>2, <1>9
  <2>2. ASSUME NEW i \in 0..(n - 1), i \in S PROVE i + 1 \in S
    <3>1. i + 1 \in 1..n /\ i + 1 \in 0..n /\ (i + 1) - 1 = i BY <1>1
    <3> QED BY <1>1, <1>9, <2>2, <3>1
  <2>3. S \in SUBSET (0..n) OBVIOUS
  <2>4. S = 0..n
    <3> HIDE DEF S
    <3> QED BY <1>1, <2>1, <2>2, <2>3, Upwards
  <2> QED BY <2>4
<1> QED BY <1>9, <1>10 DEF f, V

(***************************************************************************)
(* The loop invariant, after the turn with entry i: the lists are bounded, *)
(* hold entries before acc.from only and each that fits once; count is the *)
(* size of what is being filled.                                           *)
(***************************************************************************)
Once(lists, j) == \E k \in DOMAIN lists : \A h \in DOMAIN lists : j \in lists[h] <=> h = k

\* The lists made so far are those of the entries before a.
Complete(s, lists, a) ==
    /\ ListsBounded(s, lists)
    /\ \A k \in DOMAIN lists : lists[k] \subseteq 1..(a - 1)
    /\ \A j \in Fitting(s, 1..(a - 1)) : Once(lists, j)

LoopInv(s, acc, i) ==
    /\ acc \in Acc(s)
    /\ acc.from <= i + 1
    /\ acc.count = Size(s, Fitting(s, acc.from..i))
    /\ acc.count = 0 => Fitting(s, acc.from..i) = {}
    /\ Complete(s, acc.lists, acc.from)

\* Cutting off the entries from a to b.
LEMMA CutComplete ==
    ASSUME NEW s \in Entries, NEW lists \in Seq(SUBSET (1..Len(s))),
           NEW a \in 1..(Len(s) + 1), NEW b \in 0..Len(s), a <= b + 1,
           Complete(s, lists, a), Size(s, Fitting(s, a..b)) <= Limit
    PROVE  Complete(s, Append(lists, a..b), b + 1)
<1> DEFINE u == Append(lists, a..b)
           m == Len(lists)
<1>1. Len(s) \in Nat BY EntryType
<1>2. /\ m \in Nat /\ DOMAIN lists = 1..m /\ DOMAIN u = 1..(m + 1)
      /\ \A k \in 1..m : u[k] = lists[k] /\ k # m + 1
      /\ u[m + 1] = a..b
  <2>1. a..b \in SUBSET (1..Len(s)) BY <1>1
  <2> QED BY <2>1, AppendProperties, LenProperties
<1> HIDE DEF u, m
<1>3. \A k \in 1..m : lists[k] \subseteq 1..(a - 1) BY <1>2 DEF Complete
<1>4. \A k \in 1..(m + 1) : k \in 1..m \/ k = m + 1 BY <1>2
<1>5. ASSUME NEW k \in 1..(m + 1) PROVE Size(s, Fitting(s, u[k])) <= Limit
  <2>1. \A h \in 1..m : Size(s, Fitting(s, lists[h])) <= Limit
    BY <1>2 DEF Complete, ListsBounded
  <2>2. CASE k \in 1..m BY <1>2, <2>1, <2>2
  <2>3. CASE k = m + 1 BY <1>2, <2>3
  <2> QED BY <1>4, <2>2, <2>3
<1>6. \A k \in DOMAIN u : u[k] \subseteq 1..((b + 1) - 1)
  <2>1. a..b \subseteq 1..((b + 1) - 1) /\ 1..(a - 1) \subseteq 1..((b + 1) - 1) BY <1>1
  <2> QED BY <1>2, <1>3, <1>4, <2>1
<1>7. ASSUME NEW j \in Fitting(s, 1..((b + 1) - 1)) PROVE Once(u, j)
  <2>1. CASE j \in a..b
    <3>1. \A k \in 1..m : j \notin lists[k] BY <1>1, <1>3, <2>1
    <3>2. m + 1 \in DOMAIN u BY <1>2
    <3> QED BY <1>2, <1>4, <2>1, <3>1, <3>2 DEF Once
  <2>2. CASE j \notin a..b
    <3>1. j \in Fitting(s, 1..(a - 1)) BY <1>1, <2>2 DEF Fitting
    <3>2. Once(lists, j) BY <3>1 DEF Complete
    <3>3. PICK k \in DOMAIN lists : \A h \in DOMAIN lists : j \in lists[h] <=> h = k
      BY <3>2, Zenon DEF Once
    <3>4. k \in DOMAIN u /\ k \in 1..m BY <1>2
    <3> QED BY <1>2, <1>4, <2>2, <3>3, <3>4 DEF Once
  <2> QED BY <2>1, <2>2
<1>8. ListsBounded(s, u) BY <1>2, <1>5 DEF ListsBounded
<1> QED BY <1>6, <1>7, <1>8 DEF Complete, u

\* What one entry adds to the part being filled.
LEMMA FillStep ==
    ASSUME NEW s \in Entries, NEW i \in 1..Len(s), NEW a \in 1..i
    PROVE  /\ ~Fits(s, i) => Fitting(s, a..i) = Fitting(s, a..(i - 1))
           /\ Fits(s, i) => /\ Fitting(s, a..i) # {}
                            /\ Size(s, Fitting(s, a..i))
                                 = Size(s, Fitting(s, a..(i - 1))) + s[i]
<1>1. Len(s) \in Nat BY EntryType
<1>2. a..i = (a..(i - 1)) \cup {i} /\ i \notin a..(i - 1) BY <1>1
<1>3. ~Fits(s, i) => Fitting(s, a..i) = Fitting(s, a..(i - 1)) BY <1>2 DEF Fitting
<1>4. Fits(s, i) => /\ Fitting(s, a..i) = Fitting(s, a..(i - 1)) \cup {i}
                    /\ i \notin Fitting(s, a..(i - 1))
  BY <1>2 DEF Fitting
<1> QED BY <1>3, <1>4, SizeAdd

LEMMA LoopStep ==
    ASSUME NEW s \in Entries, NEW i \in 1..Len(s), NEW acc, LoopInv(s, acc, i - 1),
           NEW new, new = SplitStep(s, acc, i)
    PROVE  LoopInv(s, new, i)
<1> DEFINE n == Len(s)
<1>1. n \in Nat /\ s[i] \in Nat \ {0} /\ Limit \in Nat /\ i - 1 \in 0..n
      /\ i \in 0..n /\ (i - 1) + 1 = i
  BY EntryType, LimitAssumption
<1>2. /\ acc \in Acc(s) /\ acc.from <= i
      /\ acc.count = Size(s, Fitting(s, acc.from..(i - 1)))
      /\ acc.count = 0 => Fitting(s, acc.from..(i - 1)) = {}
      /\ Complete(s, acc.lists, acc.from)
  BY <1>1 DEF LoopInv
<1>3. /\ acc.count \in 0..Limit /\ acc.from \in 1..(n + 1)
      /\ acc.lists \in Seq(SUBSET (1..n)) /\ acc.from \in 1..i
  BY <1>1, <1>2 DEF Acc
<1>4. new \in Acc(s) BY <1>2, StepType
<1>5. CASE ~Fits(s, i)
  <2>1. new = acc BY <1>1, <1>5 DEF Fits, SplitStep
  <2>2. Fitting(s, acc.from..i) = Fitting(s, acc.from..(i - 1)) BY <1>3, <1>5, FillStep
  <2>3. acc.from <= i + 1 BY <1>3
  <2> QED BY <1>2, <2>1, <2>2, <2>3 DEF LoopInv
<1>6. CASE Fits(s, i)
  <2>1. ~(s[i] > Limit) BY <1>1, <1>6 DEF Fits
  <2>2. /\ Fitting(s, acc.from..i) # {}
        /\ Size(s, Fitting(s, acc.from..i)) = acc.count + s[i]
    BY <1>2, <1>3, <1>6, FillStep
  <2>3. CASE acc.count + s[i] = Limit
    <3>1. new = [count |-> 0, from |-> i + 1, lists |-> Append(acc.lists, acc.from..i)]
      BY <2>1, <2>3 DEF SplitStep
    <3>2. Size(s, Fitting(s, acc.from..i)) <= Limit /\ acc.from <= i + 1
      BY <1>1, <1>3, <2>2, <2>3
    <3>3. Complete(s, Append(acc.lists, acc.from..i), i + 1)
      BY <1>1, <1>2, <1>3, <3>2, CutComplete
    <3>4. Fitting(s, (i + 1)..i) = {} BY <1>1 DEF Fitting
    <3>5. /\ new.count = 0 /\ new.from = i + 1 /\ new.from <= i + 1
          /\ new.lists = Append(acc.lists, acc.from..i)
      BY <1>1, <3>1
    <3>6. Size(s, Fitting(s, new.from..i)) = 0 BY <3>4, <3>5, SizeEmpty
    <3> QED BY <1>4, <3>3, <3>4, <3>5, <3>6 DEF LoopInv
  <2>4. CASE acc.count + s[i] > Limit
    <3>1. new = [count |-> s[i], from |-> i, lists |-> Append(acc.lists, acc.from..(i - 1))]
      BY <1>1, <1>3, <2>1, <2>4 DEF SplitStep
    <3>2. Complete(s, Append(acc.lists, acc.from..(i - 1)), i)
      <4>1. /\ Size(s, Fitting(s, acc.from..(i - 1))) <= Limit
            /\ acc.from <= (i - 1) + 1
        BY <1>1, <1>2, <1>3
      <4>2. Complete(s, Append(acc.lists, acc.from..(i - 1)), (i - 1) + 1)
        BY <1>1, <1>2, <1>3, <4>1, CutComplete
      <4> QED BY <1>1, <4>2
    <3>3. Fitting(s, i..(i - 1)) = {} BY <1>1 DEF Fitting
    <3>4. Size(s, Fitting(s, i..i)) = 0 + s[i]
      <4>1. i \in 1..i BY <1>1
      <4>2. Size(s, Fitting(s, i..i)) = Size(s, Fitting(s, i..(i - 1))) + s[i]
        BY <1>6, <4>1, FillStep
      <4> QED BY <3>3, <4>2, SizeEmpty
    <3>5. /\ new.count = s[i] /\ new.from = i /\ new.from <= i + 1
          /\ new.lists = Append(acc.lists, acc.from..(i - 1))
      BY <1>1, <3>1
    <3>6. new.count # 0 /\ s[i] = 0 + s[i] BY <1>1, <3>5
    <3> QED BY <1>4, <3>2, <3>4, <3>5, <3>6 DEF LoopInv
  <2>5. CASE acc.count + s[i] < Limit
    <3>1. new = [acc EXCEPT !.count = acc.count + s[i]]
      BY <1>1, <1>3, <2>1, <2>5 DEF SplitStep
    <3>2. new.count = acc.count + s[i] /\ new.from = acc.from /\ new.lists = acc.lists
      BY <1>2, <3>1 DEF Acc
    <3>3. new.count # 0 /\ new.from <= i + 1 BY <1>1, <1>3, <3>2
    <3> QED BY <1>2, <1>4, <2>2, <3>2, <3>3 DEF LoopInv
  <2> QED BY <1>1, <1>3, <2>3, <2>4, <2>5
<1> QED BY <1>5, <1>6

LEMMA LoopEnds ==
    ASSUME NEW s \in Entries
    PROVE  LoopInv(s, Turns(s)[Len(s)], Len(s))
<1> DEFINE n == Len(s)
           f == Turns(s)
           S == {i \in 0..n : LoopInv(s, f[i], i)}
<1>1. n \in Nat BY EntryType
<1>2. /\ f[0] = SplitStart /\ \A i \in 0..n : f[i] \in Acc(s)
      /\ \A i \in 1..n : f[i] = SplitStep(s, f[i - 1], i)
  BY TurnsStep
<1> HIDE DEF f
<1>3. LoopInv(s, f[0], 0)
  <2>1. f[0].count = 0 /\ f[0].from = 1 /\ f[0].lists = <<>> BY <1>2 DEF SplitStart
  <2>2. Fitting(s, 1..0) = {} BY DEF Fitting
  <2>3. Complete(s, <<>>, 1) BY <2>2 DEF Complete, ListsBounded, Fitting
  <2>4. f[0] \in Acc(s) /\ 1 <= 0 + 1 BY <1>1, <1>2
  <2> QED BY <2>1, <2>2, <2>3, <2>4, SizeEmpty DEF LoopInv
<1>4. 0 \in S BY <1>1, <1>3
<1>5. ASSUME NEW i \in 0..(n - 1), i \in S PROVE i + 1 \in S
  <2>1. i + 1 \in 1..n /\ i + 1 \in 0..n /\ (i + 1) - 1 = i BY <1>1
  <2>2. LoopInv(s, f[i], (i + 1) - 1) BY <1>5, <2>1
  <2>3. f[i + 1] = SplitStep(s, f[i], i + 1) BY <1>2, <2>1
  <2> QED BY <2>1, <2>2, <2>3, LoopStep
<1>6. S = 0..n
  <2>1. S \in SUBSET (0..n) OBVIOUS
  <2> HIDE DEF S
  <2> QED BY <1>1, <1>4, <1>5, <2>1, Upwards
<1>7. n \in S BY <1>1, <1>6
<1> QED BY <1>7 DEF f

\* The lists when the loop is over.
LEMMA ListsEnd ==
    ASSUME NEW s \in Seq(Nat \ {0})
    PROVE  /\ ListsBounded(s, SplitInLists(s))
           /\ \A j \in Fitting(s, DOMAIN s) : Once(SplitInLists(s), j)
<1> DEFINE n == Len(s)
           end == Turns(s)[n]
           lists == SplitInLists(s)
<1>1. s \in Entries BY DEF Entries
<1>2. n \in Nat /\ DOMAIN s = 1..n BY <1>1, EntryType
<1>3. LoopInv(s, end, n) BY <1>1, LoopEnds
<1>4. lists = IF end.count # 0 THEN Append(end.lists, end.from..n) ELSE end.lists
  BY DEF SplitInLists
<1> HIDE DEF end, lists
<1>5. /\ end.count \in 0..Limit /\ end.from \in 1..(n + 1) /\ end.from <= n + 1
      /\ end.lists \in Seq(SUBSET (1..n))
      /\ end.count = Size(s, Fitting(s, end.from..n))
      /\ end.count = 0 => Fitting(s, end.from..n) = {}
      /\ Complete(s, end.lists, end.from)
  BY <1>3 DEF LoopInv, Acc
<1>6. ListsBounded(s, lists) /\ \A j \in Fitting(s, 1..n) : Once(lists, j)
  <2>1. CASE end.count # 0
    <3>1. lists = Append(end.lists, end.from..n) BY <1>4, <2>1
    <3>2. n \in 0..n /\ Size(s, Fitting(s, end.from..n)) <= Limit
      BY <1>2, <1>5, LimitAssumption
    <3>3. Complete(s, Append(end.lists, end.from..n), n + 1)
      BY <1>1, <1>5, <3>2, CutComplete
    <3>4. (n + 1) - 1 = n BY <1>2
    <3> QED BY <3>1, <3>3, <3>4 DEF Complete
  <2>2. CASE end.count = 0
    <3>1. Fitting(s, 1..n) \subseteq Fitting(s, 1..(end.from - 1))
      BY <1>2, <1>5, <2>2 DEF Fitting
    <3> QED BY <1>4, <1>5, <2>2, <3>1 DEF Complete
  <2> QED BY <2>1, <2>2
<1> QED BY <1>2, <1>6 DEF lists

\* splitInLists drops no entry that fits a message and lists none twice, and its
\* lists are bounded, however long the list and whatever its entries.
THEOREM SplitsSound ==
    ASSUME NEW s \in Seq(Nat \ {0})
    PROVE  /\ ListedOnce(s, SplitInLists(s))
           /\ ListsBounded(s, SplitInLists(s))
<1> DEFINE lists == SplitInLists(s)
<1>1. ListsBounded(s, lists) /\ \A j \in Fitting(s, DOMAIN s) : Once(lists, j)
  BY ListsEnd
<1> HIDE DEF lists
<1>2. ASSUME NEW j \in Fitting(s, DOMAIN s)
      PROVE  Cardinality({k \in DOMAIN lists : j \in lists[k]}) = 1
  <2>1. PICK k \in DOMAIN lists : \A h \in DOMAIN lists : j \in lists[h] <=> h = k
    BY <1>1 DEF Once
  <2>2. {h \in DOMAIN lists : j \in lists[h]} = {k} BY <2>1
  <2> QED BY <2>2, FS_Singleton
<1> QED BY <1>1, <1>2 DEF ListedOnce, lists
==============================================================================

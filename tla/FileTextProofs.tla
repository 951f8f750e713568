---------------------------- MODULE FileTextProofs ----------------------------
(***************************************************************************)
(* What glob matches and what read pages through, for every pattern, path   *)
(* and text: the regular expression of _glob_to_regex matches the paths that *)
(* the docstrings promise, and the pages of a text are the text.            *)
(*                                                                         *)
(* A regular expression is matched from the end of the path, what a star of *)
(* fnmatch takes from its front; AllBefore and Fn are shown to be the same  *)
(* on items that both know.  The rest goes from the last component of a     *)
(* pattern to its first: its items match what the pieces do that it stands  *)
(* for.  A pattern without two stars in a row is its own only expansion.    *)
(***************************************************************************)
EXTENDS MCFileText, SequenceTheorems, WellFoundedInduction, TLAPS

------------------------------------------------------------------------------
(* Induction over a set of numbers, and the functions that recursion makes.  *)

\* A set of naturals has a least element.
LEMMA Least ==
    ASSUME NEW T, T \subseteq Nat, T # {}
    PROVE  \E x \in T : \A y \in T : x <= y
<1>. DEFINE R == OpToRel(<, Nat)
<1>1. IsWellFoundedOn(R, Nat)
  BY NatLessThanWellFounded
<1>2. \A x, y \in Nat : x < y => <<x, y>> \in R
  BY DEF OpToRel
<1>. HIDE DEF R
<1>3. PICK x \in T : \A y \in T : ~(<<y, x>> \in R)
  BY <1>1, WFMin
<1>4. ASSUME NEW y \in T  PROVE x <= y
  <2>1. x \in Nat /\ y \in Nat
    OBVIOUS
  <2>2. ~(y < x)
    BY <1>2, <1>3, <2>1
  <2>. QED  BY <2>1, <2>2
<1>. QED  BY <1>4

\* A set with 0 that goes on as far as n has all up to n.
LEMMA Upward ==
    ASSUME NEW n \in Nat, NEW Q, 0 \in Q, \A i \in 0..(n - 1) : i \in Q => i + 1 \in Q
    PROVE  \A i \in 0..n : i \in Q
<1>. DEFINE T == (0..n) \ Q
<1>1. SUFFICES ASSUME T # {}  PROVE FALSE
  OBVIOUS
<1>2. T \subseteq Nat
  OBVIOUS
<1>. HIDE DEF T
<1>3. PICK x \in T : \A y \in T : x <= y
  BY <1>1, <1>2, Least
<1>4. x \in 0..n /\ x \notin Q /\ x # 0
  BY DEF T
<1>5. x - 1 \in 0..(n - 1)
  BY <1>4
<1>6. x - 1 \notin T
  BY <1>3, <1>4
<1>7. x - 1 \in Q
  BY <1>4, <1>5, <1>6 DEF T
<1>. QED  BY <1>4, <1>5, <1>7

\* A set with n + 1 that goes down as far as 1 has all from 1 on.
LEMMA Downward ==
    ASSUME NEW n \in Nat, NEW Q, n + 1 \in Q, \A i \in 1..n : i + 1 \in Q => i \in Q
    PROVE  \A i \in 1..(n + 1) : i \in Q
<1>. DEFINE T == {i \in 0..n : n + 1 - i \in Q}
<1>1. 0 \in T
  OBVIOUS
<1>2. ASSUME NEW i \in 0..(n - 1), i \in T  PROVE i + 1 \in T
  <2>1. n - i \in 1..n /\ (n - i) + 1 = n + 1 - i /\ n + 1 - (i + 1) = n - i /\ i + 1 \in 0..n
    OBVIOUS
  <2>2. (n - i) + 1 \in Q
    BY <1>2, <2>1
  <2>3. n - i \in Q
    BY <2>1, <2>2
  <2>. QED  BY <2>1, <2>3
<1>. HIDE DEF T
<1>3. \A i \in 0..n : i \in T
  BY <1>1, <1>2, Upward
<1>4. ASSUME NEW i \in 1..(n + 1)  PROVE i \in Q
  <2>1. n + 1 - i \in 0..n /\ n + 1 - (n + 1 - i) = i
    OBVIOUS
  <2>. QED  BY <1>3, <2>1 DEF T
<1>. QED  BY <1>4

\* A function that goes up from 0, or down from n + 1, by the steps g.
GoesUp(h, n, V, base, g) ==
    h \in [0..n -> V] /\ h[0] = base /\ \A i \in 1..n : h[i] = g[i][h[i - 1]]
GoesDown(h, n, V, base, g) ==
    h \in [1..(n + 1) -> V] /\ h[n + 1] = base /\ \A i \in 1..n : h[i] = g[i][h[i + 1]]

\* There is a function that starts with base and goes on by the steps g.
LEMMA StepsUp ==
    ASSUME NEW n \in Nat, NEW V, NEW base \in V, NEW g \in [1..n -> [V -> V]]
    PROVE  \E h : GoesUp(h, n, V, base, g)
<1>. DEFINE Good(m) == \E h \in [0..n -> V] : h[0] = base /\ \A i \in 1..m : h[i] = g[i][h[i - 1]]
            Q == {m \in 0..n : Good(m)}
<1>1. 0 \in Q
  <2>. DEFINE h == [i \in 0..n |-> base]
  <2>1. h \in [0..n -> V] /\ h[0] = base /\ \A i \in 1..0 : h[i] = g[i][h[i - 1]]
    OBVIOUS
  <2>. HIDE DEF h
  <2>2. Good(0)
    BY <2>1
  <2>. QED  BY <2>2
<1>2. ASSUME NEW m \in 0..(n - 1), m \in Q  PROVE m + 1 \in Q
  <2>1. PICK h \in [0..n -> V] : h[0] = base /\ \A i \in 1..m : h[i] = g[i][h[i - 1]]
    BY <1>2
  <2>. DEFINE k == [h EXCEPT ![m + 1] = g[m + 1][h[m]]]
  <2>2. m + 1 \in 1..n /\ m \in 0..n
    OBVIOUS
  <2>3. g[m + 1][h[m]] \in V
    BY <2>2
  <2>4. k \in [0..n -> V] /\ k[0] = base /\ k[m + 1] = g[m + 1][h[m]]
        /\ \A i \in 0..n : i # m + 1 => k[i] = h[i]
    BY <2>1, <2>2, <2>3
  <2>. HIDE DEF k
  <2>5. ASSUME NEW i \in 1..(m + 1)  PROVE k[i] = g[i][k[i - 1]]
    <3>1. i \in 0..n /\ i - 1 \in 0..n /\ i - 1 # m + 1
      BY <2>2
    <3>2. k[i - 1] = h[i - 1]
      BY <2>4, <3>1
    <3>3. CASE i = m + 1
      BY <2>4, <3>2, <3>3
    <3>4. CASE i # m + 1
      <4>1. i \in 1..m
        BY <3>4
      <4>. QED  BY <2>1, <2>4, <3>1, <3>2, <3>4, <4>1
    <3>. QED  BY <3>3, <3>4
  <2>6. Good(m + 1)
    BY <2>4, <2>5
  <2>. QED  BY <2>2, <2>6
<1>. HIDE DEF Q
<1>3. \A m \in 0..n : m \in Q
  BY <1>1, <1>2, Upward
<1>4. n \in Q
  BY <1>3
<1>. QED  BY <1>4 DEF Q, GoesUp

\* The same from n + 1 down to 1.
LEMMA StepsDown ==
    ASSUME NEW n \in Nat, NEW V, NEW base \in V, NEW g \in [1..n -> [V -> V]]
    PROVE  \E h : GoesDown(h, n, V, base, g)
<1>. DEFINE back == [i \in 1..n |-> g[n + 1 - i]]
<1>1. \A i \in 1..n : n + 1 - i \in 1..n
  OBVIOUS
<1>2. back \in [1..n -> [V -> V]]
  BY <1>1
<1>3. PICK u : GoesUp(u, n, V, base, back)
  <2>. HIDE DEF back
  <2>. QED  BY <1>2, StepsUp
<1>. DEFINE h == [i \in 1..(n + 1) |-> u[n + 1 - i]]
<1>4. h \in [1..(n + 1) -> V] /\ h[n + 1] = base
  <2>1. \A i \in 1..(n + 1) : n + 1 - i \in 0..n
    OBVIOUS
  <2>. QED  BY <1>3, <2>1 DEF GoesUp
<1>5. ASSUME NEW i \in 1..n  PROVE h[i] = g[i][h[i + 1]]
  <2>1. /\ i \in 1..(n + 1) /\ i + 1 \in 1..(n + 1) /\ n + 1 - i \in 1..n
        /\ n + 1 - (n + 1 - i) = i /\ n + 1 - (i + 1) = (n + 1 - i) - 1
    OBVIOUS
  <2>2. h[i] = u[n + 1 - i] /\ h[i + 1] = u[(n + 1 - i) - 1]
    BY <2>1
  <2>3. u[n + 1 - i] = g[i][u[(n + 1 - i) - 1]]
    BY <1>3, <2>1 DEF GoesUp
  <2>. QED  BY <2>2, <2>3
<1>. HIDE DEF h
<1>. QED  BY <1>4, <1>5 DEF GoesDown

\* One element in front of a sequence.
LEMMA InFront ==
    ASSUME NEW S, NEW x \in S, NEW s \in Seq(S)
    PROVE  /\ <<x>> \o s \in Seq(S) /\ Len(<<x>> \o s) = Len(s) + 1
           /\ (<<x>> \o s)[1] = x /\ \A i \in 1..Len(s) : (<<x>> \o s)[i + 1] = s[i]
<1>. DEFINE n == Len(s)
            one == <<x>>
            all == one \o s
<1>1. one \in Seq(S) /\ Len(one) = 1 /\ one[1] = x /\ n \in Nat
  OBVIOUS
<1>2. /\ all \in Seq(S) /\ Len(all) = Len(one) + n
      /\ \A i \in 1..(Len(one) + n) : all[i] = IF i <= Len(one) THEN one[i] ELSE s[i - Len(one)]
  <2>. HIDE DEF one
  <2>. QED  BY <1>1, ConcatProperties
<1>. HIDE DEF all, one, n
<1>3. Len(all) = n + 1
  BY <1>1, <1>2
<1>4. all[1] = x
  <2>1. 1 \in 1..(Len(one) + n) /\ 1 <= Len(one)
    BY <1>1
  <2>. QED  BY <1>1, <1>2, <2>1
<1>5. ASSUME NEW i \in 1..n  PROVE all[i + 1] = s[i]
  <2>1. i + 1 \in 1..(Len(one) + n) /\ ~(i + 1 <= Len(one)) /\ (i + 1) - Len(one) = i
    BY <1>1
  <2>. QED  BY <1>2, <2>1
<1>6. all \in Seq(S)
  BY <1>2
<1>. QED  BY <1>3, <1>4, <1>5, <1>6 DEF all, one, n

------------------------------------------------------------------------------
(* What items match. *)

\* The places of a path, with the one behind its last character.
Spots(p) == 1..(Len(p) + 1)

\* An item leads to places of the path.
LEMMA BeforeType ==
    ASSUME NEW S, NEW p \in Seq(S), NEW item, NEW R \in SUBSET Spots(p)
    PROVE  Before(item, p, R) \in SUBSET Spots(p)
<1>1. Len(p) \in Nat
  OBVIOUS
<1>2. 1..Len(p) \subseteq Spots(p)
  BY <1>1 DEF Spots
<1>. QED  BY <1>2 DEF Before, Spots

\* The sets through which items lead back from R.
IsRun(h, items, p, R) ==
    /\ h \in [1..(Len(items) + 1) -> SUBSET Spots(p)]
    /\ h[Len(items) + 1] = R
    /\ \A i \in 1..Len(items) : h[i] = Before(items[i], p, h[i + 1])

\* There are such sets, for any items.
LEMMA RunExists ==
    ASSUME NEW S, NEW p \in Seq(S), NEW I, NEW items \in Seq(I), NEW R \in SUBSET Spots(p)
    PROVE  \E h : IsRun(h, items, p, R)
<1>. DEFINE n == Len(items)
            V == SUBSET Spots(p)
            g == [i \in 1..n |-> [X \in V |-> Before(items[i], p, X)]]
<1>1. n \in Nat
  OBVIOUS
<1>2. g \in [1..n -> [V -> V]]
  BY BeforeType
<1>3. PICK h : GoesDown(h, n, V, R, g)
  <2>. HIDE DEF g, n, V
  <2>1. R \in V
    BY DEF V
  <2>. QED  BY <1>1, <1>2, <2>1, StepsDown
<1>4. ASSUME NEW i \in 1..n  PROVE h[i] = Before(items[i], p, h[i + 1])
  <2>1. i + 1 \in 1..(n + 1)
    BY <1>1
  <2>2. h[i + 1] \in V
    BY <1>3, <2>1 DEF GoesDown
  <2>. QED  BY <1>3, <2>2 DEF GoesDown
<1>. QED  BY <1>3, <1>4 DEF IsRun, GoesDown

\* They are those that AllBefore recurses through.
LEMMA RunIs ==
    ASSUME NEW I, NEW items \in Seq(I), NEW p, NEW R, NEW h, IsRun(h, items, p, R)
    PROVE  AllBefore(items, p, R) = h[1]
<1>. DEFINE n == Len(items)
            Step(m) == [i \in 1..(n + 1) |-> IF i > n THEN R ELSE Before(items[i], p, m[i + 1])]
            m == CHOOSE m : m = Step(m)
<1>1. n \in Nat
  OBVIOUS
<1>2. h = Step(h)
  <2>1. \A i \in 1..(n + 1) : (i > n => i = n + 1) /\ (~(i > n) => i \in 1..n)
    BY <1>1
  <2>. QED  BY <2>1 DEF IsRun
<1>3. m = Step(m)
  <2>. HIDE DEF Step
  <2>. QED  BY <1>2
<1>. DEFINE Q == {i \in 1..(n + 1) : m[i] = h[i]}
<1>. HIDE DEF m
<1>4. \A i \in 1..(n + 1) : m[i] = IF i > n THEN R ELSE Before(items[i], p, m[i + 1])
  BY <1>3
<1>5. n + 1 \in Q
  BY <1>1, <1>4 DEF IsRun
<1>6. ASSUME NEW i \in 1..n, i + 1 \in Q  PROVE i \in Q
  <2>1. i \in 1..(n + 1) /\ ~(i > n)
    BY <1>1
  <2>2. m[i] = Before(items[i], p, m[i + 1]) /\ h[i] = Before(items[i], p, h[i + 1])
    BY <1>4, <2>1 DEF IsRun
  <2>. QED  BY <1>6, <2>1, <2>2
<1>. HIDE DEF Q, n, Step
<1>7. \A i \in 1..(n + 1) : i \in Q
  BY <1>1, <1>5, <1>6, Downward
<1>8. m[1] = h[1]
  BY <1>1, <1>7 DEF Q
<1>. QED  BY <1>8 DEF AllBefore, m, Step, n

\* Items lead to places of the path.
LEMMA AllBeforeType ==
    ASSUME NEW S, NEW p \in Seq(S), NEW I, NEW items \in Seq(I), NEW R \in SUBSET Spots(p)
    PROVE  AllBefore(items, p, R) \in SUBSET Spots(p)
<1>1. PICK h : IsRun(h, items, p, R)
  BY RunExists
<1>2. AllBefore(items, p, R) = h[1]
  BY <1>1, RunIs
<1>3. 1 \in 1..(Len(items) + 1)
  OBVIOUS
<1>. QED  BY <1>1, <1>2, <1>3 DEF IsRun

\* No items lead nowhere else.
LEMMA AllBeforeNone ==
    ASSUME NEW S, NEW p \in Seq(S), NEW R \in SUBSET Spots(p)
    PROVE  AllBefore(<<>>, p, R) = R
<1>1. <<>> \in Seq(S) /\ Len(<<>>) = 0
  OBVIOUS
<1>2. PICK h : IsRun(h, <<>>, p, R)
  BY <1>1, RunExists
<1>3. AllBefore(<<>>, p, R) = h[1]
  BY <1>1, <1>2, RunIs
<1>. QED  BY <1>1, <1>2, <1>3 DEF IsRun

\* Items one after the other lead back through the places in between.
LEMMA AllBeforeConcat ==
    ASSUME NEW S, NEW p \in Seq(S), NEW I, NEW s \in Seq(I), NEW t \in Seq(I),
           NEW R \in SUBSET Spots(p)
    PROVE  AllBefore(s \o t, p, R) = AllBefore(s, p, AllBefore(t, p, R))
<1>. DEFINE a == Len(s)
            b == Len(t)
            all == s \o t
<1>1. /\ a \in Nat /\ b \in Nat
      /\ all \in Seq(I) /\ Len(all) = a + b
      /\ \A i \in 1..(a + b) : all[i] = IF i <= a THEN s[i] ELSE t[i - a]
  BY ConcatProperties
<1>2. PICK h : IsRun(h, all, p, R)
  BY <1>1, RunExists
<1>. HIDE DEF a, b, all
<1>3. AllBefore(all, p, R) = h[1]
  BY <1>1, <1>2, RunIs
<1>4. /\ h \in [1..(a + b + 1) -> SUBSET Spots(p)]
      /\ h[a + b + 1] = R
      /\ \A i \in 1..(a + b) : h[i] = Before(all[i], p, h[i + 1])
  BY <1>1, <1>2 DEF IsRun
<1>. DEFINE u == [i \in 1..(b + 1) |-> h[a + i]]
            v == [i \in 1..(a + 1) |-> h[i]]
<1>5. IsRun(u, t, p, R)
  <2>1. \A i \in 1..(b + 1) : a + i \in 1..(a + b + 1)
    BY <1>1
  <2>2. u \in [1..(b + 1) -> SUBSET Spots(p)] /\ u[b + 1] = R
    BY <1>1, <1>4, <2>1
  <2>3. ASSUME NEW i \in 1..b  PROVE u[i] = Before(t[i], p, u[i + 1])
    <3>1. /\ a + i \in 1..(a + b) /\ ~(a + i <= a) /\ (a + i) - a = i
          /\ i \in 1..(b + 1) /\ i + 1 \in 1..(b + 1) /\ a + (i + 1) = (a + i) + 1
      BY <1>1
    <3>2. all[a + i] = t[i]
      BY <1>1, <3>1
    <3>3. h[a + i] = Before(all[a + i], p, h[(a + i) + 1])
      BY <1>4, <3>1
    <3>. QED  BY <3>1, <3>2, <3>3
  <2>. QED  BY <2>2, <2>3 DEF IsRun, b
<1>6. AllBefore(t, p, R) = h[a + 1]
  <2>1. AllBefore(t, p, R) = u[1]
    <3>. HIDE DEF u
    <3>. QED  BY <1>5, RunIs
  <2>. QED  BY <1>1, <2>1
<1>7. IsRun(v, s, p, h[a + 1])
  <2>1. \A i \in 1..(a + 1) : i \in 1..(a + b + 1)
    BY <1>1
  <2>2. v \in [1..(a + 1) -> SUBSET Spots(p)] /\ v[a + 1] = h[a + 1]
    BY <1>1, <1>4, <2>1
  <2>3. ASSUME NEW i \in 1..a  PROVE v[i] = Before(s[i], p, v[i + 1])
    <3>1. i \in 1..(a + b) /\ i <= a /\ i \in 1..(a + 1) /\ i + 1 \in 1..(a + 1)
      BY <1>1
    <3>2. all[i] = s[i] /\ h[i] = Before(all[i], p, h[i + 1])
      BY <1>1, <1>4, <3>1
    <3>. QED  BY <3>1, <3>2
  <2>. QED  BY <2>2, <2>3 DEF IsRun, a
<1>8. AllBefore(s, p, h[a + 1]) = v[1]
  <2>. HIDE DEF v
  <2>. QED  BY <1>7, RunIs
<1>9. v[1] = h[1]
  BY <1>1
<1>. QED  BY <1>3, <1>6, <1>8, <1>9 DEF all

\* One item leads as Before says.
LEMMA AllBeforeOne ==
    ASSUME NEW S, NEW p \in Seq(S), NEW item, NEW R \in SUBSET Spots(p)
    PROVE  AllBefore(<<item>>, p, R) = Before(item, p, R)
<1>1. <<item>> \in Seq({item}) /\ Len(<<item>>) = 1 /\ <<item>>[1] = item
  OBVIOUS
<1>2. PICK h : IsRun(h, <<item>>, p, R)
  BY <1>1, RunExists
<1>3. AllBefore(<<item>>, p, R) = h[1]
  BY <1>1, <1>2, RunIs
<1>4. 1 \in 1..Len(<<item>>) /\ 1 + 1 = Len(<<item>>) + 1
  BY <1>1
<1>. QED  BY <1>1, <1>2, <1>3, <1>4 DEF IsRun

------------------------------------------------------------------------------
(* What the pieces of a text match that FlattenSeq puts together. *)

\* The pieces put together one by one.
LEMMA FlattenIs ==
    ASSUME NEW I, NEW ss \in Seq(Seq(I))
    PROVE  \E f : /\ f \in [0..Len(ss) -> Seq(I)] /\ f[0] = <<>>
                  /\ \A i \in 1..Len(ss) : f[i] = f[i - 1] \o ss[i]
                  /\ FlattenSeq(ss) = f[Len(ss)]
<1>. DEFINE n == Len(ss)
            V == Seq(I)
            g == [i \in 1..n |-> [x \in V |-> x \o ss[i]]]
            Step(m) == [i \in 1..n |-> IF i = 1 THEN ss[i] ELSE m[i - 1] \o ss[i]]
            m == CHOOSE m : m = Step(m)
<1>1. n \in Nat /\ \A i \in 1..n : ss[i] \in V
  OBVIOUS
<1>2. g \in [1..n -> [V -> V]] /\ <<>> \in V
  OBVIOUS
<1>3. PICK f : GoesUp(f, n, V, <<>>, g)
  <2>. HIDE DEF g, n, V
  <2>. QED  BY <1>1, <1>2, StepsUp
<1>4. /\ f \in [0..n -> V] /\ f[0] = <<>>
      /\ \A i \in 1..n : f[i] = f[i - 1] \o ss[i]
  <2>1. \A i \in 1..n : i - 1 \in 0..n
    BY <1>1
  <2>. QED  BY <1>3, <2>1 DEF GoesUp
<1>5. CASE n = 0
  <2>1. ss = <<>> /\ FlattenSeq(ss) = ss
    BY <1>5 DEF FlattenSeq
  <2>. QED  BY <1>4, <1>5, <2>1
<1>6. CASE n # 0
  <2>. DEFINE r == [i \in 1..n |-> f[i]]
  <2>1. r = Step(r)
    <3>1. ASSUME NEW i \in 1..n  PROVE f[i] = IF i = 1 THEN ss[i] ELSE r[i - 1] \o ss[i]
      <4>1. CASE i = 1
        <5>1. ss[1] \in V /\ f[1] = <<>> \o ss[1]
          <6>1. 1 \in 1..n /\ 1 - 1 = 0
            BY <1>1, <1>6
          <6>. QED  BY <1>1, <1>4, <6>1
        <5>. QED  BY <4>1, <5>1
      <4>2. CASE i # 1
        <5>1. i - 1 \in 1..n
          BY <1>1, <4>2
        <5>. QED  BY <1>4, <4>2, <5>1
      <4>. QED  BY <4>1, <4>2
    <3>. QED  BY <3>1
  <2>2. m = Step(m)
    <3>. HIDE DEF Step, r
    <3>. QED  BY <2>1
  <2>. HIDE DEF m
  <2>3. \A i \in 1..n : m[i] = IF i = 1 THEN ss[i] ELSE m[i - 1] \o ss[i]
    BY <2>2
  <2>4. \A i \in 1..n : f[i] = IF i = 1 THEN ss[i] ELSE f[i - 1] \o ss[i]
    <3>1. \A i \in 1..n : r[i] = IF i = 1 THEN ss[i] ELSE r[i - 1] \o ss[i]
      BY <2>1
    <3>2. \A i \in 1..n : i # 1 => i - 1 \in 1..n
      BY <1>1
    <3>. QED  BY <3>1, <3>2
  <2>. DEFINE Q == {i \in 0..n : i = 0 \/ m[i] = f[i]}
  <2>5. 0 \in Q
    BY <1>1
  <2>6. ASSUME NEW i \in 0..(n - 1), i \in Q  PROVE i + 1 \in Q
    <3>1. i + 1 \in 1..n /\ (i + 1) - 1 = i /\ (i + 1 = 1 <=> i = 0)
      BY <1>1
    <3>2. m[i + 1] = f[i + 1]
      BY <2>3, <2>4, <2>6, <3>1
    <3>. QED  BY <3>1, <3>2
  <2>. HIDE DEF Q, n, Step
  <2>7. \A i \in 0..n : i \in Q
    BY <1>1, <2>5, <2>6, Upward
  <2>8. m[n] = f[n]
    BY <1>1, <1>6, <2>7 DEF Q
  <2>9. FlattenSeq(ss) = m[n]
    BY <1>6 DEF FlattenSeq, m, Step, n
  <2>. QED  BY <1>4, <2>8, <2>9 DEF n
<1>. QED  BY <1>5, <1>6

\* The pieces together are a sequence of what they are sequences of.
LEMMA FlattenType ==
    ASSUME NEW I, NEW ss \in Seq(Seq(I))
    PROVE  FlattenSeq(ss) \in Seq(I)
<1>1. PICK f : f \in [0..Len(ss) -> Seq(I)] /\ FlattenSeq(ss) = f[Len(ss)]
  BY FlattenIs
<1>. QED  BY <1>1

\* The sets through which the pieces lead back from R.
IsFlatRun(h, ss, p, R) ==
    /\ h \in [1..(Len(ss) + 1) -> SUBSET Spots(p)]
    /\ h[Len(ss) + 1] = R
    /\ \A k \in 1..Len(ss) : h[k] = AllBefore(ss[k], p, h[k + 1])

\* There are such sets, for any pieces.
LEMMA FlatRunExists ==
    ASSUME NEW S, NEW p \in Seq(S), NEW I, NEW ss \in Seq(Seq(I)), NEW R \in SUBSET Spots(p)
    PROVE  \E h : IsFlatRun(h, ss, p, R)
<1>. DEFINE n == Len(ss)
            V == SUBSET Spots(p)
            g == [i \in 1..n |-> [X \in V |-> AllBefore(ss[i], p, X)]]
<1>1. n \in Nat
  OBVIOUS
<1>2. g \in [1..n -> [V -> V]]
  <2>1. ASSUME NEW i \in 1..n, NEW X \in V  PROVE AllBefore(ss[i], p, X) \in V
    <3>1. ss[i] \in Seq(I)
      OBVIOUS
    <3>. QED  BY <3>1, AllBeforeType
  <2>. QED  BY <2>1
<1>3. PICK h : GoesDown(h, n, V, R, g)
  <2>. HIDE DEF g, n, V
  <2>1. R \in V
    BY DEF V
  <2>. QED  BY <1>1, <1>2, <2>1, StepsDown
<1>4. ASSUME NEW i \in 1..n  PROVE h[i] = AllBefore(ss[i], p, h[i + 1])
  <2>1. i + 1 \in 1..(n + 1)
    BY <1>1
  <2>2. h[i + 1] \in V
    BY <1>3, <2>1 DEF GoesDown
  <2>. QED  BY <1>3, <2>2 DEF GoesDown
<1>. QED  BY <1>3, <1>4 DEF IsFlatRun, GoesDown

\* The pieces together match what they do one after the other.
LEMMA FlatRunIs ==
    ASSUME NEW S, NEW p \in Seq(S), NEW I, NEW ss \in Seq(Seq(I)), NEW R \in SUBSET Spots(p),
           NEW h, IsFlatRun(h, ss, p, R)
    PROVE  AllBefore(FlattenSeq(ss), p, R) = h[1]
<1>. DEFINE n == Len(ss)
<1>1. n \in Nat /\ \A i \in 1..n : ss[i] \in Seq(I)
  OBVIOUS
<1>2. PICK f : /\ f \in [0..n -> Seq(I)] /\ f[0] = <<>>
               /\ \A i \in 1..n : f[i] = f[i - 1] \o ss[i]
               /\ FlattenSeq(ss) = f[n]
  BY FlattenIs
<1>3. /\ h \in [1..(n + 1) -> SUBSET Spots(p)] /\ h[n + 1] = R
      /\ \A k \in 1..n : h[k] = AllBefore(ss[k], p, h[k + 1])
  BY DEF IsFlatRun
<1>. DEFINE Q == {i \in 0..n : AllBefore(f[i], p, h[i + 1]) = h[1]}
<1>. HIDE DEF n
<1>4. 0 \in Q
  <2>1. h[1] \in SUBSET Spots(p) /\ 0 \in 0..n
    BY <1>1, <1>3
  <2>. QED  BY <1>2, <2>1, AllBeforeNone
<1>5. ASSUME NEW i \in 0..(n - 1), i \in Q  PROVE i + 1 \in Q
  <2>1. /\ i + 1 \in 0..n /\ i + 1 \in 1..n /\ (i + 1) - 1 = i /\ i \in 0..n
        /\ (i + 1) + 1 \in 1..(n + 1)
    BY <1>1
  <2>2. f[i] \in Seq(I) /\ ss[i + 1] \in Seq(I) /\ h[(i + 1) + 1] \in SUBSET Spots(p)
    BY <1>1, <1>2, <1>3, <2>1
  <2>3. f[i + 1] = f[i] \o ss[i + 1] /\ h[i + 1] = AllBefore(ss[i + 1], p, h[(i + 1) + 1])
    BY <1>2, <1>3, <2>1
  <2>4. AllBefore(f[i + 1], p, h[(i + 1) + 1]) = AllBefore(f[i], p, h[i + 1])
    BY <2>2, <2>3, AllBeforeConcat
  <2>. QED  BY <1>5, <2>1, <2>4
<1>. HIDE DEF Q
<1>6. \A i \in 0..n : i \in Q
  BY <1>1, <1>4, <1>5, Upward
<1>7. AllBefore(f[n], p, h[n + 1]) = h[1]
  BY <1>1, <1>6 DEF Q
<1>. QED  BY <1>2, <1>3, <1>7

------------------------------------------------------------------------------
(* fnmatch: a run of stars is one star, and what Fn takes from the front     *)
(* AllBefore finds from the end.                                             *)

\* Two stars lead no further than one.
LEMMA StarTwice ==
    ASSUME NEW p, NEW R
    PROVE  Len(p) \in Nat /\ R \in SUBSET Spots(p)
             => Before("*", p, Before("*", p, R)) = Before("*", p, R)
<1>. SUFFICES ASSUME Len(p) \in Nat, R \in SUBSET Spots(p)
              PROVE  Before("*", p, Before("*", p, R)) = Before("*", p, R)
  OBVIOUS
<1>1. \A X : Before("*", p, X) = {j \in Spots(p) : \E k \in X : j <= k}
  BY DEF Before, Spots
<1>2. \A j, k, m \in Spots(p) : j <= k /\ k <= m => j <= m
  BY DEF Spots
<1>3. \A j \in Spots(p) : j <= j
  BY DEF Spots
<1>. DEFINE B == Before("*", p, R)
            C == Before("*", p, B)
<1>4. B = {j \in Spots(p) : \E k \in R : j <= k} /\ C = {j \in Spots(p) : \E k \in B : j <= k}
  BY <1>1
<1>. HIDE DEF B, C
<1>5. ASSUME NEW j \in Spots(p)  PROVE j \in C <=> j \in B
  BY <1>2, <1>3, <1>4
<1>6. C = B
  BY <1>4, <1>5
<1>. QED  BY <1>6 DEF B, C

\* The items that fnmatch makes of a text match what its characters do.
LEMMA FnItemsMatch ==
    ASSUME NEW S, NEW p \in Seq(S), NEW I, NEW s \in Seq(I), NEW R \in SUBSET Spots(p)
    PROVE  /\ FnItems(s) \in Seq(I)
           /\ AllBefore(FnItems(s), p, R) = AllBefore(s, p, R)
<1>. DEFINE n == Len(s)
            pieces == [i \in DOMAIN s |->
                          IF s[i] = "*" /\ i < Len(s) /\ s[i + 1] = "*" THEN <<>> ELSE <<s[i]>>]
<1>1. n \in Nat /\ DOMAIN s = 1..n /\ \A i \in 1..n : s[i] \in I
  OBVIOUS
<1>2. /\ pieces \in Seq(Seq(I)) /\ Len(pieces) = n
      /\ \A i \in 1..n : pieces[i] =
            IF s[i] = "*" /\ i < n /\ s[i + 1] = "*" THEN <<>> ELSE <<s[i]>>
  <2>1. pieces \in [1..n -> Seq(I)]
    BY <1>1
  <2>. QED  BY <1>1, <2>1
<1>. HIDE DEF pieces
<1>3. FnItems(s) = FlattenSeq(pieces)
  BY DEF FnItems, pieces
<1>4. PICK h : IsRun(h, s, p, R)
  BY RunExists
<1>. HIDE DEF n
<1>5. /\ h \in [1..(n + 1) -> SUBSET Spots(p)] /\ h[n + 1] = R
      /\ \A i \in 1..n : h[i] = Before(s[i], p, h[i + 1])
  BY <1>4 DEF IsRun, n
<1>6. ASSUME NEW i \in 1..n  PROVE h[i] = AllBefore(pieces[i], p, h[i + 1])
  <2>1. i + 1 \in 1..(n + 1)
    BY <1>1
  <2>2. h[i + 1] \in SUBSET Spots(p)
    BY <1>5, <2>1
  <2>3. CASE s[i] = "*" /\ i < n /\ s[i + 1] = "*"
    <3>1. i + 1 \in 1..n /\ (i + 1) + 1 \in 1..(n + 1)
      BY <1>1, <2>3
    <3>2. h[i + 1] = Before("*", p, h[(i + 1) + 1]) /\ h[i] = Before("*", p, h[i + 1])
      BY <1>5, <2>3, <3>1
    <3>3. h[(i + 1) + 1] \in SUBSET Spots(p) /\ Len(p) \in Nat
      BY <1>5, <3>1
    <3>4. h[i] = h[i + 1]
      BY <3>2, <3>3, StarTwice
    <3>5. AllBefore(<<>>, p, h[i + 1]) = h[i + 1]
      BY <2>2, AllBeforeNone
    <3>. QED  BY <1>2, <2>3, <3>4, <3>5
  <2>4. CASE ~(s[i] = "*" /\ i < n /\ s[i + 1] = "*")
    <3>1. AllBefore(<<s[i]>>, p, h[i + 1]) = Before(s[i], p, h[i + 1])
      BY <2>2, AllBeforeOne
    <3>2. pieces[i] = <<s[i]>> /\ h[i] = Before(s[i], p, h[i + 1])
      BY <1>2, <1>5, <2>4
    <3>. QED  BY <3>1, <3>2
  <2>. QED  BY <2>3, <2>4
<1>7. IsFlatRun(h, pieces, p, R)
  BY <1>2, <1>5, <1>6 DEF IsFlatRun
<1>8. pieces \in Seq(Seq(I))
  BY <1>2
<1>9. AllBefore(FlattenSeq(pieces), p, R) = h[1]
  BY <1>7, <1>8, FlatRunIs
<1>10. AllBefore(s, p, R) = h[1]
  BY <1>4, RunIs
<1>11. FlattenSeq(pieces) \in Seq(I)
  BY <1>8, FlattenType
<1>. QED  BY <1>3, <1>9, <1>10, <1>11

\* One step of Fn: where an item takes a text of which the places X were taken.
After(item, text, X) ==
    IF item = "*" THEN {j \in 0..Len(text) : \E k \in X : k <= j}
    ELSE {j \in 1..Len(text) : text[j] = item /\ j - 1 \in X}

\* A step forward from X meets Y just when the step back from Y meets X.
LEMMA ForthAndBack ==
    ASSUME NEW S, NEW p \in Seq(S), NEW item, item # "dirs",
           NEW X \in SUBSET (0..Len(p)), NEW Y \in SUBSET Spots(p)
    PROVE  (\E j \in X : j + 1 \in Before(item, p, Y))
             <=> (\E j \in After(item, p, X) : j + 1 \in Y)
<1>. DEFINE n == Len(p)
<1>1. n \in Nat
  OBVIOUS
<1>2. CASE item = "*"
  <2>1. Before(item, p, Y) = {j \in 1..(n + 1) : \E k \in Y : j <= k}
    BY <1>2 DEF Before
  <2>2. After(item, p, X) = {j \in 0..n : \E k \in X : k <= j}
    BY <1>2 DEF After
  <2>. HIDE DEF n
  <2>3. ASSUME NEW j \in X, j + 1 \in Before(item, p, Y)
        PROVE  \E m \in After(item, p, X) : m + 1 \in Y
    <3>1. PICK k \in Y : j + 1 <= k
      BY <2>1, <2>3
    <3>2. k \in 1..(n + 1) /\ j \in 0..n
      BY DEF Spots, n
    <3>3. k - 1 \in 0..n /\ j <= k - 1 /\ (k - 1) + 1 = k
      BY <1>1, <3>1, <3>2
    <3>4. k - 1 \in After(item, p, X)
      BY <2>2, <3>3
    <3>. QED  BY <3>3, <3>4
  <2>4. ASSUME NEW m \in After(item, p, X), m + 1 \in Y
        PROVE  \E j \in X : j + 1 \in Before(item, p, Y)
    <3>1. PICK j \in X : j <= m
      BY <2>2
    <3>2. m \in 0..n /\ j \in 0..n
      BY <2>2 DEF n
    <3>3. j + 1 \in 1..(n + 1) /\ j + 1 <= m + 1
      BY <1>1, <3>1, <3>2
    <3>. QED  BY <2>1, <2>4, <3>3
  <2>. QED  BY <2>3, <2>4
<1>3. CASE item # "*"
  <2>1. Before(item, p, Y) = {j \in 1..n : p[j] = item /\ j + 1 \in Y}
    BY <1>3 DEF Before
  <2>2. After(item, p, X) = {j \in 1..n : p[j] = item /\ j - 1 \in X}
    BY <1>3 DEF After
  <2>. HIDE DEF n
  <2>3. ASSUME NEW j \in X, j + 1 \in Before(item, p, Y)
        PROVE  \E m \in After(item, p, X) : m + 1 \in Y
    <3>1. j \in 0..n
      BY DEF n
    <3>2. (j + 1) - 1 = j /\ j + 1 \in 1..n /\ p[j + 1] = item /\ (j + 1) + 1 \in Y
      BY <1>1, <2>1, <2>3, <3>1
    <3>3. j + 1 \in After(item, p, X)
      BY <2>2, <3>2
    <3>. QED  BY <3>2, <3>3
  <2>4. ASSUME NEW m \in After(item, p, X), m + 1 \in Y
        PROVE  \E j \in X : j + 1 \in Before(item, p, Y)
    <3>1. m \in 1..n /\ p[m] = item /\ m - 1 \in X /\ (m - 1) + 1 = m
      BY <1>1, <2>2
    <3>2. m \in Before(item, p, Y)
      BY <2>1, <2>4, <3>1
    <3>. QED  BY <3>1, <3>2
  <2>. QED  BY <2>3, <2>4
<1>. QED  BY <1>2, <1>3

\* A text of letters and stars matches a path forward just when it does backward.
LEMMA FnMatches ==
    ASSUME NEW S, NEW p \in Seq(S), NEW I, "dirs" \notin I, NEW s \in Seq(I)
    PROVE  Fn(s, p) <=> 1 \in AllBefore(s, p, {Len(p) + 1})
<1>. DEFINE n == Len(s)
            V == SUBSET (0..Len(p))
            g == [i \in 1..n |-> [X \in V |-> After(s[i], p, X)]]
            Step(m) == [i \in 0..n |-> IF i = 0 THEN {0} ELSE After(s[i], p, m[i - 1])]
            m == CHOOSE m : m = Step(m)
<1>1. n \in Nat /\ Len(p) \in Nat /\ \A i \in 1..n : s[i] # "dirs"
  OBVIOUS
<1>2. g \in [1..n -> [V -> V]] /\ {0} \in V
  <2>1. \A item, X : After(item, p, X) \in V
    BY <1>1 DEF After
  <2>. QED  BY <1>1, <2>1
<1>3. PICK f : GoesUp(f, n, V, {0}, g)
  <2>. HIDE DEF g, n, V
  <2>. QED  BY <1>1, <1>2, StepsUp
<1>4. f = Step(f)
  <2>1. \A i \in 0..n : i # 0 => i \in 1..n /\ i - 1 \in 0..n
    BY <1>1
  <2>. QED  BY <1>3, <2>1 DEF GoesUp
<1>5. m = Step(m)
  <2>. HIDE DEF Step
  <2>. QED  BY <1>4
<1>6. Fn(s, p) <=> Len(p) \in m[n]
  BY DEF Fn, After
<1>. HIDE DEF m, g
<1>7. \A i \in 0..n : m[i] = IF i = 0 THEN {0} ELSE After(s[i], p, m[i - 1])
  BY <1>5
<1>8. \A i \in 0..n : m[i] \in V
  <2>1. \A item, X : After(item, p, X) \in V
    BY <1>1 DEF After
  <2>. QED  BY <1>2, <1>7, <2>1
<1>9. {Len(p) + 1} \in SUBSET Spots(p)
  BY <1>1 DEF Spots
<1>10. PICK h : IsRun(h, s, p, {Len(p) + 1})
  BY <1>9, RunExists
<1>11. /\ h \in [1..(n + 1) -> SUBSET Spots(p)] /\ h[n + 1] = {Len(p) + 1}
       /\ \A i \in 1..n : h[i] = Before(s[i], p, h[i + 1])
  BY <1>10 DEF IsRun
<1>12. AllBefore(s, p, {Len(p) + 1}) = h[1]
  BY <1>10, RunIs
<1>. DEFINE Meet(i) == \E j \in m[i] : j + 1 \in h[i + 1]
            Q == {i \in 0..n : Meet(i) <=> Meet(0)}
<1>. HIDE DEF n, Step
<1>13. 0 \in Q
  BY <1>1
<1>14. ASSUME NEW i \in 0..(n - 1), i \in Q  PROVE i + 1 \in Q
  <2>1. /\ i \in 0..n /\ i + 1 \in 0..n /\ i + 1 # 0 /\ (i + 1) - 1 = i /\ i + 1 \in 1..n
        /\ (i + 1) + 1 \in 1..(n + 1)
    BY <1>1
  <2>2. m[i + 1] = After(s[i + 1], p, m[i]) /\ h[i + 1] = Before(s[i + 1], p, h[(i + 1) + 1])
    BY <1>7, <1>11, <2>1
  <2>3. m[i] \in SUBSET (0..Len(p)) /\ h[(i + 1) + 1] \in SUBSET Spots(p) /\ s[i + 1] # "dirs"
    BY <1>1, <1>8, <1>11, <2>1
  <2>4. (\E j \in m[i] : j + 1 \in Before(s[i + 1], p, h[(i + 1) + 1]))
          <=> (\E j \in After(s[i + 1], p, m[i]) : j + 1 \in h[(i + 1) + 1])
    BY <2>3, ForthAndBack
  <2>5. Meet(i) <=> Meet(i + 1)
    BY <2>2, <2>4
  <2>. QED  BY <1>14, <2>1, <2>5
<1>15. \A i \in 0..n : i \in Q
  <2>. HIDE DEF Q
  <2>. QED  BY <1>1, <1>13, <1>14, Upward
<1>16. Meet(n) <=> Meet(0)
  BY <1>1, <1>15
<1>17. Meet(n) <=> Len(p) \in m[n]
  <2>1. \A j \in m[n] : j \in 0..Len(p)
    BY <1>1, <1>8
  <2>. QED  BY <1>1, <1>11, <2>1
<1>18. Meet(0) <=> 1 \in h[1]
  <2>1. m[0] = {0}
    BY <1>1, <1>7
  <2>. QED  BY <2>1
<1>. QED  BY <1>6, <1>12, <1>16, <1>17, <1>18

------------------------------------------------------------------------------
(* The items of a component, and the patterns that a pattern stands for.     *)

\* What leads to a set of places leads to one of them.
LEMMA BeforeEach ==
    ASSUME NEW S, NEW p \in Seq(S), NEW item, NEW X \in SUBSET Spots(p), NEW j
    PROVE  j \in Before(item, p, X) <=> \E x \in X : j \in Before(item, p, {x})
<1>. DEFINE n == Len(p)
<1>1. n \in Nat /\ \A x \in X : x \in 1..(n + 1)
  BY DEF Spots
<1>2. CASE item = "*"
  <2>1. j \in Before(item, p, X) <=> j \in 1..(n + 1) /\ \E k \in X : j <= k
    BY <1>2 DEF Before
  <2>2. \A x \in X : j \in Before(item, p, {x}) <=> j \in 1..(n + 1) /\ j <= x
    BY <1>2 DEF Before
  <2>. QED  BY <2>1, <2>2
<1>3. CASE item = "dirs"
  <2>. DEFINE Skips(x) == j \in 1..n /\ \E k \in j..n : p[k] = "/" /\ k + 1 = x
  <2>1. j \in Before(item, p, X)
          <=> j \in X \/ (j \in 1..n /\ \E k \in j..n : p[k] = "/" /\ k + 1 \in X)
    BY <1>3 DEF Before
  <2>2. \A x \in X : j \in Before(item, p, {x}) <=> j = x \/ Skips(x)
    BY <1>3 DEF Before
  <2>. HIDE DEF n
  <2>. QED  BY <2>1, <2>2
<1>4. CASE item # "*" /\ item # "dirs"
  <2>1. j \in Before(item, p, X) <=> j \in 1..n /\ p[j] = item /\ j + 1 \in X
    BY <1>4 DEF Before
  <2>2. \A x \in X : j \in Before(item, p, {x}) <=> j \in 1..n /\ p[j] = item /\ j + 1 = x
    BY <1>4 DEF Before
  <2>. HIDE DEF n
  <2>. QED  BY <2>1, <2>2
<1>. QED  BY <1>2, <1>3, <1>4

\* The same of several items.
LEMMA AllBeforeEach ==
    ASSUME NEW S, NEW p \in Seq(S), NEW I, NEW items \in Seq(I), NEW X \in SUBSET Spots(p)
    PROVE  \A j : (j \in AllBefore(items, p, X) <=> \E x \in X : j \in AllBefore(items, p, {x}))
<1>. DEFINE n == Len(items)
            H == [x \in X |-> CHOOSE h : IsRun(h, items, p, {x})]
<1>1. n \in Nat
  OBVIOUS
<1>2. ASSUME NEW x \in X
      PROVE  IsRun(H[x], items, p, {x}) /\ AllBefore(items, p, {x}) = H[x][1]
  <2>1. \E h : IsRun(h, items, p, {x})
    BY RunExists
  <2>2. IsRun(H[x], items, p, {x})
    BY <2>1
  <2>. HIDE DEF H
  <2>. QED  BY <2>2, RunIs
<1>. HIDE DEF H
<1>3. PICK h : IsRun(h, items, p, X)
  BY RunExists
<1>4. AllBefore(items, p, X) = h[1]
  BY <1>3, RunIs
<1>5. /\ h \in [1..(n + 1) -> SUBSET Spots(p)] /\ h[n + 1] = X
      /\ \A i \in 1..n : h[i] = Before(items[i], p, h[i + 1])
  BY <1>3 DEF IsRun
<1>6. \A x \in X : /\ H[x] \in [1..(n + 1) -> SUBSET Spots(p)] /\ H[x][n + 1] = {x}
                   /\ \A i \in 1..n : H[x][i] = Before(items[i], p, H[x][i + 1])
  BY <1>2 DEF IsRun
<1>. HIDE DEF n
<1>. DEFINE Q == {i \in 1..(n + 1) : \A j : j \in h[i] <=> \E x \in X : j \in H[x][i]}
<1>7. n + 1 \in Q
  <2>1. n + 1 \in 1..(n + 1)
    BY <1>1
  <2>. QED  BY <1>5, <1>6, <2>1
<1>8. ASSUME NEW i \in 1..n, i + 1 \in Q  PROVE i \in Q
  <2>1. i \in 1..(n + 1) /\ i + 1 \in 1..(n + 1)
    BY <1>1
  <2>2. h[i + 1] \in SUBSET Spots(p) /\ \A x \in X : H[x][i + 1] \in SUBSET Spots(p)
    BY <1>5, <1>6, <2>1
  <2>3. \A j : j \in Before(items[i], p, h[i + 1])
                 <=> \E y \in h[i + 1] : j \in Before(items[i], p, {y})
    BY <2>2, BeforeEach
  <2>4. ASSUME NEW x \in X
        PROVE  \A j : j \in Before(items[i], p, H[x][i + 1])
                 <=> \E y \in H[x][i + 1] : j \in Before(items[i], p, {y})
    BY <2>2, BeforeEach
  <2>5. \A y : y \in h[i + 1] <=> \E x \in X : y \in H[x][i + 1]
    BY <1>8
  <2>6. h[i] = Before(items[i], p, h[i + 1])
        /\ \A x \in X : H[x][i] = Before(items[i], p, H[x][i + 1])
    BY <1>5, <1>6
  <2>7. ASSUME NEW j  PROVE j \in h[i] <=> \E x \in X : j \in H[x][i]
    <3>1. ASSUME NEW x \in X
          PROVE  j \in H[x][i] <=> \E y \in H[x][i + 1] : j \in Before(items[i], p, {y})
      BY <2>4, <2>6
    <3>2. j \in h[i] <=> \E y \in h[i + 1] : j \in Before(items[i], p, {y})
      BY <2>3, <2>6
    <3>. QED  BY <2>5, <3>1, <3>2
  <2>. QED  BY <2>1, <2>7
<1>9. \A i \in 1..(n + 1) : i \in Q
  <2>. HIDE DEF Q
  <2>. QED  BY <1>1, <1>7, <1>8, Downward
<1>10. \A j : j \in h[1] <=> \E x \in X : j \in H[x][1]
  BY <1>1, <1>9
<1>11. \A x \in X : AllBefore(items, p, {x}) = H[x][1]
  BY <1>2
<1>. DEFINE Single(x) == AllBefore(items, p, {x})
<1>12. \A x \in X : Single(x) = H[x][1]
  BY <1>11
<1>. HIDE DEF Single
<1>13. ASSUME NEW j  PROVE j \in AllBefore(items, p, X) <=> \E x \in X : j \in Single(x)
  BY <1>4, <1>10, <1>12
<1>. QED  BY <1>13 DEF Single

\* The components of a pattern, of characters I.
IsParts(parts, I) == {"*", "/"} \subseteq I /\ parts \in Seq(Seq(I))

\* What an expansion has in the place of the k-th component; all of them.
Piece(parts, gone, k) ==
    IF k \in gone THEN <<>>
    ELSE (IF parts[k] = TwoStars THEN <<"*">> ELSE parts[k]) \o Slash(parts, k)
Pieces(parts, gone) == [k \in DOMAIN parts |-> Piece(parts, gone, k)]

\* They are texts, and the expansion is they together.
LEMMA PieceType ==
    ASSUME NEW I, NEW parts, IsParts(parts, I), NEW gone
    PROVE  /\ Pieces(parts, gone) \in Seq(Seq(I)) /\ Len(Pieces(parts, gone)) = Len(parts)
           /\ \A k \in 1..Len(parts) : /\ Pieces(parts, gone)[k] = Piece(parts, gone, k)
                                       /\ Piece(parts, gone, k) \in Seq(I)
           /\ Expansion(parts, gone) = FlattenSeq(Pieces(parts, gone))
<1>1. Len(parts) \in Nat /\ DOMAIN parts = 1..Len(parts)
      /\ \A k \in 1..Len(parts) : parts[k] \in Seq(I)
  BY DEF IsParts
<1>2. ASSUME NEW k \in 1..Len(parts)  PROVE Piece(parts, gone, k) \in Seq(I)
  <2>1. Slash(parts, k) \in Seq(I)
    BY DEF Slash, IsParts
  <2>2. (IF parts[k] = TwoStars THEN <<"*">> ELSE parts[k]) \in Seq(I)
    BY <1>1 DEF IsParts
  <2>. QED  BY <2>1, <2>2, ConcatProperties DEF Piece
<1>3. Pieces(parts, gone) \in [1..Len(parts) -> Seq(I)]
  BY <1>1, <1>2 DEF Pieces
<1>4. Pieces(parts, gone) \in Seq(Seq(I)) /\ Len(Pieces(parts, gone)) = Len(parts)
  <2>. DEFINE T == Seq(I)
              ps == Pieces(parts, gone)
              n == Len(parts)
  <2>1. n \in Nat /\ ps \in [1..n -> T]
    BY <1>1, <1>3
  <2>. HIDE DEF T, ps, n
  <2>2. ps \in Seq(T) /\ Len(ps) = n
    BY <2>1
  <2>. QED  BY <2>2 DEF T, ps, n
<1>. QED  BY <1>1, <1>2, <1>4 DEF Expansion, Pieces, Piece

\* The items of a component match what its piece does; those of an optional ** also
\* nothing.
SameMeaning(parts, k, p, X) ==
    AllBefore(PartItems(parts, k), p, X)
      = (IF k \in Optional(parts) THEN X ELSE {}) \cup AllBefore(Piece(parts, {}, k), p, X)

\* So it is for every component.
LEMMA PieceMeans ==
    ASSUME NEW S, NEW p \in Seq(S), NEW I, NEW parts, IsParts(parts, I),
           NEW k \in 1..Len(parts), NEW X \in SUBSET Spots(p)
    PROVE  /\ PartItems(parts, k) \in Seq(I \cup {"dirs"})
           /\ SameMeaning(parts, k, p, X)
<1>1. Len(parts) \in Nat /\ parts[k] \in Seq(I) /\ (k < Len(parts) <=> k \in 1..(Len(parts) - 1))
  BY DEF IsParts
<1>2. k \in Optional(parts) <=> k < Len(parts) /\ parts[k] = TwoStars
  BY <1>1 DEF Optional
<1>3. <<"*">> \in Seq(I) /\ <<"/">> \in Seq(I) /\ <<>> \in Seq(I)
  BY DEF IsParts
<1>4. CASE parts[k] = TwoStars /\ k < Len(parts)
  <2>1. PartItems(parts, k) = <<"dirs">> /\ Piece(parts, {}, k) = <<"*">> \o <<"/">>
    BY <1>4 DEF PartItems, Piece, Slash
  <2>2. AllBefore(<<"dirs">>, p, X) = Before("dirs", p, X)
    BY AllBeforeOne
  <2>3. AllBefore(<<"*">> \o <<"/">>, p, X) = Before("*", p, Before("/", p, X))
    <3>1. Before("/", p, X) \in SUBSET Spots(p)
      BY BeforeType
    <3>2. AllBefore(<<"/">>, p, X) = Before("/", p, X)
      BY AllBeforeOne
    <3>3. AllBefore(<<"*">>, p, Before("/", p, X)) = Before("*", p, Before("/", p, X))
      BY <3>1, AllBeforeOne
    <3>. DEFINE s == <<"*">>
                t == <<"/">>
    <3>4. s \in Seq(I) /\ t \in Seq(I)
      BY <1>3
    <3>. HIDE DEF s, t
    <3>5. AllBefore(s \o t, p, X) = AllBefore(s, p, AllBefore(t, p, X))
      BY <3>4, AllBeforeConcat
    <3>. QED  BY <3>2, <3>3, <3>5 DEF s, t
  <2>4. Before("dirs", p, X) = X \cup Before("*", p, Before("/", p, X))
    <3>. DEFINE n == Len(p)
    <3>1. n \in Nat
      OBVIOUS
    <3>2. Before("dirs", p, X) = X \cup {j \in 1..n : \E m \in j..n : p[m] = "/" /\ m + 1 \in X}
      BY DEF Before
    <3>3. Before("/", p, X) = {m \in 1..n : p[m] = "/" /\ m + 1 \in X}
      BY DEF Before
    <3>4. Before("*", p, Before("/", p, X))
             = {j \in 1..(n + 1) : \E m \in Before("/", p, X) : j <= m}
      BY DEF Before
    <3>. HIDE DEF n
    <3>5. ASSUME NEW j
          PROVE  (j \in 1..n /\ \E m \in j..n : p[m] = "/" /\ m + 1 \in X)
                   <=> (j \in 1..(n + 1) /\ \E m \in Before("/", p, X) : j <= m)
      <4>1. ASSUME j \in 1..n, NEW m \in j..n, p[m] = "/", m + 1 \in X
            PROVE  j \in 1..(n + 1) /\ m \in Before("/", p, X) /\ j <= m
        <5>1. m \in 1..n /\ j \in 1..(n + 1) /\ j <= m
          BY <3>1, <4>1
        <5>. QED  BY <3>3, <4>1, <5>1
      <4>2. ASSUME j \in 1..(n + 1), NEW m \in Before("/", p, X), j <= m
            PROVE  j \in 1..n /\ m \in j..n /\ p[m] = "/" /\ m + 1 \in X
        <5>1. m \in 1..n /\ p[m] = "/" /\ m + 1 \in X
          BY <3>3
        <5>2. j \in 1..n /\ m \in j..n
          BY <3>1, <4>2, <5>1
        <5>. QED  BY <5>1, <5>2
      <4>. QED  BY <4>1, <4>2
    <3>. QED  BY <3>2, <3>4, <3>5
  <2>5. <<"dirs">> \in Seq(I \cup {"dirs"})
    OBVIOUS
  <2>. QED  BY <1>2, <1>4, <2>1, <2>2, <2>3, <2>4, <2>5 DEF SameMeaning
<1>5. CASE parts[k] = TwoStars /\ ~(k < Len(parts))
  <2>1. PartItems(parts, k) = <<"*">> /\ Piece(parts, {}, k) = <<"*">> \o <<>>
    BY <1>5 DEF PartItems, Piece, Slash
  <2>2. <<"*">> \o <<>> = <<"*">>
    BY <1>3, ConcatEmptySeq
  <2>3. <<"*">> \in Seq(I \cup {"dirs"})
    BY DEF IsParts
  <2>. QED  BY <1>2, <1>5, <2>1, <2>2, <2>3 DEF SameMeaning
<1>6. CASE parts[k] # TwoStars
  <2>1. /\ PartItems(parts, k) = FnItems(parts[k]) \o Slash(parts, k)
        /\ Piece(parts, {}, k) = parts[k] \o Slash(parts, k)
    BY <1>6 DEF PartItems, Piece
  <2>2. Slash(parts, k) \in Seq(I)
    BY DEF Slash, IsParts
  <2>. DEFINE Y == AllBefore(Slash(parts, k), p, X)
  <2>3. Y \in SUBSET Spots(p)
    BY <2>2, AllBeforeType
  <2>4. AllBefore(parts[k] \o Slash(parts, k), p, X) = AllBefore(parts[k], p, Y)
    BY <1>1, <2>2, AllBeforeConcat
  <2>. HIDE DEF Y
  <2>5. FnItems(parts[k]) \in Seq(I) /\ AllBefore(FnItems(parts[k]), p, Y) = AllBefore(parts[k], p, Y)
    <3>. DEFINE part == parts[k]
    <3>1. part \in Seq(I)
      BY <1>1
    <3>. HIDE DEF part
    <3>2. FnItems(part) \in Seq(I)
      BY <2>3, <3>1, FnItemsMatch
    <3>3. AllBefore(FnItems(part), p, Y) = AllBefore(part, p, Y)
      BY <2>3, <3>1, FnItemsMatch
    <3>. QED  BY <3>2, <3>3 DEF part
  <2>6. AllBefore(FnItems(parts[k]) \o Slash(parts, k), p, X) = AllBefore(FnItems(parts[k]), p, Y)
    BY <2>2, <2>5, AllBeforeConcat DEF Y
  <2>7. FnItems(parts[k]) \o Slash(parts, k) \in Seq(I)
    BY <2>2, <2>5, ConcatProperties
  <2>8. PartItems(parts, k) \in Seq(I \cup {"dirs"})
    BY <2>1, <2>7, SeqMonotonic
  <2>. QED  BY <1>2, <1>6, <2>1, <2>4, <2>5, <2>6, <2>8 DEF SameMeaning
<1>. QED  BY <1>4, <1>5, <1>6

\* From the k-th component on, h has the sets through which the pieces lead back to R.
Leads(k, gone, h, parts, p, R) ==
    /\ gone \in SUBSET Optional(parts)
    /\ h \in [1..(Len(parts) + 1) -> SUBSET Spots(p)]
    /\ h[Len(parts) + 1] = R
    /\ \A m \in k..Len(parts) : h[m] = AllBefore(Piece(parts, gone, m), p, h[m + 1])

\* The same components are gone from one on.
Agree(more, gone, next, parts) ==
    more \in SUBSET Optional(parts) /\ \A m \in next..Len(parts) : m \in more <=> m \in gone

\* One component more in front.
LEMMA LeadsOn ==
    ASSUME NEW S, NEW p \in Seq(S), NEW I, NEW parts, IsParts(parts, I),
           NEW R, NEW k \in 1..Len(parts), NEW next, next = k + 1,
           NEW gone, NEW h, Leads(next, gone, h, parts, p, R),
           NEW more, Agree(more, gone, next, parts)
    PROVE  \E u : /\ Leads(k, more, u, parts, p, R)
                  /\ u[k] = AllBefore(Piece(parts, more, k), p, h[next])
<1>. DEFINE n == Len(parts)
            to == AllBefore(Piece(parts, more, k), p, h[k + 1])
            u == [h EXCEPT ![k] = to]
<1>1. n \in Nat /\ k \in 1..(n + 1) /\ k + 1 \in 1..(n + 1)
  BY DEF IsParts
<1>2. /\ h \in [1..(n + 1) -> SUBSET Spots(p)] /\ h[n + 1] = R
      /\ \A m \in (k + 1)..n : h[m] = AllBefore(Piece(parts, gone, m), p, h[m + 1])
  BY DEF Leads
<1>3. to \in SUBSET Spots(p)
  <2>1. Piece(parts, more, k) \in Seq(I)
    BY PieceType
  <2>2. h[k + 1] \in SUBSET Spots(p)
    BY <1>1, <1>2
  <2>. QED  BY <2>1, <2>2, AllBeforeType
<1>4. k # n + 1
  BY <1>1
<1>. HIDE DEF to, n
<1>5. /\ u \in [1..(n + 1) -> SUBSET Spots(p)] /\ u[k] = to
      /\ \A m \in 1..(n + 1) : m # k => u[m] = h[m]
  BY <1>1, <1>2, <1>3
<1>. HIDE DEF u
<1>6. u[n + 1] = R
  BY <1>1, <1>2, <1>4, <1>5
<1>7. ASSUME NEW m \in k..n  PROVE u[m] = AllBefore(Piece(parts, more, m), p, u[m + 1])
  <2>1. m \in 1..(n + 1) /\ m + 1 \in 1..(n + 1) /\ m + 1 # k
    BY <1>1
  <2>2. u[m + 1] = h[m + 1]
    BY <1>5, <2>1
  <2>3. CASE m = k
    BY <1>5, <2>2, <2>3 DEF to
  <2>4. CASE m # k
    <3>1. m \in (k + 1)..n
      BY <1>1, <2>4
    <3>2. Piece(parts, more, m) = Piece(parts, gone, m)
      BY <3>1 DEF Piece, Agree, n
    <3>. QED  BY <1>2, <1>5, <2>1, <2>2, <2>4, <3>1, <3>2
  <2>. QED  BY <2>3, <2>4
<1>8. Leads(k, more, u, parts, p, R)
  BY <1>5, <1>6, <1>7 DEF Leads, Agree, n
<1>. QED  BY <1>5, <1>8 DEF to

\* The items of all components match what the patterns do that they stand for.
LEMMA ItemsMean ==
    ASSUME NEW S, NEW p \in Seq(S), NEW I, NEW parts, IsParts(parts, I),
           NEW R \in SUBSET Spots(p)
    PROVE  \A j : (j \in AllBefore(FlattenSeq([k \in DOMAIN parts |-> PartItems(parts, k)]), p, R)
                     <=> \E gone \in SUBSET Optional(parts) :
                            j \in AllBefore(Expansion(parts, gone), p, R))
<1>. DEFINE n == Len(parts)
            J == I \cup {"dirs"}
            items == [k \in DOMAIN parts |-> PartItems(parts, k)]
<1>1. n \in Nat /\ DOMAIN parts = 1..n
  BY DEF IsParts
<1>2. items \in Seq(Seq(J)) /\ Len(items) = n /\ \A k \in 1..n : items[k] = PartItems(parts, k)
  <2>1. {} \in SUBSET Spots(p)
    OBVIOUS
  <2>2. \A k \in 1..n : PartItems(parts, k) \in Seq(J)
    BY <2>1, PieceMeans
  <2>. DEFINE T == Seq(J)
  <2>3. items \in [1..n -> T] /\ \A k \in 1..n : items[k] = PartItems(parts, k)
    BY <1>1, <2>2
  <2>. HIDE DEF T, items, n
  <2>4. items \in Seq(T) /\ Len(items) = n
    BY <1>1, <2>3
  <2>. QED  BY <2>3, <2>4 DEF T
<1>. HIDE DEF items, J
<1>0. items \in Seq(Seq(J))
  BY <1>2
<1>3. PICK r : IsFlatRun(r, items, p, R)
  BY <1>0, FlatRunExists
<1>4. AllBefore(FlattenSeq(items), p, R) = r[1]
  BY <1>0, <1>3, FlatRunIs
<1>5. /\ r \in [1..(n + 1) -> SUBSET Spots(p)] /\ r[n + 1] = R
      /\ \A k \in 1..n : r[k] = AllBefore(PartItems(parts, k), p, r[k + 1])
  BY <1>2, <1>3 DEF IsFlatRun
<1>. DEFINE Reached(k, j) == \E gone, h : Leads(k, gone, h, parts, p, R) /\ j \in h[k]
            Q == {k \in 1..(n + 1) : \A j : j \in r[k] <=> Reached(k, j)}
<1>6. n + 1 \in Q
  <2>1. ASSUME NEW j \in R  PROVE Reached(n + 1, j)
    <3>. DEFINE h == [k \in 1..(n + 1) |-> R]
    <3>1. n + 1 \in 1..(n + 1) /\ ~ \E m \in (n + 1)..n : TRUE
      BY <1>1
    <3>2. Leads(n + 1, {}, h, parts, p, R)
      BY <3>1 DEF Leads
    <3>3. j \in h[n + 1]
      BY <3>1
    <3>. HIDE DEF h
    <3>. QED  BY <3>2, <3>3
  <2>2. ASSUME NEW j, Reached(n + 1, j)  PROVE j \in R
    BY <2>2 DEF Leads
  <2>3. n + 1 \in 1..(n + 1)
    BY <1>1
  <2>. QED  BY <1>5, <2>1, <2>2, <2>3
<1>7. ASSUME NEW k \in 1..n, k + 1 \in Q  PROVE k \in Q
  <2>1. k \in 1..(n + 1) /\ k + 1 \in 1..(n + 1)
    BY <1>1
  <2>2. r[k + 1] \in SUBSET Spots(p) /\ Piece(parts, {}, k) \in Seq(I)
    BY <1>5, <2>1, PieceType
  <2>3. \A j : j \in r[k + 1] <=> Reached(k + 1, j)
    BY <1>7
  <2>. DEFINE Back(X) == AllBefore(Piece(parts, {}, k), p, X)
  <2>4. r[k] = (IF k \in Optional(parts) THEN r[k + 1] ELSE {}) \cup Back(r[k + 1])
    <3>. DEFINE X == r[k + 1]
    <3>1. X \in SUBSET Spots(p)
      BY <2>2
    <3>. HIDE DEF X
    <3>2. SameMeaning(parts, k, p, X)
      BY <3>1, PieceMeans
    <3>. QED  BY <1>5, <3>2 DEF X, SameMeaning
  <2>5. ASSUME NEW X \in SUBSET Spots(p)
        PROVE  \A j : (j \in Back(X) <=> \E x \in X : j \in Back({x}))
    BY <2>2, AllBeforeEach
  <2>6. ASSUME NEW gone  PROVE Piece(parts, gone, k) = IF k \in gone THEN <<>> ELSE Piece(parts, {}, k)
    BY DEF Piece
  <2>. HIDE DEF Back
  <2>7. ASSUME NEW j \in r[k]  PROVE Reached(k, j)
    <3>1. CASE k \in Optional(parts) /\ j \in r[k + 1]
      <4>1. PICK gone, h : Leads(k + 1, gone, h, parts, p, R) /\ j \in h[k + 1]
        BY <2>3, <3>1
      <4>. DEFINE more == gone \cup {k}
      <4>2. more \in SUBSET Optional(parts)
        BY <3>1, <4>1 DEF Leads
      <4>3. \A m \in (k + 1)..n : m \in more <=> m \in gone
        BY <1>1
      <4>4. k \in more
        OBVIOUS
      <4>. HIDE DEF more
      <4>5. PICK u : /\ Leads(k, more, u, parts, p, R)
                     /\ u[k] = AllBefore(Piece(parts, more, k), p, h[k + 1])
        <5>. DEFINE next == k + 1
        <5>1. next = k + 1 /\ Leads(next, gone, h, parts, p, R) /\ Agree(more, gone, next, parts)
          BY <4>1, <4>2, <4>3 DEF Agree
        <5>. HIDE DEF next
        <5>2. \E u : /\ Leads(k, more, u, parts, p, R)
                     /\ u[k] = AllBefore(Piece(parts, more, k), p, h[next])
          BY <5>1, LeadsOn
        <5>. QED  BY <5>2 DEF next
      <4>6. h[k + 1] \in SUBSET Spots(p)
        BY <2>1, <4>1 DEF Leads
      <4>7. u[k] = h[k + 1]
        BY <2>6, <4>4, <4>5, <4>6, AllBeforeNone
      <4>. QED  BY <4>1, <4>5, <4>7
    <3>2. CASE j \in Back(r[k + 1])
      <4>1. PICK x \in r[k + 1] : j \in Back({x})
        BY <2>2, <2>5, <3>2
      <4>2. PICK gone, h : Leads(k + 1, gone, h, parts, p, R) /\ x \in h[k + 1]
        BY <2>3
      <4>. DEFINE less == gone \ {k}
      <4>3. less \in SUBSET Optional(parts)
        BY <4>2 DEF Leads
      <4>4. \A m \in (k + 1)..n : m \in less <=> m \in gone
        BY <1>1
      <4>5. k \notin less
        OBVIOUS
      <4>. HIDE DEF less
      <4>6. PICK u : /\ Leads(k, less, u, parts, p, R)
                     /\ u[k] = AllBefore(Piece(parts, less, k), p, h[k + 1])
        <5>. DEFINE next == k + 1
        <5>1. next = k + 1 /\ Leads(next, gone, h, parts, p, R) /\ Agree(less, gone, next, parts)
          BY <4>2, <4>3, <4>4 DEF Agree
        <5>. HIDE DEF next
        <5>2. \E u : /\ Leads(k, less, u, parts, p, R)
                     /\ u[k] = AllBefore(Piece(parts, less, k), p, h[next])
          BY <5>1, LeadsOn
        <5>. QED  BY <5>2 DEF next
      <4>7. h[k + 1] \in SUBSET Spots(p)
        BY <2>1, <4>2 DEF Leads
      <4>8. u[k] = Back(h[k + 1])
        BY <2>6, <4>5, <4>6 DEF Back
      <4>9. j \in u[k]
        BY <2>5, <4>1, <4>2, <4>7, <4>8
      <4>. QED  BY <4>6, <4>9
    <3>. QED  BY <2>4, <3>1, <3>2
  <2>8. ASSUME NEW j, Reached(k, j)  PROVE j \in r[k]
    <3>1. PICK gone, h : Leads(k, gone, h, parts, p, R) /\ j \in h[k]
      BY <2>8
    <3>2. /\ gone \in SUBSET Optional(parts)
          /\ h[k + 1] \in SUBSET Spots(p)
          /\ h[k] = AllBefore(Piece(parts, gone, k), p, h[k + 1])
      <4>1. k \in k..n
        BY <1>1
      <4>. QED  BY <2>1, <3>1, <4>1 DEF Leads
    <3>3. Leads(k + 1, gone, h, parts, p, R)
      <4>1. \A m \in (k + 1)..n : m \in k..n
        BY <1>1
      <4>. QED  BY <3>1, <4>1 DEF Leads
    <3>4. h[k + 1] \subseteq r[k + 1]
      BY <2>3, <3>3
    <3>5. CASE k \in gone
      <4>1. h[k] = h[k + 1]
        BY <2>6, <3>2, <3>5, AllBeforeNone
      <4>. QED  BY <2>4, <3>1, <3>2, <3>4, <3>5, <4>1
    <3>6. CASE k \notin gone
      <4>1. h[k] = Back(h[k + 1])
        BY <2>6, <3>2, <3>6 DEF Back
      <4>2. PICK x \in h[k + 1] : j \in Back({x})
        <5>1. \A i : (i \in Back(h[k + 1]) <=> \E x \in h[k + 1] : i \in Back({x}))
          BY <2>5, <3>2
        <5>2. j \in Back(h[k + 1])
          BY <3>1, <4>1
        <5>. QED  BY <5>1, <5>2
      <4>3. j \in Back(r[k + 1])
        BY <2>2, <2>5, <3>4, <4>2
      <4>. QED  BY <2>4, <4>3
    <3>. QED  BY <3>5, <3>6
  <2>. QED  BY <2>1, <2>7, <2>8
<1>8. \A k \in 1..(n + 1) : k \in Q
  <2>. HIDE DEF Q, n
  <2>. QED  BY <1>1, <1>6, <1>7, Downward
<1>9. \A j : j \in r[1] <=> Reached(1, j)
  <2>1. 1 \in 1..(n + 1)
    BY <1>1
  <2>. HIDE DEF n
  <2>. QED  BY <1>8, <2>1
<1>10. ASSUME NEW gone, NEW h
       PROVE  Leads(1, gone, h, parts, p, R)
                <=> gone \in SUBSET Optional(parts) /\ IsFlatRun(h, Pieces(parts, gone), p, R)
  <2>1. /\ Len(Pieces(parts, gone)) = n
        /\ \A k \in 1..n : Pieces(parts, gone)[k] = Piece(parts, gone, k)
    BY PieceType
  <2>. QED  BY <2>1 DEF Leads, IsFlatRun
<1>11. ASSUME NEW gone
       PROVE  /\ Pieces(parts, gone) \in Seq(Seq(I))
              /\ Expansion(parts, gone) = FlattenSeq(Pieces(parts, gone))
  BY PieceType
<1>12. ASSUME NEW gone, NEW h, IsFlatRun(h, Pieces(parts, gone), p, R)
       PROVE  AllBefore(Expansion(parts, gone), p, R) = h[1]
  BY <1>11, <1>12, FlatRunIs
<1>13. ASSUME NEW gone  PROVE \E h : IsFlatRun(h, Pieces(parts, gone), p, R)
  BY <1>11, FlatRunExists
<1>14. ASSUME NEW j
       PROVE  Reached(1, j) <=> \E gone \in SUBSET Optional(parts) :
                                   j \in AllBefore(Expansion(parts, gone), p, R)
  <2>1. ASSUME Reached(1, j)
        PROVE  \E gone \in SUBSET Optional(parts) : j \in AllBefore(Expansion(parts, gone), p, R)
    <3>1. PICK gone, h : Leads(1, gone, h, parts, p, R) /\ j \in h[1]
      BY <2>1
    <3>. QED  BY <1>10, <1>12, <3>1
  <2>2. ASSUME NEW gone \in SUBSET Optional(parts), j \in AllBefore(Expansion(parts, gone), p, R)
        PROVE  Reached(1, j)
    <3>1. PICK h : IsFlatRun(h, Pieces(parts, gone), p, R)
      BY <1>13
    <3>2. j \in h[1]
      BY <1>12, <2>2, <3>1
    <3>3. Leads(1, gone, h, parts, p, R)
      BY <1>10, <3>1
    <3>. QED  BY <3>2, <3>3
  <2>. QED  BY <2>1, <2>2
<1>. QED  BY <1>4, <1>9, <1>14 DEF items

------------------------------------------------------------------------------
(* The components of a pattern without **: put together again they are the   *)
(* pattern.                                                                   *)

\* The components c of a text with the character x in front of one with components d.
With(x, c, d) ==
    IF x = "/"
    THEN Len(c) = Len(d) + 1 /\ c[1] = <<>> /\ \A k \in 1..Len(d) : c[k + 1] = d[k]
    ELSE Len(c) = Len(d) /\ c[1] = <<x>> \o d[1] /\ \A k \in 2..Len(d) : c[k] = d[k]

\* cut[i] has the components of s from its i-th character on.
IsCut(cut, s, I) ==
    /\ cut \in [1..(Len(s) + 1) -> Seq(Seq(I))]
    /\ \A i \in 1..(Len(s) + 1) : cut[i] # <<>>
    /\ cut[Len(s) + 1] = << <<>> >>
    /\ \A i \in 1..Len(s) : With(s[i], cut[i], cut[i + 1])

\* The first component with a character in front of it.
LEMMA Longer ==
    ASSUME NEW I, NEW x \in Seq(Seq(I)), x # <<>>, NEW c \in I
    PROVE  /\ << <<c>> \o Head(x) >> \o Tail(x) \in Seq(Seq(I))
           /\ Len(<< <<c>> \o Head(x) >> \o Tail(x)) = Len(x)
           /\ (<< <<c>> \o Head(x) >> \o Tail(x))[1] = <<c>> \o x[1]
           /\ \A k \in 2..Len(x) : (<< <<c>> \o Head(x) >> \o Tail(x))[k] = x[k]
<1>. DEFINE T == Seq(I)
            one == <<c>> \o Head(x)
            rest == Tail(x)
            all == <<one>> \o rest
            n == Len(x)
<1>1. Head(x) = x[1] /\ x[1] \in T /\ n \in Nat /\ n >= 1
  OBVIOUS
<1>2. one \in T
  <2>1. <<c>> \in Seq(I)
    OBVIOUS
  <2>. QED  BY <1>1, <2>1, ConcatProperties
<1>3. rest \in Seq(T) /\ Len(rest) = n - 1 /\ \A k \in 1..(n - 1) : rest[k] = x[k + 1]
  <2>1. x \in Seq(T)
    OBVIOUS
  <2>. HIDE DEF T
  <2>. QED  BY <2>1
<1>. HIDE DEF T, one, rest
<1>4. /\ all \in Seq(T) /\ Len(all) = Len(rest) + 1
      /\ all[1] = one /\ \A k \in 1..Len(rest) : all[k + 1] = rest[k]
  BY <1>2, <1>3, InFront
<1>. HIDE DEF all, n
<1>5. ASSUME NEW k \in 2..n  PROVE all[k] = x[k]
  <2>1. k - 1 \in 1..(n - 1) /\ (k - 1) + 1 = k
    BY <1>1
  <2>. QED  BY <1>3, <1>4, <2>1
<1>6. Len(all) = n
  BY <1>1, <1>3, <1>4
<1>. QED  BY <1>1, <1>4, <1>5, <1>6 DEF all, one, rest, T, n

\* Components is what cuts a text so.
LEMMA ComponentsAre ==
    ASSUME NEW I, NEW s \in Seq(I)
    PROVE  \E cut : IsCut(cut, s, I) /\ Components(s) = cut[1]
<1>. DEFINE n == Len(s)
            V == Seq(Seq(I)) \ {<<>>}
            To(i, x) == IF s[i] = "/" THEN << <<>> >> \o x
                        ELSE << <<s[i]>> \o Head(x) >> \o Tail(x)
            g == [i \in 1..n |-> [x \in V |-> To(i, x)]]
            Step(m) == [i \in 1..(n + 1) |-> IF i > n THEN << <<>> >> ELSE To(i, m[i + 1])]
            m == CHOOSE m : m = Step(m)
<1>1. n \in Nat /\ \A i \in 1..n : s[i] \in I
  OBVIOUS
<1>2. ASSUME NEW i \in 1..n, NEW x \in V
      PROVE  To(i, x) \in V /\ With(s[i], To(i, x), x)
  <2>. DEFINE T == Seq(I)
  <2>1. <<>> \in T /\ x \in Seq(T) /\ x # <<>> /\ Len(x) \in Nat /\ Len(x) # 0
    OBVIOUS
  <2>2. CASE s[i] = "/"
    <3>. DEFINE none == <<>>
                y == <<none>> \o x
    <3>1. To(i, x) = y
      BY <2>2
    <3>0. none \in T
      BY <2>1
    <3>. HIDE DEF T, none
    <3>2. /\ y \in Seq(T) /\ Len(y) = Len(x) + 1 /\ y[1] = none
          /\ \A k \in 1..Len(x) : y[k + 1] = x[k]
      BY <2>1, <3>0, InFront
    <3>. HIDE DEF y, To
    <3>3. y # <<>>
      BY <2>1, <3>2
    <3>. QED  BY <2>2, <3>1, <3>2, <3>3 DEF none, T, With
  <2>3. CASE s[i] # "/"
    <3>. DEFINE y == << <<s[i]>> \o Head(x) >> \o Tail(x)
    <3>1. To(i, x) = y
      BY <2>3
    <3>2. /\ y \in Seq(T) /\ Len(y) = Len(x) /\ y[1] = <<s[i]>> \o x[1]
          /\ \A k \in 2..Len(x) : y[k] = x[k]
      BY <1>1, <2>1, Longer
    <3>. HIDE DEF y, To, T
    <3>3. y # <<>>
      BY <2>1, <3>2
    <3>. QED  BY <2>3, <3>1, <3>2, <3>3 DEF T, With
  <2>. QED  BY <2>2, <2>3
<1>. HIDE DEF To
<1>0. << <<>> >> \in V
  OBVIOUS
<1>3. g \in [1..n -> [V -> V]]
  <2>1. \A i \in 1..n : \A x \in V : To(i, x) \in V
    BY <1>2
  <2>. HIDE DEF V, n
  <2>. QED  BY <2>1
<1>4. PICK f : GoesDown(f, n, V, << <<>> >>, g)
  <2>. HIDE DEF g, n, V
  <2>. QED  BY <1>0, <1>1, <1>3, StepsDown
<1>5. /\ f \in [1..(n + 1) -> V] /\ f[n + 1] = << <<>> >>
      /\ \A i \in 1..n : f[i + 1] \in V /\ f[i] = To(i, f[i + 1])
  <2>1. \A i \in 1..n : i + 1 \in 1..(n + 1)
    BY <1>1
  <2>2. f \in [1..(n + 1) -> V] /\ f[n + 1] = << <<>> >> /\ \A i \in 1..n : f[i] = g[i][f[i + 1]]
    BY <1>4 DEF GoesDown
  <2>. HIDE DEF V
  <2>. QED  BY <2>1, <2>2
<1>6. f = Step(f)
  <2>1. \A i \in 1..(n + 1) : (i > n => i = n + 1) /\ (~(i > n) => i \in 1..n)
    BY <1>1
  <2>. HIDE DEF V
  <2>. QED  BY <1>5, <2>1
<1>7. m = Step(m)
  <2>. HIDE DEF Step
  <2>. QED  BY <1>6
<1>. HIDE DEF m
<1>8. \A i \in 1..(n + 1) : m[i] = IF i > n THEN << <<>> >> ELSE To(i, m[i + 1])
  BY <1>7
<1>. DEFINE Q == {i \in 1..(n + 1) : m[i] = f[i]}
<1>9. n + 1 \in Q
  <2>1. n + 1 \in 1..(n + 1) /\ n + 1 > n
    BY <1>1
  <2>. HIDE DEF n
  <2>2. m[n + 1] = << <<>> >>
    BY <1>8, <2>1
  <2>. QED  BY <1>5, <2>1, <2>2
<1>10. ASSUME NEW i \in 1..n, i + 1 \in Q  PROVE i \in Q
  <2>1. i \in 1..(n + 1) /\ ~(i > n)
    BY <1>1
  <2>2. m[i] = To(i, m[i + 1]) /\ f[i] = To(i, f[i + 1])
    BY <1>5, <1>8, <2>1
  <2>. QED  BY <1>10, <2>1, <2>2
<1>11. \A i \in 1..(n + 1) : i \in Q
  <2>. HIDE DEF Q, n
  <2>. QED  BY <1>1, <1>9, <1>10, Downward
<1>12. Components(s) = f[1]
  <2>1. 1 \in 1..(n + 1)
    BY <1>1
  <2>2. m[1] = f[1]
    BY <1>11, <2>1
  <2>. QED  BY <2>2 DEF Components, m, Step, To
<1>13. IsCut(f, s, I)
  <2>1. \A i \in 1..n : With(s[i], f[i], f[i + 1])
    BY <1>2, <1>5
  <2>. QED  BY <1>5, <2>1 DEF IsCut
<1>. QED  BY <1>12, <1>13

\* The components with the slashes that were between them.
Whole(parts) == [k \in DOMAIN parts |-> parts[k] \o Slash(parts, k)]

\* They are texts.
LEMMA WholeType ==
    ASSUME NEW I, "/" \in I, NEW parts \in Seq(Seq(I))
    PROVE  /\ Whole(parts) \in Seq(Seq(I)) /\ Len(Whole(parts)) = Len(parts)
           /\ \A k \in 1..Len(parts) : /\ Whole(parts)[k] = parts[k] \o Slash(parts, k)
                                       /\ parts[k] \in Seq(I) /\ Slash(parts, k) \in Seq(I)
<1>. DEFINE n == Len(parts)
            T == Seq(I)
            all == Whole(parts)
<1>1. n \in Nat /\ DOMAIN parts = 1..n /\ \A k \in 1..n : parts[k] \in Seq(I)
  OBVIOUS
<1>2. \A k \in 1..n : Slash(parts, k) \in Seq(I)
  BY DEF Slash
<1>3. \A k \in 1..n : parts[k] \o Slash(parts, k) \in T
  BY <1>1, <1>2, ConcatProperties
<1>4. all \in [1..n -> T] /\ \A k \in 1..n : all[k] = parts[k] \o Slash(parts, k)
  BY <1>1, <1>3 DEF Whole
<1>. HIDE DEF n, T, all
<1>5. all \in Seq(T) /\ Len(all) = n
  BY <1>1, <1>4
<1>. QED  BY <1>1, <1>2, <1>4, <1>5 DEF n, T, all

\* The components from the i-th character on match what the text does from there.
LEMMA CutReads ==
    ASSUME NEW S, NEW p \in Seq(S), NEW I, "/" \in I, NEW s \in Seq(I),
           NEW R \in SUBSET Spots(p), NEW cut, IsCut(cut, s, I), NEW h, IsRun(h, s, p, R)
    PROVE  \E u : IsFlatRun(u, Whole(cut[1]), p, R) /\ u[1] = h[1]
<1>. DEFINE n == Len(s)
            Reads(i) == \E u : IsFlatRun(u, Whole(cut[i]), p, R) /\ u[1] = h[i]
            Q == {i \in 1..(n + 1) : Reads(i)}
<1>1. n \in Nat
  OBVIOUS
<1>2. /\ cut \in [1..(n + 1) -> Seq(Seq(I))]
      /\ \A i \in 1..(n + 1) : cut[i] # <<>>
      /\ cut[n + 1] = << <<>> >>
      /\ \A i \in 1..n : With(s[i], cut[i], cut[i + 1])
  BY DEF IsCut
<1>3. /\ h \in [1..(n + 1) -> SUBSET Spots(p)] /\ h[n + 1] = R
      /\ \A i \in 1..n : h[i] = Before(s[i], p, h[i + 1])
  BY DEF IsRun
<1>. HIDE DEF n
<1>4. n + 1 \in Q
  <2>. DEFINE c == cut[n + 1]
              u == [k \in 1..2 |-> R]
  <2>1. Len(c) = 1 /\ c[1] = <<>> /\ c \in Seq(Seq(I)) /\ n + 1 \in 1..(n + 1)
    BY <1>1, <1>2
  <2>. HIDE DEF c
  <2>2. Len(Whole(c)) = 1 /\ Whole(c)[1] = <<>> \o Slash(c, 1)
    <3>1. c \in Seq(Seq(I))
      BY <2>1
    <3>2. Len(Whole(c)) = Len(c) /\ \A k \in 1..Len(c) : Whole(c)[k] = c[k] \o Slash(c, k)
      BY <3>1, WholeType
    <3>3. 1 \in 1..Len(c)
      BY <2>1
    <3>. QED  BY <2>1, <3>2, <3>3
  <2>3. Slash(c, 1) = <<>>
    BY <2>1 DEF Slash
  <2>4. Whole(c)[1] = <<>>
    BY <2>2, <2>3
  <2>5. AllBefore(<<>>, p, R) = R
    BY AllBeforeNone
  <2>6. IsFlatRun(u, Whole(c), p, R) /\ u[1] = R
    BY <2>2, <2>4, <2>5 DEF IsFlatRun
  <2>. HIDE DEF u
  <2>. QED  BY <1>3, <2>1, <2>6 DEF c
<1>5. ASSUME NEW i \in 1..n, i + 1 \in Q  PROVE i \in Q
  <2>. DEFINE c == cut[i]
              d == cut[i + 1]
              m == Len(d)
  <2>1. i \in 1..(n + 1) /\ i + 1 \in 1..(n + 1)
    BY <1>1
  <2>2. /\ c \in Seq(Seq(I)) /\ d \in Seq(Seq(I)) /\ m \in Nat /\ m >= 1
        /\ With(s[i], c, d)
        /\ h[i] = Before(s[i], p, h[i + 1])
    <3>1. c \in Seq(Seq(I)) /\ d \in Seq(Seq(I)) /\ d # <<>>
      BY <1>2, <2>1, Zenon
    <3>2. m \in Nat /\ m >= 1
      <4>. HIDE DEF d
      <4>1. Len(d) \in Nat /\ Len(d) # 0
        BY <3>1
      <4>. QED  BY <4>1
    <3>3. With(s[i], c, d) /\ h[i] = Before(s[i], p, h[i + 1])
      BY <1>2, <1>3, Zenon
    <3>. QED  BY <3>1, <3>2, <3>3
  <2>3. PICK u : IsFlatRun(u, Whole(d), p, R) /\ u[1] = h[i + 1]
    BY <1>5
  <2>. HIDE DEF c, d
  <2>4. /\ Len(Whole(d)) = m
        /\ \A k \in 1..m : Whole(d)[k] = d[k] \o Slash(d, k) /\ d[k] \in Seq(I) /\ Slash(d, k) \in Seq(I)
    BY <2>2, WholeType
  <2>5. /\ Len(Whole(c)) = Len(c)
        /\ \A k \in 1..Len(c) : Whole(c)[k] = c[k] \o Slash(c, k)
    BY <2>2, WholeType
  <2>. HIDE DEF m
  <2>6. /\ u \in [1..(m + 1) -> SUBSET Spots(p)] /\ u[m + 1] = R
        /\ \A k \in 1..m : u[k] = AllBefore(Whole(d)[k], p, u[k + 1])
    BY <2>3, <2>4 DEF IsFlatRun
  <2>7. u[1] \in SUBSET Spots(p) /\ u[2] \in SUBSET Spots(p)
    BY <2>2, <2>6
  <2>8. Before(s[i], p, u[1]) \in SUBSET Spots(p)
    BY <2>7, BeforeType
  <2>9. CASE s[i] = "/"
    <3>. DEFINE v == [k \in 1..(m + 2) |-> IF k = 1 THEN Before(s[i], p, u[1]) ELSE u[k - 1]]
    <3>1. Len(c) = m + 1 /\ c[1] = <<>> /\ \A k \in 1..m : c[k + 1] = d[k]
      BY <2>2, <2>9 DEF With, m
    <3>2. \A k \in 1..(m + 2) : k # 1 => k - 1 \in 1..(m + 1)
      BY <2>2
    <3>3. /\ v \in [1..(m + 2) -> SUBSET Spots(p)] /\ v[m + 2] = R /\ v[1] = Before(s[i], p, u[1])
          /\ \A k \in 1..(m + 1) : v[k + 1] = u[k]
      BY <2>2, <2>6, <2>8, <3>2
    <3>. HIDE DEF v
    <3>4. ASSUME NEW k \in 1..(m + 1)  PROVE v[k] = AllBefore(Whole(c)[k], p, v[k + 1])
      <4>1. v[k + 1] = u[k] /\ Whole(c)[k] = c[k] \o Slash(c, k)
        BY <2>5, <3>1, <3>3
      <4>2. CASE k = 1
        <5>1. Slash(c, 1) = <<"/">>
          BY <2>2, <3>1 DEF Slash
        <5>2. Whole(c)[1] = <<"/">>
          BY <3>1, <4>1, <4>2, <5>1
        <5>3. AllBefore(<<"/">>, p, u[1]) = Before("/", p, u[1])
          BY <2>7, AllBeforeOne
        <5>. QED  BY <2>9, <3>3, <4>1, <4>2, <5>2, <5>3
      <4>3. CASE k # 1
        <5>1. k - 1 \in 1..m /\ k - 1 \in 1..(m + 1) /\ (k - 1) + 1 = k
              /\ (k < m + 1 <=> k - 1 < m)
          BY <2>2, <4>3
        <5>2. c[k] = d[k - 1] /\ Slash(c, k) = Slash(d, k - 1)
          BY <3>1, <5>1 DEF Slash, m
        <5>3. Whole(c)[k] = Whole(d)[k - 1]
          BY <2>4, <4>1, <5>1, <5>2
        <5>4. v[k] = u[k - 1]
          BY <3>3, <5>1
        <5>5. u[k - 1] = AllBefore(Whole(d)[k - 1], p, u[k])
          BY <2>6, <5>1
        <5>. QED  BY <4>1, <5>3, <5>4, <5>5
      <4>. QED  BY <4>2, <4>3
    <3>5. (m + 1) + 1 = m + 2
      BY <2>2
    <3>6. IsFlatRun(v, Whole(c), p, R)
      BY <2>5, <3>1, <3>3, <3>4, <3>5 DEF IsFlatRun
    <3>7. v[1] = h[i]
      BY <2>2, <2>3, <3>3
    <3>. QED  BY <2>1, <3>6, <3>7 DEF c
  <2>10. CASE s[i] # "/"
    <3>. DEFINE v == [u EXCEPT ![1] = Before(s[i], p, u[1])]
    <3>1. Len(c) = m /\ c[1] = <<s[i]>> \o d[1] /\ \A k \in 2..m : c[k] = d[k]
      BY <2>2, <2>10 DEF With, m
    <3>2. /\ v \in [1..(m + 1) -> SUBSET Spots(p)] /\ v[1] = Before(s[i], p, u[1])
          /\ \A k \in 2..(m + 1) : v[k] = u[k]
      BY <2>2, <2>6, <2>8
    <3>. HIDE DEF v
    <3>3. ASSUME NEW k \in 1..m  PROVE v[k] = AllBefore(Whole(c)[k], p, v[k + 1])
      <4>1. k + 1 \in 2..(m + 1)
        BY <2>2
      <4>2. v[k + 1] = u[k + 1] /\ Whole(c)[k] = c[k] \o Slash(c, k) /\ Slash(c, k) = Slash(d, k)
        BY <2>5, <3>1, <3>2, <4>1 DEF Slash, m
      <4>3. CASE k = 1
        <5>. DEFINE x == <<s[i]>>
                    y == d[1]
                    z == Slash(d, 1)
        <5>1. x \in Seq(I) /\ y \in Seq(I) /\ z \in Seq(I) /\ Whole(d)[1] = y \o z
          <6>1. s[i] \in I
            BY DEF n
          <6>2. 1 \in 1..m
            BY <2>2
          <6>. QED  BY <2>4, <6>1, <6>2
        <5>2. Whole(c)[1] = (x \o y) \o z
          BY <3>1, <4>2, <4>3
        <5>3. AllBefore(x, p, u[1]) = Before(s[i], p, u[1])
          BY <2>7, AllBeforeOne
        <5>4. u[1] = AllBefore(Whole(d)[1], p, u[2])
          BY <2>6, <4>3
        <5>. HIDE DEF x, y, z
        <5>5. (x \o y) \o z = x \o (y \o z)
          BY <5>1, ConcatAssociative
        <5>6. y \o z \in Seq(I)
          BY <5>1, ConcatProperties
        <5>7. AllBefore(x \o (y \o z), p, u[2]) = AllBefore(x, p, AllBefore(y \o z, p, u[2]))
          <6>. DEFINE t == y \o z
                      X == u[2]
          <6>1. x \in Seq(I) /\ t \in Seq(I) /\ X \in SUBSET Spots(p)
            BY <2>7, <5>1, <5>6
          <6>. HIDE DEF t, X
          <6>2. AllBefore(x \o t, p, X) = AllBefore(x, p, AllBefore(t, p, X))
            BY <6>1, AllBeforeConcat
          <6>. QED  BY <6>2 DEF t, X
        <5>8. k + 1 = 2 /\ v[2] = u[2]
          BY <4>2, <4>3
        <5>9. v[1] = AllBefore(Whole(c)[1], p, v[2])
          BY <3>2, <5>1, <5>2, <5>3, <5>4, <5>5, <5>7, <5>8
        <5>. QED  BY <4>3, <5>8, <5>9
      <4>4. CASE k # 1
        <5>1. k \in 2..m /\ k \in 2..(m + 1)
          BY <2>2, <4>4
        <5>2. Whole(c)[k] = Whole(d)[k]
          BY <2>4, <3>1, <4>2, <5>1
        <5>. QED  BY <2>6, <3>2, <4>2, <5>1, <5>2
      <4>. QED  BY <4>3, <4>4
    <3>4. v[m + 1] = R
      <4>1. m + 1 \in 2..(m + 1)
        BY <2>2
      <4>. QED  BY <2>6, <3>2, <4>1
    <3>5. IsFlatRun(v, Whole(c), p, R)
      BY <2>5, <3>1, <3>2, <3>3, <3>4 DEF IsFlatRun
    <3>6. v[1] = h[i]
      BY <2>2, <2>3, <3>2
    <3>. QED  BY <2>1, <3>5, <3>6 DEF c
  <2>. QED  BY <2>9, <2>10
<1>6. \A i \in 1..(n + 1) : i \in Q
  <2>. HIDE DEF Q
  <2>. QED  BY <1>1, <1>4, <1>5, Downward
<1>7. 1 \in Q
  BY <1>1, <1>6
<1>. QED  BY <1>7

\* A text without two stars in a row has no component with two stars in a row.
LEMMA CutStars ==
    ASSUME NEW I, NEW s \in Seq(I), NEW cut, IsCut(cut, s, I), ~HasTwoStars(s)
    PROVE  \A k \in 1..Len(cut[1]) : ~HasTwoStars(cut[1][k])
<1>. DEFINE n == Len(s)
            Clean(c) == \A k \in 1..Len(c) : ~HasTwoStars(c[k])
            Starts(i) == cut[i][1] # <<>> => i <= n /\ cut[i][1][1] = s[i]
            Q == {i \in 1..(n + 1) : Clean(cut[i]) /\ Starts(i)}
<1>1. n \in Nat /\ \A i \in 1..n : s[i] \in I
  OBVIOUS
<1>2. \A i \in 1..(n - 1) : ~(s[i] = "*" /\ s[i + 1] = "*")
  BY DEF HasTwoStars
<1>3. /\ cut \in [1..(n + 1) -> Seq(Seq(I))]
      /\ \A i \in 1..(n + 1) : cut[i] # <<>>
      /\ cut[n + 1] = << <<>> >>
      /\ \A i \in 1..n : With(s[i], cut[i], cut[i + 1])
  BY DEF IsCut
<1>4. ~HasTwoStars(<<>>)
  BY DEF HasTwoStars
<1>. HIDE DEF n
<1>5. n + 1 \in Q
  <2>. DEFINE c == cut[n + 1]
  <2>1. n + 1 \in 1..(n + 1) /\ Len(c) = 1 /\ c[1] = <<>>
    BY <1>1, <1>3
  <2>. QED  BY <1>4, <2>1
<1>6. ASSUME NEW i \in 1..n, i + 1 \in Q  PROVE i \in Q
  <2>. DEFINE c == cut[i]
              d == cut[i + 1]
  <2>1. i \in 1..(n + 1) /\ i + 1 \in 1..(n + 1)
    BY <1>1
  <2>2. /\ d \in Seq(Seq(I)) /\ d # <<>> /\ With(s[i], c, d) /\ s[i] \in I
    BY <1>1, <1>3, <2>1
  <2>3. Clean(d) /\ (d[1] # <<>> => i + 1 <= n /\ d[1][1] = s[i + 1])
    BY <1>6
  <2>. HIDE DEF c, d
  <2>4. CASE s[i] = "/"
    <3>1. Len(c) = Len(d) + 1 /\ c[1] = <<>> /\ \A k \in 1..Len(d) : c[k + 1] = d[k]
      BY <2>2, <2>4 DEF With
    <3>2. Len(d) \in Nat
      BY <2>2
    <3>3. ASSUME NEW k \in 1..Len(c)  PROVE ~HasTwoStars(c[k])
      <4>1. CASE k = 1
        BY <1>4, <3>1, <4>1
      <4>2. CASE k # 1
        <5>1. k - 1 \in 1..Len(d) /\ (k - 1) + 1 = k
          BY <3>1, <3>2, <4>2
        <5>. QED  BY <2>3, <3>1, <5>1
      <4>. QED  BY <4>1, <4>2
    <3>. QED  BY <2>1, <3>1, <3>3 DEF c
  <2>5. CASE s[i] # "/"
    <3>. DEFINE x == d[1]
                y == <<s[i]>> \o x
    <3>1. Len(c) = Len(d) /\ c[1] = y /\ \A k \in 2..Len(d) : c[k] = d[k]
      BY <2>2, <2>5 DEF With
    <3>2. Len(d) \in Nat /\ Len(d) >= 1 /\ x \in Seq(I)
      BY <2>2
    <3>3. ~HasTwoStars(x) /\ (x # <<>> => i + 1 <= n /\ x[1] = s[i + 1])
      BY <2>3, <3>2
    <3>. HIDE DEF x
    <3>4. y \in Seq(I) /\ Len(y) = Len(x) + 1 /\ y[1] = s[i] /\ \A k \in 1..Len(x) : y[k + 1] = x[k]
      BY <2>2, <3>2, InFront
    <3>. HIDE DEF y
    <3>5. Len(x) \in Nat /\ (Len(x) >= 1 => x # <<>>)
      BY <3>2
    <3>6. ASSUME NEW k \in 1..(Len(y) - 1), y[k] = "*", y[k + 1] = "*"  PROVE FALSE
      <4>1. k \in 1..Len(x) /\ y[k + 1] = x[k]
        BY <3>4, <3>5
      <4>2. CASE k = 1
        <5>1. x # <<>>
          BY <3>5, <4>1
        <5>2. i \in 1..(n - 1) /\ s[i] = "*" /\ s[i + 1] = "*"
          BY <1>1, <3>3, <3>4, <3>6, <4>1, <4>2, <5>1
        <5>. QED  BY <1>2, <5>2
      <4>3. CASE k # 1
        <5>1. k - 1 \in 1..(Len(x) - 1) /\ k - 1 \in 1..Len(x) /\ (k - 1) + 1 = k
          BY <3>5, <4>1, <4>3
        <5>2. x[k - 1] = "*" /\ x[(k - 1) + 1] = "*"
          BY <3>4, <3>6, <4>1, <5>1
        <5>. QED  BY <3>3, <5>1, <5>2 DEF HasTwoStars
      <4>. QED  BY <4>2, <4>3
    <3>7. ~HasTwoStars(y)
      BY <3>6 DEF HasTwoStars
    <3>8. ASSUME NEW k \in 1..Len(c)  PROVE ~HasTwoStars(c[k])
      <4>1. CASE k = 1
        BY <3>1, <3>7, <4>1
      <4>2. CASE k # 1
        <5>1. k \in 2..Len(d) /\ k \in 1..Len(d)
          BY <3>1, <3>2, <4>2
        <5>. QED  BY <2>3, <3>1, <5>1
      <4>. QED  BY <4>1, <4>2
    <3>9. i <= n
      BY <1>1
    <3>. QED  BY <2>1, <3>1, <3>4, <3>8, <3>9 DEF c
  <2>. QED  BY <2>4, <2>5
<1>7. \A i \in 1..(n + 1) : i \in Q
  <2>. HIDE DEF Q
  <2>. QED  BY <1>1, <1>5, <1>6, Downward
<1>8. 1 \in Q
  BY <1>1, <1>7
<1>. QED  BY <1>8

\* Without two stars in a row a pattern stands for itself.
LEMMA OnlyItself ==
    ASSUME NEW S, NEW p \in Seq(S), NEW I, "/" \in I, NEW s \in Seq(I), ~HasTwoStars(s),
           NEW R \in SUBSET Spots(p)
    PROVE  /\ Optional(Components(s)) = {}
           /\ AllBefore(Expansion(Components(s), {}), p, R) = AllBefore(s, p, R)
<1>1. PICK cut : IsCut(cut, s, I) /\ Components(s) = cut[1]
  BY ComponentsAre
<1>. DEFINE parts == cut[1]
            n == Len(parts)
<1>2. parts \in Seq(Seq(I)) /\ n \in Nat /\ DOMAIN parts = 1..n
  <2>1. 1 \in 1..(Len(s) + 1)
    OBVIOUS
  <2>. QED  BY <1>1, <2>1 DEF IsCut
<1>3. \A k \in 1..n : parts[k] # TwoStars
  <2>1. HasTwoStars(TwoStars)
    <3>1. Len(TwoStars) = 2 /\ TwoStars[1] = "*" /\ TwoStars[2] = "*"
      BY DEF TwoStars
    <3>2. 1 \in 1..(Len(TwoStars) - 1)
      BY <3>1
    <3>. QED  BY <3>1, <3>2 DEF HasTwoStars
  <2>. QED  BY <1>1, <2>1, CutStars
<1>. HIDE DEF parts, n
<1>4. Optional(parts) = {}
  <2>1. \A k \in 1..(n - 1) : k \in 1..n
    BY <1>2
  <2>. QED  BY <1>3, <2>1 DEF Optional, n
<1>5. Expansion(parts, {}) = FlattenSeq(Whole(parts))
  <2>1. [k \in DOMAIN parts |->
            IF k \in {} THEN <<>>
            ELSE (IF parts[k] = TwoStars THEN <<"*">> ELSE parts[k]) \o Slash(parts, k)]
          = Whole(parts)
    BY <1>2, <1>3 DEF Whole
  <2>. QED  BY <2>1 DEF Expansion
<1>6. PICK h : IsRun(h, s, p, R)
  BY RunExists
<1>7. PICK u : IsFlatRun(u, Whole(parts), p, R) /\ u[1] = h[1]
  BY <1>1, <1>6, CutReads DEF parts
<1>8. Whole(parts) \in Seq(Seq(I))
  BY <1>2, WholeType
<1>9. AllBefore(FlattenSeq(Whole(parts)), p, R) = u[1]
  BY <1>7, <1>8, FlatRunIs
<1>10. AllBefore(s, p, R) = h[1]
  BY <1>6, RunIs
<1>. QED  BY <1>1, <1>4, <1>5, <1>7, <1>9, <1>10 DEF parts

------------------------------------------------------------------------------
(* A pattern that glob takes to match everything does.                        *)

\* The texts of one star and of two.
LEMMA Stars == <<"*">> \o <<>> = <<"*">> /\ <<"*">> \o <<"*">> = TwoStars
<1>. DEFINE one == <<"*">>
            two == one \o one
<1>1. one \in Seq({"*"}) /\ Len(one) = 1 /\ one[1] = "*" /\ 1 \in 1..Len(one)
  OBVIOUS
<1>2. one \o <<>> = one
  BY <1>1, ConcatEmptySeq
<1>3. /\ two \in Seq({"*"}) /\ Len(two) = Len(one) + 1
      /\ two[1] = "*" /\ \A i \in 1..Len(one) : two[i + 1] = one[i]
  <2>. HIDE DEF two
  <2>1. "*" \in {"*"} /\ two = <<"*">> \o one
    BY DEF two
  <2>. QED  BY <1>1, <2>1, InFront
<1>. HIDE DEF two
<1>4. Len(two) = 2 /\ two[1] = "*" /\ two[2] = "*"
  <2>1. two[1 + 1] = "*"
    BY <1>1, <1>3
  <2>. HIDE DEF one
  <2>. QED  BY <1>1, <1>3, <2>1
<1>5. TwoStars \in Seq({"*"}) /\ Len(TwoStars) = 2 /\ TwoStars[1] = "*" /\ TwoStars[2] = "*"
  BY DEF TwoStars
<1>6. two = TwoStars
  <2>1. \A i \in 1..2 : i = 1 \/ i = 2
    OBVIOUS
  <2>. QED  BY <1>3, <1>4, <1>5, <2>1, SeqEqual
<1>. QED  BY <1>2, <1>6 DEF two

\* The regular expression of ** matches every path.
LEMMA TwoStarsMatch ==
    ASSUME NEW S, NEW p \in Seq(S)
    PROVE  HasTwoStars(TwoStars) /\ FullMatch(RegexItems(TwoStars), p)
<1>. DEFINE I == {"*", "/"}
            s == TwoStars
            R == {Len(p) + 1}
<1>1. s \in Seq(I) /\ Len(s) = 2 /\ s[1] = "*" /\ s[2] = "*"
  BY DEF TwoStars
<1>2. HasTwoStars(s)
  <2>1. 1 \in 1..(Len(s) - 1)
    BY <1>1
  <2>. HIDE DEF s
  <2>. QED  BY <1>1, <2>1 DEF HasTwoStars
<1>3. R \in SUBSET Spots(p) /\ 1 \in Spots(p) /\ Len(p) + 1 \in R /\ Len(p) \in Nat
  BY DEF Spots
<1>4. PICK cut : IsCut(cut, s, I) /\ Components(s) = cut[1]
  <2>. HIDE DEF s, I
  <2>. QED  BY <1>1, ComponentsAre
<1>. DEFINE parts == cut[1]
<1>. HIDE DEF s, I, R
<1>5. parts \in Seq(Seq(I)) /\ Len(parts) = 1 /\ parts[1] = TwoStars
  <2>1. /\ cut[1] \in Seq(Seq(I)) /\ cut[3] = << <<>> >>
        /\ With("*", cut[2], cut[3]) /\ With("*", cut[1], cut[2])
    BY <1>1, <1>4 DEF IsCut
  <2>2. Len(cut[2]) = 1 /\ cut[2][1] = <<"*">> \o <<>>
    BY <2>1 DEF With
  <2>3. <<"*">> \o <<>> = <<"*">> /\ <<"*">> \o <<"*">> = TwoStars
    BY Stars
  <2>4. Len(cut[1]) = 1 /\ cut[1][1] = <<"*">> \o <<"*">>
    BY <2>1, <2>2, <2>3 DEF With
  <2>. QED  BY <2>1, <2>3, <2>4
<1>. DEFINE items == [k \in DOMAIN parts |-> PartItems(parts, k)]
<1>6. items = << <<"*">> >>
  <2>1. DOMAIN parts = 1..1 /\ ~(1 < Len(parts))
    BY <1>5
  <2>2. PartItems(parts, 1) = <<"*">>
    BY <1>5, <2>1 DEF PartItems
  <2>3. items = [k \in 1..1 |-> <<"*">>]
    BY <2>1, <2>2
  <2>. QED  BY <2>3
<1>7. items \in Seq(Seq(I)) /\ Len(items) = 1 /\ items[1] = <<"*">>
  <2>. DEFINE T == Seq(I)
              one == <<"*">>
  <2>1. one \in T
    BY DEF I
  <2>. HIDE DEF T, one, items
  <2>2. items = <<one>>
    BY <1>6 DEF one
  <2>3. items \in Seq(T) /\ Len(items) = 1 /\ items[1] = one
    BY <2>1, <2>2
  <2>. QED  BY <2>3 DEF T, one
<1>. HIDE DEF items
<1>8. PICK h : IsFlatRun(h, items, p, R)
  BY <1>3, <1>7, FlatRunExists
<1>9. AllBefore(FlattenSeq(items), p, R) = h[1]
  BY <1>3, <1>7, <1>8, FlatRunIs
<1>10. h[1] = Before("*", p, R)
  <2>1. h[1] = AllBefore(<<"*">>, p, h[2]) /\ h[2] = R
    BY <1>7, <1>8 DEF IsFlatRun
  <2>. QED  BY <1>3, <2>1, AllBeforeOne
<1>11. 1 \in h[1]
  BY <1>3, <1>10 DEF Before, Spots
<1>12. 1 \in AllBefore(RegexItems(s), p, R)
  BY <1>4, <1>9, <1>11 DEF RegexItems, items
<1>. QED  BY <1>2, <1>12 DEF FullMatch, s, R

\* The regular expression of **/* matches every path.
LEMMA AnyPathMatches ==
    ASSUME NEW S, NEW p \in Seq(S)
    PROVE  LET s == <<"*", "*", "/", "*">> IN HasTwoStars(s) /\ FullMatch(RegexItems(s), p)
<1>. DEFINE I == {"*", "/"}
            s == <<"*", "*", "/", "*">>
            R == {Len(p) + 1}
<1>1. s \in Seq(I) /\ Len(s) = 4 /\ s[1] = "*" /\ s[2] = "*" /\ s[3] = "/" /\ s[4] = "*"
  OBVIOUS
<1>2. HasTwoStars(s)
  <2>1. 1 \in 1..(Len(s) - 1)
    BY <1>1
  <2>. HIDE DEF s
  <2>. QED  BY <1>1, <2>1 DEF HasTwoStars
<1>3. R \in SUBSET Spots(p) /\ 1 \in Spots(p) /\ Len(p) + 1 \in R /\ Len(p) \in Nat
  BY DEF Spots
<1>4. PICK cut : IsCut(cut, s, I) /\ Components(s) = cut[1]
  <2>. HIDE DEF s, I
  <2>. QED  BY <1>1, ComponentsAre
<1>. DEFINE parts == cut[1]
<1>. HIDE DEF s, I, R
<1>5. parts \in Seq(Seq(I)) /\ Len(parts) = 2 /\ parts[1] = TwoStars /\ parts[2] = <<"*">>
  <2>1. /\ cut[1] \in Seq(Seq(I)) /\ cut[5] = << <<>> >>
        /\ With("*", cut[4], cut[5]) /\ With("/", cut[3], cut[4])
        /\ With("*", cut[2], cut[3]) /\ With("*", cut[1], cut[2])
    BY <1>1, <1>4 DEF IsCut
  <2>2. Len(cut[4]) = 1 /\ cut[4][1] = <<"*">> \o <<>>
    BY <2>1 DEF With
  <2>3. <<"*">> \o <<>> = <<"*">> /\ <<"*">> \o <<"*">> = TwoStars
    BY Stars
  <2>4. Len(cut[3]) = 2 /\ cut[3][1] = <<>> /\ cut[3][2] = <<"*">>
    <3>1. 1 \in 1..1 /\ 1 + 1 = 2
      OBVIOUS
    <3>. QED  BY <2>1, <2>2, <2>3, <3>1 DEF With
  <2>5. 2 \in 2..2
    OBVIOUS
  <2>6. Len(cut[2]) = 2 /\ cut[2][1] = <<"*">> /\ cut[2][2] = <<"*">>
    BY <2>1, <2>3, <2>4, <2>5 DEF With
  <2>7. Len(cut[1]) = 2 /\ cut[1][1] = <<"*">> \o <<"*">> /\ cut[1][2] = <<"*">>
    BY <2>1, <2>5, <2>6 DEF With
  <2>. QED  BY <2>1, <2>3, <2>7
<1>6. IsParts(parts, I) /\ 1 \in 1..Len(parts) /\ 2 \in 1..Len(parts)
  BY <1>5 DEF IsParts, I
<1>. HIDE DEF parts
<1>7. 1 \in AllBefore(Expansion(parts, {1}), p, R)
  <2>1. /\ Pieces(parts, {1}) \in Seq(Seq(I)) /\ Len(Pieces(parts, {1})) = 2
        /\ Pieces(parts, {1})[1] = Piece(parts, {1}, 1)
        /\ Pieces(parts, {1})[2] = Piece(parts, {1}, 2)
        /\ Expansion(parts, {1}) = FlattenSeq(Pieces(parts, {1}))
    BY <1>5, <1>6, PieceType
  <2>2. Piece(parts, {1}, 1) = <<>>
    BY DEF Piece
  <2>3. Piece(parts, {1}, 2) = <<"*">>
    <3>1. <<"*">> # TwoStars
      BY DEF TwoStars
    <3>2. Slash(parts, 2) = <<>>
      BY <1>5 DEF Slash
    <3>3. <<"*">> \o <<>> = <<"*">>
      OBVIOUS
    <3>. QED  BY <1>5, <3>1, <3>2, <3>3 DEF Piece
  <2>. DEFINE ps == Pieces(parts, {1})
  <2>4. ps \in Seq(Seq(I)) /\ Len(ps) = 2 /\ ps[1] = <<>> /\ ps[2] = <<"*">>
    BY <2>1, <2>2, <2>3
  <2>. HIDE DEF ps
  <2>5. PICK h : IsFlatRun(h, ps, p, R)
    BY <1>3, <2>4, FlatRunExists
  <2>6. AllBefore(FlattenSeq(ps), p, R) = h[1]
    BY <1>3, <2>4, <2>5, FlatRunIs
  <2>7. /\ h[3] = R /\ h[2] = AllBefore(<<"*">>, p, h[3]) /\ h[1] = AllBefore(<<>>, p, h[2])
        /\ h[2] \in SUBSET Spots(p)
    <3>1. Len(ps) + 1 = 3 /\ 1 \in 1..Len(ps) /\ 2 \in 1..Len(ps) /\ 2 \in 1..(Len(ps) + 1)
          /\ 1 + 1 = 2 /\ 2 + 1 = 3
      BY <2>4
    <3>2. /\ h[Len(ps) + 1] = R /\ h[1] = AllBefore(ps[1], p, h[1 + 1])
          /\ h[2] = AllBefore(ps[2], p, h[2 + 1]) /\ h[2] \in SUBSET Spots(p)
      BY <2>5, <3>1 DEF IsFlatRun
    <3>. QED  BY <2>4, <3>1, <3>2
  <2>8. h[1] = Before("*", p, R)
    BY <1>3, <2>7, AllBeforeOne, AllBeforeNone
  <2>9. 1 \in h[1]
    BY <1>3, <2>8 DEF Before, Spots
  <2>. QED  BY <2>1, <2>6, <2>9 DEF ps
<1>8. {1} \in SUBSET Optional(parts)
  BY <1>5 DEF Optional
<1>9. 1 \in AllBefore(FlattenSeq([k \in DOMAIN parts |-> PartItems(parts, k)]), p, R)
  BY <1>3, <1>6, <1>7, <1>8, ItemsMean
<1>10. 1 \in AllBefore(RegexItems(s), p, R)
  BY <1>4, <1>9 DEF RegexItems, parts
<1>. QED  BY <1>2, <1>10 DEF FullMatch, s, R

------------------------------------------------------------------------------
(* What glob matches is what its docstrings promise. *)

\* _glob_match keeps the docstrings of glob and _glob_to_regex, for every pattern of stars
\* and of characters that stand for themselves, and every path: it matches just what an
\* expansion of the pattern does.
THEOREM PatternsMean ==
    ASSUME NEW S, NEW p \in Seq(S), NEW I, {"*", "/"} \subseteq I, "dirs" \notin I,
           NEW s \in Seq(I)
    PROVE  GlobMatch(p, s) <=> Meant(s, p)
<1>. DEFINE R == {Len(p) + 1}
            parts == Components(s)
<1>1. R \in SUBSET Spots(p)
  BY DEF Spots
<1>2. IsParts(parts, I)
  <2>1. PICK cut : IsCut(cut, s, I) /\ parts = cut[1]
    BY ComponentsAre
  <2>2. 1 \in 1..(Len(s) + 1)
    OBVIOUS
  <2>. QED  BY <2>1, <2>2 DEF IsCut, IsParts
<1>. HIDE DEF R, parts
<1>3. ASSUME NEW gone
      PROVE  Fn(Expansion(parts, gone), p) <=> 1 \in AllBefore(Expansion(parts, gone), p, R)
  <2>. DEFINE ps == Pieces(parts, gone)
              e == Expansion(parts, gone)
  <2>1. ps \in Seq(Seq(I)) /\ e = FlattenSeq(ps)
    BY <1>2, PieceType
  <2>. HIDE DEF ps, e
  <2>2. e \in Seq(I)
    BY <2>1, FlattenType
  <2>3. Fn(e, p) <=> 1 \in AllBefore(e, p, {Len(p) + 1})
    BY <2>2, FnMatches
  <2>. QED  BY <2>3 DEF e, R
<1>4. Meant(s, p) <=> \E gone \in SUBSET Optional(parts) :
                         1 \in AllBefore(Expansion(parts, gone), p, R)
  BY <1>3 DEF Meant, Expansions, parts
<1>5. Meant(s, p) <=> FullMatch(RegexItems(s), p)
  <2>1. 1 \in AllBefore(FlattenSeq([k \in DOMAIN parts |-> PartItems(parts, k)]), p, R)
          <=> \E gone \in SUBSET Optional(parts) :
                 1 \in AllBefore(Expansion(parts, gone), p, R)
    BY <1>1, <1>2, ItemsMean
  <2>2. FullMatch(RegexItems(s), p)
          <=> 1 \in AllBefore(FlattenSeq([k \in DOMAIN parts |-> PartItems(parts, k)]), p, R)
    BY DEF FullMatch, RegexItems, parts, R
  <2>. QED  BY <1>4, <2>1, <2>2
<1>6. CASE ~HasTwoStars(s)
  <2>1. Optional(parts) = {} /\ AllBefore(Expansion(parts, {}), p, R) = AllBefore(s, p, R)
    BY <1>1, <1>6, OnlyItself DEF parts
  <2>2. AllBefore(FnItems(s), p, R) = AllBefore(s, p, R)
    BY <1>1, FnItemsMatch
  <2>3. Meant(s, p) <=> 1 \in AllBefore(FnItems(s), p, R)
    BY <1>4, <2>1, <2>2
  <2>4. s # TwoStars /\ s # <<"*", "*", "/", "*">>
    BY <1>6, TwoStarsMatch, AnyPathMatches
  <2>. QED  BY <1>6, <2>3, <2>4 DEF GlobMatch, FullMatch, R
<1>7. CASE HasTwoStars(s)
  <2>1. s \in {TwoStars, <<"*", "*", "/", "*">>} => FullMatch(RegexItems(s), p)
    BY TwoStarsMatch, AnyPathMatches
  <2>. QED  BY <1>5, <1>7, <2>1 DEF GlobMatch
<1>. QED  BY <1>6, <1>7

\* What is typed is a text of the alphabet.
Characters == Letters \cup {"*", "/", "."}
Typed == pattern \in Seq(Characters) /\ path \in Seq(Characters)

\* The type invariant: no step leaves the alphabet.
LEMMA TypedAlways == Spec => []Typed
<1>1. Init => Typed
  <2>. SUFFICES ASSUME Init  PROVE Typed
    OBVIOUS
  <2>1. PICK c \in Letters \cup {"."} : path = <<c>>
    BY DEF Init
  <2>2. c \in Characters
    BY DEF Characters
  <2>3. path \in Seq(Characters)
    BY <2>1, <2>2
  <2>4. pattern \in Seq(Characters)
    BY DEF Init
  <2>. QED  BY <2>3, <2>4 DEF Typed
<1>2. Typed /\ [Next]_vars => Typed'
  <2>. SUFFICES ASSUME Typed, [Next]_vars  PROVE Typed'
    OBVIOUS
  <2>. USE DEF Typed
  <2>1. ASSUME NEW c \in Characters, TypePattern(c)  PROVE Typed'
    <3>1. pattern' = Append(pattern, c) /\ path' = path
      BY <2>1 DEF TypePattern
    <3>2. Append(pattern, c) \in Seq(Characters)
      BY AppendProperties
    <3>. QED  BY <3>1, <3>2
  <2>2. ASSUME NEW t \in Seq(Characters), TypePath(t)  PROVE Typed'
    <3>1. path' = path \o t /\ pattern' = pattern
      BY <2>2 DEF TypePath
    <3>2. path \o t \in Seq(Characters)
      BY ConcatProperties
    <3>. QED  BY <3>1, <3>2
  <2>3. CASE UNCHANGED vars
    BY <2>3 DEF vars
  <2>4. \A c \in Letters \cup {"."} : <<c>> \in Seq(Characters) /\ <<"/", c>> \in Seq(Characters)
    BY DEF Characters
  <2>. QED  BY <2>1, <2>2, <2>3, <2>4 DEF Next, Characters
<1>. QED  BY <1>1, <1>2, PTL DEF Spec

\* What lstrip leaves of a pattern is a pattern.
LEMMA NormalisedType ==
    ASSUME NEW I, NEW s \in Seq(I)
    PROVE  Normalised(s) \in Seq(I)
<1>. DEFINE kept == {i \in DOMAIN s : s[i] \notin {".", "/"}}
<1>1. kept \subseteq 1..Len(s) /\ kept \subseteq Nat /\ Len(s) \in Nat
  OBVIOUS
<1>2. CASE kept = {}
  BY <1>2 DEF Normalised
<1>3. CASE kept # {}
  <2>. HIDE DEF kept
  <2>1. \E x \in kept : \A y \in kept : x <= y
    BY <1>1, <1>3, Least
  <2>2. Min(kept) \in kept
    BY <2>1 DEF Min
  <2>3. Min(kept) \in 1..Len(s)
    BY <1>1, <2>2
  <2>. DEFINE m == Min(kept)
  <2>. HIDE DEF m
  <2>4. SubSeq(s, m, Len(s)) \in Seq(I)
    BY <1>1, <2>3, SubSeqProperties DEF m
  <2>. QED  BY <1>3, <2>4 DEF Normalised, kept, m
<1>. QED  BY <1>2, <1>3

\* The paths that glob finds for a pattern are those its docstrings promise: a ** stands
\* for any number of components, a star for any characters.
THEOREM GlobKeepsItsWord == Spec => []GlobAgrees
<1>1. Typed => GlobAgrees
  <2>. SUFFICES ASSUME Typed  PROVE GlobAgrees
    OBVIOUS
  <2>1. Normalised(pattern) \in Seq(Characters) /\ path \in Seq(Characters)
    BY NormalisedType DEF Typed
  <2>2. {"*", "/"} \subseteq Characters /\ "dirs" \notin Characters
    BY LettersAssumption DEF Characters
  <2>3. GlobMatch(path, Normalised(pattern)) <=> Meant(Normalised(pattern), path)
    BY <2>1, <2>2, PatternsMean
  <2>. QED  BY <2>3 DEF GlobAgrees, GlobFinds
<1>. QED  BY <1>1, TypedAlways, PTL

------------------------------------------------------------------------------
(* The pages of a text. *)

\* Reading page after page misses no line and repeats none: a page with all that comes after
\* it is all that comes after the page before, and only the page of the last line says so.
THEOREM PagesMeet ==
    ASSUME NEW S, NEW text \in Seq(S), NEW offset \in Nat, NEW limit \in Nat
    PROVE  LET Rest(k) == SubSeq(text, k + 1, Len(text)) IN
           /\ Truncated(text, offset, limit) =>
                 /\ Rest(offset + limit) # <<>>
                 /\ Window(text, offset, limit) \o Rest(offset + limit) = Rest(offset)
           /\ ~Truncated(text, offset, limit) => Window(text, offset, limit) = Rest(offset)
<1>. DEFINE n == Len(text)
            m == offset + limit
            Rest(k) == SubSeq(text, k + 1, n)
<1>1. n \in Nat /\ m \in Nat /\ offset <= m
  OBVIOUS
<1>2. CASE Truncated(text, offset, limit)
  <2>1. m < n /\ Min({m, n}) = m
    BY <1>1, <1>2 DEF Truncated, Min
  <2>2. Window(text, offset, limit) = SubSeq(text, offset + 1, m)
    BY <2>1 DEF Window
  <2>. DEFINE page == SubSeq(text, offset + 1, m)
  <2>3. /\ page \in Seq(S) /\ Len(page) = m - offset
        /\ \A i \in 1..(m - offset) : page[i] = text[offset + i]
    BY <1>1, <2>1
  <2>0. ASSUME NEW k \in 0..n
        PROVE  /\ Rest(k) \in Seq(S) /\ Len(Rest(k)) = n - k
               /\ \A i \in 1..(n - k) : Rest(k)[i] = text[k + i]
    <3>1. Rest(k) \in Seq(S)
      BY <1>1
    <3>2. Len(Rest(k)) = n - k
      BY <1>1
    <3>3. \A i \in 1..(n - k) : Rest(k)[i] = text[k + i]
      BY <1>1
    <3>. QED  BY <3>1, <3>2, <3>3
  <2>4. /\ Rest(m) \in Seq(S) /\ Len(Rest(m)) = n - m
        /\ \A i \in 1..(n - m) : Rest(m)[i] = text[m + i]
    BY <1>1, <2>0, <2>1
  <2>5. /\ Rest(offset) \in Seq(S) /\ Len(Rest(offset)) = n - offset
        /\ \A i \in 1..(n - offset) : Rest(offset)[i] = text[offset + i]
    BY <1>1, <2>0, <2>1
  <2>. HIDE DEF page, Rest, m, n
  <2>6. /\ page \o Rest(m) \in Seq(S) /\ Len(page \o Rest(m)) = n - offset
        /\ \A i \in 1..(m - offset) : (page \o Rest(m))[i] = page[i]
        /\ \A i \in (m - offset + 1)..(n - offset) : (page \o Rest(m))[i] = Rest(m)[i - (m - offset)]
    <3>. DEFINE a == Len(page)
                b == Len(Rest(m))
                all == page \o Rest(m)
    <3>1. /\ all \in Seq(S) /\ Len(all) = a + b
          /\ \A i \in 1..(a + b) : all[i] = IF i <= a THEN page[i] ELSE Rest(m)[i - a]
      BY <2>3, <2>4, ConcatProperties
    <3>2. a = m - offset /\ b = n - m
      BY <2>3, <2>4
    <3>. HIDE DEF a, b, all
    <3>3. a \in Nat /\ b \in Nat /\ a + b = n - offset
      BY <1>1, <2>1, <3>2
    <3>4. /\ \A i \in 1..a : all[i] = page[i]
          /\ \A i \in (a + 1)..(a + b) : all[i] = Rest(m)[i - a]
      BY <3>1, <3>3
    <3>. QED  BY <3>1, <3>2, <3>3, <3>4 DEF all
  <2>7. ASSUME NEW i \in 1..(n - offset)  PROVE (page \o Rest(m))[i] = Rest(offset)[i]
    <3>1. CASE i <= m - offset
      BY <1>1, <2>3, <2>5, <2>6, <3>1
    <3>2. CASE ~(i <= m - offset)
      <4>1. i \in (m - offset + 1)..(n - offset) /\ i - (m - offset) \in 1..(n - m)
        BY <1>1, <2>1, <3>2
      <4>2. m + (i - (m - offset)) = offset + i
        BY <1>1
      <4>. QED  BY <2>4, <2>5, <2>6, <4>1, <4>2
    <3>. QED  BY <3>1, <3>2
  <2>8. page \o Rest(m) = Rest(offset)
    BY <2>5, <2>6, <2>7
  <2>9. Rest(m) # <<>>
    BY <1>1, <2>1, <2>4
  <2>. QED  BY <1>2, <2>2, <2>8, <2>9 DEF page, Rest, m, n
<1>3. CASE ~Truncated(text, offset, limit)
  <2>1. n <= m /\ Min({m, n}) = n
    BY <1>1, <1>3 DEF Truncated, Min
  <2>. QED  BY <1>3, <2>1 DEF Window
<1>. QED  BY <1>2, <1>3

\* Reading page after page collects the whole text, whatever its length and the limit.
THEOREM PagesMakeTheText ==
    ASSUME NEW S, NEW text \in Seq(S), NEW limit \in Nat, limit >= 1
    PROVE  Pages(text, limit) = text
<1>. DEFINE n == Len(text)
            Rest(k) == SubSeq(text, k + 1, n)
            Step(f) == [k \in 0..n |-> Window(text, k * limit, limit) \o
                           (IF Truncated(text, k * limit, limit) THEN f[k + 1] ELSE <<>>)]
            f == CHOOSE f : f = Step(f)
            g == [k \in 0..n |-> Rest(k * limit)]
<1>1. n \in Nat
  OBVIOUS
<1>2. ASSUME NEW k \in 0..n
      PROVE  /\ k * limit \in Nat /\ (k + 1) * limit = k * limit + limit /\ k * limit >= k
             /\ Truncated(text, k * limit, limit) => k + 1 \in 0..n /\ k < n
  <2>1. k * limit \in Nat /\ (k + 1) * limit = k * limit + limit
    BY <1>1
  <2>2. k * limit >= k
    <3>1. k * limit = k * (limit - 1) + k /\ k * (limit - 1) \in Nat
      BY <1>1
    <3>. QED  BY <1>1, <2>1, <3>1
  <2>. DEFINE m == k * limit
  <2>. HIDE DEF m
  <2>3. m \in Nat /\ m >= k
    BY <2>1, <2>2 DEF m
  <2>4. Truncated(text, m, limit) => k + 1 \in 0..n /\ k < n
    BY <1>1, <2>3 DEF Truncated
  <2>. QED  BY <2>1, <2>2, <2>4 DEF m
<1>3. ASSUME NEW k \in 0..n
      PROVE  /\ Truncated(text, k * limit, limit)
                  => Window(text, k * limit, limit) \o Rest((k + 1) * limit) = Rest(k * limit)
             /\ ~Truncated(text, k * limit, limit)
                  => Window(text, k * limit, limit) \o <<>> = Rest(k * limit)
  <2>. DEFINE m == k * limit
  <2>1. m \in Nat /\ (k + 1) * limit = m + limit
    BY <1>2
  <2>. HIDE DEF m
  <2>2. Truncated(text, m, limit) => Window(text, m, limit) \o Rest(m + limit) = Rest(m)
    BY <2>1, PagesMeet
  <2>3. ~Truncated(text, m, limit) => Window(text, m, limit) = Rest(m)
    BY <2>1, PagesMeet
  <2>4. Rest(m) \o <<>> = Rest(m)
    <3>1. Rest(m) \in Seq(S)
      BY <1>1, <2>1
    <3>. HIDE DEF Rest
    <3>. QED  BY <3>1, ConcatEmptySeq
  <2>. HIDE DEF Rest
  <2>. QED  BY <2>1, <2>2, <2>3, <2>4 DEF m
<1>. HIDE DEF Rest
<1>4. g = Step(g)
  <2>1. ASSUME NEW k \in 0..n
        PROVE  g[k] = Window(text, k * limit, limit) \o
                         (IF Truncated(text, k * limit, limit) THEN g[k + 1] ELSE <<>>)
    BY <1>2, <1>3
  <2>. DEFINE r == Step(g)
  <2>2. \A k \in 0..n : g[k] = r[k]
    BY <2>1
  <2>3. g = [k \in 0..n |-> g[k]]
    <3>. HIDE DEF Step, n
    <3>. QED  OBVIOUS
  <2>4. r = [k \in 0..n |-> r[k]]
    <3>. HIDE DEF g, n
    <3>. QED  BY Zenon
  <2>. HIDE DEF g, r, n, Step
  <2>5. g = r
    BY <2>2, <2>3, <2>4
  <2>. QED  BY <2>5 DEF r
<1>5. f = Step(f)
  <2>. HIDE DEF Step, g
  <2>. QED  BY <1>4
<1>. HIDE DEF f, g
<1>6. \A k \in 0..n : f[k] = Window(text, k * limit, limit) \o
                         (IF Truncated(text, k * limit, limit) THEN f[k + 1] ELSE <<>>)
  BY <1>5
<1>. DEFINE Q == {k \in 1..(n + 1) : f[k - 1] = Rest((k - 1) * limit)}
<1>7. n + 1 \in Q
  <2>1. n \in 0..n /\ (n + 1) - 1 = n /\ n + 1 \in 1..(n + 1)
    BY <1>1
  <2>2. ~Truncated(text, n * limit, limit)
    BY <1>2, <2>1
  <2>3. f[n] = Rest(n * limit)
    BY <1>3, <1>6, <2>1, <2>2
  <2>. HIDE DEF n
  <2>. QED  BY <2>1, <2>3
<1>8. ASSUME NEW i \in 1..n, i + 1 \in Q  PROVE i \in Q
  <2>. DEFINE k == i - 1
  <2>1. k \in 0..n /\ k + 1 = i /\ (i + 1) - 1 = i /\ i \in 1..(n + 1)
    BY <1>1
  <2>2. f[i] = Rest(i * limit)
    BY <1>8, <2>1
  <2>. HIDE DEF k, n
  <2>3. f[k] = Rest(k * limit)
    BY <1>3, <1>6, <2>1, <2>2
  <2>. QED  BY <2>1, <2>3 DEF k
<1>9. \A i \in 1..(n + 1) : i \in Q
  <2>. HIDE DEF Q, n, Step
  <2>. QED  BY <1>1, <1>7, <1>8, Downward
<1>10. f[0] = Rest(0)
  <2>1. 1 \in 1..(n + 1) /\ 1 - 1 = 0 /\ 0 * limit = 0
    BY <1>1
  <2>. HIDE DEF n
  <2>. QED  BY <1>9, <2>1
<1>11. Rest(0) = text
  BY SubSeqFull DEF Rest
<1>. QED  BY <1>10, <1>11 DEF Pages, f, Step, n

\* Every text that a client pages through, by any limit, comes back whole.
THEOREM PagesMakeEveryText == Spec => []PagesCover
<1>1. Typed => PagesCover
  BY PagesMakeTheText DEF Typed, PagesCover
<1>. QED  BY <1>1, TypedAlways, PTL
==============================================================================

-------------------------- MODULE FilesServiceProofs --------------------------
(***************************************************************************)
(* What the operations on files change and return, for every set of         *)
(* workspaces, requests, links and texts: nothing but what they name,       *)
(* nothing of another workspace, and what they report; and that the checks  *)
(* see through every link that was there before the call.                   *)
(*                                                                         *)
(* A path that has been resolved has no link in it, so only one that was    *)
(* put there since can lead it elsewhere.  What a text is made of is        *)
(* followed through decoding, cutting and replacing as the set its          *)
(* characters are in.                                                       *)
(***************************************************************************)
EXTENDS FilesService, FiniteSetTheorems, SequenceTheorems, WellFoundedInduction, TLAPS

\* What the assumption says, part by part.
LEMMA NamesKnown == Meta \in Names /\ (Names \cup Workspaces) \cap Dots = {}
BY FilesAssumption
LEMMA MarksKnown == LF \in Chars /\ MARK \in Chars /\ Origin[LF] = Anyone /\ Origin[MARK] = Anyone
BY FilesAssumption
LEMMA RequestsKnown == Requests \cup Batches \subseteq AllRequests
BY FilesAssumption
LEMMA TextsKnown == Texts \subseteq Seq(Chars)
BY FilesAssumption
LEMMA TargetsKnown == Targets \subseteq Locs /\ \A t \in Targets : Len(t) <= 2
BY FilesAssumption
LEMMA TreesKnown == \A i \in InitialTrees :
    /\ i.tree \in [Locs -> Nodes] /\ Belongs(i.tree)
    /\ i.link \in [Locs -> Targets \cup {NoLink}] /\ Unchained(i.link)
BY FilesAssumption
LEMMA BoundsKnown == ReadLimit \in Nat /\ MaxCalls \in Nat /\ MaxBatches \in Nat /\ MaxEdits \in Nat
BY FilesAssumption

------------------------------------------------------------------------------
(* Functions that recursion makes, and what FlattenSeq puts together.        *)

\* A set of naturals has a least element.
LEMMA Least ==
    ASSUME NEW T, T \subseteq Nat, T # {}
    PROVE  \E x \in T : \A y \in T : x <= y
<1>. DEFINE R == OpToRel(<, Nat)
<1>1. IsWellFoundedOn(R, Nat)
  BY NatLessThanWellFounded
<1>2. \A x, y \in Nat : x < y => <<x, y>> \in R
  BY DEF OpToRel
<1>. HIDE DEF R
<1>3. PICK x \in T : \A y \in T : ~(<<y, x>> \in R)
  BY <1>1, WFMin
<1>4. ASSUME NEW y \in T  PROVE x <= y
  <2>1. x \in Nat /\ y \in Nat
    OBVIOUS
  <2>2. ~(y < x)
    BY <1>2, <1>3, <2>1
  <2>. QED  BY <2>1, <2>2
<1>. QED  BY <1>4

\* A set with 0 that goes on as far as n has all up to n.
LEMMA Upward ==
    ASSUME NEW n \in Nat, NEW Q, 0 \in Q, \A i \in 0..(n - 1) : i \in Q => i + 1 \in Q
    PROVE  \A i \in 0..n : i \in Q
<1>. DEFINE T == (0..n) \ Q
<1>1. SUFFICES ASSUME T # {}  PROVE FALSE
  OBVIOUS
<1>2. T \subseteq Nat
  OBVIOUS
<1>. HIDE DEF T
<1>3. PICK x \in T : \A y \in T : x <= y
  BY <1>1, <1>2, Least
<1>4. x \in 0..n /\ x \notin Q /\ x # 0
  BY DEF T
<1>5. x - 1 \in 0..(n - 1)
  BY <1>4
<1>6. x - 1 \notin T
  BY <1>3, <1>4
<1>7. x - 1 \in Q
  BY <1>4, <1>5, <1>6 DEF T
<1>. QED  BY <1>4, <1>5, <1>7

\* A function that goes up from 0 by the steps g.
GoesUp(h, n, V, base, g) ==
    h \in [0..n -> V] /\ h[0] = base /\ \A i \in 1..n : h[i] = g[i][h[i - 1]]

\* There is a function that starts with base and goes on by the steps g.
LEMMA StepsUp ==
    ASSUME NEW n \in Nat, NEW V, NEW base \in V, NEW g \in [1..n -> [V -> V]]
    PROVE  \E h : GoesUp(h, n, V, base, g)
<1>. DEFINE Good(m) == \E h \in [0..n -> V] : h[0] = base /\ \A i \in 1..m : h[i] = g[i][h[i - 1]]
            Q == {m \in 0..n : Good(m)}
<1>1. 0 \in Q
  <2>. DEFINE h == [i \in 0..n |-> base]
  <2>1. h \in [0..n -> V] /\ h[0] = base /\ \A i \in 1..0 : h[i] = g[i][h[i - 1]]
    OBVIOUS
  <2>. HIDE DEF h
  <2>2. Good(0)
    BY <2>1
  <2>. QED  BY <2>2
<1>2. ASSUME NEW m \in 0..(n - 1), m \in Q  PROVE m + 1 \in Q
  <2>1. PICK h \in [0..n -> V] : h[0] = base /\ \A i \in 1..m : h[i] = g[i][h[i - 1]]
    BY <1>2
  <2>. DEFINE k == [h EXCEPT ![m + 1] = g[m + 1][h[m]]]
  <2>2. m + 1 \in 1..n /\ m \in 0..n
    OBVIOUS
  <2>3. g[m + 1][h[m]] \in V
    BY <2>2
  <2>4. k \in [0..n -> V] /\ k[0] = base /\ k[m + 1] = g[m + 1][h[m]]
        /\ \A i \in 0..n : i # m + 1 => k[i] = h[i]
    BY <2>1, <2>2, <2>3
  <2>. HIDE DEF k
  <2>5. ASSUME NEW i \in 1..(m + 1)  PROVE k[i] = g[i][k[i - 1]]
    <3>1. i \in 0..n /\ i - 1 \in 0..n /\ i - 1 # m + 1
      BY <2>2
    <3>2. k[i - 1] = h[i - 1]
      BY <2>4, <3>1
    <3>3. CASE i = m + 1
      BY <2>4, <3>2, <3>3
    <3>4. CASE i # m + 1
      <4>1. i \in 1..m
        BY <3>4
      <4>. QED  BY <2>1, <2>4, <3>1, <3>2, <3>4, <4>1
    <3>. QED  BY <3>3, <3>4
  <2>6. Good(m + 1)
    BY <2>4, <2>5
  <2>. QED  BY <2>2, <2>6
<1>. HIDE DEF Q
<1>3. \A m \in 0..n : m \in Q
  BY <1>1, <1>2, Upward
<1>4. n \in Q
  BY <1>3
<1>. QED  BY <1>4 DEF Q, GoesUp

\* The pieces put together one by one.
LEMMA FlattenIs ==
    ASSUME NEW I, NEW ss \in Seq(Seq(I))
    PROVE  \E f : /\ f \in [0..Len(ss) -> Seq(I)] /\ f[0] = <<>>
                  /\ \A i \in 1..Len(ss) : f[i] = f[i - 1] \o ss[i]
                  /\ FlattenSeq(ss) = f[Len(ss)]
<1>. DEFINE n == Len(ss)
            V == Seq(I)
            g == [i \in 1..n |-> [x \in V |-> x \o ss[i]]]
            Step(m) == [i \in 1..n |-> IF i = 1 THEN ss[i] ELSE m[i - 1] \o ss[i]]
            m == CHOOSE m : m = Step(m)
<1>1. n \in Nat /\ \A i \in 1..n : ss[i] \in V
  OBVIOUS
<1>2. g \in [1..n -> [V -> V]] /\ <<>> \in V
  OBVIOUS
<1>3. PICK f : GoesUp(f, n, V, <<>>, g)
  <2>. HIDE DEF g, n, V
  <2>. QED  BY <1>1, <1>2, StepsUp
<1>4. /\ f \in [0..n -> V] /\ f[0] = <<>>
      /\ \A i \in 1..n : f[i] = f[i - 1] \o ss[i]
  <2>1. \A i \in 1..n : i - 1 \in 0..n
    BY <1>1
  <2>. QED  BY <1>3, <2>1 DEF GoesUp
<1>5. CASE n = 0
  <2>1. ss = <<>> /\ FlattenSeq(ss) = ss
    BY <1>5 DEF FlattenSeq
  <2>. QED  BY <1>4, <1>5, <2>1
<1>6. CASE n # 0
  <2>. DEFINE r == [i \in 1..n |-> f[i]]
  <2>1. r = Step(r)
    <3>1. ASSUME NEW i \in 1..n  PROVE f[i] = IF i = 1 THEN ss[i] ELSE r[i - 1] \o ss[i]
      <4>1. CASE i = 1
        <5>1. ss[1] \in V /\ f[1] = <<>> \o ss[1]
          <6>1. 1 \in 1..n /\ 1 - 1 = 0
            BY <1>1, <1>6
          <6>. QED  BY <1>1, <1>4, <6>1
        <5>. QED  BY <4>1, <5>1
      <4>2. CASE i # 1
        <5>1. i - 1 \in 1..n
          BY <1>1, <4>2
        <5>. QED  BY <1>4, <4>2, <5>1
      <4>. QED  BY <4>1, <4>2
    <3>. QED  BY <3>1
  <2>2. m = Step(m)
    <3>. HIDE DEF Step, r
    <3>. QED  BY <2>1
  <2>. HIDE DEF m
  <2>3. \A i \in 1..n : m[i] = IF i = 1 THEN ss[i] ELSE m[i - 1] \o ss[i]
    BY <2>2
  <2>4. \A i \in 1..n : f[i] = IF i = 1 THEN ss[i] ELSE f[i - 1] \o ss[i]
    <3>1. \A i \in 1..n : r[i] = IF i = 1 THEN ss[i] ELSE r[i - 1] \o ss[i]
      BY <2>1
    <3>2. \A i \in 1..n : i # 1 => i - 1 \in 1..n
      BY <1>1
    <3>. QED  BY <3>1, <3>2
  <2>. DEFINE Q == {i \in 0..n : i = 0 \/ m[i] = f[i]}
  <2>5. 0 \in Q
    BY <1>1
  <2>6. ASSUME NEW i \in 0..(n - 1), i \in Q  PROVE i + 1 \in Q
    <3>1. i + 1 \in 1..n /\ (i + 1) - 1 = i /\ (i + 1 = 1 <=> i = 0)
      BY <1>1
    <3>2. m[i + 1] = f[i + 1]
      BY <2>3, <2>4, <2>6, <3>1
    <3>. QED  BY <3>1, <3>2
  <2>. HIDE DEF Q, n, Step
  <2>7. \A i \in 0..n : i \in Q
    BY <1>1, <2>5, <2>6, Upward
  <2>8. m[n] = f[n]
    BY <1>1, <1>6, <2>7 DEF Q
  <2>9. FlattenSeq(ss) = m[n]
    BY <1>6 DEF FlattenSeq, m, Step, n
  <2>. QED  BY <1>4, <2>8, <2>9 DEF n
<1>. QED  BY <1>5, <1>6

\* The pieces together are a sequence of what they are sequences of.
LEMMA FlattenType ==
    ASSUME NEW I, NEW ss \in Seq(Seq(I))
    PROVE  FlattenSeq(ss) \in Seq(I)
<1>1. PICK f : f \in [0..Len(ss) -> Seq(I)] /\ FlattenSeq(ss) = f[Len(ss)]
  BY FlattenIs
<1>. QED  BY <1>1

------------------------------------------------------------------------------
(* Texts: what they are made of stays in the set I.                          *)

\* Sequences that are cut out of a sequence.
LEMMA PartType ==
    ASSUME NEW I, NEW s \in Seq(I), NEW a \in Nat, NEW b \in Nat, 1 <= a, b <= Len(s)
    PROVE  SubSeq(s, a, b) \in Seq(I)
<1>1. SubSeq(s, a, b) = [i \in 1..(1 + b - a) |-> s[a + i - 1]]
  BY DEF SubSeq
<1>2. \A i \in 1..(1 + b - a) : s[a + i - 1] \in I
  OBVIOUS
<1>. QED  BY <1>1, <1>2

\* The characters at some places.
LEMMA KeptType ==
    ASSUME NEW I, NEW text \in Seq(I), NEW J
    PROVE  Kept(text, J) \in Seq(I)
<1>. DEFINE ss == [i \in DOMAIN text |-> IF i \in J THEN <<text[i]>> ELSE <<>>]
<1>1. DOMAIN text = 1..Len(text) /\ Len(text) \in Nat /\ \A i \in 1..Len(text) : text[i] \in I
  OBVIOUS
<1>2. \A i \in 1..Len(text) : <<text[i]>> \in Seq(I) /\ <<>> \in Seq(I)
  BY <1>1
<1>3. ss \in Seq(Seq(I))
  BY <1>1, <1>2
<1>. HIDE DEF ss
<1>4. FlattenSeq(ss) \in Seq(I)
  BY <1>3, FlattenType
<1>. QED  BY <1>4 DEF Kept, ss

LEMMA DecodedType ==
    ASSUME NEW I, NEW text \in Seq(I), MARK \in I
    PROVE  Decoded(text) \in Seq(I)
BY DEF Decoded

LEMMA TranslatedType ==
    ASSUME NEW I, NEW text \in Seq(I), LF \in I
    PROVE  Translated(text) \in Seq(I)
<1>. DEFINE t == [i \in DOMAIN text |-> IF text[i] = CR THEN LF ELSE text[i]]
<1>1. t \in Seq(I)
  OBVIOUS
<1>. HIDE DEF t
<1>2. \A J : Kept(t, J) \in Seq(I)
  BY <1>1, KeptType
<1>. QED  BY <1>2 DEF Translated, t

\* The lines are texts, and a number of them.
LEMMA SplitLinesType ==
    ASSUME NEW I, NEW text \in Seq(I)
    PROVE  SplitLines(text) \in Seq(Seq(I))
<1>1. CASE text = <<>>
  <2>1. <<>> \in Seq(Seq(I))
    OBVIOUS
  <2>. QED  BY <1>1, <2>1 DEF SplitLines
<1>2. CASE text # <<>>
  <2>. DEFINE n == LineOf(text, Len(text))
              line(k) == Kept(text, {i \in DOMAIN text : LineOf(text, i) = k})
  <2>1. n \in Nat
    <3>. DEFINE T == {j \in 1..(Len(text) - 1) : EndsLine(text, j)}
    <3>1. Len(text) \in Nat /\ 1 \in Int /\ Len(text) - 1 \in Int
      OBVIOUS
    <3>2. IsFiniteSet(1..(Len(text) - 1))
      BY <3>1, FS_Interval
    <3>3. IsFiniteSet(T)
      BY <3>2, FS_Subset
    <3>4. Cardinality(T) \in Nat
      BY <3>3, FS_CardinalityType
    <3>. QED  BY <3>4 DEF LineOf
  <2>2. \A k \in 1..n : line(k) \in Seq(I)
    BY KeptType
  <2>. DEFINE ls == [k \in 1..n |-> line(k)]
  <2>. HIDE DEF line, n
  <2>3. ls \in Seq(Seq(I))
    BY <2>1, <2>2
  <2>4. SplitLines(text) = ls
    BY <1>2 DEF SplitLines, ls, line, n
  <2>. QED  BY <2>3, <2>4
<1>. QED  BY <1>1, <1>2

\* A window is cut out of the lines.
LEMMA WindowType ==
    ASSUME NEW I, NEW lines \in Seq(I), NEW offset \in Nat, NEW limit \in Nat
    PROVE  Window(lines, offset, limit) \in Seq(I)
<1>. DEFINE m == Min({offset + limit, Len(lines)})
<1>1. Len(lines) \in Nat
  OBVIOUS
<1>2. m \in Nat /\ m <= Len(lines)
  <2>1. CASE offset + limit <= Len(lines)
    BY <1>1, <2>1 DEF Min
  <2>2. CASE ~(offset + limit <= Len(lines))
    BY <1>1, <2>2 DEF Min
  <2>. QED  BY <2>1, <2>2
<1>. HIDE DEF m
<1>3. SubSeq(lines, offset + 1, m) \in Seq(I)
  BY <1>2, PartType
<1>. QED  BY <1>3 DEF Window, m

\* A text with another one in some places.
LEMMA SubstitutedType ==
    ASSUME NEW I, NEW text \in Seq(I), NEW places, NEW old, NEW new \in Seq(I)
    PROVE  Substituted(text, places, old, new) \in Seq(I)
<1>. DEFINE here(i) == IF i \in places THEN new ELSE <<>>
            kept(i) == IF i > Len(text) \/ \E p \in places : i \in p..(p + Len(old) - 1)
                       THEN <<>> ELSE <<text[i]>>
            ss == [i \in 1..(Len(text) + 1) |-> here(i) \o kept(i)]
<1>1. Len(text) \in Nat /\ <<>> \in Seq(I)
  OBVIOUS
<1>2. \A i \in 1..(Len(text) + 1) : here(i) \in Seq(I)
  BY <1>1
<1>3. \A i \in 1..(Len(text) + 1) : i <= Len(text) => <<text[i]>> \in Seq(I)
  BY <1>1
<1>4. \A i \in 1..(Len(text) + 1) : kept(i) \in Seq(I)
  BY <1>1, <1>3
<1>. HIDE DEF here, kept
<1>5. \A i \in 1..(Len(text) + 1) : here(i) \o kept(i) \in Seq(I)
  BY <1>2, <1>4
<1>6. ss \in Seq(Seq(I))
  BY <1>1, <1>5
<1>. HIDE DEF ss
<1>7. FlattenSeq(ss) \in Seq(I)
  BY <1>6, FlattenType
<1>. QED  BY <1>7 DEF Substituted, ss, here, kept

\* The characters of some origins.
CharsOf(S) == {c \in Chars : Origin[c] \in S \cup {Anyone}}
LEMMA FromIs ==
    ASSUME NEW S, NEW text
    PROVE  text \in Seq(Chars) /\ From(text, S) <=> text \in Seq(CharsOf(S))
BY DEF From, CharsOf
LEMMA NoText == ASSUME NEW S  PROVE <<>> \in Seq(Chars) /\ From(<<>>, S)
BY DEF From
LEMMA Marks == ASSUME NEW S  PROVE LF \in CharsOf(S) /\ MARK \in CharsOf(S)
BY MarksKnown DEF CharsOf

\* What the operations make of a text has the origins of the text.
LEMMA TextFacts ==
    ASSUME NEW S, NEW text \in Seq(Chars), From(text, S)
    PROVE  /\ Translated(text) \in Seq(Chars) /\ From(Translated(text), S)
           /\ \A k \in DOMAIN SplitLines(Decoded(text)) :
                 From(Bare(SplitLines(Decoded(text))[k]), S)
           /\ \A old : \A new \in Seq(Chars) : From(new, S) =>
                 Replaced(text, old, new) \in Seq(Chars) /\ From(Replaced(text, old, new), S)
<1>. DEFINE I == CharsOf(S)
            lines == SplitLines(Decoded(text))
<1>1. text \in Seq(I) /\ LF \in I /\ MARK \in I
  BY FromIs, Marks
<1>. HIDE DEF I
<1>2. \A t : t \in Seq(Chars) /\ From(t, S) <=> t \in Seq(I)
  BY FromIs DEF I
<1>3. Translated(text) \in Seq(I)
  BY <1>1, TranslatedType
<1>4. lines \in Seq(Seq(I))
  BY <1>1, DecodedType, SplitLinesType
<1>5. ASSUME NEW k \in DOMAIN lines  PROVE From(Bare(lines[k]), S)
  <2>1. lines[k] \in Seq(I)
    BY <1>4
  <2>. HIDE DEF lines
  <2>2. Bare(lines[k]) \in Seq(I)
    BY <2>1, KeptType DEF Bare
  <2>. QED  BY <1>2, <2>2
<1>6. ASSUME NEW old, NEW new \in Seq(Chars), From(new, S)
      PROVE  Replaced(text, old, new) \in Seq(I)
  <2>1. new \in Seq(I)
    BY <1>2, <1>6
  <2>. QED  BY <1>1, <2>1, SubstitutedType DEF Replaced
<1>. QED  BY <1>2, <1>3, <1>5, <1>6
LEMMA ContentFrom ==
    ASSUME NEW S, NEW text \in Seq(Chars), From(text, S), call.q.offset \in Nat, Limit \in Nat
    PROVE  From(Content(text), S)
<1>. DEFINE I == CharsOf(S)
            lines == SplitLines(Decoded(text))
            window == Window(lines, call.q.offset, Limit)
<1>1. text \in Seq(I) /\ MARK \in I
  BY FromIs, Marks
<1>2. \A t : t \in Seq(I) => From(t, S)
  BY FromIs
<1>. HIDE DEF I
<1>3. lines \in Seq(Seq(I))
  BY <1>1, DecodedType, SplitLinesType
<1>. HIDE DEF lines
<1>4. window \in Seq(Seq(I))
  BY <1>3, WindowType
<1>. HIDE DEF window
<1>5. FlattenSeq(window) \in Seq(I)
  BY <1>4, FlattenType
<1>. QED  BY <1>2, <1>5 DEF Content, window, lines

------------------------------------------------------------------------------
(* Places and links.                                                         *)

\* Places are short sequences that begin with a workspace.
LEMMA LocFacts ==
    ASSUME NEW l \in Locs
    PROVE  l \in Seq(Workspaces \cup Names) /\ Len(l) \in 1..3 /\ l[1] \in Workspaces
<1>1. ASSUME NEW w \in Workspaces, l = <<w>>
      PROVE  l \in Seq(Workspaces \cup Names) /\ Len(l) \in 1..3 /\ l[1] \in Workspaces
  BY <1>1
<1>2. ASSUME NEW w \in Workspaces, NEW n \in Names, l = <<w, n>>
      PROVE  l \in Seq(Workspaces \cup Names) /\ Len(l) \in 1..3 /\ l[1] \in Workspaces
  BY <1>2
<1>3. ASSUME NEW w \in Workspaces, NEW n \in Names, NEW m \in Names, l = <<w, n, m>>
      PROVE  l \in Seq(Workspaces \cup Names) /\ Len(l) \in 1..3 /\ l[1] \in Workspaces
  BY <1>3
<1>. QED  BY <1>1, <1>2, <1>3 DEF Locs

\* What is inside a workspace begins with its name; what is above a place that is not
\* reserved is in the same workspace and not reserved either.
LEMMA WithinFirst == ASSUME NEW w, NEW l \in Locs, Within(w, l)  PROVE l[1] = w
<1>1. Len(<<w>>) = 1 /\ SubSeq(<<w>>, 1, 1)[1] = w
  OBVIOUS
<1>2. l \in Seq(Workspaces \cup Names) /\ Len(l) \in 1..3
  BY LocFacts
<1>3. SubSeq(l, 1, 1)[1] = l[1]
  BY <1>2
<1>. QED  BY <1>1, <1>3 DEF Within, IsPrefix
LEMMA PrefixFirst ==
    ASSUME NEW l \in Locs, NEW m \in Locs, IsPrefix(m, l)
    PROVE  m[1] = l[1] /\ (Reserved(m) => Reserved(l))
<1>1. /\ l \in Seq(Workspaces \cup Names) /\ Len(l) \in 1..3
      /\ m \in Seq(Workspaces \cup Names) /\ Len(m) \in 1..3
  BY LocFacts
<1>2. Len(m) <= Len(l) /\ SubSeq(m, 1, Len(m)) = SubSeq(l, 1, Len(m))
  BY DEF IsPrefix
<1>3. \A i \in 1..Len(m) : SubSeq(m, 1, Len(m))[i] = m[i] /\ SubSeq(l, 1, Len(m))[i] = l[i]
  BY <1>1, <1>2
<1>4. \A i \in 1..Len(m) : m[i] = l[i]
  BY <1>2, <1>3
<1>. QED  BY <1>1, <1>2, <1>4 DEF Reserved

\* A child of a place in a workspace is in that workspace.
LEMMA ChildFirst == ASSUME NEW l \in Locs, NEW m \in Children(l)  PROVE m \in Locs /\ m[1] = l[1]
<1>1. m \in Locs /\ IsPrefix(l, m)
  BY DEF Children
<1>. QED  BY <1>1, PrefixFirst

\* No link on the way to a location, or none but those that commands have put there since
\* the call began.
Trail == Seq(Workspaces \cup Names)
Unlinked(l) == \A k \in 1..Len(l) : ~IsLink(SubSeq(l, 1, k))
SeenThrough(l) == \A k \in 1..Len(l) : IsLink(SubSeq(l, 1, k)) => SubSeq(l, 1, k) \in swapped

\* The beginning of a sequence.
LEMMA Beginning ==
    ASSUME NEW S, NEW s \in Seq(S), NEW n \in Nat, n <= Len(s)
    PROVE  /\ SubSeq(s, 1, n) \in Seq(S) /\ Len(SubSeq(s, 1, n)) = n
           /\ \A i \in 1..n : SubSeq(s, 1, n)[i] = s[i]
           /\ n = Len(s) => SubSeq(s, 1, n) = s
<1>. DEFINE b == [i \in 1..n |-> s[i]]
<1>1. Len(s) \in Nat /\ \A i \in 1..n : i \in 1..Len(s) /\ 1 + i - 1 = i /\ 1 + n - 1 = n
  OBVIOUS
<1>2. SubSeq(s, 1, n) = b
  <2>1. SubSeq(s, 1, n) = [i \in 1..(1 + n - 1) |-> s[1 + i - 1]]
    BY DEF SubSeq
  <2>. QED  BY <1>1, <2>1
<1>3. b \in Seq(S) /\ Len(b) = n /\ \A i \in 1..n : b[i] = s[i]
  BY <1>1
<1>4. n = Len(s) => b = s
  BY <1>1
<1>. HIDE DEF b
<1>. QED  BY <1>2, <1>3, <1>4

LEMMA LocTrail == ASSUME NEW l \in Locs  PROVE l \in Trail /\ Len(l) \in 1..3
BY LocFacts DEF Trail

\* What is on the way there of a location with one name more, or one less.
LEMMA TrailFacts ==
    ASSUME NEW l \in Trail, NEW n \in Workspaces \cup Names
    PROVE  /\ Append(l, n) \in Trail /\ Len(Append(l, n)) = Len(l) + 1
           /\ \A k \in 1..Len(l) : SubSeq(Append(l, n), 1, k) = SubSeq(l, 1, k)
           /\ SubSeq(Append(l, n), 1, Len(l) + 1) = Append(l, n)
<1>. DEFINE more == Append(l, n)
<1>1. more \in Trail /\ Len(more) = Len(l) + 1 /\ Len(l) \in Nat /\ \A i \in 1..Len(l) : more[i] = l[i]
  BY DEF Trail
<1>. HIDE DEF more
<1>2. ASSUME NEW k \in 1..Len(l)  PROVE SubSeq(more, 1, k) = SubSeq(l, 1, k)
  <2>1. /\ SubSeq(more, 1, k) = [i \in 1..(1 + k - 1) |-> more[1 + i - 1]]
        /\ SubSeq(l, 1, k) = [i \in 1..(1 + k - 1) |-> l[1 + i - 1]]
    BY DEF SubSeq
  <2>2. \A i \in 1..(1 + k - 1) : more[1 + i - 1] = l[1 + i - 1]
    BY <1>1
  <2>. QED  BY <2>1, <2>2
<1>3. SubSeq(more, 1, Len(more)) = more
  BY <1>1 DEF Trail
<1>. QED  BY <1>1, <1>2, <1>3 DEF more
LEMMA FrontFacts ==
    ASSUME NEW l \in Trail, l # <<>>
    PROVE  /\ Front(l) \in Trail /\ Len(Front(l)) = Len(l) - 1 /\ Front(l) = SubSeq(l, 1, Len(l) - 1)
           /\ \A k \in 1..Len(Front(l)) : SubSeq(Front(l), 1, k) = SubSeq(l, 1, k)
           /\ Last(l) \in Workspaces \cup Names /\ Append(Front(l), Last(l)) = l
<1>. DEFINE less == SubSeq(l, 1, Len(l) - 1)
<1>1. Len(l) \in Nat \ {0} /\ l[Len(l)] \in Workspaces \cup Names
  BY DEF Trail
<1>2. less \in Trail /\ Len(less) = Len(l) - 1 /\ \A i \in 1..(Len(l) - 1) : less[i] = l[i]
  <2>1. Len(l) - 1 \in Nat /\ Len(l) - 1 <= Len(l)
    BY <1>1
  <2>. QED  BY <2>1, Beginning DEF Trail
<1>. HIDE DEF less
<1>3. ASSUME NEW k \in 1..Len(less)  PROVE SubSeq(less, 1, k) = SubSeq(l, 1, k)
  <2>1. /\ SubSeq(less, 1, k) = [i \in 1..(1 + k - 1) |-> less[1 + i - 1]]
        /\ SubSeq(l, 1, k) = [i \in 1..(1 + k - 1) |-> l[1 + i - 1]]
    BY DEF SubSeq
  <2>2. \A i \in 1..(1 + k - 1) : less[1 + i - 1] = l[1 + i - 1]
    BY <1>1, <1>2
  <2>. QED  BY <2>1, <2>2
<1>4. Append(less, l[Len(l)]) = l
  <2>1. /\ Append(less, l[Len(l)]) \in Seq(Workspaces \cup Names) /\ Len(Append(less, l[Len(l)])) = Len(l)
        /\ \A i \in 1..Len(l) : Append(less, l[Len(l)])[i] = l[i]
    BY <1>1, <1>2 DEF Trail
  <2>. QED  BY <2>1 DEF Trail
<1>. QED  BY <1>1, <1>2, <1>3, <1>4 DEF Front, Last, less

\* What a link leads to has no link in it.
LEMMA LinkFacts ==
    ASSUME link \in [Locs -> Targets \cup {NoLink}], Unchained(link), NEW l, IsLink(l)
    PROVE  link[l] \in Locs /\ Unlinked(link[l])
<1>1. l \in Locs /\ link[l] \in Locs /\ link[l] \in Targets /\ Len(link[l]) <= 2
      /\ link[link[l]] = NoLink
  BY TargetsKnown DEF IsLink, Unchained
<1>. DEFINE t == link[l]
<1>2. t \in Trail /\ (Len(t) = 1 \/ Len(t) = 2) /\ t[1] \in Workspaces
  <2>1. t \in Seq(Workspaces \cup Names) /\ Len(t) \in 1..3 /\ t[1] \in Workspaces /\ Len(t) <= 2
    BY <1>1, LocFacts
  <2>. HIDE DEF t
  <2>. QED  BY <2>1 DEF Trail
<1>. HIDE DEF t
<1>3. SubSeq(t, 1, 1) = <<t[1]>> /\ SubSeq(t, 1, Len(t)) = t
  <2>. DEFINE b == SubSeq(t, 1, 1)
  <2>1. b \in Trail /\ Len(b) = 1 /\ b[1] = t[1]
    BY <1>2, Beginning DEF Trail
  <2>2. SubSeq(t, 1, Len(t)) = t
    BY <1>2, Beginning DEF Trail
  <2>. HIDE DEF b
  <2>3. b = <<t[1]>>
    BY <2>1 DEF Trail
  <2>. QED  BY <2>2, <2>3 DEF b
<1>4. ASSUME NEW k \in 1..Len(t)  PROVE ~IsLink(SubSeq(t, 1, k))
  <2>1. k = 1 \/ k = Len(t)
    <3>1. CASE Len(t) = 1
      BY <3>1
    <3>2. CASE Len(t) = 2
      BY <3>2
    <3>. QED  BY <1>2, <3>1, <3>2
  <2>2. CASE k = 1
    BY <1>2, <1>3, <2>2 DEF IsLink, Unchained
  <2>3. CASE k = Len(t)
    BY <1>1, <1>3, <2>3 DEF IsLink, t
  <2>. QED  BY <2>1, <2>2, <2>3
<1>. QED  BY <1>1, <1>4 DEF Unlinked, t

\* Resolving another name of a path leads on to a location without links.
LEMMA ResolveType ==
    ASSUME link \in [Locs -> Targets \cup {NoLink}], Unchained(link),
           NEW l \in Trail, Unlinked(l), NEW part \in Names \cup Workspaces \cup Dots
    PROVE  Resolve(l, part) \in Trail /\ Unlinked(Resolve(l, part))
<1>1. CASE part = "." \/ (part = ".." /\ l = <<>>)
  BY <1>1 DEF Resolve
<1>2. CASE part = ".." /\ l # <<>>
  <2>1. Resolve(l, part) = Front(l)
    BY <1>2 DEF Resolve
  <2>2. \A k \in 1..Len(Front(l)) : k \in 1..Len(l) /\ SubSeq(Front(l), 1, k) = SubSeq(l, 1, k)
    <3>1. Len(l) \in Nat
      BY DEF Trail
    <3>. QED  BY <1>2, <3>1, FrontFacts
  <2>. QED  BY <1>2, <2>1, <2>2, FrontFacts DEF Unlinked
<1>3. CASE part \notin Dots
  <2>. DEFINE more == Append(l, part)
  <2>1. Resolve(l, part) = Followed(more)
    BY <1>3 DEF Resolve, Dots
  <2>2. part \in Workspaces \cup Names
    BY <1>3
  <2>3. /\ more \in Trail /\ Len(more) = Len(l) + 1 /\ Len(l) \in Nat
        /\ \A k \in 1..Len(l) : SubSeq(more, 1, k) = SubSeq(l, 1, k)
        /\ SubSeq(more, 1, Len(l) + 1) = more
    BY <2>2, TrailFacts DEF Trail
  <2>. HIDE DEF more
  <2>4. CASE IsLink(more)
    BY <2>1, <2>4, LinkFacts, LocTrail DEF Followed
  <2>5. CASE ~IsLink(more)
    <3>1. ASSUME NEW k \in 1..Len(more)  PROVE ~IsLink(SubSeq(more, 1, k))
      <4>1. CASE k = Len(l) + 1
        BY <2>3, <2>5, <4>1
      <4>2. CASE k # Len(l) + 1
        <5>1. k \in 1..Len(l)
          BY <2>3, <4>2
        <5>. QED  BY <2>3, <5>1 DEF Unlinked
      <4>. QED  BY <4>1, <4>2
    <3>. QED  BY <2>1, <2>3, <2>5, <3>1 DEF Followed, Unlinked
  <2>. QED  BY <2>4, <2>5
<1>. QED  BY <1>1, <1>2, <1>3 DEF Dots

\* So does resolving the whole path.
LEMMA ResolvedType ==
    ASSUME link \in [Locs -> Targets \cup {NoLink}], Unchained(link),
           NEW w \in Workspaces, NEW path \in Paths
    PROVE  Resolved(w, path) \in Trail /\ Unlinked(Resolved(w, path))
<1>. DEFINE parts == path.parts
            n == Len(parts)
            V == {l \in Trail : Unlinked(l)}
            base == <<w>>
            g == [i \in 1..n |-> [l \in V |-> Resolve(l, parts[i])]]
            Step(m) == [i \in 0..n |-> IF i = 0 THEN base ELSE Resolve(m[i - 1], parts[i])]
            m == CHOOSE m : m = Step(m)
<1>1. n \in Nat /\ \A i \in 1..n : parts[i] \in Names \cup Workspaces \cup Dots
  BY DEF Paths
<1>2. base \in V
  <2>1. base \in Trail /\ Len(base) = 1 /\ SubSeq(base, 1, 1) = <<w>>
    <3>1. base \in Trail /\ Len(base) = 1
      BY DEF Trail
    <3>2. SubSeq(base, 1, 1) = base
      <4>. HIDE DEF base
      <4>. QED  BY <3>1, Beginning DEF Trail
    <3>. QED  BY <3>1, <3>2 DEF base
  <2>2. ~IsLink(<<w>>)
    BY DEF IsLink, Unchained
  <2>. HIDE DEF base
  <2>3. ASSUME NEW k \in 1..Len(base)  PROVE ~IsLink(SubSeq(base, 1, k))
    <3>1. k = 1
      BY <2>1
    <3>. QED  BY <2>1, <2>2, <3>1
  <2>4. Unlinked(base)
    BY <2>3 DEF Unlinked
  <2>. QED  BY <2>1, <2>4
<1>. HIDE DEF parts, n, base
<1>3. \A i \in 1..n : \A l \in V : Resolve(l, parts[i]) \in V
  BY <1>1, ResolveType
<1>4. g \in [1..n -> [V -> V]]
  <2>. HIDE DEF V
  <2>. QED  BY <1>1, <1>3
<1>5. PICK f : GoesUp(f, n, V, base, g)
  <2>. HIDE DEF g, V
  <2>. QED  BY <1>1, <1>2, <1>4, StepsUp
<1>6. f \in [0..n -> V] /\ f[0] = base /\ \A i \in 1..n : f[i] = Resolve(f[i - 1], parts[i])
  <2>. HIDE DEF V
  <2>1. f \in [0..n -> V] /\ f[0] = base /\ \A i \in 1..n : f[i] = g[i][f[i - 1]]
    BY <1>5 DEF GoesUp
  <2>2. \A i \in 1..n : i - 1 \in 0..n
    BY <1>1
  <2>. QED  BY <2>1, <2>2
<1>7. m = Step(m)
  <2>1. f = Step(f)
    <3>1. \A i \in 0..n : f[i] = IF i = 0 THEN base ELSE Resolve(f[i - 1], parts[i])
      BY <1>1, <1>6
    <3>2. f = [i \in 0..n |-> f[i]]
      <4>. HIDE DEF V
      <4>. QED  BY <1>6
    <3>. QED  BY <3>1, <3>2
  <2>. HIDE DEF Step
  <2>. QED  BY <2>1
<1>. HIDE DEF m
<1>8. \A i \in 0..n : m[i] = IF i = 0 THEN base ELSE Resolve(m[i - 1], parts[i])
  BY <1>7
<1>. DEFINE Q == {i \in 0..n : m[i] = f[i]}
<1>9. 0 \in Q
  BY <1>1, <1>6, <1>8
<1>10. ASSUME NEW i \in 0..(n - 1), i \in Q  PROVE i + 1 \in Q
  <2>1. i + 1 \in 1..n /\ (i + 1) - 1 = i /\ i + 1 # 0 /\ i + 1 \in 0..n
    BY <1>1
  <2>2. m[i + 1] = Resolve(m[i], parts[i + 1]) /\ f[i + 1] = Resolve(f[i], parts[i + 1])
    BY <1>6, <1>8, <2>1
  <2>. QED  BY <1>10, <2>1, <2>2
<1>. HIDE DEF Q
<1>11. \A i \in 0..n : i \in Q
  BY <1>1, <1>9, <1>10, Upward
<1>12. m[n] = f[n] /\ f[n] \in V
  <2>. HIDE DEF V
  <2>. QED  BY <1>1, <1>6, <1>11 DEF Q
<1>. HIDE DEF Step
<1>13. Resolved(w, path) = m[n]
  BY DEF Resolved, m, Step, n, parts, base
<1>. QED  BY <1>12, <1>13

\* Where there is no link, the operating system gets to where it is told.
LEMMA LedThere ==
    ASSUME NEW l \in Locs, Unlinked(l)
    PROVE  Led(l) = l /\ LedAbove(l) = l
<1>1. l \in Trail /\ Len(l) \in 1..3 /\ l # <<>> /\ SubSeq(l, 1, Len(l)) = l
  <2>1. l \in Trail /\ Len(l) \in 1..3
    BY LocTrail
  <2>. QED  BY <2>1 DEF Trail
<1>2. LedAbove(l) = l
  <2>1. CASE Len(l) < 3
    BY <2>1 DEF LedAbove
  <2>2. CASE Len(l) = 3
    <3>1. Front(l) = SubSeq(l, 1, 2) /\ 2 \in 1..Len(l)
      <4>1. Front(l) = SubSeq(l, 1, Len(l) - 1)
        BY <1>1, FrontFacts
      <4>. QED  BY <2>2, <4>1
    <3>2. Followed(Front(l)) = Front(l)
      BY <3>1 DEF Followed, Unlinked
    <3>. QED  BY <1>1, <2>2, <3>2, FrontFacts DEF LedAbove
  <2>. QED  BY <1>1, <2>1, <2>2
<1>3. ~IsLink(l)
  <2>1. Len(l) \in 1..Len(l)
    BY <1>1
  <2>. QED  BY <1>1, <2>1 DEF Unlinked
<1>. QED  BY <1>2, <1>3 DEF Led, Followed

------------------------------------------------------------------------------
(* Invariants.                                                               *)

\* A call is about a place in its workspace and outside .forge, to which there is no link on
\* the way but late ones, and what it has listed is in its workspace too.
GateInv ==
    call # Idle =>
        /\ call.target[1] = call.q.ws /\ ~Reserved(call.target) /\ SeenThrough(call.target)
        /\ \A m \in call.listed : m[1] = call.q.ws /\ (call.q.op \in {"glob", "grep"} => ~Reserved(m))

\* What a call holds of files is of its workspace.
HeldInv ==
    call # Idle /\ ~crossed =>
        From(call.held, {call.q.ws}) /\ \A i \in DOMAIN call.out : From(call.out[i], {call.q.ws})

\* A call for the adapter belongs to the batch in progress.
BatchInv ==
    call # Idle /\ call.batched => batch # NoBatch /\ batch.at = "on" /\ batch.q.ws = call.q.ws

IndInv == TypeOK /\ GateInv /\ HeldInv /\ BatchInv /\ Isolated

\* The state in which an operation takes a step.
Busy == TypeOK /\ GateInv /\ HeldInv /\ Isolated /\ call # Idle
Remembers == crossed \/ Diverted \/ Strays => crossed'

LEMMA CallFacts ==
    ASSUME TypeOK, call # Idle
    PROVE  /\ call \in Calls /\ call.q \in AllRequests /\ call.q.ws \in Workspaces /\ call.q.op \in Ops
           /\ call.q.items \in Seq(Items) /\ call.next \in DOMAIN call.q.items
           /\ Item \in Items /\ From(Item.text, {call.q.ws}) /\ From(Item.new, {call.q.ws})
           /\ call.q.offset \in Int /\ Limit \in Nat
<1>1. call \in Calls /\ call.next \in DOMAIN call.q.items
  BY DEF TypeOK
<1>2. call.q \in AllRequests
  BY <1>1 DEF Calls
<1>3. /\ call.q.ws \in Workspaces /\ call.q.op \in Ops /\ call.q.items \in Seq(Items)
      /\ call.q.offset \in Int /\ call.q.limit \in Nat
      /\ \A i \in DOMAIN call.q.items :
            From(call.q.items[i].text, {call.q.ws}) /\ From(call.q.items[i].new, {call.q.ws})
  BY <1>2 DEF AllRequests
<1>4. Item = call.q.items[call.next] /\ Item \in Items
  BY <1>1, <1>3 DEF Item
<1>. QED  BY <1>1, <1>2, <1>3, <1>4, BoundsKnown DEF Limit

\* Errors keep to the outcomes when the routes and the HTTP client have passed them on.
LEMMA Errors ==
    /\ \A error \in Results : SeenAs(error) \in Results
    /\ \A error \in Results \ {"ok"} : SeenAs(error) # "ok"
BY DEF SeenAs, OverHttp, Results
LEMMA Refusals ==
    ASSUME NEW w, NEW path
    PROVE  Refusal(w, path) = "" \/ Refusal(w, path) \in Results \ {"ok"}
BY DEF Refusal, Results

------------------------------------------------------------------------------
(* How a call goes on.                                                       *)

\* To its next stage or its next file.
Proceeds ==
    /\ call' # Idle /\ call' \in Calls /\ call'.q = call.q /\ call'.batched = call.batched
    /\ call'.next \in DOMAIN call.q.items /\ UNCHANGED <<batch, answer, link>>
    /\ call'.target[1] = call.q.ws /\ ~Reserved(call'.target) /\ SeenThrough(call'.target)
    /\ \A m \in call'.listed : m[1] = call.q.ws /\ (call.q.op \in {"glob", "grep"} => ~Reserved(m))
    /\ ~crossed' => From(call'.held, {call.q.ws}) /\ \A i \in DOMAIN call'.out : From(call'.out[i], {call.q.ws})

\* To its end, with an answer without characters or places of others.
Harmless(res, out, value) ==
    /\ \A i \in DOMAIN out : From(out[i], {call.q.ws})
    /\ call.q.op = "read" => From(value, {call.q.ws})
    /\ call.q.op \in {"ls", "glob"} /\ res = "ok" => \A l \in value : l[1] = call.q.ws /\ ~Reserved(l)
    /\ call.q.op = "grep" /\ res = "ok" => \A hit \in value : From(hit.text, {call.q.ws})
Ends == \E res \in Results : \E out \in Seq(Seq(Chars)) : \E value :
            Answer(res, out, value) /\ (~crossed' => Harmless(res, out, value))
Moves == Proceeds \/ Ends

LEMMA NoOut == <<>> \in Seq(Seq(Chars)) /\ DOMAIN <<>> = {}
OBVIOUS

LEMMA RaiseMoves ==
    ASSUME NEW error \in Results \ {"ok"}, Raise(error)
    PROVE  Moves
<1>1. SeenAs(error) \in Results /\ SeenAs(error) # "ok" /\ From(<<>>, {call.q.ws})
  BY Errors, NoText
<1>. QED  BY <1>1, NoOut DEF Raise, Moves, Ends, Harmless

LEMMA ReturnMoves ==
    ASSUME NEW value, Return(value), ~crossed' => Harmless("ok", <<>>, value)
    PROVE  Moves
BY NoOut DEF Return, Moves, Ends, Results

\* To its next stage, on the same file.
SameFile(next) ==
    /\ next \in Calls /\ next.q = call.q /\ next.batched = call.batched /\ next.next = call.next /\ next.out = call.out
    /\ next.target[1] = call.q.ws /\ ~Reserved(next.target) /\ SeenThrough(next.target)
    /\ ~crossed' => From(next.held, {call.q.ws})
    /\ \A m \in next.listed : m[1] = call.q.ws /\ (call.q.op \in {"glob", "grep"} => ~Reserved(m))

LEMMA OnMoves ==
    ASSUME Busy, Remembers, link' = link, NEW next, SameFile(next), On(next)
    PROVE  Moves
<1>1. call.next \in DOMAIN call.q.items
  BY CallFacts DEF Busy
<1>2. call' = next /\ UNCHANGED <<batch, answer>>
  BY DEF On
<1>3. next # Idle
  <2>1. next.at \in Stages
    BY DEF SameFile, Calls
  <2>. QED  BY <2>1 DEF Idle, Stages
<1>4. ~crossed' => \A i \in DOMAIN call.out : From(call.out[i], {call.q.ws})
  BY DEF Busy, HeldInv, Remembers
<1>5. Proceeds
  <2>. HIDE DEF Busy
  <2>1. /\ next \in Calls /\ next.q = call.q /\ next.batched = call.batched /\ next.next = call.next /\ next.out = call.out
    BY DEF SameFile
  <2>2. /\ next.target[1] = call.q.ws /\ ~Reserved(next.target) /\ SeenThrough(next.target)
        /\ ~crossed' => From(next.held, {call.q.ws})
        /\ \A m \in next.listed : m[1] = call.q.ws /\ (call.q.op \in {"glob", "grep"} => ~Reserved(m))
    BY DEF SameFile
  <2>. QED  BY <1>1, <1>2, <1>3, <1>4, <2>1, <2>2 DEF Proceeds
<1>. QED  BY <1>5 DEF Moves

\* What has become of the call in those steps.
LEMMA SameCall ==
    ASSUME Busy
    PROVE  /\ call.target \in Locs /\ call.held \in Seq(Chars) /\ call.listed \in SUBSET Locs /\ call.at \in Stages
           /\ call.target[1] = call.q.ws /\ ~Reserved(call.target) /\ SeenThrough(call.target)
           /\ ~crossed => From(call.held, {call.q.ws})
           /\ \A m \in call.listed : m[1] = call.q.ws /\ (call.q.op \in {"glob", "grep"} => ~Reserved(m))
<1>1. call \in Calls
  BY CallFacts DEF Busy
<1>2. call.target \in Locs /\ call.held \in Seq(Chars) /\ call.listed \in SUBSET Locs /\ call.at \in Stages
  BY <1>1 DEF Calls
<1>. QED  BY <1>2 DEF Busy, GateInv, HeldInv

LEMMA ThenMoves ==
    ASSUME Busy, Remembers, link' = link, NEW stage \in Stages, Then(stage)
    PROVE  Moves
<1>. DEFINE next == [call EXCEPT !.at = stage]
<1>1. call \in Calls
  BY CallFacts DEF Busy
<1>2. /\ next \in Calls /\ next.q = call.q /\ next.batched = call.batched /\ next.next = call.next /\ next.out = call.out
      /\ next.target = call.target /\ next.held = call.held /\ next.listed = call.listed
  BY <1>1 DEF Calls
<1>3. On(next)
  BY DEF Then
<1>. HIDE DEF next
<1>4. SameFile(next)
  BY <1>2, SameCall DEF SameFile, Remembers
<1>. QED  BY <1>3, <1>4, OnMoves

\* A path that is accepted leads to a place in the workspace, without links.
Granted == Refusal(call.q.ws, Item.path) = ""
LEMMA Denied == ~Granted => Refusal(call.q.ws, Item.path) \in Results \ {"ok"}
BY Refusals DEF Granted

LEMMA Accepted ==
    ASSUME Busy, Granted, Loc \in Locs
    PROVE  Loc[1] = call.q.ws /\ ~Reserved(Loc) /\ SeenThrough(Loc) /\ Unlinked(Loc)
<1>1. Within(call.q.ws, Loc) /\ ~Reserved(Loc)
  BY DEF Refusal, Loc, Granted
<1>2. link \in [Locs -> Targets \cup {NoLink}] /\ Unchained(link)
  BY DEF Busy, TypeOK
<1>3. call.q.ws \in Workspaces /\ Item.path \in Paths
  BY CallFacts DEF Busy, Items
<1>4. Unlinked(Loc)
  BY <1>2, <1>3, ResolvedType DEF Loc
<1>. QED  BY <1>1, <1>4, WithinFirst DEF Unlinked, SeenThrough

LEMMA CheckedMoves ==
    ASSUME Busy, Remembers, link' = link, NEW stage \in Stages,
           Granted, Loc \in Locs, Checked(stage)
    PROVE  Moves
<1>. DEFINE place == Loc
            next == [call EXCEPT !.at = stage, !.target = place]
<1>1. call \in Calls
  BY CallFacts DEF Busy
<1>2. place \in Locs
  OBVIOUS
<1>3. place[1] = call.q.ws /\ ~Reserved(place) /\ SeenThrough(place)
  BY Accepted
<1>4. On(next)
  BY DEF Checked
<1>. HIDE DEF place
<1>5. /\ next \in Calls /\ next.q = call.q /\ next.batched = call.batched /\ next.next = call.next /\ next.out = call.out
      /\ next.target = place /\ next.held = call.held /\ next.listed = call.listed
  BY <1>1, <1>2 DEF Calls
<1>. HIDE DEF next
<1>6. SameFile(next)
  BY <1>3, <1>5, SameCall DEF SameFile, Remembers
<1>. QED  BY <1>4, <1>6, OnMoves

\* The next file, or the end.
LEMMA FileDoneMoves ==
    ASSUME Busy, Remembers, link' = link, call.q.op \in {"put", "get"},
           NEW text \in Seq(Chars), ~crossed' => From(text, {call.q.ws}), FileDone(text)
    PROVE  Moves
<1>. DEFINE out == Append(call.out, text)
<1>1. call \in Calls /\ call.q.items \in Seq(Items) /\ call.next \in 1..Len(call.q.items)
  BY CallFacts DEF Busy
<1>2. call.out \in Seq(Seq(Chars))
  BY <1>1 DEF Calls
<1>3. out \in Seq(Seq(Chars)) /\ DOMAIN out = 1..(Len(call.out) + 1) /\ DOMAIN call.out = 1..Len(call.out)
      /\ Len(call.out) \in Nat
      /\ \A i \in 1..Len(call.out) : out[i] = call.out[i]
      /\ out[Len(call.out) + 1] = text
  BY <1>2
<1>4. ~crossed' => \A i \in DOMAIN out : From(out[i], {call.q.ws})
  <2>1. ASSUME ~crossed', NEW i \in DOMAIN out  PROVE From(out[i], {call.q.ws})
    <3>1. CASE i = Len(call.out) + 1
      BY <1>3, <2>1, <3>1
    <3>2. CASE i # Len(call.out) + 1
      <4>1. i \in DOMAIN call.out
        BY <1>3, <2>1, <3>2
      <4>. QED  BY <1>3, <2>1, <4>1 DEF Busy, HeldInv, Remembers
    <3>. QED  BY <3>1, <3>2
  <2>. QED  BY <2>1
<1>. HIDE DEF out
<1>5. CASE call.next = Len(call.q.items)
  <2>1. Answer("ok", out, <<>>)
    BY <1>5 DEF FileDone, out
  <2>2. ~crossed' => Harmless("ok", out, <<>>)
    BY <1>4 DEF Harmless
  <2>. QED  BY <1>3, <2>1, <2>2 DEF Moves, Ends, Results
<1>6. CASE call.next # Len(call.q.items)
  <2>1. call' = [call EXCEPT !.next = @ + 1, !.out = out, !.at = "check"] /\ UNCHANGED <<batch, answer>>
    BY <1>6 DEF FileDone, out
  <2>2. call.next + 1 \in Nat /\ call.next + 1 \in DOMAIN call.q.items
    BY <1>1, <1>6
  <2>3. "check" \in Stages
    BY DEF Stages
  <2>4. /\ call' \in Calls /\ call'.q = call.q /\ call'.batched = call.batched /\ call'.next = call.next + 1
        /\ call'.target = call.target /\ call'.held = call.held /\ call'.listed = call.listed
        /\ call'.out = out /\ call'.at = "check"
    BY <1>1, <1>3, <2>1, <2>2, <2>3 DEF Calls
  <2>5. call' # Idle
    BY <2>4 DEF Idle
  <2>6. ~crossed' => ~crossed
    BY DEF Remembers
  <2>. QED  BY <1>4, <2>1, <2>2, <2>4, <2>5, <2>6, SameCall DEF Moves, Proceeds
<1>. QED  BY <1>5, <1>6

------------------------------------------------------------------------------
(* What becomes of the trees.                                                *)

ConfinedAt(l) ==
    tree'[l] # tree[l] \/ link'[l] # link[l] =>
        \/ Diverted
        \/ /\ l[1] = call.q.ws /\ ~Reserved(l)
           /\ l = call.target \/ (tree[l] = None /\ tree'[l] = Dir /\ l \in Above(call.target))
KeepsTree ==
    /\ tree' \in [Locs -> Nodes] /\ link' \in [Locs -> Targets \cup {NoLink}] /\ Unchained(link')
    /\ \A l \in Locs : ConfinedAt(l) /\ (~crossed' => tree'[l] = tree[l] \/ From(tree'[l].text, {l[1]}))

\* Files, directories and nothing.
LEMMA NodeFacts ==
    /\ None \in Nodes /\ Dir \in Nodes /\ None.text = <<>> /\ Dir.text = <<>>
    /\ \A t \in Seq(Chars) : File(t) \in Nodes /\ File(t).text = t /\ File(t) # None /\ File(t) # Dir
    /\ \A n \in Nodes : /\ n.text \in Seq(Chars) /\ n.kind \in {"none", "dir", "file"}
                        /\ n.kind = "none" => n = None
                        /\ n.kind = "dir" => n = Dir
    /\ None.kind = "none" /\ Dir.kind = "dir" /\ None # Dir
<1>1. <<>> \in Seq(Chars)
  OBVIOUS
<1>2. None \in Nodes /\ Dir \in Nodes /\ None.text = <<>> /\ Dir.text = <<>>
      /\ None.kind = "none" /\ Dir.kind = "dir" /\ None # Dir
  BY <1>1 DEF None, Dir, Nodes
<1>3. ASSUME NEW t \in Seq(Chars)
      PROVE  File(t) \in Nodes /\ File(t).text = t /\ File(t) # None /\ File(t) # Dir
  BY <1>3 DEF File, Nodes, None, Dir
<1>4. ASSUME NEW n \in Nodes
      PROVE  /\ n.text \in Seq(Chars) /\ n.kind \in {"none", "dir", "file"}
             /\ n.kind = "none" => n = None
             /\ n.kind = "dir" => n = Dir
  <2>1. n \in [kind : {"none", "dir", "file"}, text : Seq(Chars)] /\ (n.kind # "file" => n.text = <<>>)
    BY DEF Nodes
  <2>2. n = [kind |-> n.kind, text |-> n.text]
    BY <2>1
  <2>. QED  BY <2>1, <2>2 DEF None, Dir
<1>. QED  BY <1>2, <1>3, <1>4

LEMMA SameTree == ASSUME TypeOK, tree' = tree, link' = link  PROVE KeepsTree
BY DEF TypeOK, KeepsTree, ConfinedAt

\* Changing what the path leads to.
LEMMA OnePlace ==
    ASSUME Busy, Remembers, call.at \in {"act", "read", "list", "rmdir", "unlink"},
           NEW x \in Nodes, ~crossed' => From(x.text, {call.q.ws}),
           tree' = [tree EXCEPT ![Here] = x],
           link' = link \/ link' = [link EXCEPT ![Here] = NoLink]
    PROVE  KeepsTree
<1>1. /\ tree \in [Locs -> Nodes] /\ link \in [Locs -> Targets \cup {NoLink}] /\ Unchained(link)
  BY DEF Busy, TypeOK
<1>2. tree' \in [Locs -> Nodes] /\ link' \in [Locs -> Targets \cup {NoLink}]
  BY <1>1
<1>3. \A l \in Locs : link'[l] = link[l] \/ link'[l] = NoLink
  BY <1>1
<1>4. Unchained(link')
  <2>1. \A w \in Workspaces : <<w>> \in Locs
    BY DEF Locs
  <2>2. ASSUME NEW l \in Locs, link'[l] # NoLink  PROVE link'[link'[l]] = NoLink
    <3>1. link'[l] = link[l] /\ link[l] \in Locs
      BY <1>1, <1>3, <2>2, TargetsKnown
    <3>. QED  BY <1>1, <1>3, <2>2, <3>1 DEF Unchained
  <2>. QED  BY <1>1, <1>3, <2>1, <2>2 DEF Unchained
<1>5. ASSUME NEW l \in Locs
      PROVE  ConfinedAt(l) /\ (~crossed' => tree'[l] = tree[l] \/ From(tree'[l].text, {l[1]}))
  <2>1. CASE l # Here
    BY <1>1, <2>1 DEF ConfinedAt
  <2>2. CASE l = Here /\ Diverted
    BY <2>2 DEF ConfinedAt, Remembers
  <2>3. CASE l = Here /\ ~Diverted
    <3>1. l = call.target
      BY <2>3 DEF Diverted
    <3>2. l[1] = call.q.ws /\ ~Reserved(l)
      BY <3>1, SameCall
    <3>3. tree'[l] = x
      BY <1>1, <2>3
    <3>. QED  BY <3>1, <3>2, <3>3 DEF ConfinedAt
  <2>. QED  BY <2>1, <2>2, <2>3
<1>. QED  BY <1>2, <1>4, <1>5 DEF KeepsTree

\* What a call reads where its path leads is of its workspace.
LEMMA HereFacts ==
    ASSUME Busy, Remembers, call.at \in {"act", "read", "list", "rmdir", "unlink"}, Here \in Locs
    PROVE  tree[Here].text \in Seq(Chars) /\ (~crossed' => From(tree[Here].text, {call.q.ws}))
<1>1. tree[Here] \in Nodes
  BY DEF Busy, TypeOK
<1>2. ASSUME ~crossed'  PROVE From(tree[Here].text, {call.q.ws})
  <2>1. ~crossed /\ Here = call.target
    BY <1>2 DEF Remembers, Diverted
  <2>2. Here[1] = call.q.ws /\ ~Reserved(Here)
    BY <2>1, SameCall
  <2>. QED  BY <2>1, <2>2 DEF Busy, Isolated, Belongs
<1>. QED  BY <1>1, <1>2, NodeFacts

------------------------------------------------------------------------------
(* Every operation.                                                          *)

AtRest == tree' = tree /\ link' = link

LEMMA CheckMoves ==
    ASSUME Busy, Remembers, NEW op, NEW fits \in BOOLEAN, fits => Loc \in Locs,
           NEW stage \in Stages, Check(op, fits, stage)
    PROVE  Moves /\ KeepsTree
<1>1. AtRest
  BY DEF Check, countVars, AtRest
<1>2. \/ ~Granted /\ Raise(Refusal(call.q.ws, Item.path))
      \/ Granted /\ fits /\ Checked(stage)
      \/ Raise("workspace_error")
  BY Zenon DEF Check, Granted
<1>3. Moves
  BY <1>1, <1>2, Denied, RaiseMoves, CheckedMoves DEF AtRest, Results
<1>. QED  BY <1>1, <1>3, SameTree DEF Busy, AtRest

LEMMA PutCheckKeeps == ASSUME Busy, Remembers, PutCheck  PROVE Moves /\ KeepsTree
<1>1. AtRest
  BY DEF PutCheck, countVars, AtRest
<1>2. \/ ~Granted /\ Raise(Refusal(call.q.ws, Item.path))
      \/ Granted /\ Loc \in Locs /\ Checked("mkdir")
      \/ Raise("workspace_error")
  BY Zenon DEF PutCheck, Granted
<1>3. Moves
  BY <1>1, <1>2, Denied, RaiseMoves, CheckedMoves DEF AtRest, Results, Stages
<1>. QED  BY <1>1, <1>3, SameTree DEF Busy, AtRest

LEMMA MkDirKeeps == ASSUME Busy, Remembers, MkDir  PROVE Moves /\ KeepsTree
<1>1. link' = link
  BY DEF MkDir, countVars
<1>2. CASE Raise("other_error") /\ UNCHANGED tree
  <2>1. Moves
    BY <1>2, RaiseMoves DEF Results
  <2>. QED  BY <1>1, <1>2, <2>1, SameTree DEF Busy
<1>3. CASE /\ Then("act")
           /\ tree' = [m \in Locs |-> IF m \in Above(call.target) /\ Vacant(m) THEN Dir ELSE tree[m]]
  <2>1. Moves
    BY <1>1, <1>3, ThenMoves DEF Stages
  <2>2. tree \in [Locs -> Nodes] /\ link \in [Locs -> Targets \cup {NoLink}] /\ Unchained(link)
    BY DEF Busy, TypeOK
  <2>3. tree' \in [Locs -> Nodes] /\ Unchained(link')
    BY <1>1, <1>3, <2>2, NodeFacts DEF Unchained
  <2>4. ASSUME NEW l \in Locs
        PROVE  ConfinedAt(l) /\ (~crossed' => tree'[l] = tree[l] \/ From(tree'[l].text, {l[1]}))
    <3>1. CASE ~(l \in Above(call.target) /\ Vacant(l))
      <4>1. tree'[l] = tree[l] /\ link'[l] = link[l]
        BY <1>1, <1>3, <3>1
      <4>. QED  BY <4>1 DEF ConfinedAt
    <3>2. CASE l \in Above(call.target) /\ Vacant(l)
      <4>1. tree'[l] = Dir /\ From(tree'[l].text, {l[1]})
        BY <1>3, <3>2, NodeFacts, NoText
      <4>2. tree[l] = None
        BY <2>2, <3>2, NodeFacts DEF Vacant, Exists, IsFile, IsDir
      <4>3. l[1] = call.q.ws /\ ~Reserved(l)
        BY <3>2, SameCall, PrefixFirst DEF Above
      <4>. QED  BY <3>2, <4>1, <4>2, <4>3 DEF ConfinedAt
    <3>. QED  BY <3>1, <3>2
  <2>. QED  BY <1>1, <2>1, <2>2, <2>3, <2>4 DEF KeepsTree
<1>. QED  BY <1>2, <1>3 DEF MkDir

\* A part of a text has its characters.
LEMMA CutFrom ==
    ASSUME NEW S, NEW text \in Seq(Chars), From(text, S), NEW part \in Cut(text)
    PROVE  part \in Seq(Chars) /\ From(part, S)
<1>1. PICK k \in 0..(Len(text) - 1) : part = SubSeq(text, 1, k)
  BY DEF Cut
<1>2. text \in Seq(CharsOf(S)) /\ Len(text) \in Nat /\ k \in Nat /\ k <= Len(text)
  BY FromIs
<1>3. part \in Seq(CharsOf(S))
  BY <1>1, <1>2, Beginning
<1>. QED  BY <1>3, FromIs

LEMMA BreaksOffKeeps ==
    ASSUME Busy, Remembers, call.at = "act", link' = link, NEW text \in Seq(Chars),
           ~crossed' => From(text, {call.q.ws}), BreaksOff(Here, text)
    PROVE  Moves /\ KeepsTree
<1>1. Raise("other_error")
  BY DEF BreaksOff
<1>2. Moves
  BY <1>1, RaiseMoves DEF Results
<1>3. CASE UNCHANGED tree
  BY <1>2, <1>3, SameTree DEF Busy
<1>4. ASSUME NEW part \in Cut(text), tree' = [tree EXCEPT ![Here] = File(part)]  PROVE KeepsTree
  <2>1. PICK k \in 0..(Len(text) - 1) : part = SubSeq(text, 1, k)
    BY DEF Cut
  <2>2. part \in Seq(Chars)
    <3>1. Len(text) \in Nat /\ k \in Nat /\ k <= Len(text)
      OBVIOUS
    <3>. QED  BY <2>1, <3>1, Beginning
  <2>3. ~crossed' => From(part, {call.q.ws})
    BY CutFrom
  <2>. DEFINE x == File(part)
  <2>4. x \in Nodes /\ x.text = part
    BY <2>2, NodeFacts
  <2>5. tree' = [tree EXCEPT ![Here] = x]
    BY <1>4
  <2>. HIDE DEF x
  <2>. QED  BY <2>3, <2>4, <2>5, OnePlace
<1>. QED  BY <1>2, <1>3, <1>4 DEF BreaksOff

LEMMA PutKeeps == ASSUME Busy, Remembers, Put  PROVE Moves /\ KeepsTree
<1>1. link' = link /\ call.at = "act" /\ call.q.op = "put"
  BY DEF Put, countVars, At
<1>. DEFINE text == Item.text
<1>2. text \in Seq(Chars) /\ From(text, {call.q.ws})
  BY CallFacts DEF Busy, Items
<1>3. \/ tree' = [tree EXCEPT ![Here] = File(text)] /\ FileDone(<<>>)
      \/ BreaksOff(Here, text)
  BY DEF Put
<1>. HIDE DEF text
<1>4. CASE BreaksOff(Here, text)
  BY <1>1, <1>2, <1>4, BreaksOffKeeps
<1>5. CASE tree' = [tree EXCEPT ![Here] = File(text)] /\ FileDone(<<>>)
  <2>. DEFINE x == File(text)
  <2>1. x \in Nodes /\ x.text = text /\ tree' = [tree EXCEPT ![Here] = x]
    BY <1>2, <1>5, NodeFacts
  <2>. HIDE DEF x
  <2>2. KeepsTree
    BY <1>1, <1>2, <2>1, OnePlace
  <2>3. Moves
    BY <1>1, <1>5, NoText, FileDoneMoves
  <2>. QED  BY <2>2, <2>3
<1>. QED  BY <1>3, <1>4, <1>5

LEMMA GetKeeps == ASSUME Busy, Remembers, Get  PROVE Moves /\ KeepsTree
<1>1. AtRest /\ call.at = "act" /\ call.q.op = "get"
  BY DEF Get, countVars, AtRest, At
<1>2. KeepsTree
  BY <1>1, SameTree DEF Busy, AtRest
<1>3. CASE Raise("other_error")
  BY <1>3, <1>2, RaiseMoves DEF Results
<1>4. CASE IsFile(Here) /\ FileDone(tree[Here].text)
  <2>. DEFINE text == tree[Here].text
  <2>1. Here \in Locs
    BY <1>4 DEF IsFile
  <2>2. text \in Seq(Chars) /\ (~crossed' => From(text, {call.q.ws}))
    BY <1>1, <2>1, HereFacts
  <2>3. FileDone(text)
    BY <1>4
  <2>. HIDE DEF text
  <2>. QED  BY <1>1, <1>2, <2>2, <2>3, FileDoneMoves DEF AtRest
<1>. QED  BY <1>3, <1>4 DEF Get

LEMMA ReadKeeps == ASSUME Busy, Remembers, Read  PROVE Moves /\ KeepsTree
<1>1. AtRest /\ call.at = "act" /\ call.q.op = "read"
  BY DEF Read, countVars, AtRest, At
<1>2. KeepsTree
  BY <1>1, SameTree DEF Busy, AtRest
<1>3. CASE Raise("other_error") \/ Raise("workspace_error")
  BY <1>3, <1>2, RaiseMoves DEF Results
<1>4. CASE IsFile(Here) /\ ~(call.q.offset < 0) /\ Return(Content(tree[Here].text))
  <2>. DEFINE text == tree[Here].text
              content == Content(text)
  <2>1. Here \in Locs
    BY <1>4 DEF IsFile
  <2>2. text \in Seq(Chars) /\ (~crossed' => From(text, {call.q.ws}))
    BY <1>1, <2>1, HereFacts
  <2>3. Return(content)
    BY <1>4
  <2>4. call.q.offset \in Nat /\ Limit \in Nat
    <3>1. call.q.offset \in Int /\ Limit \in Nat
      BY CallFacts DEF Busy
    <3>. QED  BY <1>4, <3>1
  <2>. HIDE DEF text
  <2>5. ~crossed' => From(content, {call.q.ws})
    BY <2>2, <2>4, ContentFrom
  <2>. HIDE DEF content
  <2>6. ~crossed' => Harmless("ok", <<>>, content)
    BY <1>1, <2>5, NoOut DEF Harmless
  <2>. QED  BY <1>2, <2>3, <2>6, ReturnMoves
<1>. QED  BY <1>3, <1>4 DEF Read

LEMMA EditReadKeeps == ASSUME Busy, Remembers, EditRead  PROVE Moves /\ KeepsTree
<1>1. AtRest /\ call.at = "read" /\ call.q.op = "edit"
  BY DEF EditRead, countVars, AtRest, At
<1>2. KeepsTree
  BY <1>1, SameTree DEF Busy, AtRest
<1>. DEFINE text == Translated(tree[Here].text)
            next == [call EXCEPT !.at = "act", !.held = text]
<1>3. CASE Raise("other_error") \/ Raise("workspace_error")
  BY <1>2, <1>3, RaiseMoves DEF Results
<1>4. CASE IsFile(Here) /\ On(next)
  <2>1. Here \in Locs
    BY <1>4 DEF IsFile
  <2>2. tree[Here].text \in Seq(Chars) /\ (~crossed' => From(tree[Here].text, {call.q.ws}))
    BY <1>1, <2>1, HereFacts
  <2>3. text \in Seq(Chars)
    BY <2>2, MarksKnown, TranslatedType
  <2>4. ~crossed' => From(text, {call.q.ws})
    BY <2>2, TextFacts
  <2>5. call \in Calls
    BY CallFacts DEF Busy
  <2>. HIDE DEF text
  <2>6. /\ next \in Calls /\ next.q = call.q /\ next.batched = call.batched /\ next.next = call.next
        /\ next.out = call.out /\ next.target = call.target /\ next.held = text /\ next.listed = call.listed
    BY <2>3, <2>5 DEF Calls, Stages
  <2>. HIDE DEF next
  <2>7. SameFile(next)
    BY <2>4, <2>6, SameCall DEF SameFile
  <2>. QED  BY <1>1, <1>2, <1>4, <2>7, OnMoves DEF AtRest
<1>. QED  BY <1>3, <1>4 DEF EditRead

LEMMA EditKeeps == ASSUME Busy, Remembers, Edit  PROVE Moves /\ KeepsTree
<1>1. link' = link /\ call.at = "act" /\ call.q.op = "edit"
  BY DEF Edit, countVars, At
<1>. DEFINE text == Replaced(call.held, Item.old, Item.new)
            n == Cardinality(Places(call.held, Item.old))
<1>2. text \in Seq(Chars)
  <2>. DEFINE S == {Origin[c] : c \in Chars}
  <2>1. \A t \in Seq(Chars) : From(t, S)
    BY DEF From
  <2>2. Item.new \in Seq(Chars) /\ call.held \in Seq(Chars)
    BY SameCall, CallFacts DEF Busy, Items
  <2>. HIDE DEF S
  <2>. QED  BY <2>1, <2>2, TextFacts
<1>3. ~crossed' => From(text, {call.q.ws})
  <2>1. Item.new \in Seq(Chars) /\ From(Item.new, {call.q.ws})
    BY CallFacts DEF Busy, Items
  <2>. QED  BY <2>1, SameCall, TextFacts DEF Remembers
<1>4. \/ tree' = [tree EXCEPT ![Here] = File(text)] /\ Return(n)
      \/ BreaksOff(Here, text)
  BY DEF Edit
<1>. HIDE DEF text, n
<1>5. CASE BreaksOff(Here, text)
  BY <1>1, <1>2, <1>3, <1>5, BreaksOffKeeps
<1>6. CASE tree' = [tree EXCEPT ![Here] = File(text)] /\ Return(n)
  <2>. DEFINE x == File(text)
  <2>1. x \in Nodes /\ x.text = text /\ tree' = [tree EXCEPT ![Here] = x]
    BY <1>2, <1>6, NodeFacts
  <2>. HIDE DEF x
  <2>2. KeepsTree
    BY <1>1, <1>3, <2>1, OnePlace
  <2>3. Harmless("ok", <<>>, n)
    BY <1>1, NoOut DEF Harmless
  <2>. QED  BY <1>6, <2>2, <2>3, ReturnMoves
<1>. QED  BY <1>4, <1>5, <1>6

LEMMA DeleteCheckKeeps == ASSUME Busy, Remembers, DeleteCheck  PROVE Moves /\ KeepsTree
<1>1. AtRest /\ call.q.op = "delete"
  BY DEF DeleteCheck, countVars, AtRest, At
<1>2. \/ ~Granted /\ Raise(Refusal(call.q.ws, Item.path))
      \/ Raise("workspace_error") \/ Return(<<>>)
      \/ Granted /\ Exists(Loc) /\ Checked(IF IsDir(Loc) THEN "rmdir" ELSE "unlink")
  BY Zenon DEF DeleteCheck, Granted
<1>3. CASE Granted /\ Exists(Loc) /\ Checked(IF IsDir(Loc) THEN "rmdir" ELSE "unlink")
  <2>. DEFINE stage == IF IsDir(Loc) THEN "rmdir" ELSE "unlink"
  <2>1. stage \in Stages
    BY DEF Stages
  <2>2. Loc \in Locs /\ Checked(stage)
    BY <1>3 DEF Exists, IsFile, IsDir
  <2>. HIDE DEF stage
  <2>. QED  BY <1>1, <1>3, <2>1, <2>2, CheckedMoves, SameTree DEF Busy, AtRest
<1>4. CASE Return(<<>>)
  <2>1. Harmless("ok", <<>>, <<>>)
    BY <1>1, NoOut DEF Harmless
  <2>. QED  BY <1>1, <1>4, <2>1, ReturnMoves, SameTree DEF Busy, AtRest
<1>5. CASE ~Granted /\ Raise(Refusal(call.q.ws, Item.path))
  BY <1>1, <1>5, Denied, RaiseMoves, SameTree DEF Busy, AtRest
<1>6. CASE Raise("workspace_error")
  BY <1>1, <1>6, RaiseMoves, SameTree DEF Busy, AtRest, Results
<1>. QED  BY <1>2, <1>3, <1>4, <1>5, <1>6

LEMMA DeleteKeeps == ASSUME Busy, Remembers, Delete  PROVE Moves /\ KeepsTree
<1>1. call.at \in {"rmdir", "unlink"} /\ call.q.op = "delete"
  BY DEF Delete, At
<1>2. \/ AtRest /\ Raise("other_error")
      \/ AtRest /\ Raise("workspace_error")
      \/ /\ tree' = [tree EXCEPT ![Here] = None] /\ Return(<<>>)
         /\ link' = link \/ link' = [link EXCEPT ![Here] = NoLink]
  BY DEF Delete, RemoveDir, RemoveFile, AtRest
<1>3. CASE AtRest /\ (Raise("other_error") \/ Raise("workspace_error"))
  BY <1>3, RaiseMoves, SameTree DEF Results, Busy, AtRest
<1>4. CASE /\ tree' = [tree EXCEPT ![Here] = None] /\ Return(<<>>)
           /\ link' = link \/ link' = [link EXCEPT ![Here] = NoLink]
  <2>1. Harmless("ok", <<>>, <<>>)
    BY <1>1, NoOut DEF Harmless
  <2>2. Moves
    BY <1>4, <2>1, ReturnMoves
  <2>3. None \in Nodes /\ From(None.text, {call.q.ws})
    BY NodeFacts, NoText
  <2>4. KeepsTree
    BY <1>1, <1>4, <2>3, OnePlace
  <2>. QED  BY <2>2, <2>4
<1>. QED  BY <1>2, <1>3, <1>4

LEMMA ListKeeps == ASSUME Busy, Remembers, List  PROVE Moves /\ KeepsTree
<1>1. AtRest /\ call.at = "list" /\ call.q.op = "ls"
  BY DEF List, countVars, AtRest, At
<1>2. KeepsTree
  BY <1>1, SameTree DEF Busy, AtRest
<1>. DEFINE listed == {m \in Locs : /\ Len(m) = Len(call.target) + 1 /\ IsPrefix(call.target, m)
                                     /\ Append(Here, Last(m)) \in Children(Here)}
            next == [call EXCEPT !.at = "act", !.listed = listed]
<1>3. CASE Raise("other_error")
  BY <1>2, <1>3, RaiseMoves DEF Results
<1>4. CASE On(next)
  <2>1. \A m \in listed : m[1] = call.q.ws
    BY SameCall, PrefixFirst
  <2>2. listed \in SUBSET Locs
    OBVIOUS
  <2>3. call \in Calls
    BY CallFacts DEF Busy
  <2>. HIDE DEF listed
  <2>4. /\ next \in Calls /\ next.q = call.q /\ next.batched = call.batched /\ next.next = call.next
        /\ next.out = call.out /\ next.target = call.target /\ next.held = call.held /\ next.listed = listed
    BY <2>2, <2>3 DEF Calls, Stages
  <2>. HIDE DEF next
  <2>5. SameFile(next)
    BY <1>1, <2>1, <2>4, SameCall DEF SameFile, Remembers
  <2>. QED  BY <1>1, <1>2, <1>4, <2>5, OnMoves DEF AtRest
<1>. QED  BY <1>3, <1>4 DEF List

LEMMA LsKeeps == ASSUME Busy, Remembers, Ls  PROVE Moves /\ KeepsTree
<1>1. AtRest /\ call.at = "act" /\ call.q.op = "ls"
  BY DEF Ls, countVars, AtRest, At
<1>2. KeepsTree
  BY <1>1, SameTree DEF Busy, AtRest
<1>. DEFINE shown == {m \in call.listed : ~Reserved(m)}
<1>3. CASE Raise("other_error")
  BY <1>2, <1>3, RaiseMoves DEF Results
<1>4. CASE Return(shown)
  <2>1. \A l \in shown : l[1] = call.q.ws /\ ~Reserved(l)
    BY SameCall
  <2>. HIDE DEF shown
  <2>2. Harmless("ok", <<>>, shown)
    BY <1>1, <2>1, NoOut DEF Harmless
  <2>. QED  BY <1>2, <1>4, <2>2, ReturnMoves
<1>. QED  BY <1>3, <1>4 DEF Ls

LEMMA WalkKeeps == ASSUME Busy, Remembers, Walk  PROVE Moves /\ KeepsTree
<1>1. AtRest /\ call.at = "check"
  BY DEF Walk, countVars, AtRest
<1>2. KeepsTree
  BY <1>1, SameTree DEF Busy, AtRest
<1>. DEFINE listed == Walked(call.q.ws)
            next == [call EXCEPT !.at = "act", !.listed = listed]
<1>3. CASE Raise("workspace_error")
  BY <1>2, <1>3, RaiseMoves DEF Results
<1>4. CASE On(next)
  <2>1. listed \in SUBSET Locs /\ \A m \in listed : m[1] = call.q.ws /\ ~Reserved(m)
    BY DEF Walked
  <2>2. call \in Calls
    BY CallFacts DEF Busy
  <2>. HIDE DEF listed
  <2>3. /\ next \in Calls /\ next.q = call.q /\ next.batched = call.batched /\ next.next = call.next
        /\ next.out = call.out /\ next.target = call.target /\ next.held = call.held /\ next.listed = listed
    BY <2>1, <2>2 DEF Calls, Stages
  <2>. HIDE DEF next
  <2>4. SameFile(next)
    BY <2>1, <2>3, SameCall DEF SameFile, Remembers
  <2>. QED  BY <1>1, <1>2, <1>4, <2>4, OnMoves DEF AtRest
<1>. QED  BY <1>3, <1>4 DEF Walk

\* A search that does not stray reads what is of its workspace.
LEMMA HitsFrom ==
    ASSUME Busy, ~crossed, ~Strays, At("grep", "act"), NEW hit \in Hits
    PROVE  From(hit.text, {call.q.ws})
<1>1. PICK m \in call.listed : hit \in HitsAt(m)
  BY DEF Hits
<1>. DEFINE text == tree[Led(m)].text
            lines == SplitLines(Decoded(text))
<1>2. IsFile(Led(m)) /\ \E k \in DOMAIN lines : hit.text = Bare(lines[k])
  BY <1>1 DEF HitsAt
<1>3. Led(m) \in Locs /\ Led(m)[1] = call.q.ws /\ ~Reserved(Led(m))
  BY <1>2, WithinFirst DEF IsFile, Strays, Outside
<1>4. text \in Seq(Chars)
  <2>1. tree[Led(m)] \in Nodes
    BY <1>3 DEF Busy, TypeOK
  <2>. QED  BY <2>1, NodeFacts
<1>5. From(text, {call.q.ws})
  BY <1>3 DEF Busy, Isolated, Belongs
<1>. HIDE DEF text
<1>. QED  BY <1>2, <1>4, <1>5, TextFacts

LEMMA SearchKeeps == ASSUME Busy, Remembers, Search  PROVE Moves /\ KeepsTree
<1>1. AtRest
  BY DEF Search, countVars, AtRest
<1>2. KeepsTree
  BY <1>1, SameTree DEF Busy, AtRest
<1>3. CASE At("glob", "act") /\ Return(call.listed)
  <2>1. Harmless("ok", <<>>, call.listed)
    BY <1>3, SameCall, NoOut DEF Harmless, At
  <2>. QED  BY <1>2, <1>3, <2>1, ReturnMoves
<1>4. CASE At("grep", "act") /\ Return(Hits)
  <2>1. ~crossed' => \A hit \in Hits : From(hit.text, {call.q.ws})
    BY <1>4, HitsFrom DEF Remembers
  <2>2. ~crossed' => Harmless("ok", <<>>, Hits)
    BY <1>4, <2>1, NoOut DEF Harmless, At
  <2>. QED  BY <1>2, <1>4, <2>2, ReturnMoves
<1>. QED  BY <1>3, <1>4 DEF Search

\* Every step of the service keeps to what it may do.
LEMMA ServiceKeeps ==
    ASSUME Busy, ServiceStep
    PROVE  Moves /\ KeepsTree /\ Remembers /\ UNCHANGED <<calls, batches, edits, before, touched, swapped>>
<1>1. Remembers
  BY DEF ServiceStep, Remembers
<1>2. "act" \in Stages /\ "read" \in Stages /\ "list" \in Stages
  BY DEF Stages
<1>3. CASE PutCheck \/ MkDir \/ Put \/ Get \/ Read \/ EditRead \/ Edit
  BY <1>1, <1>3, PutCheckKeeps, MkDirKeeps, PutKeeps, GetKeeps, ReadKeeps, EditReadKeeps, EditKeeps
     DEF PutCheck, MkDir, Put, Get, Read, EditRead, Edit, countVars
<1>4. CASE DeleteCheck \/ Delete \/ List \/ Ls \/ Walk \/ Search
  BY <1>1, <1>4, DeleteCheckKeeps, DeleteKeeps, ListKeeps, LsKeeps, WalkKeeps, SearchKeeps
     DEF DeleteCheck, Delete, List, Ls, Walk, Search, countVars
<1>5. CASE GetCheck \/ ReadCheck \/ EditCheck \/ LsCheck
  <2>1. IsFile(Loc) \in BOOLEAN /\ IsDir(Loc) \in BOOLEAN
    BY DEF IsFile, IsDir
  <2>2. (IsFile(Loc) /\ Len(tree[Loc].text) <= MaxRead) \in BOOLEAN
    BY DEF IsFile
  <2>3. (IsFile(Loc) \/ IsDir(Loc)) => Loc \in Locs
    BY DEF IsFile, IsDir
  <2>4. UNCHANGED <<calls, batches, edits, before, touched, swapped>>
    BY <1>5 DEF GetCheck, ReadCheck, EditCheck, LsCheck, Check, countVars
  <2>5. CASE GetCheck \/ EditCheck
    BY <1>1, <1>2, <2>1, <2>3, <2>4, <2>5, CheckMoves DEF GetCheck, EditCheck
  <2>6. CASE ReadCheck
    BY <1>1, <1>2, <2>2, <2>3, <2>4, <2>6, CheckMoves DEF ReadCheck
  <2>7. CASE LsCheck
    BY <1>1, <1>2, <2>1, <2>3, <2>4, <2>7, CheckMoves DEF LsCheck
  <2>. QED  BY <1>5, <2>5, <2>6, <2>7
<1>. QED  BY <1>3, <1>4, <1>5 DEF ServiceStep

------------------------------------------------------------------------------
(* The invariants hold.                                                      *)

LEMMA OutFirst ==
    ASSUME NEW out \in Seq(Seq(Chars)), out # <<>>
    PROVE  out[1] \in Seq(Chars) /\ 1 \in DOMAIN out
<1>1. Len(out) \in Nat /\ Len(out) > 0 /\ DOMAIN out = 1..Len(out)
  OBVIOUS
<1>2. 1 \in 1..Len(out)
  BY <1>1
<1>. QED  BY <1>1, <1>2

\* What the adapter collects.
LEMMA Collects ==
    ASSUME NEW b \in BatchStates, b = batch, b.at = "on", b.next \in DOMAIN b.q.items,
           NEW res \in Results, NEW out \in Seq(Seq(Chars)), NEW new, new = AfterFile(res, out)
    PROVE  /\ new \in BatchStates /\ (new.at = "on" => new.next \in DOMAIN new.q.items) /\ new.q = b.q
           /\ (\A i \in DOMAIN out : From(out[i], {b.q.ws})) /\ (\A i \in DOMAIN b.out : From(b.out[i].text, {b.q.ws}))
              => \A i \in DOMAIN new.out : From(new.out[i].text, {b.q.ws})
<1>. DEFINE text == IF out = <<>> THEN <<>> ELSE out[1]
            rec == [res |-> res, text |-> text]
            I == [res : Results, text : Seq(Chars)]
            outcomes == Append(b.out, rec)
<1>1. text \in Seq(Chars) /\ (text = <<>> \/ \E i \in DOMAIN out : text = out[i])
  BY NoText, OutFirst
<1>. HIDE DEF text
<1>2. rec \in I /\ rec.text = text
  BY <1>1
<1>3. b.out \in Seq(I) /\ b.q \in AllRequests /\ b.next \in Nat
  BY DEF BatchStates
<1>. HIDE DEF I, rec
<1>4. /\ outcomes \in Seq(I) /\ DOMAIN outcomes = 1..(Len(b.out) + 1) /\ DOMAIN b.out = 1..Len(b.out) /\ Len(b.out) \in Nat
      /\ outcomes[Len(b.out) + 1] = rec /\ \A i \in 1..Len(b.out) : outcomes[i] = b.out[i]
  BY <1>2, <1>3
<1>. HIDE DEF outcomes
<1>5. b.q.items \in Seq(Items) /\ DOMAIN b.q.items = 1..Len(b.q.items) /\ Len(b.q.items) \in Nat
  BY <1>3 DEF AllRequests
<1>6. CASE new = [b EXCEPT !.at = "raised", !.out = <<>>]
  <2>1. <<>> \in Seq(I) /\ DOMAIN <<>> = {}
    OBVIOUS
  <2>2. new \in BatchStates /\ new.at = "raised" /\ new.out = <<>> /\ new.q = b.q
    BY <1>3, <1>6, <2>1 DEF BatchStates, I
  <2>. QED  BY <2>1, <2>2
<1>7. CASE new = [b EXCEPT !.out = outcomes, !.next = @ + 1,
                           !.at = IF b.next = Len(b.q.items) THEN "returned" ELSE "on"]
  <2>. DEFINE stage == IF b.next = Len(b.q.items) THEN "returned" ELSE "on"
              all == Seq(I)
              after == [b EXCEPT !.out = outcomes, !.next = b.next + 1, !.at = stage]
  <2>1. BatchStates = [q : AllRequests, next : Nat, out : all, at : {"on", "raised", "returned"}]
    BY DEF BatchStates, I
  <2>2. stage \in {"on", "raised", "returned"} /\ outcomes \in all /\ b.next + 1 \in Nat
    BY <1>3, <1>4
  <2>3. new = after
    BY <1>7
  <2>. HIDE DEF stage, all
  <2>4. after \in BatchStates /\ after.q = b.q /\ after.out = outcomes /\ after.next = b.next + 1 /\ after.at = stage
    BY <2>1, <2>2
  <2>. HIDE DEF after
  <2>5. new \in BatchStates /\ new.q = b.q /\ new.out = outcomes /\ new.next = b.next + 1
        /\ new.at = IF b.next = Len(b.q.items) THEN "returned" ELSE "on"
    BY <2>3, <2>4 DEF stage
  <2>6. new.at = "on" => new.next \in DOMAIN new.q.items
    BY <1>5, <2>5
  <2>7. ASSUME \A i \in DOMAIN out : From(out[i], {b.q.ws}), \A i \in DOMAIN b.out : From(b.out[i].text, {b.q.ws}),
               NEW i \in DOMAIN outcomes
        PROVE  From(outcomes[i].text, {b.q.ws})
    <3>1. CASE i = Len(b.out) + 1
      BY <1>1, <1>2, <1>4, <2>7, <3>1, NoText
    <3>2. CASE i # Len(b.out) + 1
      <4>1. i \in DOMAIN b.out
        BY <1>4, <2>7, <3>2
      <4>. QED  BY <1>4, <2>7, <4>1
    <3>. QED  BY <3>1, <3>2
  <2>. QED  BY <2>5, <2>6, <2>7
<1>8. \/ new = [b EXCEPT !.at = "raised", !.out = <<>>]
      \/ new = [b EXCEPT !.out = outcomes, !.next = @ + 1,
                         !.at = IF b.next = Len(b.q.items) THEN "returned" ELSE "on"]
  BY Zenon DEF AfterFile, outcomes, rec, text
<1>. QED  BY <1>6, <1>7, <1>8

\* The batch when a call ends.
LEMMA BatchAfter ==
    ASSUME Busy, BatchInv, NEW res \in Results, NEW out \in Seq(Seq(Chars)), NEW value, Answer(res, out, value)
    PROVE  /\ batch' # NoBatch => batch' \in BatchStates /\ (batch'.at = "on" => batch'.next \in DOMAIN batch'.q.items)
           /\ ~crossed /\ (\A i \in DOMAIN out : From(out[i], {call.q.ws})) =>
                 (batch' # NoBatch => \A i \in DOMAIN batch'.out : From(batch'.out[i].text, {batch'.q.ws}))
<1>1. CASE ~call.batched
  <2>1. batch' = batch
    BY <1>1 DEF Answer
  <2>. QED  BY <2>1 DEF Busy, TypeOK, Isolated
<1>2. CASE call.batched
  <2>1. batch' = AfterFile(res, out)
    BY <1>2 DEF Answer
  <2>2. batch # NoBatch /\ batch.at = "on" /\ batch.q.ws = call.q.ws
    BY <1>2 DEF Busy, BatchInv
  <2>3. batch \in BatchStates /\ batch.next \in DOMAIN batch.q.items
    BY <2>2 DEF Busy, TypeOK
  <2>4. ~crossed => \A i \in DOMAIN batch.out : From(batch.out[i].text, {batch.q.ws})
    BY <2>2 DEF Busy, Isolated
  <2>. QED  BY <2>1, <2>2, <2>3, <2>4, Collects
<1>. QED  BY <1>1, <1>2

LEMMA StepType ==
    ASSUME Busy, BatchInv, ServiceStep
    PROVE  TypeOK'
<1>1. Moves /\ KeepsTree /\ UNCHANGED <<calls, batches, edits, before, touched, swapped>>
  BY ServiceKeeps
<1>2. /\ tree' \in [Locs -> Nodes] /\ before' \in [Locs -> Nodes]
      /\ link' \in [Locs -> Targets \cup {NoLink}] /\ Unchained(link')
      /\ calls' \in 0..MaxCalls /\ batches' \in 0..MaxBatches /\ edits' \in 0..MaxEdits
      /\ touched' \subseteq Locs /\ swapped' \subseteq touched'
  BY <1>1 DEF KeepsTree, Busy, TypeOK
<1>3. crossed' \in BOOLEAN
  BY DEF ServiceStep
<1>4. /\ call' # Idle => call' \in Calls /\ call'.next \in DOMAIN call'.q.items
      /\ answer' # NoAnswer => answer'.q \in AllRequests /\ answer'.res \in Results
      /\ batch' # NoBatch => batch' \in BatchStates /\ (batch'.at = "on" => batch'.next \in DOMAIN batch'.q.items)
  <2>1. CASE Proceeds
    <3>1. call' \in Calls /\ call'.next \in DOMAIN call'.q.items
      BY <2>1 DEF Proceeds
    <3>2. batch' = batch /\ answer' = answer
      BY <2>1 DEF Proceeds
    <3>. QED  BY <3>1, <3>2 DEF Busy, TypeOK
  <2>2. CASE Ends
    <3>1. PICK res, out, value : res \in Results /\ out \in Seq(Seq(Chars)) /\ Answer(res, out, value)
      BY <2>2 DEF Ends
    <3>2. call' = Idle /\ answer'.q = call.q /\ answer'.res = res
      BY <3>1 DEF Answer
    <3>3. call.q \in AllRequests
      BY CallFacts DEF Busy
    <3>. QED  BY <3>1, <3>2, <3>3, BatchAfter
  <2>. QED  BY <1>1, <2>1, <2>2 DEF Moves
<1>. QED  BY <1>2, <1>3, <1>4 DEF TypeOK

LEMMA StepIsolated ==
    ASSUME Busy, BatchInv, ServiceStep
    PROVE  Isolated'
<1>1. Moves /\ KeepsTree /\ Remembers
  BY ServiceKeeps
<1>. SUFFICES ASSUME ~crossed'  PROVE Isolated'
  BY DEF Isolated
<1>2. ~crossed
  BY <1>1 DEF Remembers
<1>3. Belongs(tree')
  <2>1. ASSUME NEW l \in Locs  PROVE From(tree'[l].text, IF Reserved(l) THEN {l[1], Meta} ELSE {l[1]})
    <3>1. tree'[l] = tree[l] \/ From(tree'[l].text, {l[1]})
      BY <1>1 DEF KeepsTree
    <3>2. From(tree[l].text, IF Reserved(l) THEN {l[1], Meta} ELSE {l[1]})
      BY <1>2 DEF Busy, Isolated, Belongs
    <3>3. From(tree'[l].text, {l[1]}) => From(tree'[l].text, {l[1], Meta})
      BY DEF From
    <3>. QED  BY <3>1, <3>2, <3>3
  <2>. QED  BY <2>1 DEF Belongs
<1>4. CASE Proceeds
  <2>1. batch' = batch /\ answer' = answer
    BY <1>4 DEF Proceeds
  <2>. QED  BY <1>2, <1>3, <2>1 DEF Busy, Isolated
<1>5. CASE Ends
  <2>1. PICK res, out, value : res \in Results /\ out \in Seq(Seq(Chars)) /\ Answer(res, out, value) /\ Harmless(res, out, value)
    BY <1>5 DEF Ends
  <2>2. answer'.q = call.q /\ answer'.res = res /\ answer'.out = out /\ answer'.value = value
    BY <2>1 DEF Answer
  <2>3. batch' # NoBatch => \A i \in DOMAIN batch'.out : From(batch'.out[i].text, {batch'.q.ws})
    BY <1>2, <2>1, BatchAfter DEF Harmless
  <2>. QED  BY <1>3, <2>1, <2>2, <2>3 DEF Isolated, Harmless
<1>. QED  BY <1>1, <1>4, <1>5 DEF Moves

\* Where a call is while an operation takes a step.
LEMMA StepBusy == ASSUME IndInv, ServiceStep  PROVE Busy
<1>1. call # Idle
  BY Zenon DEF ServiceStep, PutCheck, MkDir, Put, GetCheck, Get, ReadCheck, Read, EditCheck, EditRead, Edit, DeleteCheck,
         Delete, LsCheck, List, Ls, Walk, Search, Check, At
<1>. QED  BY <1>1 DEF IndInv, Busy

LEMMA StepInv ==
    ASSUME IndInv, ServiceStep
    PROVE  IndInv'
<1>1. Busy
  BY StepBusy
<1>2. Moves /\ UNCHANGED <<calls, batches, edits, before, touched, swapped>>
  BY <1>1, ServiceKeeps
<1>3. TypeOK' /\ Isolated'
  BY <1>1, StepType, StepIsolated DEF IndInv
<1>4. CASE Proceeds
  <2>1. GateInv'
    <3>1. SeenThrough(call'.target) /\ link' = link /\ swapped' = swapped
      BY <1>2, <1>4 DEF Proceeds
    <3>2. SeenThrough(call.target)'
      BY <3>1 DEF SeenThrough, IsLink
    <3>3. /\ call'.q = call.q /\ call'.target[1] = call.q.ws /\ ~Reserved(call'.target)
          /\ \A m \in call'.listed : m[1] = call.q.ws /\ (call.q.op \in {"glob", "grep"} => ~Reserved(m))
      BY <1>4 DEF Proceeds
    <3>. QED  BY <3>2, <3>3 DEF GateInv, Reserved
  <2>2. HeldInv'
    BY <1>4 DEF Proceeds, HeldInv
  <2>3. BatchInv'
    BY <1>1, <1>4 DEF Proceeds, BatchInv, IndInv, Busy
  <2>. QED  BY <1>3, <2>1, <2>2, <2>3 DEF IndInv
<1>5. CASE Ends
  <2>1. call' = Idle
    BY <1>5 DEF Ends, Answer
  <2>. QED  BY <1>3, <2>1 DEF IndInv, GateInv, HeldInv, BatchInv
<1>. QED  BY <1>2, <1>4, <1>5 DEF Moves

LEMMA RootSeen ==
    ASSUME NEW w \in Seq(Workspaces), Len(w) = 1, ~IsLink(w), link' = link
    PROVE  SeenThrough(w)'
<1>1. SubSeq(w, 1, 1) = w
  BY Beginning
<1>2. \A k \in 1..Len(w) : SubSeq(w, 1, k) = w
  BY <1>1
<1>3. \A k \in 1..Len(w) : ~(SubSeq(w, 1, k) \in Locs /\ link'[SubSeq(w, 1, k)] # NoLink)
  BY <1>2 DEF IsLink
<1>. QED  BY <1>3 DEF SeenThrough, IsLink

\* A call that begins.
LEMMA StartFacts ==
    ASSUME TypeOK, NEW q \in AllRequests, NEW batched \in BOOLEAN, Start(q, batched)
    PROVE  /\ call' \in Calls /\ call' # Idle /\ call'.next \in DOMAIN call'.q.items
           /\ call'.q = q /\ call'.batched = batched
           /\ answer' = NoAnswer /\ touched' = {} /\ swapped' = {} /\ before' = tree
           /\ UNCHANGED <<tree, link, batches, edits, crossed>>
           /\ GateInv' /\ HeldInv'
<1>. DEFINE base == <<q.ws>>
            new == [q |-> q, batched |-> batched, next |-> 1, at |-> "check", target |-> base,
                    out |-> <<>>, held |-> <<>>, listed |-> {}]
<1>1. q.ws \in Workspaces /\ q.items \in Seq(Items) /\ q.items # <<>>
  BY DEF AllRequests
<1>2. 1 \in DOMAIN q.items
  <2>1. Len(q.items) \in Nat /\ Len(q.items) > 0 /\ DOMAIN q.items = 1..Len(q.items)
    BY <1>1
  <2>. QED  BY <2>1
<1>3. base \in Locs /\ Len(base) = 1 /\ base[1] = q.ws /\ base \in Seq(Workspaces)
  BY <1>1 DEF Locs
<1>4. ~Reserved(base) /\ SeenThrough(base)'
  <2>1. ~IsLink(base) /\ link' = link
    BY <1>1 DEF TypeOK, IsLink, Unchained, Start
  <2>. HIDE DEF base
  <2>2. SeenThrough(base)'
    BY <1>3, <2>1, RootSeen
  <2>. QED  BY <1>3, <2>2 DEF Reserved
<1>5. call' = new
  BY DEF Start
<1>. HIDE DEF base
<1>6. /\ new.q = q /\ new.batched = batched /\ new.next = 1 /\ new.at = "check" /\ new.target = base
      /\ new.out = <<>> /\ new.held = <<>> /\ new.listed = {}
  OBVIOUS
<1>7. new \in Calls
  <2>1. <<>> \in Seq(Seq(Chars)) /\ <<>> \in Seq(Chars) /\ {} \in SUBSET Locs /\ "check" \in Stages /\ 1 \in Nat
    BY DEF Stages
  <2>. QED  BY <1>3, <2>1 DEF Calls
<1>. HIDE DEF new
<1>8. call' # Idle
  <2>1. new.at # Idle.at
    BY <1>6 DEF Idle
  <2>. QED  BY <1>5, <2>1
<1>9. GateInv'
  BY <1>3, <1>4, <1>5, <1>6 DEF GateInv, SeenThrough, Reserved
<1>10. HeldInv'
  BY <1>5, <1>6, NoText DEF HeldInv
<1>. QED  BY <1>2, <1>5, <1>6, <1>7, <1>8, <1>9, <1>10 DEF Start

LEMMA BeginInv == ASSUME IndInv, NEW q \in Requests, Begin(q)  PROVE IndInv'
<1>1. q \in AllRequests /\ FALSE \in BOOLEAN /\ Start(q, FALSE) /\ calls' = calls + 1 /\ batch' = batch /\ calls < MaxCalls
  BY RequestsKnown DEF Begin
<1>. DEFINE new == call'
<1>2. /\ call' \in Calls /\ call' # Idle /\ call'.next \in DOMAIN call'.q.items
      /\ call'.q = q /\ call'.batched = FALSE
      /\ answer' = NoAnswer /\ touched' = {} /\ swapped' = {} /\ before' = tree
      /\ UNCHANGED <<tree, link, batches, edits, crossed>>
      /\ GateInv' /\ HeldInv'
  BY <1>1, StartFacts DEF IndInv
<1>3. calls' \in 0..MaxCalls
  BY <1>1, BoundsKnown DEF IndInv, TypeOK
<1>4. TypeOK'
  BY <1>1, <1>2, <1>3 DEF IndInv, TypeOK, Unchained
<1>5. BatchInv'
  BY <1>2 DEF BatchInv
<1>6. Isolated'
  BY <1>1, <1>2 DEF IndInv, Isolated
<1>. QED  BY <1>2, <1>4, <1>5, <1>6 DEF IndInv

LEMMA BeginBatchInv == ASSUME IndInv, NEW q \in Batches, BeginBatch(q)  PROVE IndInv'
<1>. DEFINE new == [q |-> q, next |-> 1, out |-> <<>>, at |-> "on"]
<1>1. /\ q \in AllRequests /\ batch' = new /\ batches' = batches + 1 /\ batches < MaxBatches /\ call = Idle
      /\ UNCHANGED <<tree, link, call, answer, calls, edits, before, touched, swapped, crossed>>
  BY RequestsKnown DEF BeginBatch
<1>2. new \in BatchStates /\ new.next = 1 /\ new.out = <<>> /\ new.q = q /\ DOMAIN <<>> = {}
  <2>1. <<>> \in Seq([res : Results, text : Seq(Chars)]) /\ 1 \in Nat
    OBVIOUS
  <2>. QED  BY <1>1, <2>1 DEF BatchStates
<1>3. 1 \in DOMAIN q.items
  <2>1. q.items \in Seq(Items) /\ q.items # <<>>
    BY <1>1 DEF AllRequests
  <2>2. Len(q.items) \in Nat /\ Len(q.items) > 0 /\ DOMAIN q.items = 1..Len(q.items)
    BY <2>1
  <2>. QED  BY <2>2
<1>. HIDE DEF new
<1>4. batches' \in 0..MaxBatches
  BY <1>1, BoundsKnown DEF IndInv, TypeOK
<1>5. TypeOK'
  BY <1>1, <1>2, <1>3, <1>4 DEF IndInv, TypeOK, Unchained
<1>6. Isolated'
  BY <1>1, <1>2 DEF IndInv, Isolated
<1>. QED  BY <1>1, <1>5, <1>6 DEF IndInv, GateInv, HeldInv, BatchInv

\* What the adapter asks of the service is the part of its own request that is about one file.
LEMMA OneFile ==
    ASSUME NEW q \in AllRequests, NEW n \in DOMAIN q.items,
           NEW one, one = [q EXCEPT !.items = <<q.items[n]>>]
    PROVE  one \in AllRequests /\ one.ws = q.ws
<1>. DEFINE item == q.items[n]
            items == <<item>>
<1>1. /\ q.items \in Seq(Items) /\ q \in [op : Ops, ws : Workspaces, via : {"local", "http"}, all : BOOLEAN,
                                         offset : Int, limit : Nat, items : Seq(Items) \ {<<>>}]
      /\ From(item.text, {q.ws}) /\ From(item.new, {q.ws})
  BY DEF AllRequests
<1>2. item \in Items
  BY <1>1
<1>. HIDE DEF item
<1>3. items \in Seq(Items) \ {<<>>} /\ \A i \in DOMAIN items : items[i] = item
  BY <1>2
<1>4. one = [q EXCEPT !.items = items]
  BY DEF item
<1>. HIDE DEF items
<1>5. /\ one \in [op : Ops, ws : Workspaces, via : {"local", "http"}, all : BOOLEAN,
                 offset : Int, limit : Nat, items : Seq(Items) \ {<<>>}]
      /\ one.items = items /\ one.ws = q.ws
  BY <1>1, <1>3, <1>4
<1>. QED  BY <1>1, <1>3, <1>5 DEF AllRequests

LEMMA BeginFileInv == ASSUME IndInv, BeginFile  PROVE IndInv'
<1>. DEFINE q == [batch.q EXCEPT !.items = <<batch.q.items[batch.next]>>]
<1>1. batch.at = "on" /\ Start(q, TRUE) /\ calls' = calls /\ batch' = batch
  BY DEF BeginFile
<1>2. batch # NoBatch
  BY <1>1 DEF NoBatch
<1>3. batch.q \in AllRequests /\ batch.next \in DOMAIN batch.q.items
  BY <1>1, <1>2 DEF IndInv, TypeOK, BatchStates
<1>4. q \in AllRequests /\ q.ws = batch.q.ws
  BY <1>3, OneFile
<1>. HIDE DEF q
<1>5. /\ call' \in Calls /\ call' # Idle /\ call'.next \in DOMAIN call'.q.items
      /\ call'.q = q /\ call'.batched = TRUE
      /\ answer' = NoAnswer /\ touched' = {} /\ swapped' = {} /\ before' = tree
      /\ UNCHANGED <<tree, link, batches, edits, crossed>>
      /\ GateInv' /\ HeldInv'
  BY <1>1, <1>4, StartFacts DEF IndInv
<1>6. TypeOK'
  BY <1>1, <1>5 DEF IndInv, TypeOK, Unchained
<1>7. BatchInv'
  BY <1>1, <1>2, <1>4, <1>5 DEF BatchInv
<1>8. Isolated'
  BY <1>1, <1>5 DEF IndInv, Isolated
<1>. QED  BY <1>5, <1>6, <1>7, <1>8 DEF IndInv

\* What a command makes.
LEMMA CommandMakes ==
    ASSUME TypeOK, NEW l \in Locs, Command(l)
    PROVE  /\ tree' \in [Locs -> Nodes] /\ link' \in [Locs -> Targets \cup {NoLink}] /\ Unchained(link')
           /\ \A m \in Locs : m # l => tree'[m] = tree[m] /\ link'[m] = link[m]
           /\ From(tree'[l].text, {l[1]})
<1>1. tree \in [Locs -> Nodes] /\ link \in [Locs -> Targets \cup {NoLink}] /\ Unchained(link)
  BY DEF TypeOK
<1>2. \E thing \in Nodes : \E to \in Targets \cup {NoLink} :
         /\ Makes(l, thing, to) /\ From(thing.text, {l[1]})
         /\ to # NoLink => to \in Targets /\ ~IsLink(to) /\ to # l /\ \A m \in Locs : link[m] # l
  <2>1. CASE \E t \in Texts : From(t, {l[1]}) /\ Makes(l, File(t), NoLink)
    BY <2>1, TextsKnown, NodeFacts
  <2>2. CASE Makes(l, Dir, NoLink) \/ Makes(l, None, NoLink)
    BY <2>2, NodeFacts, NoText
  <2>3. CASE \E t \in Targets : ~IsLink(t) /\ ~IsPrefix(l, t) /\ Makes(l, None, t) /\ \A m \in Locs : link[m] # l
    <3>1. PICK t \in Targets : ~IsLink(t) /\ ~IsPrefix(l, t) /\ Makes(l, None, t) /\ \A m \in Locs : link[m] # l
      BY <2>3
    <3>2. t # l
      <4>1. l \in Seq(Workspaces \cup Names)
        BY LocFacts
      <4>2. IsPrefix(l, l)
        BY <4>1, Beginning DEF IsPrefix
      <4>. QED  BY <3>1, <4>2
    <3>. QED  BY <3>1, <3>2, NodeFacts, NoText
  <2>. QED  BY <2>1, <2>2, <2>3 DEF Command
<1>3. PICK thing \in Nodes, to \in Targets \cup {NoLink} :
         /\ Makes(l, thing, to) /\ From(thing.text, {l[1]})
         /\ to # NoLink => to \in Targets /\ ~IsLink(to) /\ to # l /\ \A m \in Locs : link[m] # l
  BY <1>2
<1>4. /\ tree' = [tree EXCEPT ![l] = thing] /\ link' = [link EXCEPT ![l] = to]
  BY <1>3 DEF Makes
<1>5. /\ tree' \in [Locs -> Nodes] /\ link' \in [Locs -> Targets \cup {NoLink}]
      /\ tree'[l] = thing /\ link'[l] = to
      /\ \A m \in Locs : m # l => tree'[m] = tree[m] /\ link'[m] = link[m]
  BY <1>1, <1>4
<1>6. Unchained(link')
  <2>1. \A w \in Workspaces : <<w>> \in Locs /\ <<w>> # l
    <3>1. Len(l) > 1
      BY DEF Command
    <3>. QED  BY <3>1 DEF Locs
  <2>2. ASSUME NEW m \in Locs, link'[m] # NoLink  PROVE link'[link'[m]] = NoLink
    <3>1. CASE m = l
      <4>1. link'[m] = to /\ to \in Locs /\ to # l /\ link[to] = NoLink
        BY <1>3, <1>5, <2>2, <3>1, TargetsKnown DEF IsLink
      <4>. QED  BY <1>5, <4>1
    <3>2. CASE m # l
      <4>1. link'[m] = link[m] /\ link[m] \in Locs /\ link[link[m]] = NoLink
        BY <1>1, <1>5, <2>2, <3>2, TargetsKnown DEF Unchained
      <4>2. CASE link[m] = l
        BY <1>3, <1>5, <4>1, <4>2
      <4>3. CASE link[m] # l
        BY <1>5, <4>1, <4>3
      <4>. QED  BY <4>2, <4>3
    <3>. QED  BY <3>1, <3>2
  <2>. QED  BY <1>1, <1>5, <2>1, <2>2 DEF Unchained
<1>. QED  BY <1>3, <1>5, <1>6

LEMMA CommandInv == ASSUME IndInv, NEW l \in Locs, Command(l)  PROVE IndInv'
<1>1. /\ tree' \in [Locs -> Nodes] /\ link' \in [Locs -> Targets \cup {NoLink}] /\ Unchained(link')
      /\ \A m \in Locs : m # l => tree'[m] = tree[m] /\ link'[m] = link[m]
      /\ From(tree'[l].text, {l[1]})
  BY CommandMakes DEF IndInv
<1>2. /\ edits < MaxEdits /\ edits' = edits + 1 /\ touched' = touched \cup {l}
      /\ swapped' = IF link' # link THEN swapped \cup {l} ELSE swapped
      /\ UNCHANGED <<call, batch, answer, calls, batches, before, crossed>>
  BY DEF Command
<1>3. edits' \in 0..MaxEdits
  BY <1>2, BoundsKnown DEF IndInv, TypeOK
<1>4. touched' \subseteq Locs /\ swapped' \subseteq touched'
  BY <1>2 DEF IndInv, TypeOK
<1>5. TypeOK'
  BY <1>1, <1>2, <1>3, <1>4 DEF IndInv, TypeOK
<1>6. Isolated'
  <2>. SUFFICES ASSUME ~crossed  PROVE Belongs(tree')
    BY <1>2 DEF IndInv, Isolated
  <2>1. ASSUME NEW m \in Locs  PROVE From(tree'[m].text, IF Reserved(m) THEN {m[1], Meta} ELSE {m[1]})
    <3>1. CASE m # l
      BY <1>1, <3>1 DEF IndInv, Isolated, Belongs
    <3>2. CASE m = l
      <4>1. From(tree'[m].text, {m[1]}) => From(tree'[m].text, {m[1], Meta})
        BY DEF From
      <4>. QED  BY <1>1, <3>2, <4>1
    <3>. QED  BY <3>1, <3>2
  <2>. QED  BY <2>1 DEF Belongs
<1>7. GateInv'
  <2>. SUFFICES ASSUME call # Idle  PROVE SeenThrough(call.target)'
    BY <1>2 DEF IndInv, GateInv, Reserved
  <2>1. ASSUME NEW k \in 1..Len(call.target), IsLink(SubSeq(call.target, 1, k))'
        PROVE  SubSeq(call.target, 1, k) \in swapped'
    <3>. DEFINE b == SubSeq(call.target, 1, k)
    <3>1. IsLink(b) => b \in swapped
      BY DEF IndInv, GateInv, SeenThrough
    <3>2. b \in Locs /\ link'[b] # NoLink
      BY <1>2, <2>1 DEF IsLink
    <3>. HIDE DEF b
    <3>3. link'[b] = link[b] => b \in swapped'
      BY <1>2, <3>1, <3>2 DEF IsLink
    <3>4. link'[b] # link[b] => b \in swapped'
      BY <1>1, <1>2, <3>2
    <3>. QED  BY <3>3, <3>4 DEF b
  <2>. QED  BY <1>2, <2>1 DEF SeenThrough
<1>. QED  BY <1>2, <1>5, <1>6, <1>7 DEF IndInv, HeldInv, BatchInv

LEMMA FirstInv == ASSUME Init  PROVE IndInv
<1>1. PICK i \in InitialTrees : tree = i.tree /\ link = i.link /\ before = i.tree
  BY DEF Init
<1>2. call = Idle /\ answer = NoAnswer /\ batch = NoBatch
  BY DEF Init
<1>3. calls = 0 /\ batches = 0 /\ edits = 0 /\ touched = {} /\ swapped = {} /\ crossed = FALSE
  BY DEF Init
<1>4. TypeOK
  <2>1. /\ tree \in [Locs -> Nodes] /\ before \in [Locs -> Nodes]
        /\ link \in [Locs -> Targets \cup {NoLink}] /\ Unchained(link)
    BY <1>1, TreesKnown
  <2>2. calls \in 0..MaxCalls /\ batches \in 0..MaxBatches /\ edits \in 0..MaxEdits
    BY <1>3, BoundsKnown
  <2>. QED  BY <1>2, <1>3, <2>1, <2>2 DEF TypeOK
<1>5. Isolated
  BY <1>1, <1>2, TreesKnown DEF Isolated
<1>. QED  BY <1>2, <1>4, <1>5 DEF IndInv, GateInv, HeldInv, BatchInv

LEMMA NextInv == ASSUME IndInv, [Next]_vars  PROVE IndInv'
<1>1. CASE UNCHANGED vars
  BY <1>1 DEF vars, IndInv, TypeOK, GateInv, HeldInv, BatchInv, Isolated, Unchained, SeenThrough, IsLink, Belongs, Reserved
<1>. QED  BY <1>1, StepInv, BeginInv, BeginBatchInv, BeginFileInv, CommandInv DEF Next

LEMMA Always == Spec => []IndInv
<1>1. Init => IndInv
  BY FirstInv
<1>2. IndInv /\ [Next]_vars => IndInv'
  BY NextInv
<1>. QED  BY <1>1, <1>2, PTL DEF Spec

------------------------------------------------------------------------------
(* The theorems.                                                             *)

\* As long as no call has followed a link that it did not check, nothing of one workspace, or
\* of its .forge, gets into the files of another, into an answer or into what the adapter
\* collects: whatever paths, links and edits there are, and whatever commands do meanwhile.
THEOREM KeepsApart == Spec => []Isolated
<1>1. IndInv => Isolated
  BY DEF IndInv
<1>. QED  BY <1>1, Always, PTL

\* No operation changes anything but what its path named when it was checked, in its own
\* workspace and outside .forge, unless the path leads elsewhere by now.
THEOREM StaysConfined == Spec => Confined
<1>1. IndInv /\ ServiceStep => \A l \in Locs : ConfinedAt(l)
  BY StepBusy, ServiceKeeps DEF KeepsTree
<1>2. IndInv /\ [Next]_vars =>
        [ServiceStep => \A l \in Locs : tree'[l] # tree[l] \/ link'[l] # link[l] =>
            \/ Diverted
            \/ /\ l[1] = call.q.ws /\ ~Reserved(l)
               /\ l = call.target \/ (tree[l] = None /\ tree'[l] = Dir /\ l \in Above(call.target))]_vars
  BY <1>1 DEF ConfinedAt
<1>. QED  BY <1>2, Always, PTL DEF Spec, Confined

\* A path leads elsewhere than when it was checked only through a link that has been put there
\* since the call began, however many links there were before.
THEOREM ChecksSeeThrough == Spec => OnlyLateLinks
<1>1. ASSUME IndInv, ServiceStep, Diverted  PROVE \E l \in swapped : IsLink(l) /\ IsPrefix(l, call.target)
  <2>1. call.target \in Locs /\ SeenThrough(call.target)
    BY <1>1, StepBusy, SameCall
  <2>2. ~Unlinked(call.target)
    BY <1>1, <2>1, LedThere DEF Diverted, Here
  <2>3. PICK k \in 1..Len(call.target) : IsLink(SubSeq(call.target, 1, k))
    BY <2>2 DEF Unlinked
  <2>. DEFINE l == SubSeq(call.target, 1, k)
  <2>4. l \in swapped
    BY <2>1, <2>3 DEF SeenThrough
  <2>5. IsPrefix(l, call.target)
    <3>1. call.target \in Seq(Workspaces \cup Names) /\ k \in Nat /\ k <= Len(call.target)
      BY <2>1, LocFacts
    <3>2. Len(l) = k /\ \A i \in 1..k : l[i] = call.target[i]
      BY <3>1, Beginning
    <3>3. SubSeq(l, 1, Len(l)) = SubSeq(call.target, 1, Len(l)) /\ Len(l) <= Len(call.target)
      BY <3>1, <3>2, Beginning
    <3>. QED  BY <3>3 DEF IsPrefix
  <2>. QED  BY <2>3, <2>4, <2>5
<1>2. IndInv /\ [Next]_vars =>
        [ServiceStep /\ Diverted => \E l \in swapped : IsLink(l) /\ IsPrefix(l, call.target)]_vars
  BY <1>1
<1>. QED  BY <1>2, Always, PTL DEF Spec, OnlyLateLinks

------------------------------------------------------------------------------
(* What a call that writes files has done so far.                            *)

\* The lesser of two numbers.
LEMMA Lesser == ASSUME NEW a \in Int, NEW b \in Int  PROVE Min({a, b}) = IF a <= b THEN a ELSE b
<1>1. \E x \in {a, b} : \A y \in {a, b} : x <= y
  OBVIOUS
<1>2. Min({a, b}) \in {a, b} /\ \A y \in {a, b} : Min({a, b}) <= y
  BY <1>1 DEF Min
<1>. QED  BY <1>2

\* A location that none of the first n files is at is as it was, or a new directory.
Bypassed(q, n, l) ==
    /\ \A i \in 1..n : Named(q, i) # l
    /\ tree[l] = before[l] \/ NewDir(q, n, l)

\* What has been written where no command was, file by file, and where the next one is to go.
WriteInv ==
    /\ call # Idle => answer = NoAnswer
    /\ \A q, n : call # Idle /\ q.op = "put" /\ swapped = {} /\ call.q = q /\ n \in Nat /\ call.next = n + 1 =>
          /\ \A l \in Locs \ touched : LastOf(q, n, l) \/ Bypassed(q, n, l)
          /\ call.at # "check" => call.target = Named(q, n + 1)

\* PutAccounted, for the request of the answer.
AnswerInv ==
    \A q : answer # NoAnswer /\ answer.q = q /\ q.op = "put" /\ swapped = {} =>
        \E n \in 0..Len(q.items) :
            /\ answer.res = "ok" => n = Len(q.items)
            /\ \A l \in Locs \ touched :
                  LastOf(q, n, l) \/ (answer.res # "ok" /\ CutAt(q, n, l)) \/ Bypassed(q, n, l)

LEMMA NamedSame == ASSUME link' = link, NEW q, NEW i  PROVE Named(q, i)' = Named(q, i)
BY DEF Named, Resolved, Resolve, Followed, IsLink

LEMMA PlaceSame ==
    ASSUME link' = link, before' = before, NEW q, NEW n, NEW l, tree'[l] = tree[l]
    PROVE  /\ LastOf(q, n, l) => LastOf(q, n, l)'
           /\ CutAt(q, n, l) => CutAt(q, n, l)'
           /\ Bypassed(q, n, l) => Bypassed(q, n, l)'
BY NamedSame DEF LastOf, CutAt, Bypassed, NewDir

\* Where commands have not been, what is accounted for stays so.
LEMMA AnswerSame ==
    ASSUME AnswerInv, answer' = answer, before' = before, touched \subseteq touched',
           swapped' = {} => link' = link /\ swapped = {},
           \A l \in Locs \ touched' : tree'[l] = tree[l]
    PROVE  AnswerInv'
<1>. SUFFICES ASSUME NEW q, answer # NoAnswer, answer.q = q, q.op = "put", swapped' = {}
              PROVE  \E n \in 0..Len(q.items) :
                        /\ answer.res = "ok" => n = Len(q.items)
                        /\ \A l \in Locs \ touched' :
                              LastOf(q, n, l)' \/ (answer.res # "ok" /\ CutAt(q, n, l)') \/ Bypassed(q, n, l)'
  BY DEF AnswerInv
<1>1. PICK n \in 0..Len(q.items) :
         /\ answer.res = "ok" => n = Len(q.items)
         /\ \A l \in Locs \ touched :
               LastOf(q, n, l) \/ (answer.res # "ok" /\ CutAt(q, n, l)) \/ Bypassed(q, n, l)
  BY DEF AnswerInv
<1>2. ASSUME NEW l \in Locs \ touched'
      PROVE  LastOf(q, n, l)' \/ (answer.res # "ok" /\ CutAt(q, n, l)') \/ Bypassed(q, n, l)'
  <2>1. LastOf(q, n, l) \/ (answer.res # "ok" /\ CutAt(q, n, l)) \/ Bypassed(q, n, l)
    BY <1>1
  <2>2. tree'[l] = tree[l] /\ link' = link
    OBVIOUS
  <2>. QED  BY <2>1, <2>2, PlaceSame
<1>. QED  BY <1>1, <1>2

LEMMA WriteSame ==
    ASSUME WriteInv, call' = call, answer' = answer, before' = before, touched \subseteq touched',
           swapped' = {} => link' = link /\ swapped = {},
           \A l \in Locs \ touched' : tree'[l] = tree[l]
    PROVE  WriteInv'
<1>. SUFFICES ASSUME NEW q, NEW n \in Nat, call # Idle, q.op = "put", swapped' = {}, call.q = q, call.next = n + 1
              PROVE  /\ \A l \in Locs \ touched' : LastOf(q, n, l)' \/ Bypassed(q, n, l)'
                     /\ call.at # "check" => call.target = Named(q, n + 1)'
  BY DEF WriteInv
<1>1. /\ \A l \in Locs \ touched : LastOf(q, n, l) \/ Bypassed(q, n, l)
      /\ call.at # "check" => call.target = Named(q, n + 1)
  BY DEF WriteInv
<1>2. link' = link
  OBVIOUS
<1>3. ASSUME NEW l \in Locs \ touched'  PROVE LastOf(q, n, l)' \/ Bypassed(q, n, l)'
  BY <1>1, <1>2, <1>3, PlaceSame
<1>. QED  BY <1>1, <1>2, <1>3, NamedSame

\* A call that begins has done nothing.
LEMMA WriteStarts ==
    ASSUME NEW q0, NEW batched, Start(q0, batched)
    PROVE  WriteInv' /\ AnswerInv'
<1>1. answer' = NoAnswer /\ tree' = tree /\ before' = tree
      /\ call'.next = 1 /\ call'.at = "check"
  BY DEF Start
<1>2. AnswerInv'
  BY <1>1 DEF AnswerInv
<1>3. ASSUME NEW q, NEW n \in Nat, call'.next = n + 1, NEW l \in Locs \ touched'
      PROVE  Bypassed(q, n, l)'
  <2>1. n = 0
    BY <1>1, <1>3
  <2>2. tree'[l] = before'[l] /\ \A i \in 1..n : FALSE
    BY <1>1, <2>1
  <2>. QED  BY <2>2 DEF Bypassed
<1>. QED  BY <1>1, <1>2, <1>3 DEF WriteInv

\* The state in which a file is written.
LEMMA PutFacts ==
    ASSUME Busy, WriteInv, swapped = {}, call.q.op = "put"
    PROVE  \E n \in Nat :
              /\ call.next = n + 1 /\ n < Len(call.q.items) /\ Len(call.q.items) \in Nat
              /\ Item = call.q.items[n + 1] /\ Loc = Named(call.q, n + 1)
              /\ \A l \in Locs \ touched : LastOf(call.q, n, l) \/ Bypassed(call.q, n, l)
              /\ call.at # "check" => call.target = Named(call.q, n + 1)
<1>1. call.q.items \in Seq(Items) /\ call.next \in DOMAIN call.q.items /\ call # Idle
  BY CallFacts DEF Busy
<1>2. Len(call.q.items) \in Nat /\ call.next \in 1..Len(call.q.items)
  BY <1>1
<1>. DEFINE n == call.next - 1
<1>3. n \in Nat /\ call.next = n + 1 /\ n < Len(call.q.items)
  BY <1>2
<1>. HIDE DEF n
<1>4. Item = call.q.items[n + 1] /\ Loc = Named(call.q, n + 1)
  BY <1>3 DEF Item, Loc, Named
<1>. QED  BY <1>1, <1>2, <1>3, <1>4 DEF WriteInv

\* An error ends the call; the file it was about is as it was, or cut.
LEMMA RaiseAccounts ==
    ASSUME Busy, ServiceStep, NEW q, q = call.q, NEW n \in 0..Len(q.items),
           NEW error \in Results \ {"ok"}, Raise(error),
           \A l \in Locs \ touched : LastOf(q, n, l)' \/ CutAt(q, n, l)' \/ Bypassed(q, n, l)'
    PROVE  WriteInv' /\ AnswerInv'
<1>1. call' = Idle /\ answer'.q = q /\ answer'.res # "ok" /\ touched' = touched
  BY Errors, ServiceKeeps DEF Raise, Answer
<1>. QED  BY <1>1 DEF WriteInv, AnswerInv

\* The call goes on.
LEMMA OnAccounts ==
    ASSUME NEW q, q = call'.q, NEW n \in Nat, call'.next = n + 1, answer' = NoAnswer,
           \A l \in Locs \ touched' : LastOf(q, n, l)' \/ Bypassed(q, n, l)',
           call'.at # "check" => call'.target = Named(q, n + 1)'
    PROVE  WriteInv' /\ AnswerInv'
<1>1. ASSUME NEW m \in Nat, call'.next = m + 1  PROVE m = n
  BY <1>1
<1>. QED  BY <1>1 DEF WriteInv, AnswerInv

LEMMA PutCheckAccounts ==
    ASSUME Busy, WriteInv, swapped = {}, ServiceStep, PutCheck
    PROVE  WriteInv' /\ AnswerInv'
<1>. DEFINE q == call.q
<1>1. /\ q.op = "put" /\ AtRest /\ before' = before /\ touched' = touched
  BY DEF PutCheck, At, countVars, AtRest
<1>2. PICK n \in Nat :
         /\ call.next = n + 1 /\ n < Len(q.items) /\ Len(q.items) \in Nat
         /\ Loc = Named(q, n + 1)
         /\ \A l \in Locs \ touched : LastOf(q, n, l) \/ Bypassed(q, n, l)
  BY <1>1, PutFacts
<1>3. \A p : p = call.q => \A l \in Locs \ touched : LastOf(p, n, l)' \/ Bypassed(p, n, l)'
  BY <1>1, <1>2, PlaceSame DEF AtRest
<1>4. \/ \E error \in Results \ {"ok"} : Raise(error)
      \/ Checked("mkdir")
  <2>1. \/ ~Granted /\ Raise(Refusal(call.q.ws, Item.path))
        \/ Granted /\ Loc \in Locs /\ Checked("mkdir")
        \/ Raise("workspace_error")
    BY Zenon DEF PutCheck, Granted
  <2>. QED  BY <2>1, Denied DEF Results
<1>5. CASE \E error \in Results \ {"ok"} : Raise(error)
  <2>1. n \in 0..Len(q.items)
    BY <1>2
  <2>. QED  BY <1>3, <1>5, <2>1, RaiseAccounts
<1>6. CASE Checked("mkdir")
  <2>. DEFINE place == Loc
              next == [call EXCEPT !.at = "mkdir", !.target = place]
  <2>1. call' = next /\ answer' = answer /\ call \in Calls /\ answer = NoAnswer
    BY <1>6, CallFacts DEF Checked, On, Busy, WriteInv
  <2>. HIDE DEF place
  <2>2. next.q = call.q /\ next.next = call.next /\ next.target = place
    BY <2>1 DEF Calls
  <2>. HIDE DEF next
  <2>3. \A p : p = call.q => place = Named(p, n + 1)'
    BY <1>1, <1>2, NamedSame DEF place, AtRest
  <2>. QED  BY <1>1, <1>2, <1>3, <2>1, <2>2, <2>3, OnAccounts
<1>. QED  BY <1>4, <1>5, <1>6

LEMMA MkDirAccounts ==
    ASSUME Busy, WriteInv, swapped = {}, ServiceStep, MkDir
    PROVE  WriteInv' /\ AnswerInv'
<1>. DEFINE q == call.q
<1>1. /\ q.op = "put" /\ call.at = "mkdir" /\ link' = link /\ before' = before /\ touched' = touched
  BY DEF MkDir, At, countVars
<1>2. PICK n \in Nat :
         /\ call.next = n + 1 /\ n < Len(q.items) /\ Len(q.items) \in Nat
         /\ \A l \in Locs \ touched : LastOf(q, n, l) \/ Bypassed(q, n, l)
         /\ call.target = Named(q, n + 1)
  BY <1>1, PutFacts
<1>3. CASE Raise("other_error") /\ UNCHANGED tree
  <2>1. n \in 0..Len(q.items)
    BY <1>2
  <2>2. \A p : p = call.q => \A l \in Locs \ touched : LastOf(p, n, l)' \/ Bypassed(p, n, l)'
    BY <1>1, <1>2, <1>3, PlaceSame
  <2>. QED  BY <1>3, <2>1, <2>2, RaiseAccounts DEF Results
<1>4. CASE /\ Then("act")
           /\ tree' = [m \in Locs |-> IF m \in Above(call.target) /\ Vacant(m) THEN Dir ELSE tree[m]]
  <2>. DEFINE next == [call EXCEPT !.at = "act"]
  <2>1. call' = next /\ answer' = answer /\ call \in Calls /\ answer = NoAnswer
    BY <1>4, CallFacts DEF Then, On, Busy, WriteInv
  <2>2. next.q = call.q /\ next.next = call.next /\ next.target = call.target
    BY <2>1 DEF Calls
  <2>. HIDE DEF next
  <2>3. ASSUME NEW p, p = call.q, NEW l \in Locs \ touched  PROVE LastOf(p, n, l)' \/ Bypassed(p, n, l)'
    <3>1. LastOf(p, n, l) \/ Bypassed(p, n, l)
      BY <1>2, <2>3
    <3>2. CASE ~(l \in Above(call.target) /\ Vacant(l))
      <4>1. tree'[l] = tree[l]
        BY <1>4, <3>2
      <4>. QED  BY <1>1, <3>1, <4>1, PlaceSame
    <3>3. CASE l \in Above(call.target) /\ Vacant(l)
      <4>1. tree[l] = None
        <5>1. tree[l] \in Nodes
          BY DEF Busy, TypeOK
        <5>. QED  BY <3>3, <5>1, NodeFacts DEF Vacant, Exists, IsFile, IsDir
      <4>2. ~LastOf(p, n, l)
        <5>1. ASSUME NEW t  PROVE File(t) # None
          <6>1. File(t).kind = "file"
            BY DEF File
          <6>. QED  BY <6>1, NodeFacts
        <5>. QED  BY <4>1, <5>1 DEF LastOf
      <4>3. tree'[l] = Dir /\ before'[l] = None
        <5>1. Bypassed(p, n, l) /\ tree[l] # Dir
          BY <3>1, <4>1, <4>2, NodeFacts
        <5>2. tree[l] = before[l]
          BY <5>1 DEF Bypassed, NewDir
        <5>. QED  BY <1>1, <1>4, <3>3, <4>1, <5>2
      <4>4. NewDir(p, n, l)'
        <5>1. n + 1 \in 1..Min({n + 1, Len(p.items)})
          BY <1>2, <2>3, Lesser
        <5>2. Named(p, n + 1)' = call.target /\ l \in Above(call.target)
          BY <1>1, <1>2, <2>3, <3>3, NamedSame
        <5>. QED  BY <4>3, <5>1, <5>2 DEF NewDir
      <4>5. \A i \in 1..n : Named(p, i)' # l
        <5>1. \A i \in 1..n : Named(p, i) # l
          BY <3>1, <4>2 DEF Bypassed
        <5>. QED  BY <1>1, <5>1, NamedSame
      <4>. QED  BY <4>4, <4>5 DEF Bypassed
    <3>. QED  BY <3>2, <3>3
  <2>4. \A p : p = call.q => call.target = Named(p, n + 1)'
    BY <1>1, <1>2, NamedSame
  <2>. QED  BY <1>1, <1>2, <2>1, <2>2, <2>3, <2>4, OnAccounts
<1>. QED  BY <1>3, <1>4 DEF MkDir

\* While no link has changed, a call gets where its path was checked.
LEMMA StraightOn ==
    ASSUME Busy, swapped = {}
    PROVE  Here = call.target
<1>1. call.target \in Locs /\ Unlinked(call.target)
  BY SameCall DEF SeenThrough, Unlinked
<1>. QED  BY <1>1, LedThere DEF Here

LEMMA PutAccounts ==
    ASSUME Busy, WriteInv, swapped = {}, ServiceStep, Put
    PROVE  WriteInv' /\ AnswerInv'
<1>. DEFINE q == call.q
<1>1. /\ q.op = "put" /\ call.at = "act" /\ link' = link /\ before' = before /\ touched' = touched
  BY DEF Put, At, countVars
<1>2. PICK n \in Nat :
         /\ call.next = n + 1 /\ n < Len(q.items) /\ Len(q.items) \in Nat
         /\ Item = q.items[n + 1]
         /\ \A l \in Locs \ touched : LastOf(q, n, l) \/ Bypassed(q, n, l)
         /\ call.target = Named(q, n + 1)
  BY <1>1, PutFacts
<1>3. tree \in [Locs -> Nodes] /\ call.target \in Locs /\ Here = call.target
  BY SameCall, StraightOn DEF Busy, TypeOK
<1>4. n \in 0..Len(q.items) /\ n + 1 \in 0..Len(q.items) /\ n + 1 \in Nat /\ n + 1 \in 1..(n + 1)
  BY <1>2
\* The other locations are as they were.
<1>5. ASSUME NEW x, tree' = [tree EXCEPT ![Here] = x], NEW p, p = call.q, NEW l \in Locs \ touched, l # call.target
      PROVE  LastOf(p, n, l)' \/ Bypassed(p, n, l)'
  <2>1. tree'[l] = tree[l]
    BY <1>3, <1>5
  <2>2. LastOf(p, n, l) \/ Bypassed(p, n, l)
    BY <1>2, <1>5
  <2>. QED  BY <1>1, <2>1, <2>2, PlaceSame
<1>6. CASE BreaksOff(Here, Item.text)
  <2>1. Raise("other_error")
    BY <1>6 DEF BreaksOff
  <2>2. CASE UNCHANGED tree
    <3>1. \A p : p = call.q => \A l \in Locs \ touched : LastOf(p, n, l)' \/ Bypassed(p, n, l)'
      BY <1>1, <1>2, <2>2, PlaceSame
    <3>. QED  BY <1>4, <2>1, <3>1, RaiseAccounts DEF Results
  <2>3. CASE \E part \in Cut(Item.text) : tree' = [tree EXCEPT ![Here] = File(part)]
    <3>1. PICK part \in Cut(Item.text) : tree' = [tree EXCEPT ![Here] = File(part)]
      BY <2>3
    <3>2. tree'[call.target] = File(part)
      BY <1>3, <3>1
    <3>3. \A p : p = call.q => \A l \in Locs \ touched : LastOf(p, n, l)' \/ CutAt(p, n, l)' \/ Bypassed(p, n, l)'
      <4>1. ASSUME NEW p, p = call.q, NEW l \in Locs \ touched
            PROVE  LastOf(p, n, l)' \/ CutAt(p, n, l)' \/ Bypassed(p, n, l)'
        <5>1. CASE l # call.target
          BY <1>5, <3>1, <4>1, <5>1
        <5>2. CASE l = call.target
          BY <1>1, <1>2, <3>1, <3>2, <4>1, <5>2, NamedSame DEF CutAt
        <5>. QED  BY <5>1, <5>2
      <4>. QED  BY <4>1
    <3>. QED  BY <1>4, <2>1, <3>3, RaiseAccounts DEF Results
  <2>. QED  BY <1>6, <2>2, <2>3 DEF BreaksOff
<1>7. CASE tree' = [tree EXCEPT ![Here] = File(Item.text)] /\ FileDone(<<>>)
  <2>. DEFINE x == File(Item.text)
  <2>1. tree' = [tree EXCEPT ![Here] = x] /\ tree'[call.target] = x
    BY <1>3, <1>7
  <2>2. ASSUME NEW p, p = call.q, NEW l \in Locs \ touched
        PROVE  LastOf(p, n + 1, l)' \/ Bypassed(p, n + 1, l)'
    <3>1. CASE l = call.target
      <4>1. Named(p, n + 1)' = l /\ tree'[l] = File(p.items[n + 1].text)
        BY <1>1, <1>2, <2>1, <2>2, <3>1, NamedSame
      <4>2. \A j \in ((n + 1) + 1)..(n + 1) : FALSE
        BY <1>2
      <4>. QED  BY <1>4, <4>1, <4>2 DEF LastOf
    <3>2. CASE l # call.target
      <4>1. Named(p, n + 1)' # l
        BY <1>1, <1>2, <2>2, <3>2, NamedSame
      <4>2. LastOf(p, n, l)' \/ Bypassed(p, n, l)'
        BY <1>5, <2>1, <2>2, <3>2
      <4>3. \A j : j \in 1..(n + 1) <=> j \in 1..n \/ j = n + 1
        BY <1>2
      <4>4. \A i \in 1..n : \A j : j \in (i + 1)..(n + 1) => j \in (i + 1)..n \/ j = n + 1
        BY <1>2
      <4>5. LastOf(p, n, l)' => LastOf(p, n + 1, l)'
        BY <4>1, <4>3, <4>4 DEF LastOf
      <4>6. NewDir(p, n, l)' => NewDir(p, n + 1, l)'
        <5>1. 1..Min({n + 1, Len(p.items)}) \subseteq 1..Min({(n + 1) + 1, Len(p.items)})
          BY <1>2, <2>2, Lesser
        <5>. QED  BY <5>1 DEF NewDir
      <4>7. Bypassed(p, n, l)' => Bypassed(p, n + 1, l)'
        BY <4>1, <4>3, <4>6 DEF Bypassed
      <4>. QED  BY <4>2, <4>5, <4>7
    <3>. QED  BY <3>1, <3>2
  <2>. HIDE DEF x
  <2>3. CASE call.next = Len(call.q.items)
    <3>1. call' = Idle /\ answer'.q = call.q /\ answer'.res = "ok"
      BY <1>7, <2>3 DEF FileDone, Answer
    <3>2. n + 1 = Len(call.q.items)
      BY <1>2, <2>3
    <3>. QED  BY <1>1, <1>4, <2>2, <3>1, <3>2 DEF WriteInv, AnswerInv
  <2>4. CASE call.next # Len(call.q.items)
    <3>. DEFINE out == Append(call.out, <<>>)
                next == [call EXCEPT !.next = @ + 1, !.out = out, !.at = "check"]
    <3>1. call' = next /\ answer' = answer /\ call \in Calls /\ answer = NoAnswer
      BY <1>7, <2>4, CallFacts DEF FileDone, Busy, WriteInv
    <3>. HIDE DEF out
    <3>2. next.q = call.q /\ next.next = call.next + 1 /\ next.at = "check"
      BY <3>1 DEF Calls
    <3>. HIDE DEF next
    <3>3. call'.next = (n + 1) + 1
      BY <1>2, <3>1, <3>2
    <3>. QED  BY <1>1, <1>4, <2>2, <3>1, <3>2, <3>3, OnAccounts
  <2>. QED  BY <2>3, <2>4
<1>. QED  BY <1>6, <1>7 DEF Put

LEMMA StepAccounts ==
    ASSUME Busy, WriteInv, ServiceStep
    PROVE  WriteInv' /\ AnswerInv'
<1>1. Moves /\ swapped' = swapped /\ answer = NoAnswer
  BY ServiceKeeps DEF WriteInv, Busy
<1>2. CASE swapped # {} \/ call.q.op # "put"
  <2>1. CASE Proceeds
    <3>1. answer' = NoAnswer /\ call'.q = call.q
      BY <1>1, <2>1 DEF Proceeds
    <3>. QED  BY <1>1, <1>2, <3>1 DEF WriteInv, AnswerInv
  <2>2. CASE Ends
    <3>1. call' = Idle /\ answer'.q = call.q
      BY <2>2 DEF Ends, Answer
    <3>. QED  BY <1>1, <1>2, <3>1 DEF WriteInv, AnswerInv
  <2>. QED  BY <1>1, <2>1, <2>2 DEF Moves
<1>3. CASE swapped = {} /\ call.q.op = "put"
  <2>1. PutCheck \/ MkDir \/ Put
    BY <1>3, Zenon DEF ServiceStep, GetCheck, Get, ReadCheck, Read, EditCheck, EditRead, Edit, DeleteCheck, Delete,
       LsCheck, List, Ls, Walk, Search, Check, At
  <2>. QED  BY <1>3, <2>1, PutCheckAccounts, MkDirAccounts, PutAccounts
<1>. QED  BY <1>2, <1>3

LEMMA NextAccounts ==
    ASSUME IndInv, WriteInv, AnswerInv, [Next]_vars
    PROVE  WriteInv' /\ AnswerInv'
<1>1. CASE UNCHANGED vars
  BY <1>1, WriteSame, AnswerSame DEF vars
<1>2. CASE ServiceStep
  BY <1>2, StepBusy, StepAccounts
<1>3. ASSUME NEW q \in Requests, Begin(q)  PROVE WriteInv' /\ AnswerInv'
  BY <1>3, WriteStarts DEF Begin
<1>4. CASE BeginFile
  BY <1>4, WriteStarts DEF BeginFile
<1>5. ASSUME NEW q \in Batches, BeginBatch(q)  PROVE WriteInv' /\ AnswerInv'
  BY <1>5, WriteSame, AnswerSame DEF BeginBatch
<1>6. ASSUME NEW l \in Locs, Command(l)  PROVE WriteInv' /\ AnswerInv'
  <2>1. /\ UNCHANGED <<call, batch, answer, calls, batches, before, crossed>>
        /\ touched' = touched \cup {l}
        /\ swapped' = IF link' # link THEN swapped \cup {l} ELSE swapped
    BY <1>6 DEF Command
  <2>2. swapped' = {} => link' = link /\ swapped = {}
    BY <2>1
  <2>3. \A m \in Locs \ touched' : tree'[m] = tree[m]
    BY <1>6, <2>1, CommandMakes DEF IndInv
  <2>. QED  BY <2>1, <2>2, <2>3, WriteSame, AnswerSame
<1>. QED  BY <1>1, <1>2, <1>3, <1>4, <1>5, <1>6 DEF Next

\* A call that writes files accounts for them: the files of its first n items have the text of
\* the last of them that names it, all items if it ends well, and of the next one there is at
\* most a part; nothing else has changed but for new directories, where no command wrote.
THEOREM AccountsForPuts == Spec => []PutAccounted
<1>1. Init => WriteInv /\ AnswerInv
  BY DEF Init, WriteInv, AnswerInv
<1>2. IndInv /\ WriteInv /\ AnswerInv /\ [Next]_vars => WriteInv' /\ AnswerInv'
  BY NextAccounts
<1>3. AnswerInv => PutAccounted
  BY DEF AnswerInv, PutAccounted, Bypassed
<1>. QED  BY <1>1, <1>2, <1>3, Always, PTL DEF Spec
==============================================================================

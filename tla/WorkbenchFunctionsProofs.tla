---------------------- MODULE WorkbenchFunctionsProofs ----------------------
(***************************************************************************)
(* Proofs about the pure functions of the Workbench, for every source,     *)
(* every set of characters and every tree: the line diff of the formatting *)
(* preview, the highlighted ranges of a text and the printed paths of the  *)
(* tree view.                                                              *)
(*                                                                         *)
(* An algorithm of this kind computes a value by recursion over its input. *)
(* What it computes for every input is proved by induction in the form the *)
(* provers take: the set of those naturals an assertion holds of contains 0*)
(* and the successor of each of its members (SetInduction).                *)
(***************************************************************************)
EXTENDS WorkbenchFunctions, WellFoundedInduction, SequenceTheorems, FiniteSetTheorems, TLAPS

-----------------------------------------------------------------------------
(* Induction.                                                              *)

\* Every set of naturals that is not empty has a least element.
LEMMA LeastNatural ==
    ASSUME NEW T \in SUBSET Nat, T # {}
    PROVE  \E x \in T : \A y \in T : x <= y
<1> DEFINE R == OpToRel(<, Nat)
<1>1. IsWellFoundedOn(R, Nat)
    BY NatLessThanWellFounded
<1>2. \A x, y \in Nat : x < y => <<x, y>> \in R
    BY DEF OpToRel
<1> HIDE DEF R
<1>3. PICK x \in T : \A y \in T : ~ (<<y, x>> \in R)
    BY <1>1, WFMin
<1>4. ASSUME NEW y \in T PROVE x <= y
  <2>1. ~ (<<y, x>> \in R)
      BY <1>3
  <2>2. x \in Nat /\ y \in Nat
      OBVIOUS
  <2>3. ~ (y < x)
      BY <1>2, <2>1, <2>2, Zenon
  <2>q. QED
      BY <2>2, <2>3
<1>q. QED
    BY <1>4

\* Induction over the naturals, for the set of those an assertion holds of.
LEMMA SetInduction ==
    ASSUME NEW T \in SUBSET Nat, 0 \in T, \A n \in T : n + 1 \in T
    PROVE  T = Nat
<1> SUFFICES ASSUME Nat \ T # {} PROVE FALSE
    OBVIOUS
<1>1. PICK x \in Nat \ T : \A y \in Nat \ T : x <= y
    BY LeastNatural
<1>2. x # 0 /\ x - 1 \in Nat
    BY <1>1
<1>3. x - 1 \in T
    BY <1>1, <1>2
<1>4. (x - 1) + 1 = x
    BY <1>1
<1>q. QED
    BY <1>1, <1>3, <1>4

-----------------------------------------------------------------------------
(* FlattenSeq, with which texts are put together.                          *)

\* The elements of a concatenation.
LEMMA ConcatParts ==
    ASSUME NEW S, NEW s \in Seq(S), NEW t \in Seq(S), NEW v, v = s \o t
    PROVE  /\ v \in Seq(S) /\ Len(v) = Len(s) + Len(t)
           /\ Len(s) \in Nat /\ Len(t) \in Nat
           /\ \A i \in 1 .. Len(s) : v[i] = s[i]
           /\ \A i \in 1 .. Len(t) : v[Len(s) + i] = t[i]
OBVIOUS

\* The elements of a sequence that is one longer.
LEMMA AppendParts ==
    ASSUME NEW S, NEW s \in Seq(S), NEW x \in S, NEW v, v = Append(s, x)
    PROVE  /\ v \in Seq(S) /\ Len(v) = Len(s) + 1 /\ Len(s) \in Nat
           /\ \A i \in 1 .. Len(s) : v[i] = s[i]
           /\ v[Len(s) + 1] = x
OBVIOUS

\* A sequence that is not empty is one element longer than another.
LEMMA FrontAndLast ==
    ASSUME NEW S, NEW s \in Seq(S), NEW n \in Nat, Len(s) = n + 1
    PROVE  /\ SubSeq(s, 1, n) \in Seq(S) /\ Len(SubSeq(s, 1, n)) = n /\ s[n + 1] \in S
           /\ s = Append(SubSeq(s, 1, n), s[n + 1])
<1> DEFINE front == SubSeq(s, 1, n)
<1>1. front \in Seq(S) /\ Len(front) = n /\ \A i \in 1 .. n : front[i] = s[i]
    OBVIOUS
<1>2. s[n + 1] \in S
    OBVIOUS
<1> HIDE DEF front
<1>3. PICK t : t = Append(front, s[n + 1])
    OBVIOUS
<1>4. /\ t \in Seq(S) /\ Len(t) = Len(front) + 1
      /\ \A i \in 1 .. Len(front) : t[i] = front[i]
      /\ t[Len(front) + 1] = s[n + 1]
    BY <1>1, <1>2, <1>3, AppendParts
<1>5. Len(t) = n + 1 /\ t[n + 1] = s[n + 1] /\ \A i \in 1 .. n : t[i] = s[i]
    BY <1>1, <1>4
<1>6. \A i \in 1 .. Len(s) : s[i] = t[i]
    BY <1>5
<1>7. s = t
    BY <1>4, <1>5, <1>6, SeqEqual
<1>q. QED
    BY <1>1, <1>2, <1>3, <1>7 DEF front

\* Induction over sequences, for the set of those an assertion holds of.
LEMMA SeqInduction ==
    ASSUME NEW S, NEW T \in SUBSET Seq(S), <<>> \in T,
           \A s \in T : \A x \in S : Append(s, x) \in T
    PROVE  T = Seq(S)
<1> DEFINE Sizes == {n \in Nat : \A s \in Seq(S) : Len(s) = n => s \in T}
<1>1. 0 \in Sizes
  <2>1. \A s \in Seq(S) : Len(s) = 0 => s = <<>>
      OBVIOUS
  <2>q. QED
      BY <2>1
<1>2. ASSUME NEW n \in Sizes PROVE n + 1 \in Sizes
  <2>1. ASSUME NEW s \in Seq(S), Len(s) = n + 1 PROVE s \in T
    <3>0. n \in Nat
        OBVIOUS
    <3>1. PICK front, x : front = SubSeq(s, 1, n) /\ x = s[n + 1]
        OBVIOUS
    <3>2. front \in Seq(S) /\ Len(front) = n /\ x \in S /\ s = Append(front, x)
        BY <2>1, <3>0, <3>1, FrontAndLast, Zenon
    <3>3. front \in T
        BY <3>2, Zenon
    <3>q. QED
        BY <3>2, <3>3, Zenon
  <2>q. QED
      BY <2>1
<1>3. Sizes = Nat
  <2>1. Sizes \in SUBSET Nat
      OBVIOUS
  <2> HIDE DEF Sizes
  <2>q. QED
      BY <1>1, <1>2, <2>1, SetInduction
<1>4. ASSUME NEW s \in Seq(S) PROVE s \in T
  <2>1. Len(s) \in Sizes
    <3> HIDE DEF Sizes
    <3>q. QED
        BY <1>3
  <2>q. QED
      BY <2>1
<1>q. QED
    BY <1>4

\* g holds the concatenations of the first sequences: the function flatten of
\* FlattenSeq.
Unfolds(seqs, g) ==
    g = [i \in 1 .. Len(seqs) |-> IF i = 1 THEN seqs[i] ELSE g[i - 1] \o seqs[i]]

\* Concatenations of the first sequences exist.
LEMMA UnfoldingExists ==
    ASSUME NEW S, NEW seqs \in Seq(Seq(S))
    PROVE  \E g \in [1 .. Len(seqs) -> Seq(S)] : Unfolds(seqs, g)
<1> DEFINE Up(g, n) == \A i \in 1 .. n : g[i] = IF i = 1 THEN seqs[i] ELSE g[i - 1] \o seqs[i]
           T == {n \in Nat : n <= Len(seqs) => \E g \in [1 .. n -> Seq(S)] : Up(g, n)}
<1>0. Len(seqs) \in Nat /\ \A i \in 1 .. Len(seqs) : seqs[i] \in Seq(S)
    OBVIOUS
<1>1. 0 \in T
  <2>1. [i \in 1 .. 0 |-> <<>>] \in [1 .. 0 -> Seq(S)] /\ Up([i \in 1 .. 0 |-> <<>>], 0)
      OBVIOUS
  <2>q. QED
      BY <2>1
<1>2. ASSUME NEW n \in T PROVE n + 1 \in T
  <2>0. n \in Nat
      OBVIOUS
  <2>1. ASSUME n + 1 <= Len(seqs) PROVE \E h \in [1 .. n + 1 -> Seq(S)] : Up(h, n + 1)
    <3>1. n <= Len(seqs)
      <4> HIDE DEF T
      <4>q. QED
          BY <1>0, <2>0, <2>1
    <3>2. PICK g \in [1 .. n -> Seq(S)] : Up(g, n)
        BY <3>1
    <3> DEFINE h == [i \in 1 .. n + 1 |->
                        IF i <= n THEN g[i] ELSE IF i = 1 THEN seqs[i] ELSE g[i - 1] \o seqs[i]]
    <3> HIDE DEF T
    <3>3. \A i \in 1 .. n : g[i] \in Seq(S)
        OBVIOUS
    <3>4. \A i \in 1 .. n + 1 : i \in 1 .. Len(seqs) /\ (i <= n => i \in 1 .. n)
                                /\ (~(i <= n) => i = n + 1 /\ (i # 1 => i - 1 \in 1 .. n))
        BY <1>0, <2>0, <2>1
    <3>5. ASSUME NEW i \in 1 .. n + 1
          PROVE  /\ h[i] \in Seq(S)
                 /\ i <= n => h[i] = g[i]
                 /\ ~(i <= n) => h[i] = IF i = 1 THEN seqs[i] ELSE g[i - 1] \o seqs[i]
      <4>1. CASE i <= n
          BY <3>3, <3>4, <4>1
      <4>2. CASE ~(i <= n) /\ i = 1
          BY <1>0, <3>4, <4>2
      <4>3. CASE ~(i <= n) /\ i # 1
        <5>1. g[i - 1] \in Seq(S) /\ seqs[i] \in Seq(S)
            BY <1>0, <3>3, <3>4, <4>3
        <5>2. g[i - 1] \o seqs[i] \in Seq(S)
            BY <5>1
        <5>3. h[i] = g[i - 1] \o seqs[i]
            BY <4>3
        <5>q. QED
            BY <4>3, <5>2, <5>3
      <4>q. QED
          BY <4>1, <4>2, <4>3
    <3>6. h \in [1 .. n + 1 -> Seq(S)]
      <4>1. h = [i \in 1 .. n + 1 |-> h[i]]
          OBVIOUS
      <4> HIDE DEF h
      <4>q. QED
          BY <3>5, <4>1
    <3> HIDE DEF h
    <3>7. ASSUME NEW i \in 1 .. n + 1
          PROVE  h[i] = IF i = 1 THEN seqs[i] ELSE h[i - 1] \o seqs[i]
      <4>1. i # 1 => i - 1 \in 1 .. n + 1 /\ i - 1 <= n /\ h[i - 1] = g[i - 1]
          BY <2>0, <3>5
      <4>2. CASE i <= n
        <5>1. g[i] = IF i = 1 THEN seqs[i] ELSE g[i - 1] \o seqs[i]
            BY <3>2, <3>4, <4>2
        <5>q. QED
            BY <3>5, <4>1, <4>2, <5>1
      <4>3. CASE ~(i <= n)
          BY <3>5, <4>1, <4>3
      <4>q. QED
          BY <4>2, <4>3
    <3>q. QED
        BY <3>6, <3>7
  <2>2. n + 1 \in Nat
    <3> HIDE DEF T
    <3>q. QED
        BY <2>0
  <2>q. QED
      BY <2>1, <2>2
<1>3. T = Nat
  <2>1. T \in SUBSET Nat
      OBVIOUS
  <2> HIDE DEF T
  <2>q. QED
      BY <1>1, <1>2, <2>1, SetInduction
<1>4. Len(seqs) \in T
  <2> HIDE DEF T
  <2>q. QED
      BY <1>0, <1>3
<1>5. PICK g \in [1 .. Len(seqs) -> Seq(S)] : Up(g, Len(seqs))
    BY <1>0, <1>4
<1>6. Unfolds(seqs, g)
  <2>1. g = [i \in 1 .. Len(seqs) |-> g[i]]
      OBVIOUS
  <2>q. QED
      BY <1>5, <2>1 DEF Unfolds
<1>q. QED
    BY <1>6

\* The concatenations of the first sequences are what they are.
LEMMA UnfoldingUnique ==
    ASSUME NEW seqs, Len(seqs) \in Nat, NEW g, NEW h, Unfolds(seqs, g), Unfolds(seqs, h)
    PROVE  \A i \in 1 .. Len(seqs) : g[i] = h[i]
<1> DEFINE T == {n \in Nat : n + 1 <= Len(seqs) => g[n + 1] = h[n + 1]}
<1>1. \A i \in 1 .. Len(seqs) : g[i] = IF i = 1 THEN seqs[i] ELSE g[i - 1] \o seqs[i]
    BY Zenon DEF Unfolds
<1>2. \A i \in 1 .. Len(seqs) : h[i] = IF i = 1 THEN seqs[i] ELSE h[i - 1] \o seqs[i]
    BY Zenon DEF Unfolds
<1>3. 0 \in T
  <2>1. ASSUME 1 <= Len(seqs) PROVE g[1] = h[1]
      BY <1>1, <1>2, <2>1
  <2>q. QED
      BY <2>1
<1>4. ASSUME NEW n \in T PROVE n + 1 \in T
  <2>1. ASSUME n + 2 <= Len(seqs) PROVE g[n + 2] = h[n + 2]
    <3>1. n + 2 \in 1 .. Len(seqs) /\ n + 2 # 1 /\ (n + 2) - 1 = n + 1 /\ g[n + 1] = h[n + 1]
        BY <2>1
    <3>q. QED
        BY <1>1, <1>2, <3>1
  <2>2. n + 1 \in Nat /\ (n + 1) + 1 = n + 2
      OBVIOUS
  <2>q. QED
      BY <2>1, <2>2
<1>5. T = Nat
  <2>1. T \in SUBSET Nat
      OBVIOUS
  <2> HIDE DEF T
  <2>q. QED
      BY <1>3, <1>4, <2>1, SetInduction
<1>6. ASSUME NEW i \in 1 .. Len(seqs) PROVE g[i] = h[i]
  <2>1. i - 1 \in Nat
      OBVIOUS
  <2>2. i - 1 \in T
    <3> HIDE DEF T
    <3>q. QED
        BY <1>5, <2>1
  <2>q. QED
      BY <2>2
<1>q. QED
    BY <1>6

\* What FlattenSeq gives, by any concatenations of the first sequences.
LEMMA FlattenByUnfolding ==
    ASSUME NEW S, NEW seqs \in Seq(Seq(S)), Len(seqs) # 0, NEW h, Unfolds(seqs, h)
    PROVE  FlattenSeq(seqs) = h[Len(seqs)]
<1> DEFINE f == CHOOSE g : g = [i \in 1 .. Len(seqs) |-> IF i = 1 THEN seqs[i] ELSE g[i - 1] \o seqs[i]]
<1>1. Unfolds(seqs, f)
    BY DEF Unfolds
<1>2. FlattenSeq(seqs) = f[Len(seqs)]
    BY DEF FlattenSeq
<1> HIDE DEF f
<1>3. Len(seqs) \in Nat /\ Len(seqs) \in 1 .. Len(seqs)
    OBVIOUS
<1>4. f[Len(seqs)] = h[Len(seqs)]
    BY <1>1, <1>3, UnfoldingUnique
<1>q. QED
    BY <1>2, <1>4

\* Nothing flattens to nothing.
LEMMA FlattenEmpty == FlattenSeq(<<>>) = <<>>
BY DEF FlattenSeq

\* FlattenSeq concatenates.
LEMMA FlattenType ==
    ASSUME NEW S, NEW seqs \in Seq(Seq(S))
    PROVE  FlattenSeq(seqs) \in Seq(S)
<1>1. CASE seqs = <<>>
  <2>1. FlattenSeq(seqs) = <<>>
      BY <1>1, FlattenEmpty, Zenon
  <2>q. QED
      BY <2>1
<1>2. CASE seqs # <<>>
  <2>1. Len(seqs) # 0 /\ Len(seqs) \in 1 .. Len(seqs)
      BY <1>2
  <2>2. PICK g \in [1 .. Len(seqs) -> Seq(S)] : Unfolds(seqs, g)
      BY UnfoldingExists
  <2>3. FlattenSeq(seqs) = g[Len(seqs)]
      BY <2>1, <2>2, FlattenByUnfolding
  <2>q. QED
      BY <2>1, <2>3
<1>q. QED
    BY <1>1, <1>2

\* One sequence more is concatenated at the end.
LEMMA FlattenAppend ==
    ASSUME NEW S, NEW seqs \in Seq(Seq(S)), NEW x \in Seq(S)
    PROVE  FlattenSeq(Append(seqs, x)) = FlattenSeq(seqs) \o x
<1> DEFINE n == Len(seqs)
           longer == Append(seqs, x)
<1>1. /\ n \in Nat /\ longer \in Seq(Seq(S)) /\ Len(longer) = n + 1
      /\ \A i \in 1 .. n : longer[i] = seqs[i] /\ seqs[i] \in Seq(S)
      /\ longer[n + 1] = x
    OBVIOUS
<1> HIDE DEF longer
<1>2. PICK g \in [1 .. n + 1 -> Seq(S)] : Unfolds(longer, g)
    BY <1>1, UnfoldingExists
<1>3. FlattenSeq(longer) = g[n + 1]
    BY <1>1, <1>2, FlattenByUnfolding
<1>4. \A i \in 1 .. n + 1 : g[i] = IF i = 1 THEN longer[i] ELSE g[i - 1] \o longer[i]
  <2>1. g = [i \in 1 .. n + 1 |-> IF i = 1 THEN longer[i] ELSE g[i - 1] \o longer[i]]
      BY <1>1, <1>2, Zenon DEF Unfolds
  <2>q. QED
      BY <2>1, Zenon
<1>5. CASE n = 0
  <2>1. seqs = <<>>
      BY <1>5
  <2>2. g[1] = x
      BY <1>1, <1>4, <1>5
  <2>3. FlattenSeq(seqs) \o x = x
      BY <2>1, FlattenEmpty
  <2>q. QED
      BY <1>3, <1>5, <2>2, <2>3 DEF longer
<1>6. CASE n # 0
  <2> DEFINE h == [i \in 1 .. n |-> g[i]]
  <2>1. \A i \in 1 .. n : i \in 1 .. n + 1 /\ (i # 1 => i - 1 \in 1 .. n)
      BY <1>1
  <2>2. \A i \in 1 .. n : h[i] = IF i = 1 THEN seqs[i] ELSE h[i - 1] \o seqs[i]
      BY <1>1, <1>4, <2>1
  <2>3. h = [i \in 1 .. n |-> h[i]]
      OBVIOUS
  <2>4. h[n] = g[n]
      BY <1>1, <1>6
  <2> HIDE DEF h
  <2>5. Unfolds(seqs, h)
      BY <2>2, <2>3 DEF Unfolds
  <2>6. FlattenSeq(seqs) = h[n]
      BY <1>6, <2>5, FlattenByUnfolding
  <2>7. g[n + 1] = g[n] \o x
    <3>1. n + 1 \in 1 .. n + 1 /\ n + 1 # 1 /\ (n + 1) - 1 = n
        BY <1>1, <1>6
    <3>2. g[n + 1] = g[(n + 1) - 1] \o longer[n + 1]
        BY <1>4, <3>1, Zenon
    <3>q. QED
        BY <1>1, <3>1, <3>2
  <2>q. QED
      BY <1>3, <2>4, <2>6, <2>7 DEF longer
<1>q. QED
    BY <1>5, <1>6

\* The texts of two sequences of parts, one after the other.
LEMMA FlattenConcat ==
    ASSUME NEW S, NEW a \in Seq(Seq(S)), NEW b \in Seq(Seq(S))
    PROVE  FlattenSeq(a \o b) = FlattenSeq(a) \o FlattenSeq(b)
<1> DEFINE T == {s \in Seq(Seq(S)) : FlattenSeq(a \o s) = FlattenSeq(a) \o FlattenSeq(s)}
<1>1. <<>> \in T
  <2>1. a \o <<>> = a /\ <<>> \in Seq(Seq(S))
      OBVIOUS
  <2>2. FlattenSeq(a) \in Seq(S)
      BY FlattenType
  <2>3. FlattenSeq(a) \o <<>> = FlattenSeq(a)
      BY <2>2
  <2>4. FlattenSeq(a \o <<>>) = FlattenSeq(a) \o FlattenSeq(<<>>)
      BY <2>1, <2>3, FlattenEmpty, Zenon
  <2>q. QED
      BY <2>1, <2>4
<1>2. ASSUME NEW s \in T, NEW x \in Seq(S) PROVE Append(s, x) \in T
  <2>1. s \in Seq(Seq(S)) /\ FlattenSeq(a \o s) = FlattenSeq(a) \o FlattenSeq(s)
      OBVIOUS
  <2> HIDE DEF T
  <2>2. a \o s \in Seq(Seq(S)) /\ Append(s, x) \in Seq(Seq(S))
      BY <2>1
  <2>3. a \o Append(s, x) = Append(a \o s, x)
      BY <2>1
  <2>4. FlattenSeq(Append(a \o s, x)) = FlattenSeq(a \o s) \o x
      BY <2>2, FlattenAppend
  <2>5. FlattenSeq(Append(s, x)) = FlattenSeq(s) \o x
      BY <2>1, FlattenAppend
  <2>6. FlattenSeq(a) \in Seq(S) /\ FlattenSeq(s) \in Seq(S)
      BY <2>1, FlattenType
  <2>7. (FlattenSeq(a) \o FlattenSeq(s)) \o x = FlattenSeq(a) \o (FlattenSeq(s) \o x)
    <3>1. PICK u \in Seq(S), v \in Seq(S) : u = FlattenSeq(a) /\ v = FlattenSeq(s)
        BY <2>6
    <3>2. (u \o v) \o x = u \o (v \o x)
        BY ConcatAssociative
    <3>q. QED
        BY <3>1, <3>2
  <2>8. FlattenSeq(a \o Append(s, x)) = FlattenSeq(a) \o FlattenSeq(Append(s, x))
      BY <2>1, <2>3, <2>4, <2>5, <2>7, Zenon
  <2>q. QED
      BY <2>2, <2>8 DEF T
<1>3. T = Seq(Seq(S))
  <2>1. T \in SUBSET Seq(Seq(S))
      OBVIOUS
  <2> HIDE DEF T
  <2>q. QED
      BY <1>1, <1>2, <2>1, SeqInduction
<1>4. b \in T
  <2> HIDE DEF T
  <2>q. QED
      BY <1>3
<1>q. QED
    BY <1>4

\* Flattening parts of one element each takes the element of each.
LEMMA FlattenSingles ==
    ASSUME NEW S, NEW seqs \in Seq(Seq(S)), \A i \in 1 .. Len(seqs) : Len(seqs[i]) = 1
    PROVE  FlattenSeq(seqs) = [i \in 1 .. Len(seqs) |-> seqs[i][1]]
<1> DEFINE Singles(s) == \A i \in 1 .. Len(s) : Len(s[i]) = 1
           Firsts(s) == [i \in 1 .. Len(s) |-> s[i][1]]
           T == {s \in Seq(Seq(S)) : Singles(s) => FlattenSeq(s) = Firsts(s)}
<1>1. <<>> \in T
  <2>1. Firsts(<<>>) = <<>> /\ <<>> \in Seq(Seq(S))
      OBVIOUS
  <2>q. QED
      BY <2>1, FlattenEmpty, Zenon
<1>2. ASSUME NEW s \in T, NEW x \in Seq(S) PROVE Append(s, x) \in T
  <2>1. s \in Seq(Seq(S)) /\ (Singles(s) => FlattenSeq(s) = Firsts(s))
      BY Zenon
  <2> DEFINE longer == Append(s, x)
  <2>2. /\ longer \in Seq(Seq(S)) /\ Len(longer) = Len(s) + 1 /\ Len(s) \in Nat
        /\ \A i \in 1 .. Len(s) : longer[i] = s[i] /\ s[i] \in Seq(S)
        /\ longer[Len(s) + 1] = x
      BY <2>1
  <2>3. FlattenSeq(longer) = FlattenSeq(s) \o x
      BY <2>1, FlattenAppend
  <2> HIDE DEF longer, T
  <2>4. ASSUME Singles(longer) PROVE FlattenSeq(longer) = Firsts(longer)
    <3>1. Singles(s)
        BY <2>2, <2>4
    <3>2. FlattenSeq(s) = Firsts(s)
        BY <2>1, <3>1, Zenon
    <3>3. Len(x) = 1 /\ x[1] \in S /\ x \in Seq(S)
        BY <2>2, <2>4
    <3>4. \A i \in 1 .. Len(s) : s[i][1] \in S
      <4> SUFFICES ASSUME NEW i \in 1 .. Len(s) PROVE s[i][1] \in S
          OBVIOUS
      <4>1. s[i] \in Seq(S) /\ Len(s[i]) = 1
          BY <2>2, <3>1
      <4>q. QED
          BY <4>1
    <3>5. PICK u : u = Firsts(s)
        OBVIOUS
    <3>6. u \in Seq(S) /\ Len(u) = Len(s) /\ \A i \in 1 .. Len(s) : u[i] = s[i][1]
        BY <2>2, <3>4, <3>5
    <3>7. PICK v : v = u \o x
        OBVIOUS
    <3>8. /\ v \in Seq(S) /\ Len(v) = Len(s) + 1
          /\ \A i \in 1 .. Len(s) : v[i] = s[i][1]
          /\ v[Len(s) + 1] = x[1]
      <4>1. /\ v \in Seq(S) /\ Len(v) = Len(u) + Len(x)
            /\ \A i \in 1 .. Len(u) : v[i] = u[i]
            /\ \A i \in 1 .. Len(x) : v[Len(u) + i] = x[i]
        <5>1. u \in Seq(S) /\ x \in Seq(S)
            BY <3>3, <3>6, Zenon
        <5>q. QED
            BY <3>7, <5>1, ConcatParts
      <4>q. QED
          BY <2>2, <3>3, <3>6, <4>1
    <3>9. v = [i \in 1 .. Len(s) + 1 |-> longer[i][1]]
      <4>1. \A i \in 1 .. Len(s) + 1 : v[i] = longer[i][1]
        <5>1. \A i \in 1 .. Len(s) + 1 : i = Len(s) + 1 \/ i \in 1 .. Len(s)
            BY <2>2
        <5>q. QED
            BY <2>2, <3>8, <5>1, Zenon
      <4>2. v = [i \in 1 .. Len(s) + 1 |-> v[i]]
          BY <3>8
      <4>q. QED
          BY <4>1, <4>2
    <3>10. v = Firsts(longer)
        BY <2>2, <3>9, Zenon
    <3>q. QED
        BY <2>3, <3>2, <3>5, <3>7, <3>10, Zenon
  <2>5. longer \in T
      BY <2>2, <2>4, Zenon DEF T
  <2>q. QED
      BY <2>5 DEF longer
<1>3. T = Seq(Seq(S))
  <2>1. T \in SUBSET Seq(Seq(S))
      OBVIOUS
  <2> HIDE DEF T
  <2>q. QED
      BY <1>1, <1>2, <2>1, SeqInduction
<1>4. seqs \in T
  <2> HIDE DEF T
  <2>q. QED
      BY <1>3
<1>q. QED
    BY <1>4, Zenon

\* Flattening parts that are not empty never shortens, and keeps the length only
\* where every part is one element.
LEMMA FlattenGrows ==
    ASSUME NEW S, NEW seqs \in Seq(Seq(S)), \A i \in 1 .. Len(seqs) : seqs[i] # <<>>
    PROVE  /\ Len(FlattenSeq(seqs)) >= Len(seqs)
           /\ Len(FlattenSeq(seqs)) = Len(seqs) => \A i \in 1 .. Len(seqs) : Len(seqs[i]) = 1
<1> DEFINE Parts(s) == \A i \in 1 .. Len(s) : s[i] # <<>>
           Grows(s) == /\ Len(FlattenSeq(s)) >= Len(s)
                       /\ Len(FlattenSeq(s)) = Len(s) => \A i \in 1 .. Len(s) : Len(s[i]) = 1
           T == {s \in Seq(Seq(S)) : Parts(s) => Grows(s)}
<1>1. <<>> \in T
  <2>1. Len(<<>>) = 0 /\ <<>> \in Seq(Seq(S))
      OBVIOUS
  <2>2. Len(FlattenSeq(<<>>)) = 0
      BY <2>1, FlattenEmpty, Zenon
  <2>3. Grows(<<>>)
      BY <2>1, <2>2
  <2>q. QED
      BY <2>1, <2>3, Zenon
<1>2. ASSUME NEW s \in T, NEW x \in Seq(S) PROVE Append(s, x) \in T
  <2>1. s \in Seq(Seq(S)) /\ (Parts(s) => Grows(s))
      BY Zenon
  <2> DEFINE longer == Append(s, x)
  <2>2. /\ longer \in Seq(Seq(S)) /\ Len(longer) = Len(s) + 1 /\ Len(s) \in Nat
        /\ \A i \in 1 .. Len(s) : longer[i] = s[i] /\ s[i] \in Seq(S)
        /\ longer[Len(s) + 1] = x
      BY <2>1
  <2>3. FlattenSeq(longer) = FlattenSeq(s) \o x
      BY <2>1, FlattenAppend
  <2> HIDE DEF longer, T
  <2>4. ASSUME Parts(longer) PROVE Grows(longer)
    <3>1. Parts(s)
        BY <2>2, <2>4
    <3>2. Grows(s)
        BY <2>1, <3>1, Zenon
    <3>3. Len(x) >= 1 /\ Len(x) \in Nat
      <4>1. x # <<>>
          BY <2>2, <2>4
      <4>q. QED
          BY <4>1
    <3>4. PICK u \in Seq(S) : u = FlattenSeq(s)
        BY <2>1, FlattenType
    <3>5. Len(FlattenSeq(longer)) = Len(u) + Len(x) /\ Len(u) \in Nat
      <4>1. Len(u \o x) = Len(u) + Len(x) /\ Len(u) \in Nat
          OBVIOUS
      <4>q. QED
          BY <2>3, <3>4, <4>1
    <3>6. Len(u) >= Len(s) /\ (Len(u) = Len(s) => \A i \in 1 .. Len(s) : Len(s[i]) = 1)
        BY <3>2, <3>4, Zenon
    <3>7. Len(FlattenSeq(longer)) >= Len(longer)
        BY <2>2, <3>3, <3>5, <3>6
    <3>8. ASSUME Len(FlattenSeq(longer)) = Len(longer)
          PROVE  \A i \in 1 .. Len(longer) : Len(longer[i]) = 1
      <4>1. Len(u) + Len(x) = Len(s) + 1 /\ Len(u) >= Len(s)
        <5>1. Len(FlattenSeq(longer)) = Len(s) + 1
            BY <2>2, <3>8, Zenon
        <5>2. Len(u) + Len(x) = Len(s) + 1
            BY <3>5, <5>1
        <5>q. QED
            BY <3>6, <5>2
      <4>2. Len(u) = Len(s) /\ Len(x) = 1
        <5>1. Len(s) \in Nat /\ Len(u) \in Nat /\ Len(x) \in Nat /\ Len(x) >= 1
            BY <2>2, <3>3, <3>5, Zenon
        <5>2. \A l, m, k \in Nat : m + k = l + 1 /\ m >= l /\ k >= 1 => m = l /\ k = 1
            OBVIOUS
        <5>q. QED
            BY <4>1, <5>1, <5>2, Zenon
      <4>3. \A i \in 1 .. Len(s) + 1 : i = Len(s) + 1 \/ i \in 1 .. Len(s)
          BY <2>2
      <4>q. QED
          BY <2>2, <3>6, <4>2, <4>3, Zenon
    <3>q. QED
        BY <3>7, <3>8
  <2>5. longer \in T
      BY <2>2, <2>4, Zenon DEF T
  <2>q. QED
      BY <2>5 DEF longer
<1>3. T = Seq(Seq(S))
  <2>1. T \in SUBSET Seq(Seq(S))
      OBVIOUS
  <2> HIDE DEF T
  <2>q. QED
      BY <1>1, <1>2, <2>1, SeqInduction
<1>4. seqs \in T
  <2> HIDE DEF T
  <2>q. QED
      BY <1>3
<1>q. QED
    BY <1>4, Zenon

-----------------------------------------------------------------------------
(* The line diff of the formatting preview.                                *)

\* splitLines keeps the number of lines and the text of each.
LEMMA LinesOf ==
    ASSUME NEW s, IsSource(s)
    PROVE  /\ lines(s) \in Seq({s[i].text : i \in DOMAIN s})
           /\ Len(lines(s)) = Len(s) /\ Len(s) \in Nat /\ DOMAIN s = 1 .. Len(s)
           /\ \A i \in 1 .. Len(s) : lines(s)[i] = s[i].text
<1> DEFINE S == {s[i].text : i \in DOMAIN s}
<1>1. s \in Seq([text : S, end : Terminators])
    BY DEF IsSource
<1>2. Len(s) \in Nat /\ DOMAIN s = 1 .. Len(s) /\ \A i \in 1 .. Len(s) : s[i].text \in S
    BY <1>1
<1> HIDE DEF S
<1>3. lines(s) = [i \in 1 .. Len(s) |-> s[i].text]
    BY <1>2 DEF lines
<1>4. lines(s) \in Seq(S) /\ Len(lines(s)) = Len(s)
    BY <1>2, <1>3
<1>5. \A i \in 1 .. Len(s) : lines(s)[i] = s[i].text
    BY <1>3, Zenon
<1>q. QED
    BY <1>2, <1>4, <1>5 DEF S

\* The rows buildLineDiff can push; a text is that of a line of either side.
RowTypes == {"context", "added", "removed"}

\* A row of the preview.
RowSet == [type : RowTypes, beforeNumber : Nat, afterNumber : Nat,
           text : {before[i].text : i \in DOMAIN before} \cup {after[i].text : i \in DOMAIN after}]

\* Rebuilds for any sequence of rows, with the numbers of one side as a function.
NumbersRebuild(rs, number, upTo, texts) ==
    /\ \A r \in DOMAIN rs : number[r] \in 0 .. upTo
    /\ \A n \in 1 .. upTo : \E r \in DOMAIN rs : number[r] = n
    /\ \A r \in DOMAIN rs : number[r] # 0 => rs[r].text = texts[number[r]]
    /\ \A r, s \in DOMAIN rs :
           r < s /\ number[r] # 0 /\ number[s] # 0 => number[r] < number[s]

\* A row that is appended keeps a side rebuilt: it has no number there, or the next
\* one with the text of that line.
LEMMA RebuildsAppend ==
    ASSUME NEW S, NEW rs \in Seq(S), NEW row \in S, NEW upTo \in Nat, NEW texts,
           NEW number, NEW numberAfter, NEW upToAfter \in Nat,
           NumbersRebuild(rs, number, upTo, texts),
           \A r \in DOMAIN rs : numberAfter[r] = number[r],
           \/ numberAfter[Len(rs) + 1] = 0 /\ upToAfter = upTo
           \/ /\ numberAfter[Len(rs) + 1] = upTo + 1
              /\ upToAfter = upTo + 1
              /\ row.text = texts[upTo + 1]
    PROVE  NumbersRebuild(Append(rs, row), numberAfter, upToAfter, texts)
<1> DEFINE new == Append(rs, row)
<1> SUFFICES NumbersRebuild(new, numberAfter, upToAfter, texts)
    OBVIOUS
<1>1. /\ DOMAIN rs = 1 .. Len(rs) /\ Len(rs) \in Nat
      /\ DOMAIN new = 1 .. Len(rs) + 1
      /\ \A r \in DOMAIN rs : new[r] = rs[r]
      /\ new[Len(rs) + 1] = row
    OBVIOUS
<1> HIDE DEF new
<1>2. ASSUME NEW r \in DOMAIN new
      PROVE  /\ numberAfter[r] \in 0 .. upToAfter
             /\ numberAfter[r] # 0 => new[r].text = texts[numberAfter[r]]
    BY <1>1, <1>2 DEF NumbersRebuild
<1>3. ASSUME NEW n \in 1 .. upToAfter PROVE \E r \in DOMAIN new : numberAfter[r] = n
  <2>1. CASE n \in 1 .. upTo
    <3>1. PICK r \in DOMAIN rs : number[r] = n
        BY <2>1 DEF NumbersRebuild
    <3>q. QED
        BY <1>1, <3>1
  <2>2. CASE n = upTo + 1
    <3>1. numberAfter[Len(rs) + 1] = n /\ Len(rs) + 1 \in DOMAIN new
        BY <1>1, <2>2
    <3>q. QED
        BY <3>1
  <2>q. QED
      BY <2>1, <2>2
<1>4. ASSUME NEW r \in DOMAIN new, NEW s \in DOMAIN new,
             r < s, numberAfter[r] # 0, numberAfter[s] # 0
      PROVE  numberAfter[r] < numberAfter[s]
    BY <1>1, <1>4 DEF NumbersRebuild
<1>q. QED
    BY <1>2, <1>3, <1>4, Zenon DEF NumbersRebuild

\* The number of each row on one side.
NumbersOf(rs, side) == [r \in DOMAIN rs |-> rs[r][side]]

\* Rebuilds, said with the numbers of one side.
LEMMA RebuildsByNumbers ==
    ASSUME NEW side, NEW upTo, NEW texts
    PROVE  Rebuilds(side, upTo, texts) <=> NumbersRebuild(rows, NumbersOf(rows, side), upTo, texts)
BY Zenon DEF Rebuilds, NumbersRebuild, NumbersOf

\* The indices stay within the texts and the rows are rows.
DiffTypes ==
    /\ oldIndex \in 0 .. Len(previous)
    /\ newIndex \in 0 .. Len(next)
    /\ rows \in Seq(RowSet)

\* As long as every row is context the two sides run in step over equal lines: what
\* makes a preview without a changed row a preview of equal lines.
ContextRowsAgree ==
    (\A r \in DOMAIN rows : rows[r].type = "context") =>
        /\ oldIndex = newIndex
        /\ \A i \in 1 .. oldIndex : previous[i] = next[i]

\* The inductive invariant of the diff.
DiffInv ==
    /\ before \in Sources /\ after \in Formatted /\ before # after
    /\ DiffTypes
    /\ RowsRebuildBothTexts
    /\ ContextRowsAgree

\* The lines of the two texts, previous and next of buildLineDiff.
LEMMA TwoTexts ==
    ASSUME before \in Sources, after \in Formatted
    PROVE  /\ Len(previous) = Len(before) /\ Len(previous) \in Nat
           /\ \A i \in 1 .. Len(previous) : previous[i] = before[i].text /\ i \in DOMAIN before
           /\ Len(next) = Len(after) /\ Len(next) \in Nat
           /\ \A i \in 1 .. Len(next) : next[i] = after[i].text /\ i \in DOMAIN after
<1>1. IsSource(before) /\ IsSource(after)
    BY DiffAssumption
<1>q. QED
    BY <1>1, LinesOf DEF previous, next

\* One row of the walk, from what the three pushes share.
LEMMA PushKeepsInv ==
    ASSUME DiffInv, UNCHANGED <<before, after>>,
           NEW row \in RowSet, rows' = Append(rows, row),
           oldIndex' \in 0 .. Len(previous), newIndex' \in 0 .. Len(next),
           \/ row.beforeNumber = 0 /\ oldIndex' = oldIndex
           \/ /\ row.beforeNumber = oldIndex + 1 /\ oldIndex' = oldIndex + 1
              /\ row.text = previous[oldIndex + 1],
           \/ row.afterNumber = 0 /\ newIndex' = newIndex
           \/ /\ row.afterNumber = newIndex + 1 /\ newIndex' = newIndex + 1
              /\ row.text = next[newIndex + 1],
           row.type = "context" => oldIndex' = oldIndex + 1 /\ newIndex' = newIndex + 1
    PROVE  DiffInv'
<1>1. previous' = previous /\ next' = next /\ RowSet' = RowSet
    BY DEF previous, next, RowSet
<1>2. /\ oldIndex \in Nat /\ newIndex \in Nat /\ oldIndex' \in Nat /\ newIndex' \in Nat
      /\ Len(previous) \in Nat /\ Len(next) \in Nat
    BY TwoTexts DEF DiffInv, DiffTypes
<1>3. /\ rows \in Seq(RowSet) /\ Len(rows) \in Nat /\ DOMAIN rows = 1 .. Len(rows)
      /\ rows' \in Seq(RowSet) /\ DOMAIN rows' = 1 .. Len(rows) + 1
      /\ \A r \in DOMAIN rows : rows'[r] = rows[r] /\ r \in DOMAIN rows'
      /\ rows'[Len(rows) + 1] = row /\ Len(rows) + 1 \in DOMAIN rows'
    BY DEF DiffInv, DiffTypes
<1>4. DiffTypes'
    BY <1>1, <1>3 DEF DiffTypes
<1>5. Rebuilds("beforeNumber", oldIndex, previous)'
  <2> DEFINE number == NumbersOf(rows, "beforeNumber")
             numberAfter == NumbersOf(rows', "beforeNumber")
  <2>1. NumbersRebuild(rows, number, oldIndex, previous)
      BY RebuildsByNumbers, Zenon DEF DiffInv, RowsRebuildBothTexts
  <2>2. \A r \in DOMAIN rows : numberAfter[r] = number[r]
      BY <1>3 DEF NumbersOf
  <2>3. numberAfter[Len(rows) + 1] = row.beforeNumber
      BY <1>3 DEF NumbersOf
  <2> HIDE DEF number, numberAfter
  <2>4. NumbersRebuild(Append(rows, row), numberAfter, oldIndex', previous)
      BY <1>2, <1>3, <2>1, <2>2, <2>3, RebuildsAppend
  <2>5. NumbersRebuild(rows', numberAfter, oldIndex', previous')
      BY <1>1, <2>4
  <2>q. QED
      BY <2>5, Zenon DEF Rebuilds, NumbersRebuild, NumbersOf, numberAfter
<1>6. Rebuilds("afterNumber", newIndex, next)'
  <2> DEFINE number == NumbersOf(rows, "afterNumber")
             numberAfter == NumbersOf(rows', "afterNumber")
  <2>1. NumbersRebuild(rows, number, newIndex, next)
      BY RebuildsByNumbers, Zenon DEF DiffInv, RowsRebuildBothTexts
  <2>2. \A r \in DOMAIN rows : numberAfter[r] = number[r]
      BY <1>3 DEF NumbersOf
  <2>3. numberAfter[Len(rows) + 1] = row.afterNumber
      BY <1>3 DEF NumbersOf
  <2> HIDE DEF number, numberAfter
  <2>4. NumbersRebuild(Append(rows, row), numberAfter, newIndex', next)
      BY <1>2, <1>3, <2>1, <2>2, <2>3, RebuildsAppend
  <2>5. NumbersRebuild(rows', numberAfter, newIndex', next')
      BY <1>1, <2>4
  <2>q. QED
      BY <2>5, Zenon DEF Rebuilds, NumbersRebuild, NumbersOf, numberAfter
<1>7. RowsRebuildBothTexts'
    BY <1>1, <1>2, <1>5, <1>6 DEF RowsRebuildBothTexts
<1>8. ContextRowsAgree'
  <2> SUFFICES ASSUME \A r \in DOMAIN rows' : rows'[r].type = "context"
               PROVE  oldIndex' = newIndex' /\ \A i \in 1 .. oldIndex' : previous[i] = next[i]
      BY <1>1 DEF ContextRowsAgree
  <2>1. \A r \in DOMAIN rows : rows[r].type = "context"
      BY <1>3
  <2>2. row.type = "context"
      BY <1>3
  <2>3. oldIndex = newIndex /\ \A i \in 1 .. oldIndex : previous[i] = next[i]
      BY <2>1 DEF DiffInv, ContextRowsAgree
  <2>4. oldIndex' = oldIndex + 1 /\ newIndex' = newIndex + 1
      BY <2>2
  <2>5. previous[oldIndex + 1] = next[oldIndex + 1]
      BY <1>2, <2>3, <2>4
  <2>q. QED
      BY <1>2, <2>3, <2>4, <2>5
<1>q. QED
    BY <1>4, <1>7, <1>8 DEF DiffInv

\* The three pushes of the walk keep the invariant, whichever line the matrix prefers.
LEMMA WalkKeepsInv == DiffInv /\ (PushContext \/ PushAdded \/ PushRemoved) => DiffInv'
<1> SUFFICES ASSUME DiffInv, PushContext \/ PushAdded \/ PushRemoved PROVE DiffInv'
    OBVIOUS
<1>1. /\ oldIndex \in 0 .. Len(previous) /\ newIndex \in 0 .. Len(next)
      /\ Len(previous) \in Nat /\ Len(next) \in Nat
      /\ \A i \in 1 .. Len(previous) : previous[i] \in {before[j].text : j \in DOMAIN before}
      /\ \A i \in 1 .. Len(next) : next[i] \in {after[j].text : j \in DOMAIN after}
    BY TwoTexts DEF DiffInv, DiffTypes
<1>2. CASE PushContext
  <2>1. PICK row : row = Row("context", oldIndex + 1, newIndex + 1, previous[oldIndex + 1])
      OBVIOUS
  <2>2. oldIndex + 1 \in 1 .. Len(previous) /\ newIndex + 1 \in 1 .. Len(next)
      BY <1>1, <1>2 DEF PushContext, Matching
  <2>3. row \in RowSet
      BY <1>1, <2>1, <2>2 DEF Row, RowSet, RowTypes
  <2>4. /\ row.beforeNumber = oldIndex + 1 /\ row.afterNumber = newIndex + 1
        /\ row.text = previous[oldIndex + 1] /\ row.text = next[newIndex + 1]
      BY <1>2, <2>1 DEF Row, PushContext, Matching
  <2>5. /\ rows' = Append(rows, row) /\ UNCHANGED <<before, after>>
        /\ oldIndex' = oldIndex + 1 /\ newIndex' = newIndex + 1
      BY <1>2, <2>1 DEF PushContext
  <2>6. oldIndex' \in 0 .. Len(previous) /\ newIndex' \in 0 .. Len(next)
      BY <1>1, <2>2, <2>5
  <2>q. QED
      BY <2>3, <2>4, <2>5, <2>6, PushKeepsInv
<1>3. CASE PushAdded
  <2>1. PICK row : row = Row("added", 0, newIndex + 1, next[newIndex + 1])
      OBVIOUS
  <2>2. newIndex + 1 \in 1 .. Len(next)
      BY <1>1, <1>3 DEF PushAdded, AddingFirst
  <2>3. row \in RowSet
      BY <1>1, <2>1, <2>2 DEF Row, RowSet, RowTypes
  <2>4. /\ row.beforeNumber = 0 /\ row.afterNumber = newIndex + 1
        /\ row.text = next[newIndex + 1] /\ row.type # "context"
      BY <2>1 DEF Row
  <2>5. /\ rows' = Append(rows, row) /\ UNCHANGED <<before, after>>
        /\ oldIndex' = oldIndex /\ newIndex' = newIndex + 1
      BY <1>3, <2>1 DEF PushAdded
  <2>6. oldIndex' \in 0 .. Len(previous) /\ newIndex' \in 0 .. Len(next)
      BY <1>1, <2>2, <2>5
  <2>q. QED
      BY <2>3, <2>4, <2>5, <2>6, PushKeepsInv
<1>4. CASE PushRemoved
  <2>1. PICK row : row = Row("removed", oldIndex + 1, 0, previous[oldIndex + 1])
      OBVIOUS
  <2>2. oldIndex + 1 \in 1 .. Len(previous)
    <3>1. oldIndex # Len(previous)
        BY <1>1, <1>4 DEF PushRemoved, AddingFirst, DiffDone
    <3>q. QED
        BY <1>1, <3>1
  <2>3. row \in RowSet
      BY <1>1, <2>1, <2>2 DEF Row, RowSet, RowTypes
  <2>4. /\ row.beforeNumber = oldIndex + 1 /\ row.afterNumber = 0
        /\ row.text = previous[oldIndex + 1] /\ row.type # "context"
      BY <2>1 DEF Row
  <2>5. /\ rows' = Append(rows, row) /\ UNCHANGED <<before, after>>
        /\ oldIndex' = oldIndex + 1 /\ newIndex' = newIndex
      BY <1>4, <2>1 DEF PushRemoved
  <2>6. oldIndex' \in 0 .. Len(previous) /\ newIndex' \in 0 .. Len(next)
      BY <1>1, <2>2, <2>5
  <2>q. QED
      BY <2>3, <2>4, <2>5, <2>6, PushKeepsInv
<1>q. QED
    BY <1>2, <1>3, <1>4

\* The first loop of replacementRows stops at a common prefix within both texts.
LEMMA PrefixExists ==
    ASSUME Len(previous) \in Nat, Len(next) \in Nat
    PROVE  /\ commonPrefix \in 0 .. Len(previous) /\ commonPrefix <= Len(next)
           /\ \A i \in 1 .. commonPrefix : previous[i] = next[i]
<1> DEFINE Ends(p) == p < Len(previous) /\ p < Len(next) => previous[p + 1] # next[p + 1]
           Common(p) == /\ p <= Len(next)
                        /\ \A i \in 1 .. p : previous[i] = next[i]
                        /\ p < Len(previous) /\ p < Len(next) => previous[p + 1] # next[p + 1]
           T == {p \in Nat : p <= Len(previous) /\ p <= Len(next) /\ Ends(p)}
<1>1. \E p \in 0 .. Len(previous) : Common(p)
  <2>1. T # {}
    <3>1. CASE Len(previous) <= Len(next)
      <4>1. Len(previous) \in T
          BY <3>1
      <4>q. QED
          BY <4>1
    <3>2. CASE ~(Len(previous) <= Len(next))
      <4>1. Len(next) \in T
          BY <3>2
      <4>q. QED
          BY <4>1
    <3>q. QED
        BY <3>1, <3>2
  <2>2. T \in SUBSET Nat
      OBVIOUS
  <2>3. \E x \in T : \A y \in T : x <= y
    <3> HIDE DEF T
    <3>q. QED
        BY <2>1, <2>2, LeastNatural
  <2>4. PICK p \in T : \A y \in T : p <= y
      BY <2>3
  <2>5. ASSUME NEW i \in 1 .. p PROVE previous[i] = next[i]
    <3>1. PICK k : k = i - 1
        OBVIOUS
    <3>2. /\ k \in Nat /\ p \in Nat /\ k < p /\ k + 1 = i
          /\ k < Len(previous) /\ k < Len(next)
        BY <2>4, <3>1
    <3>3. k \notin T
      <4> HIDE DEF T
      <4>q. QED
          BY <2>4, <3>2
    <3>4. ~Ends(k)
      <4>1. k <= Len(previous) /\ k <= Len(next)
          BY <3>2
      <4> HIDE DEF Ends
      <4>q. QED
          BY <3>2, <3>3, <4>1, Zenon
    <3>q. QED
        BY <3>2, <3>4, Zenon
  <2>6. p \in 0 .. Len(previous) /\ p <= Len(next) /\ Ends(p)
      BY <2>4
  <2>q. QED
      BY <2>5, <2>6
<1>2. commonPrefix = CHOOSE p \in 0 .. Len(previous) : Common(p)
    BY Zenon DEF commonPrefix
<1> HIDE DEF Common
<1>3. commonPrefix \in 0 .. Len(previous) /\ Common(commonPrefix)
    BY <1>1, <1>2, Zenon
<1>q. QED
    BY <1>3 DEF Common

\* The second loop stops at a common suffix that does not reach back into the prefix.
LEMMA SuffixExists ==
    ASSUME Len(previous) \in Nat, Len(next) \in Nat, NEW prefix \in Nat,
           prefix <= Len(previous), prefix <= Len(next)
    PROVE  /\ commonSuffix(prefix) \in 0 .. Len(previous) - prefix
           /\ commonSuffix(prefix) <= Len(next) - prefix
           /\ \A i \in 0 .. commonSuffix(prefix) - 1 :
                  previous[Len(previous) - i] = next[Len(next) - i]
<1> DEFINE Ends(s) == s < Len(previous) - prefix /\ s < Len(next) - prefix =>
                          previous[Len(previous) - s] # next[Len(next) - s]
           Common(s) == /\ s <= Len(next) - prefix
                        /\ \A i \in 0 .. s - 1 : previous[Len(previous) - i] = next[Len(next) - i]
                        /\ s < Len(previous) - prefix /\ s < Len(next) - prefix =>
                               previous[Len(previous) - s] # next[Len(next) - s]
           T == {s \in Nat : s <= Len(previous) - prefix /\ s <= Len(next) - prefix /\ Ends(s)}
<1>1. \E s \in 0 .. Len(previous) - prefix : Common(s)
  <2>1. T # {}
    <3>1. CASE Len(previous) <= Len(next)
      <4>1. Len(previous) - prefix \in T
          BY <3>1
      <4>q. QED
          BY <4>1
    <3>2. CASE ~(Len(previous) <= Len(next))
      <4>1. Len(next) - prefix \in T
          BY <3>2
      <4>q. QED
          BY <4>1
    <3>q. QED
        BY <3>1, <3>2
  <2>2. T \in SUBSET Nat
      OBVIOUS
  <2>3. \E x \in T : \A y \in T : x <= y
    <3> HIDE DEF T
    <3>q. QED
        BY <2>1, <2>2, LeastNatural
  <2>4. PICK s \in T : \A y \in T : s <= y
      BY <2>3
  <2>5. ASSUME NEW i \in 0 .. s - 1 PROVE previous[Len(previous) - i] = next[Len(next) - i]
    <3>1. i \in Nat /\ i < s /\ s \in Nat
          /\ i < Len(previous) - prefix /\ i < Len(next) - prefix
        BY <2>4
    <3>2. i \notin T
      <4> HIDE DEF T
      <4>q. QED
          BY <2>4, <3>1
    <3>3. ~Ends(i)
      <4>1. i <= Len(previous) - prefix /\ i <= Len(next) - prefix
          BY <3>1
      <4> HIDE DEF Ends
      <4>q. QED
          BY <3>1, <3>2, <4>1, Zenon
    <3>q. QED
        BY <3>1, <3>3, Zenon
  <2>6. s \in 0 .. Len(previous) - prefix /\ s <= Len(next) - prefix /\ Ends(s)
      BY <2>4
  <2>q. QED
      BY <2>5, <2>6
<1>2. commonSuffix(prefix) = CHOOSE s \in 0 .. Len(previous) - prefix : Common(s)
    BY Zenon DEF commonSuffix
<1> HIDE DEF Common
<1>3. commonSuffix(prefix) \in 0 .. Len(previous) - prefix /\ Common(commonSuffix(prefix))
    BY <1>1, <1>2, Zenon
<1>q. QED
    BY <1>3 DEF Common

\* u is s, of length a, followed by t, of length b.
Joined(u, S, s, a, t, b) ==
    /\ u \in Seq(S) /\ Len(u) = a + b
    /\ \A i \in 1 .. a : u[i] = s[i]
    /\ \A i \in 1 .. b : u[a + i] = t[i]

\* A concatenation has its parts one after the other.
LEMMA TwoParts ==
    ASSUME NEW S, NEW a \in Nat, NEW b \in Nat, NEW s \in Seq(S), NEW t \in Seq(S),
           Len(s) = a, Len(t) = b
    PROVE  Joined(s \o t, S, s, a, t, b)
<1>1. /\ s \o t \in Seq(S) /\ Len(s \o t) = a + b
      /\ \A i \in 1 .. a + b : (s \o t)[i] = IF i <= a THEN s[i] ELSE t[i - a]
    BY ConcatProperties
<1>2. PICK u : u = s \o t
    OBVIOUS
<1>3. ASSUME NEW i \in 1 .. a PROVE u[i] = s[i]
    BY <1>1, <1>2
<1>4. ASSUME NEW i \in 1 .. b PROVE u[a + i] = t[i]
  <2>1. a + i \in 1 .. a + b /\ ~(a + i <= a) /\ (a + i) - a = i
      OBVIOUS
  <2>q. QED
      BY <1>1, <1>2, <2>1
<1>q. QED
    BY <1>1, <1>2, <1>3, <1>4 DEF Joined

\* The same for four parts.
AllJoined(u, S, A, a, B, b, C, c, D, d) ==
    /\ u \in Seq(S) /\ DOMAIN u = 1 .. a + b + c + d
    /\ \A i \in 1 .. a : u[i] = A[i]
    /\ \A i \in 1 .. b : u[a + i] = B[i]
    /\ \A i \in 1 .. c : u[a + b + i] = C[i]
    /\ \A i \in 1 .. d : u[a + b + c + i] = D[i]

\* The concatenation of four sequences, as replacementRows makes it.
LEMMA FourParts ==
    ASSUME NEW S, NEW a \in Nat, NEW b \in Nat, NEW c \in Nat, NEW d \in Nat,
           NEW A \in [1 .. a -> S], NEW B \in [1 .. b -> S],
           NEW C \in [1 .. c -> S], NEW D \in [1 .. d -> S]
    PROVE  AllJoined(A \o B \o C \o D, S, A, a, B, b, C, c, D, d)
<1>1. /\ A \in Seq(S) /\ B \in Seq(S) /\ C \in Seq(S) /\ D \in Seq(S)
      /\ Len(A) = a /\ Len(B) = b /\ Len(C) = c /\ Len(D) = d
    OBVIOUS
<1>2. PICK AB : AB = A \o B
    OBVIOUS
<1>3. /\ AB \in Seq(S) /\ Len(AB) = a + b
      /\ \A i \in 1 .. a : AB[i] = A[i]
      /\ \A i \in 1 .. b : AB[a + i] = B[i]
  <2>1. a \in Nat
      OBVIOUS
  <2>2. Joined(A \o B, S, A, a, B, b)
      BY <1>1, <1>2, <2>1, TwoParts, Zenon
  <2>q. QED
      BY <2>2, <1>1, <1>2 DEF Joined
<1>4. PICK ABC : ABC = AB \o C
    OBVIOUS
<1>5. /\ ABC \in Seq(S) /\ Len(ABC) = a + b + c
      /\ \A i \in 1 .. a + b : ABC[i] = AB[i]
      /\ \A i \in 1 .. c : ABC[a + b + i] = C[i]
  <2>1. a + b \in Nat
      OBVIOUS
  <2>2. Joined(AB \o C, S, AB, a + b, C, c)
      BY <1>1, <1>3, <1>4, <2>1, TwoParts, Zenon
  <2>q. QED
      BY <2>2, <1>1, <1>3, <1>4 DEF Joined
<1>6. PICK ABCD : ABCD = ABC \o D
    OBVIOUS
<1>7. /\ ABCD \in Seq(S) /\ Len(ABCD) = a + b + c + d
      /\ \A i \in 1 .. a + b + c : ABCD[i] = ABC[i]
      /\ \A i \in 1 .. d : ABCD[a + b + c + i] = D[i]
  <2>1. a + b + c \in Nat
      OBVIOUS
  <2>2. Joined(ABC \o D, S, ABC, a + b + c, D, d)
      BY <1>1, <1>5, <1>6, <2>1, TwoParts, Zenon
  <2>q. QED
      BY <2>2, <1>1, <1>5, <1>6 DEF Joined
<1>8. A \o B \o C \o D = ABCD
    BY <1>2, <1>4, <1>6
<1>9. DOMAIN ABCD = 1 .. a + b + c + d
    BY <1>7
<1>10. \A i \in 1 .. a : ABCD[i] = A[i]
    BY <1>3, <1>5, <1>7
<1>11. \A i \in 1 .. b : ABCD[a + i] = B[i]
  <2> SUFFICES ASSUME NEW i \in 1 .. b PROVE ABCD[a + i] = B[i]
      OBVIOUS
  <2>1. a + i \in 1 .. a + b /\ a + i \in 1 .. a + b + c
      OBVIOUS
  <2>q. QED
      BY <1>3, <1>5, <1>7, <2>1
<1>12. \A i \in 1 .. c : ABCD[a + b + i] = C[i]
  <2> SUFFICES ASSUME NEW i \in 1 .. c PROVE ABCD[a + b + i] = C[i]
      OBVIOUS
  <2>1. a + b + i \in 1 .. a + b + c
      OBVIOUS
  <2>q. QED
      BY <1>5, <1>7, <2>1
<1>q. QED
    BY <1>7, <1>8, <1>9, <1>10, <1>11, <1>12 DEF AllJoined

\* The rows of a replacement of a lines by b lines between p and s common ones.
Replacement(rs, p, a, b, s) ==
    /\ p + a + s = Len(previous) /\ p + b + s = Len(next)
    /\ \A i \in 1 .. p : previous[i] = next[i]
    /\ \A i \in 1 .. s : previous[p + a + i] = next[p + b + i]
    /\ rs \in Seq(RowSet) /\ DOMAIN rs = 1 .. p + a + b + s
    /\ \A i \in 1 .. p : rs[i] = Row("context", i, i, previous[i])
    /\ \A i \in 1 .. a : rs[p + i] = Row("removed", p + i, 0, previous[p + i])
    /\ \A i \in 1 .. b : rs[p + a + i] = Row("added", 0, p + i, next[p + i])
    /\ \A i \in 1 .. s : rs[p + a + b + i] =
                             Row("context", p + a + i, p + b + i, previous[p + a + i])

\* replacementRows is such a replacement.
LEMMA ReplacementRows ==
    ASSUME before \in Sources, after \in Formatted
    PROVE  \E p, a, b, s \in Nat : Replacement(replacementRows, p, a, b, s)
<1>1. /\ Len(previous) \in Nat /\ Len(next) \in Nat
      /\ \A i \in 1 .. Len(previous) : previous[i] \in {before[j].text : j \in DOMAIN before}
      /\ \A i \in 1 .. Len(next) : next[i] \in {after[j].text : j \in DOMAIN after}
    BY TwoTexts
<1>2. PICK p : p = commonPrefix
    OBVIOUS
<1>3. /\ p \in Nat /\ p <= Len(previous) /\ p <= Len(next)
      /\ \A i \in 1 .. p : previous[i] = next[i]
    BY <1>1, <1>2, PrefixExists
<1>4. PICK s : s = commonSuffix(p)
    OBVIOUS
<1>5. /\ s \in Nat /\ s <= Len(previous) - p /\ s <= Len(next) - p
      /\ \A i \in 0 .. s - 1 : previous[Len(previous) - i] = next[Len(next) - i]
  <2>1. /\ s \in 0 .. Len(previous) - p /\ s <= Len(next) - p
        /\ \A i \in 0 .. s - 1 : previous[Len(previous) - i] = next[Len(next) - i]
      BY <1>1, <1>3, <1>4, SuffixExists, Zenon
  <2>q. QED
      BY <1>1, <1>3, <2>1
<1>n. (Len(previous) - s) - p \in Nat /\ (Len(next) - s) - p \in Nat
    BY <1>1, <1>3, <1>5
<1>6. PICK a \in Nat : a = (Len(previous) - s) - p
    BY <1>n, Zenon
<1>7. PICK b \in Nat : b = (Len(next) - s) - p
    BY <1>n, Zenon
<1>8. p + a + s = Len(previous) /\ p + b + s = Len(next)
    BY <1>1, <1>3, <1>5, <1>6, <1>7
<1>9. ASSUME NEW i \in 1 .. s PROVE previous[p + a + i] = next[p + b + i]
  <2>1. PICK k : k = s - i
      OBVIOUS
  <2>2. k \in 0 .. s - 1
      BY <1>5, <2>1
  <2>3. Len(previous) - k = p + a + i /\ Len(next) - k = p + b + i
      BY <1>3, <1>5, <1>8, <2>1
  <2>q. QED
      BY <1>5, <2>2, <2>3
<1>i. /\ \A i \in 1 .. a : p + i \in 1 .. Len(previous) /\ p + i \in Nat
      /\ \A i \in 1 .. b : p + i \in 1 .. Len(next) /\ p + i \in Nat
      /\ \A i \in 1 .. s : /\ p + a + i \in 1 .. Len(previous)
                           /\ p + a + i \in Nat /\ p + b + i \in Nat
    BY <1>3, <1>5, <1>8
<1> DEFINE A == [i \in 1 .. p |-> Row("context", i, i, previous[i])]
           B == [i \in 1 .. a |-> Row("removed", p + i, 0, previous[p + i])]
           C == [i \in 1 .. b |-> Row("added", 0, p + i, next[p + i])]
           D == [i \in 1 .. s |-> Row("context", p + a + i, p + b + i, previous[p + a + i])]
<1>10. replacementRows = A \o B \o C \o D
  <2>1. Len(previous) - s = p + a /\ Len(next) - s = p + b
      BY <1>1, <1>3, <1>5, <1>6, <1>7
  <2>2. replacementRows =
            [i \in 1 .. p |-> Row("context", i, i, previous[i])]
            \o [i \in 1 .. (Len(previous) - s) - p |-> Row("removed", p + i, 0, previous[p + i])]
            \o [i \in 1 .. (Len(next) - s) - p |-> Row("added", 0, p + i, next[p + i])]
            \o [i \in 1 .. s |-> Row("context", (Len(previous) - s) + i, (Len(next) - s) + i,
                                     previous[(Len(previous) - s) + i])]
      BY <1>2, <1>4, Zenon DEF replacementRows
  <2>q. QED
      BY <1>6, <1>7, <2>1, <2>2, Zenon
<1>11. A \in [1 .. p -> RowSet]
  <2> SUFFICES ASSUME NEW i \in 1 .. p PROVE Row("context", i, i, previous[i]) \in RowSet
      OBVIOUS
  <2>q. QED
      BY <1>1, <1>3 DEF Row, RowSet, RowTypes
<1>12. B \in [1 .. a -> RowSet]
  <2> SUFFICES ASSUME NEW i \in 1 .. a PROVE Row("removed", p + i, 0, previous[p + i]) \in RowSet
      OBVIOUS
  <2>1. p + i \in 1 .. Len(previous) /\ p + i \in Nat
      BY <1>i
  <2>q. QED
      BY <1>1, <2>1 DEF Row, RowSet, RowTypes
<1>13. C \in [1 .. b -> RowSet]
  <2> SUFFICES ASSUME NEW i \in 1 .. b PROVE Row("added", 0, p + i, next[p + i]) \in RowSet
      OBVIOUS
  <2>1. p + i \in 1 .. Len(next) /\ p + i \in Nat
      BY <1>i
  <2>q. QED
      BY <1>1, <2>1 DEF Row, RowSet, RowTypes
<1>14. D \in [1 .. s -> RowSet]
  <2> SUFFICES ASSUME NEW i \in 1 .. s
               PROVE Row("context", p + a + i, p + b + i, previous[p + a + i]) \in RowSet
      OBVIOUS
  <2>1. p + a + i \in 1 .. Len(previous) /\ p + a + i \in Nat /\ p + b + i \in Nat
      BY <1>i
  <2>q. QED
      BY <1>1, <2>1 DEF Row, RowSet, RowTypes
<1>15. /\ \A i \in 1 .. p : A[i] = Row("context", i, i, previous[i])
       /\ \A i \in 1 .. a : B[i] = Row("removed", p + i, 0, previous[p + i])
       /\ \A i \in 1 .. b : C[i] = Row("added", 0, p + i, next[p + i])
       /\ \A i \in 1 .. s : D[i] = Row("context", p + a + i, p + b + i, previous[p + a + i])
    OBVIOUS
<1> HIDE DEF A, B, C, D
<1>16. PICK rs : rs = A \o B \o C \o D
    OBVIOUS
<1>17. /\ rs \in Seq(RowSet)
       /\ DOMAIN rs = 1 .. p + a + b + s
       /\ \A i \in 1 .. p : rs[i] = A[i]
       /\ \A i \in 1 .. a : rs[p + i] = B[i]
       /\ \A i \in 1 .. b : rs[p + a + i] = C[i]
       /\ \A i \in 1 .. s : rs[p + a + b + i] = D[i]
  <2>1. AllJoined(A \o B \o C \o D, RowSet, A, p, B, a, C, b, D, s)
      BY <1>3, <1>5, <1>11, <1>12, <1>13, <1>14, FourParts, Zenon
  <2>q. QED
      BY <1>16, <2>1, Zenon DEF AllJoined
<1>18. Replacement(rs, p, a, b, s)
    BY <1>3, <1>8, <1>9, <1>15, <1>17, Zenon DEF Replacement
<1>q. QED
    BY <1>3, <1>5, <1>10, <1>16, <1>18

\* A replacement rebuilds both texts, line by line.
LEMMA ReplacementRebuilds ==
    ASSUME NEW rs, NEW p \in Nat, NEW a \in Nat, NEW b \in Nat, NEW s \in Nat,
           Replacement(rs, p, a, b, s)
    PROVE  /\ NumbersRebuild(rs, NumbersOf(rs, "beforeNumber"), Len(previous), previous)
           /\ NumbersRebuild(rs, NumbersOf(rs, "afterNumber"), Len(next), next)
<1> DEFINE old == NumbersOf(rs, "beforeNumber")
           new == NumbersOf(rs, "afterNumber")
<1>1. /\ p + a + s = Len(previous) /\ p + b + s = Len(next)
      /\ \A i \in 1 .. p : previous[i] = next[i]
      /\ \A i \in 1 .. s : previous[p + a + i] = next[p + b + i]
      /\ DOMAIN rs = 1 .. p + a + b + s
    BY DEF Replacement
<1>2. \A i \in 1 .. p : old[i] = i /\ new[i] = i /\ rs[i].text = previous[i]
  <2> SUFFICES ASSUME NEW i \in 1 .. p PROVE old[i] = i /\ new[i] = i /\ rs[i].text = previous[i]
      OBVIOUS
  <2>1. i \in DOMAIN rs
      BY <1>1
  <2>2. rs[i] = Row("context", i, i, previous[i])
      BY DEF Replacement
  <2>3. old[i] = rs[i].beforeNumber /\ new[i] = rs[i].afterNumber
      BY <2>1 DEF NumbersOf
  <2>q. QED
      BY <2>2, <2>3 DEF Row
<1>3. \A i \in 1 .. a : old[p + i] = p + i /\ new[p + i] = 0 /\ rs[p + i].text = previous[p + i]
  <2> SUFFICES ASSUME NEW i \in 1 .. a
               PROVE old[p + i] = p + i /\ new[p + i] = 0 /\ rs[p + i].text = previous[p + i]
      OBVIOUS
  <2>1. p + i \in DOMAIN rs
      BY <1>1
  <2>2. rs[p + i] = Row("removed", p + i, 0, previous[p + i])
      BY DEF Replacement
  <2>3. old[p + i] = rs[p + i].beforeNumber /\ new[p + i] = rs[p + i].afterNumber
      BY <2>1 DEF NumbersOf
  <2>q. QED
      BY <2>2, <2>3 DEF Row
<1>4. \A i \in 1 .. b : /\ old[p + a + i] = 0 /\ new[p + a + i] = p + i
                        /\ rs[p + a + i].text = next[p + i]
  <2> SUFFICES ASSUME NEW i \in 1 .. b
               PROVE  /\ old[p + a + i] = 0 /\ new[p + a + i] = p + i
                      /\ rs[p + a + i].text = next[p + i]
      OBVIOUS
  <2>1. p + a + i \in DOMAIN rs
      BY <1>1
  <2>2. rs[p + a + i] = Row("added", 0, p + i, next[p + i])
      BY DEF Replacement
  <2>3. old[p + a + i] = rs[p + a + i].beforeNumber /\ new[p + a + i] = rs[p + a + i].afterNumber
      BY <2>1 DEF NumbersOf
  <2>q. QED
      BY <2>2, <2>3 DEF Row
<1>5. \A i \in 1 .. s : /\ old[p + a + b + i] = p + a + i /\ new[p + a + b + i] = p + b + i
                        /\ rs[p + a + b + i].text = previous[p + a + i]
  <2> SUFFICES ASSUME NEW i \in 1 .. s
               PROVE  /\ old[p + a + b + i] = p + a + i /\ new[p + a + b + i] = p + b + i
                      /\ rs[p + a + b + i].text = previous[p + a + i]
      OBVIOUS
  <2>1. p + a + b + i \in DOMAIN rs
      BY <1>1
  <2>2. rs[p + a + b + i] = Row("context", p + a + i, p + b + i, previous[p + a + i])
      BY DEF Replacement
  <2>3. /\ old[p + a + b + i] = rs[p + a + b + i].beforeNumber
        /\ new[p + a + b + i] = rs[p + a + b + i].afterNumber
      BY <2>1 DEF NumbersOf
  <2>q. QED
      BY <2>2, <2>3 DEF Row
<1> HIDE DEF old, new
\* The four parts in one formula, by the number of the row.
<1>6. ASSUME NEW r \in DOMAIN rs
      PROVE  /\ r \in Nat /\ r >= 1 /\ r <= p + a + b + s
             /\ r <= p => old[r] = r /\ new[r] = r /\ rs[r].text = previous[r] /\ rs[r].text = next[r]
             /\ r > p /\ r <= p + a => old[r] = r /\ new[r] = 0 /\ rs[r].text = previous[r]
             /\ r > p + a /\ r <= p + a + b =>
                    old[r] = 0 /\ new[r] = r - a /\ rs[r].text = next[r - a]
             /\ r > p + a + b => /\ old[r] = r - b /\ new[r] = r - a
                                 /\ rs[r].text = previous[r - b] /\ rs[r].text = next[r - a]
  <2>1. r \in Nat /\ r >= 1 /\ r <= p + a + b + s
      BY <1>1
  <2>2. ASSUME r <= p
        PROVE  old[r] = r /\ new[r] = r /\ rs[r].text = previous[r] /\ rs[r].text = next[r]
    <3>1. r \in 1 .. p
        BY <2>1, <2>2
    <3>q. QED
        BY <1>1, <1>2, <3>1
  <2>3. ASSUME r > p, r <= p + a
        PROVE  old[r] = r /\ new[r] = 0 /\ rs[r].text = previous[r]
    <3>0. r - p \in 1 .. a /\ r = p + (r - p)
        BY <2>1, <2>3
    <3>1. PICK i \in 1 .. a : r = p + i
        BY <3>0, Zenon
    <3>q. QED
        BY <1>3, <3>1
  <2>4. ASSUME r > p + a, r <= p + a + b
        PROVE  old[r] = 0 /\ new[r] = r - a /\ rs[r].text = next[r - a]
    <3>1. PICK i \in 1 .. b : r = p + a + i /\ r - a = p + i
        BY <2>1, <2>4
    <3>q. QED
        BY <1>4, <3>1
  <2>5. ASSUME r > p + a + b
        PROVE  /\ old[r] = r - b /\ new[r] = r - a
               /\ rs[r].text = previous[r - b] /\ rs[r].text = next[r - a]
    <3>0. PICK i : i = r - (p + a + b)
        OBVIOUS
    <3>1. i \in 1 .. s /\ r = p + a + b + i /\ r - a = p + b + i /\ r - b = p + a + i
        BY <2>1, <2>5, <3>0
    <3>q. QED
        BY <1>1, <1>5, <3>1
  <2>q. QED
      BY <2>1, <2>2, <2>3, <2>4, <2>5
<1>7. NumbersRebuild(rs, old, Len(previous), previous)
  <2>1. ASSUME NEW r \in DOMAIN rs
        PROVE  old[r] \in 0 .. Len(previous) /\ (old[r] # 0 => rs[r].text = previous[old[r]])
    <3>1. CASE r <= p + a
      <4>1. old[r] = r /\ rs[r].text = previous[r] /\ r \in 0 .. p + a
          BY <1>6, <3>1
      <4>q. QED
          BY <1>1, <4>1
    <3>2. CASE r > p + a /\ r <= p + a + b
      <4>1. old[r] = 0
          BY <1>6, <3>2
      <4>q. QED
          BY <1>1, <4>1
    <3>3. CASE r > p + a + b
      <4>1. old[r] = r - b /\ rs[r].text = previous[r - b] /\ r - b \in 0 .. p + a + s
          BY <1>6, <3>3
      <4>q. QED
          BY <1>1, <4>1
    <3>q. QED
        BY <1>6, <3>1, <3>2, <3>3
  <2>2. ASSUME NEW n \in 1 .. Len(previous) PROVE \E r \in DOMAIN rs : old[r] = n
    <3>1. CASE n <= p + a
      <4>1. n \in DOMAIN rs
          BY <1>1, <3>1
      <4>q. QED
          BY <1>6, <3>1, <4>1
    <3>2. CASE n > p + a
      <4>1. n + b \in DOMAIN rs /\ n + b > p + a + b /\ (n + b) - b = n
          BY <1>1, <3>2
      <4>q. QED
          BY <1>6, <4>1
    <3>q. QED
        BY <1>1, <3>1, <3>2
  <2>3. ASSUME NEW r \in DOMAIN rs, NEW t \in DOMAIN rs, r < t, old[r] # 0, old[t] # 0
        PROVE  old[r] < old[t]
      BY <1>6, <2>3
  <2>q. QED
      BY <2>1, <2>2, <2>3, Zenon DEF NumbersRebuild
<1>8. NumbersRebuild(rs, new, Len(next), next)
  <2>1. ASSUME NEW r \in DOMAIN rs
        PROVE  new[r] \in 0 .. Len(next) /\ (new[r] # 0 => rs[r].text = next[new[r]])
    <3>1. CASE r <= p
      <4>1. new[r] = r /\ rs[r].text = next[r] /\ r \in 0 .. p
          BY <1>6, <3>1
      <4>q. QED
          BY <1>1, <4>1
    <3>2. CASE r > p /\ r <= p + a
      <4>1. new[r] = 0
          BY <1>6, <3>2
      <4>q. QED
          BY <1>1, <4>1
    <3>3. CASE r > p + a
      <4>1. new[r] = r - a /\ rs[r].text = next[r - a] /\ r - a \in 0 .. p + b + s
          BY <1>6, <3>3
      <4>q. QED
          BY <1>1, <4>1
    <3>q. QED
        BY <1>6, <3>1, <3>2, <3>3
  <2>2. ASSUME NEW n \in 1 .. Len(next) PROVE \E r \in DOMAIN rs : new[r] = n
    <3>1. CASE n <= p
      <4>1. n \in DOMAIN rs
          BY <1>1, <3>1
      <4>q. QED
          BY <1>6, <3>1, <4>1
    <3>2. CASE n > p
      <4>1. n + a \in DOMAIN rs /\ n + a > p + a /\ (n + a) - a = n /\ n + a \in Nat
          BY <1>1, <3>2
      <4>2. new[n + a] = n
          BY <1>6, <4>1
      <4>q. QED
          BY <4>1, <4>2
    <3>q. QED
        BY <1>1, <3>1, <3>2
  <2>3. ASSUME NEW r \in DOMAIN rs, NEW t \in DOMAIN rs, r < t, new[r] # 0, new[t] # 0
        PROVE  new[r] < new[t]
      BY <1>6, <2>3
  <2>q. QED
      BY <2>1, <2>2, <2>3, Zenon DEF NumbersRebuild
<1>q. QED
    BY <1>7, <1>8 DEF old, new

\* A replacement that consists of context rows replaces nothing.
LEMMA ReplacementOfContext ==
    ASSUME NEW rs, NEW p \in Nat, NEW a \in Nat, NEW b \in Nat, NEW s \in Nat,
           Replacement(rs, p, a, b, s), \A r \in DOMAIN rs : rs[r].type = "context"
    PROVE  /\ Len(previous) = Len(next)
           /\ \A i \in 1 .. Len(previous) : previous[i] = next[i]
<1>1. /\ p + a + s = Len(previous) /\ p + b + s = Len(next)
      /\ \A i \in 1 .. p : previous[i] = next[i]
      /\ \A i \in 1 .. s : previous[p + a + i] = next[p + b + i]
      /\ DOMAIN rs = 1 .. p + a + b + s
    BY DEF Replacement
<1>2. a = 0
  <2>1. ASSUME a # 0 PROVE FALSE
    <3>1. 1 \in 1 .. a /\ p + 1 \in DOMAIN rs
        BY <1>1, <2>1
    <3>2. rs[p + 1] = Row("removed", p + 1, 0, previous[p + 1])
        BY <3>1 DEF Replacement
    <3>q. QED
        BY <3>1, <3>2 DEF Row
  <2>q. QED
      BY <2>1
<1>3. b = 0
  <2>1. ASSUME b # 0 PROVE FALSE
    <3>1. 1 \in 1 .. b /\ p + a + 1 \in DOMAIN rs
        BY <1>1, <2>1
    <3>2. rs[p + a + 1] = Row("added", 0, p + 1, next[p + 1])
        BY <3>1 DEF Replacement
    <3>q. QED
        BY <3>1, <3>2 DEF Row
  <2>q. QED
      BY <2>1
<1>4. ASSUME NEW i \in 1 .. Len(previous) PROVE previous[i] = next[i]
  <2>1. CASE i <= p
    <3>1. i \in 1 .. p
        BY <1>1, <2>1
    <3>q. QED
        BY <1>1, <3>1
  <2>2. CASE i > p
    <3>1. PICK j \in 1 .. s : i = p + a + j /\ i = p + b + j
        BY <1>1, <1>2, <1>3, <2>2
    <3>q. QED
        BY <1>1, <3>1
  <2>q. QED
      BY <1>1, <2>1, <2>2
<1>q. QED
    BY <1>1, <1>2, <1>3, <1>4

\* The simplified diff of texts too large to align keeps the invariant.
LEMMA SimplifyKeepsInv == DiffInv /\ Simplify => DiffInv'
<1> SUFFICES ASSUME DiffInv, Simplify PROVE DiffInv'
    OBVIOUS
<1>1. before \in Sources /\ after \in Formatted /\ before # after
    BY DEF DiffInv
<1>2. /\ rows' = replacementRows /\ oldIndex' = Len(previous) /\ newIndex' = Len(next)
      /\ UNCHANGED <<before, after>>
    BY DEF Simplify
<1>3. previous' = previous /\ next' = next /\ RowSet' = RowSet
    BY <1>2 DEF previous, next, RowSet
<1>4. Len(previous) \in Nat /\ Len(next) \in Nat
    BY <1>1, TwoTexts
<1>5. PICK p \in Nat, a \in Nat, b \in Nat, s \in Nat : Replacement(rows', p, a, b, s)
    BY <1>1, <1>2, ReplacementRows
<1>6. DiffTypes'
    BY <1>2, <1>3, <1>4, <1>5 DEF DiffTypes, Replacement
<1>7. /\ NumbersRebuild(rows', NumbersOf(rows', "beforeNumber"), oldIndex', previous')
      /\ NumbersRebuild(rows', NumbersOf(rows', "afterNumber"), newIndex', next')
    BY <1>2, <1>3, <1>5, ReplacementRebuilds
<1>8. Rebuilds("beforeNumber", oldIndex, previous)' /\ Rebuilds("afterNumber", newIndex, next)'
    BY <1>7, Zenon DEF Rebuilds, NumbersRebuild, NumbersOf
<1>9. RowsRebuildBothTexts'
    BY <1>2, <1>3, <1>4, <1>8 DEF RowsRebuildBothTexts
<1>10. ContextRowsAgree'
  <2> SUFFICES ASSUME \A r \in DOMAIN rows' : rows'[r].type = "context"
               PROVE  oldIndex' = newIndex' /\ \A i \in 1 .. oldIndex' : previous[i] = next[i]
      BY <1>3 DEF ContextRowsAgree
  <2>q. QED
      BY <1>2, <1>5, ReplacementOfContext
<1>q. QED
    BY <1>1, <1>2, <1>6, <1>9, <1>10 DEF DiffInv

\* The diff keeps its invariant, for texts of any length and any cell limit.
THEOREM DiffInvariant == DiffSpec => []DiffInv
<1>1. DiffInit => DiffInv
  <2> SUFFICES ASSUME DiffInit PROVE DiffInv
      OBVIOUS
  <2>1. /\ before \in Sources /\ after \in Formatted /\ before # after
        /\ oldIndex = 0 /\ newIndex = 0 /\ rows = <<>>
      BY DEF DiffInit
  <2>2. Len(previous) \in Nat /\ Len(next) \in Nat
      BY <2>1, TwoTexts
  <2>3. DiffTypes
      BY <2>1, <2>2 DEF DiffTypes
  <2>4. RowsRebuildBothTexts
      BY <2>1, <2>2 DEF RowsRebuildBothTexts, Rebuilds
  <2>5. ContextRowsAgree
      BY <2>1 DEF ContextRowsAgree
  <2>q. QED
      BY <2>1, <2>3, <2>4, <2>5 DEF DiffInv
<1>2. DiffInv /\ [DiffNext]_diffVars => DiffInv'
  <2> SUFFICES ASSUME DiffInv, [DiffNext]_diffVars PROVE DiffInv'
      OBVIOUS
  <2>1. CASE UNCHANGED diffVars
    <3>1. previous' = previous /\ next' = next /\ RowSet' = RowSet
        BY <2>1 DEF diffVars, previous, next, RowSet
    <3>2. /\ UNCHANGED <<before, after, oldIndex, newIndex, rows>>
        BY <2>1 DEF diffVars
    <3>3. RowsRebuildBothTexts' /\ ContextRowsAgree' /\ DiffTypes'
        BY <3>1, <3>2 DEF DiffInv, RowsRebuildBothTexts, Rebuilds, ContextRowsAgree, DiffTypes
    <3>q. QED
        BY <3>2, <3>3 DEF DiffInv
  <2>q. QED
      BY <2>1, SimplifyKeepsInv, WalkKeepsInv DEF DiffNext
<1>q. QED
    BY <1>1, <1>2, PTL DEF DiffSpec

\* buildLineDiff loses, repeats and reorders no line, aligned or simplified.
THEOREM RowsAlwaysRebuildBothTexts == DiffSpec => []RowsRebuildBothTexts
<1>1. DiffInv => RowsRebuildBothTexts
    BY DEF DiffInv
<1>q. QED
    BY <1>1, DiffInvariant, PTL

\* A source is its lines, and a line its text and its terminator.
LEMMA SourceIsItsLines ==
    ASSUME NEW s, IsSource(s)
    PROVE  /\ s = [i \in 1 .. Len(s) |-> s[i]]
           /\ \A i \in 1 .. Len(s) : /\ s[i] = [text |-> s[i].text, end |-> s[i].end]
                                     /\ s[i].end \in Terminators
<1> DEFINE S == {s[i].text : i \in DOMAIN s}
<1>1. s \in Seq([text : S, end : Terminators])
    BY DEF IsSource
<1> HIDE DEF S
<1>2. s \in [1 .. Len(s) -> [text : S, end : Terminators]]
    BY <1>1, LenProperties
<1>3. s = [i \in 1 .. Len(s) |-> s[i]]
    BY <1>2, Zenon
<1>4. ASSUME NEW i \in 1 .. Len(s)
      PROVE  s[i] = [text |-> s[i].text, end |-> s[i].end] /\ s[i].end \in Terminators
  <2>1. PICK line \in [text : S, end : Terminators] : line = s[i]
      BY <1>2
  <2>2. line = [text |-> line.text, end |-> line.end] /\ line.end \in Terminators
      OBVIOUS
  <2>q. QED
      BY <2>1, <2>2
<1>q. QED
    BY <1>3, <1>4, Zenon

\* Texts with the same lines, no carriage return and the same final newline are the same.
LEMMA SameLinesSameText ==
    ASSUME before \in Sources, after \in Formatted,
           Len(previous) = Len(next), \A i \in 1 .. Len(previous) : previous[i] = next[i],
           newlineChange = "none", ~lineEndingsChanged
    PROVE  before = after
<1>1. /\ IsSource(before) /\ IsSource(after)
      /\ \A i \in DOMAIN after : after[i].end = "lf"
    BY DiffAssumption
<1>2. /\ Len(before) = Len(after) /\ Len(before) \in Nat
      /\ DOMAIN before = 1 .. Len(before) /\ DOMAIN after = 1 .. Len(before)
      /\ \A i \in 1 .. Len(before) : before[i].text = after[i].text
  <2>1. DOMAIN before = 1 .. Len(before) /\ DOMAIN after = 1 .. Len(after)
      BY <1>1, LinesOf
  <2>q. QED
      BY <2>1, TwoTexts
<1>3. ~HasReturn(after)
    BY <1>1 DEF HasReturn
<1>4. ~HasReturn(before)
    BY <1>3, Zenon DEF lineEndingsChanged, HasReturn
<1>5. ASSUME NEW i \in 1 .. Len(before) PROVE before[i].end = "lf"
  <2>1. before[i].end \in Terminators /\ before[i].end \notin {"crlf", "cr"}
      BY <1>1, <1>2, <1>4, SourceIsItsLines DEF HasReturn
  <2>2. ASSUME before[i].end = "none" PROVE FALSE
    <3>1. i = Len(before)
        BY <1>1, <1>2, <2>2 DEF IsSource
    <3>2. after # <<>> /\ Last(after).end = "lf"
        BY <1>1, <1>2, <3>1 DEF Last
    <3>3. EndsWithNewline(after)
        BY <3>2 DEF EndsWithNewline
    <3>4. ~EndsWithNewline(before)
        BY <2>2, <3>1 DEF EndsWithNewline, Last
    <3>5. newlineChange = "added"
        BY <3>3, <3>4, Zenon DEF newlineChange
    <3>q. QED
        BY <3>5
  <2>q. QED
      BY <2>1, <2>2 DEF Terminators
<1>6. ASSUME NEW i \in 1 .. Len(before) PROVE before[i] = after[i]
  <2>1. /\ before[i] = [text |-> before[i].text, end |-> before[i].end]
        /\ after[i] = [text |-> after[i].text, end |-> after[i].end]
      BY <1>1, <1>2, SourceIsItsLines
  <2>2. before[i].text = after[i].text /\ before[i].end = after[i].end
      BY <1>1, <1>2, <1>5
  <2>q. QED
      BY <2>1, <2>2
<1>7. /\ before = [i \in 1 .. Len(before) |-> before[i]]
      /\ after = [i \in 1 .. Len(before) |-> after[i]]
    BY <1>1, <1>2, SourceIsItsLines
<1>q. QED
    BY <1>6, <1>7, Zenon

\* A preview of a text that formatting changes shows a changed row or names the final
\* newline or the line endings.
THEOREM FormattingChangeAlwaysVisible == DiffSpec => []FormattingChangeIsVisible
<1>1. DiffInv => FormattingChangeIsVisible
  <2> SUFFICES ASSUME DiffInv, DiffDone, \A r \in DOMAIN rows : rows[r].type = "context",
                      newlineChange = "none", ~lineEndingsChanged
               PROVE  FALSE
      BY Zenon DEF FormattingChangeIsVisible
  <2>1. before \in Sources /\ after \in Formatted /\ before # after
      BY DEF DiffInv
  <2>2. Len(previous) = Len(next) /\ \A i \in 1 .. Len(previous) : previous[i] = next[i]
      BY DEF DiffInv, ContextRowsAgree, DiffDone
  <2>q. QED
      BY <2>1, <2>2, SameLinesSameText
<1>q. QED
    BY <1>1, DiffInvariant, PTL

\* A cell of the matrix from the cells g beyond it.
CellValue(g, o, n) ==
    IF o >= Len(previous) \/ n >= Len(next) THEN 0
    ELSE IF previous[o + 1] = next[n + 1] THEN g[<<o + 1, n + 1>>] + 1
    ELSE IF g[<<o + 1, n>>] > g[<<o, n + 1>>] THEN g[<<o + 1, n>>] ELSE g[<<o, n + 1>>]

\* The definition of matrix.
Fills(g) == g = [c \in Nat \X Nat |-> CellValue(g, c[1], c[2])]

\* The cells at most k lines from the ends are filled.
FilledFrom(g, k) ==
    \A o, n \in Nat : o + n + k >= Len(previous) + Len(next) => g[<<o, n>>] = CellValue(g, o, n)

\* The loops over the matrix, from the ends of both texts to their beginnings, fill
\* every cell: the matrix exists.
LEMMA MatrixFilled ==
    ASSUME Len(previous) \in Nat, Len(next) \in Nat
    PROVE  Fills(matrix)
<1> DEFINE P == Len(previous)
           N == Len(next)
           Cells == [Nat \X Nat -> Nat]
           T == {k \in Nat : \E g \in Cells : FilledFrom(g, k)}
<1>1. 0 \in T
  <2> DEFINE g == [c \in Nat \X Nat |-> 0]
  <2>1. g \in Cells
      OBVIOUS
  <2>2. ASSUME NEW o \in Nat, NEW n \in Nat, o + n + 0 >= P + N
        PROVE  g[<<o, n>>] = CellValue(g, o, n)
    <3>1. o >= P \/ n >= N
        BY <2>2
    <3>q. QED
        BY <3>1 DEF CellValue
  <2>3. FilledFrom(g, 0)
      BY <2>2 DEF FilledFrom
  <2>q. QED
      BY <2>1, <2>3
<1>2. ASSUME NEW k \in T PROVE k + 1 \in T
  <2>1. PICK g \in Cells : FilledFrom(g, k)
      OBVIOUS
  <2> DEFINE h == [c \in Nat \X Nat |-> CellValue(g, c[1], c[2])]
  <2>2. \A o, n \in Nat : g[<<o, n>>] \in Nat
      OBVIOUS
  <2>3. \A o, n \in Nat : CellValue(g, o, n) \in Nat
      BY <2>2, SMTT(30) DEF CellValue
  <2>4. \A c \in Nat \X Nat : CellValue(g, c[1], c[2]) \in Nat
      BY <2>3
  <2>5. h \in Cells
      BY <2>4
  <2>6. \A o, n \in Nat : h[<<o, n>>] = CellValue(g, o, n)
      OBVIOUS
  <2> HIDE DEF h
  <2>7. \A o, n \in Nat : o + n + k >= P + N => h[<<o, n>>] = g[<<o, n>>]
      BY <2>1, <2>6 DEF FilledFrom
  <2>8. ASSUME NEW o \in Nat, NEW n \in Nat, o + n + (k + 1) >= P + N
        PROVE  h[<<o, n>>] = CellValue(h, o, n)
    <3>1. /\ h[<<o + 1, n>>] = g[<<o + 1, n>>]
          /\ h[<<o, n + 1>>] = g[<<o, n + 1>>]
          /\ h[<<o + 1, n + 1>>] = g[<<o + 1, n + 1>>]
      <4>1. /\ o + 1 \in Nat /\ n + 1 \in Nat /\ k \in Nat
            /\ (o + 1) + n + k >= P + N /\ o + (n + 1) + k >= P + N
            /\ (o + 1) + (n + 1) + k >= P + N
          BY <2>8
      <4>q. QED
          BY <2>7, <4>1
    <3>2. CellValue(h, o, n) = CellValue(g, o, n)
        BY <3>1, Zenon DEF CellValue
    <3>q. QED
        BY <2>6, <3>2
  <2>9. FilledFrom(h, k + 1)
      BY <2>8 DEF FilledFrom
  <2>10. k + 1 \in Nat
      OBVIOUS
  <2>q. QED
      BY <2>5, <2>9, <2>10
<1>3. P + N \in T
  <2>1. T \in SUBSET Nat
      OBVIOUS
  <2> HIDE DEF T
  <2>2. T = Nat
      BY <1>1, <1>2, <2>1, SetInduction
  <2>q. QED
      BY <2>2
<1>4. PICK g \in Cells : FilledFrom(g, P + N)
    BY <1>3
<1>5. \A c \in Nat \X Nat : g[c] = CellValue(g, c[1], c[2])
  <2> SUFFICES ASSUME NEW c \in Nat \X Nat PROVE g[c] = CellValue(g, c[1], c[2])
      OBVIOUS
  <2>1. PICK o \in Nat, n \in Nat : c = <<o, n>>
      OBVIOUS
  <2>2. o + n + (P + N) >= P + N
      OBVIOUS
  <2>3. g[<<o, n>>] = CellValue(g, o, n)
      BY <1>4, <2>2 DEF FilledFrom
  <2>q. QED
      BY <2>1, <2>3
<1>6. Fills(g)
  <2>1. g = [c \in Nat \X Nat |-> g[c]]
      OBVIOUS
  <2>q. QED
      BY <1>5, <2>1 DEF Fills
<1>q. QED
    BY <1>6, Zenon DEF matrix, Fills, CellValue

\* What the cells of the matrix hold, from those beyond them.
LEMMA MatrixCells ==
    ASSUME Len(previous) \in Nat, Len(next) \in Nat
    PROVE  \A o, n \in Nat :
               /\ matrix[<<o, n>>] = CellValue(matrix, o, n)
               /\ matrix[<<o, n>>] \in Nat
<1> DEFINE P == Len(previous)
           N == Len(next)
           T == {k \in Nat : \A o, n \in Nat : o + n + k >= P + N => matrix[<<o, n>>] \in Nat}
<1>1. \A o, n \in Nat : matrix[<<o, n>>] = CellValue(matrix, o, n)
  <2> SUFFICES ASSUME NEW o \in Nat, NEW n \in Nat
               PROVE  matrix[<<o, n>>] = CellValue(matrix, o, n)
      OBVIOUS
  <2>1. PICK g : g = matrix
      OBVIOUS
  <2>2. g = [c \in Nat \X Nat |-> CellValue(g, c[1], c[2])]
      BY <2>1, MatrixFilled, Zenon DEF Fills
  <2>3. \A c \in Nat \X Nat : g[c] = CellValue(g, c[1], c[2])
      BY <2>2, Zenon
  <2>4. g[<<o, n>>] = CellValue(g, o, n)
      BY <2>3
  <2>q. QED
      BY <2>1, <2>4, Zenon
<1>2. 0 \in T
  <2>1. ASSUME NEW o \in Nat, NEW n \in Nat, o + n + 0 >= P + N
        PROVE  matrix[<<o, n>>] \in Nat
    <3>1. o >= P \/ n >= N
        BY <2>1
    <3>2. CellValue(matrix, o, n) = 0
        BY <3>1 DEF CellValue
    <3>q. QED
        BY <1>1, <3>2
  <2>q. QED
      BY <2>1
<1>3. ASSUME NEW k \in T PROVE k + 1 \in T
  <2>1. ASSUME NEW o \in Nat, NEW n \in Nat, o + n + (k + 1) >= P + N
        PROVE  matrix[<<o, n>>] \in Nat
    <3>1. /\ o + 1 \in Nat /\ n + 1 \in Nat /\ k \in Nat
          /\ (o + 1) + n + k >= P + N /\ o + (n + 1) + k >= P + N
          /\ (o + 1) + (n + 1) + k >= P + N
        BY <2>1
    <3>2. /\ matrix[<<o + 1, n>>] \in Nat
          /\ matrix[<<o, n + 1>>] \in Nat
          /\ matrix[<<o + 1, n + 1>>] \in Nat
        BY <3>1
    <3>3. CellValue(matrix, o, n) \in Nat
        BY <3>2 DEF CellValue
    <3>q. QED
        BY <1>1, <3>3
  <2>q. QED
      BY <2>1
<1>4. T = Nat
  <2>1. T \in SUBSET Nat
      OBVIOUS
  <2> HIDE DEF T
  <2>q. QED
      BY <1>2, <1>3, <2>1, SetInduction
<1>5. P + N \in T
  <2>1. P + N \in Nat
      OBVIOUS
  <2> HIDE DEF T
  <2>q. QED
      BY <1>4, <2>1
<1>6. \A o, n \in Nat : o + n + (P + N) >= P + N
    OBVIOUS
<1>7. \A o, n \in Nat : matrix[<<o, n>>] \in Nat
    BY <1>5, <1>6, Zenon
<1>q. QED
    BY <1>1, <1>7, Zenon

\* Lines e of the old text and f of the new one, size of each and in order, all
\* beyond o and n, that agree.
Embeds(e, f, size, o, n) ==
    /\ e \in [1 .. size -> Nat] /\ f \in [1 .. size -> Nat]
    /\ \A i \in 1 .. size : /\ o < e[i] /\ e[i] <= Len(previous)
                            /\ n < f[i] /\ f[i] <= Len(next)
                            /\ previous[e[i]] = next[f[i]]
    /\ \A i, j \in 1 .. size : i < j => e[i] < e[j] /\ f[i] < f[j]

\* No common subsequence of what follows two lines is longer than their cell.
LEMMA MatrixBounds ==
    ASSUME Len(previous) \in Nat, Len(next) \in Nat
    PROVE  \A o, n, size \in Nat : \A e, f :
               Embeds(e, f, size, o, n) => size <= matrix[<<o, n>>]
<1> DEFINE P == Len(previous)
           N == Len(next)
           T == {k \in Nat : \A o, n, size \in Nat : \A e, f :
                     o + n + k >= P + N /\ Embeds(e, f, size, o, n) => size <= matrix[<<o, n>>]}
<1>0. ASSUME NEW o \in Nat, NEW n \in Nat
      PROVE  matrix[<<o, n>>] = CellValue(matrix, o, n) /\ matrix[<<o, n>>] \in Nat
    BY MatrixCells
<1>1. ASSUME NEW o \in Nat, NEW n \in Nat, NEW size \in Nat, NEW e, NEW f,
             Embeds(e, f, size, o, n), o >= P \/ n >= N
      PROVE  size <= matrix[<<o, n>>]
  <2>1. matrix[<<o, n>>] = 0
      BY <1>0, <1>1 DEF CellValue
  <2>2. size = 0
    <3> SUFFICES ASSUME size # 0 PROVE FALSE
        OBVIOUS
    <3>1. 1 \in 1 .. size
        OBVIOUS
    <3>2. o < e[1] /\ e[1] <= P /\ n < f[1] /\ f[1] <= N /\ e[1] \in Nat /\ f[1] \in Nat
        BY <1>1, <3>1 DEF Embeds
    <3>q. QED
        BY <1>1, <3>2
  <2>q. QED
      BY <2>1, <2>2
<1>2. 0 \in T
  <2>1. \A o, n \in Nat : o + n + 0 >= P + N => o >= P \/ n >= N
      OBVIOUS
  <2>2. 0 \in Nat
      OBVIOUS
  <2>q. QED
      BY <1>1, <2>1, <2>2, Zenon
<1>3. ASSUME NEW k \in T PROVE k + 1 \in T
  <2>1. ASSUME NEW o \in Nat, NEW n \in Nat, NEW size \in Nat, NEW e, NEW f,
               o + n + (k + 1) >= P + N, Embeds(e, f, size, o, n)
        PROVE  size <= matrix[<<o, n>>]
    <3>0. k \in Nat
        BY Zenon
    <3>1. /\ o + 1 \in Nat /\ n + 1 \in Nat
          /\ (o + 1) + n + k >= P + N /\ o + (n + 1) + k >= P + N
          /\ (o + 1) + (n + 1) + k >= P + N
      <4> HIDE DEF T
      <4>q. QED
          BY <2>1, <3>0
    <3>2. /\ matrix[<<o + 1, n>>] \in Nat
          /\ matrix[<<o, n + 1>>] \in Nat
          /\ matrix[<<o + 1, n + 1>>] \in Nat
          /\ matrix[<<o, n>>] \in Nat
        BY <3>1, <1>0
    <3>3. CASE o >= P \/ n >= N
        BY <1>1, <2>1, <3>3
    <3>4. CASE size = 0
        BY <3>2, <3>4
    <3>5. CASE ~(o >= P \/ n >= N) /\ size # 0 /\ previous[o + 1] = next[n + 1]
      <4>1. matrix[<<o, n>>] = matrix[<<o + 1, n + 1>>] + 1
          BY <1>0, <3>5 DEF CellValue
      <4> DEFINE d == [i \in 1 .. size - 1 |-> e[i + 1]]
                 c == [i \in 1 .. size - 1 |-> f[i + 1]]
      <4>2. size - 1 \in Nat /\ 1 \in 1 .. size
          BY <3>5
      <4>3. Embeds(d, c, size - 1, o + 1, n + 1)
        <5>1. \A i \in 1 .. size - 1 : /\ i \in 1 .. size /\ i + 1 \in 1 .. size /\ 1 < i + 1
                                       /\ d[i] = e[i + 1] /\ c[i] = f[i + 1]
            BY <4>2
        <5>2. d \in [1 .. size - 1 -> Nat] /\ c \in [1 .. size - 1 -> Nat]
            BY <2>1, <5>1 DEF Embeds
        <5>3. ASSUME NEW i \in 1 .. size - 1
              PROVE  /\ o + 1 < d[i] /\ d[i] <= P
                     /\ n + 1 < c[i] /\ c[i] <= N
                     /\ previous[d[i]] = next[c[i]]
          <6>1. /\ o < e[1] /\ n < f[1] /\ e[1] < e[i + 1] /\ f[1] < f[i + 1]
                /\ e[i + 1] <= P /\ f[i + 1] <= N /\ previous[e[i + 1]] = next[f[i + 1]]
                /\ e[1] \in Nat /\ f[1] \in Nat /\ e[i + 1] \in Nat /\ f[i + 1] \in Nat
              BY <2>1, <4>2, <5>1 DEF Embeds
          <6>2. o + 1 < e[i + 1] /\ n + 1 < f[i + 1]
              BY <6>1, SMTT(30)
          <6>q. QED
              BY <5>1, <6>1, <6>2
        <5>4. ASSUME NEW i \in 1 .. size - 1, NEW j \in 1 .. size - 1, i < j
              PROVE  d[i] < d[j] /\ c[i] < c[j]
          <6>1. i + 1 < j + 1 /\ i + 1 \in 1 .. size /\ j + 1 \in 1 .. size
              BY <5>1, <5>4
          <6>q. QED
              BY <2>1, <5>1, <6>1 DEF Embeds
        <5> HIDE DEF d, c
        <5>q. QED
            BY <5>2, <5>3, <5>4 DEF Embeds
      <4>4. size - 1 <= matrix[<<o + 1, n + 1>>]
          BY <3>1, <4>2, <4>3
      <4>q. QED
          BY <3>2, <4>1, <4>4
    <3>6. CASE ~(o >= P \/ n >= N) /\ size # 0 /\ previous[o + 1] # next[n + 1]
      <4>1. /\ matrix[<<o, n>>] >= matrix[<<o + 1, n>>]
            /\ matrix[<<o, n>>] >= matrix[<<o, n + 1>>]
          BY <1>0, <3>2, <3>6, SMTT(30) DEF CellValue
      <4>2. 1 \in 1 .. size
          BY <3>6
      <4>3. /\ e[1] \in Nat /\ f[1] \in Nat /\ o < e[1] /\ n < f[1]
            /\ previous[e[1]] = next[f[1]]
            /\ \A i \in 1 .. size : e[i] \in Nat /\ f[i] \in Nat
            /\ \A i \in 1 .. size : i # 1 => e[1] < e[i] /\ f[1] < f[i]
          BY <2>1, <4>2 DEF Embeds
      <4>4. o + 1 < e[1] \/ n + 1 < f[1]
          BY <3>6, <4>3
      <4>5. CASE o + 1 < e[1]
        <5>1. \A i \in 1 .. size : o + 1 < e[i]
            BY <4>3, <4>5
        <5>2. Embeds(e, f, size, o + 1, n)
            BY <2>1, <5>1 DEF Embeds
        <5>3. size <= matrix[<<o + 1, n>>]
            BY <3>1, <5>2
        <5>q. QED
            BY <3>2, <4>1, <5>3
      <4>6. CASE n + 1 < f[1]
        <5>1. \A i \in 1 .. size : n + 1 < f[i]
            BY <4>3, <4>6
        <5>2. Embeds(e, f, size, o, n + 1)
            BY <2>1, <5>1 DEF Embeds
        <5>3. size <= matrix[<<o, n + 1>>]
            BY <3>1, <5>2
        <5>q. QED
            BY <3>2, <4>1, <5>3
      <4>q. QED
          BY <4>4, <4>5, <4>6
    <3>q. QED
        BY <3>3, <3>4, <3>5, <3>6
  <2>2. k + 1 \in Nat
      OBVIOUS
  <2>q. QED
      BY <2>1, <2>2, Zenon
<1>4. T = Nat
  <2>1. T \in SUBSET Nat
      OBVIOUS
  <2> HIDE DEF T
  <2>q. QED
      BY <1>2, <1>3, <2>1, SetInduction
<1>5. P + N \in T
  <2>1. P + N \in Nat
      OBVIOUS
  <2> HIDE DEF T
  <2>q. QED
      BY <1>4, <2>1
<1>6. ASSUME NEW o \in Nat, NEW n \in Nat PROVE o + n + (P + N) >= P + N
    OBVIOUS
<1>q. QED
    BY <1>5, <1>6, Zenon

\* What the walk has kept and what it can still keep is what the whole texts allow.
LongestKept == ~simplified => contextCount + matrix[<<oldIndex, newIndex>>] = matrix[<<0, 0>>]

\* The inductive invariant of the alignment.
AlignInv == DiffInv /\ LongestKept

\* A row more is one context row more, or none.
LEMMA CountAppend ==
    ASSUME rows \in Seq(RowSet), NEW row \in RowSet, rows' = Append(rows, row)
    PROVE  /\ contextCount \in Nat
           /\ contextCount' = IF row.type = "context" THEN contextCount + 1 ELSE contextCount
<1> DEFINE C == {r \in DOMAIN rows : rows[r].type = "context"}
           D == {r \in DOMAIN rows' : rows'[r].type = "context"}
<1>1. /\ Len(rows) \in Nat /\ DOMAIN rows = 1 .. Len(rows)
      /\ DOMAIN rows' = 1 .. Len(rows) + 1
      /\ \A r \in DOMAIN rows : rows'[r] = rows[r]
      /\ rows'[Len(rows) + 1] = row
    OBVIOUS
<1>2. IsFiniteSet(C) /\ Cardinality(C) \in Nat
  <2>1. IsFiniteSet(1 .. Len(rows))
      BY <1>1, FS_Interval
  <2>2. C \in SUBSET (1 .. Len(rows))
      BY <1>1
  <2>q. QED
      BY <2>1, <2>2, FS_Subset, FS_CardinalityType
<1>3. D = IF row.type = "context" THEN C \cup {Len(rows) + 1} ELSE C
    BY <1>1
<1>4. Len(rows) + 1 \notin C
    BY <1>1
<1>5. contextCount = Cardinality(C) /\ contextCount' = Cardinality(D)
    BY DEF contextCount
<1> HIDE DEF C, D
<1>6. Cardinality(C \cup {Len(rows) + 1}) = Cardinality(C) + 1
    BY <1>2, <1>4, FS_AddElement
<1>q. QED
    BY <1>2, <1>3, <1>5, <1>6

\* The choice between an added and a removed line keeps what can still be kept.
LEMMA WalkKeepsLongest ==
    ASSUME AlignInv, PushContext \/ PushAdded \/ PushRemoved
    PROVE  LongestKept'
<1>1. /\ oldIndex \in 0 .. Len(previous) /\ newIndex \in 0 .. Len(next)
      /\ Len(previous) \in Nat /\ Len(next) \in Nat
      /\ \A i \in 1 .. Len(previous) : previous[i] \in {before[j].text : j \in DOMAIN before}
      /\ \A i \in 1 .. Len(next) : next[i] \in {after[j].text : j \in DOMAIN after}
      /\ rows \in Seq(RowSet)
    BY TwoTexts DEF AlignInv, DiffInv, DiffTypes
<1>2. before' = before /\ after' = after /\ simplified' = simplified
    BY DEF PushContext, PushAdded, PushRemoved
<1>3. previous' = previous /\ next' = next
    BY <1>2 DEF previous, next
<1>4. matrix' = matrix
    BY <1>3, ZenonT(40) DEF matrix
<1> SUFFICES ASSUME ~simplified
             PROVE  contextCount' + matrix[<<oldIndex', newIndex'>>] = matrix[<<0, 0>>]
    BY <1>2, <1>4, Zenon DEF LongestKept
<1>5. contextCount + matrix[<<oldIndex, newIndex>>] = matrix[<<0, 0>>]
    BY DEF AlignInv, LongestKept
<1>6. /\ oldIndex \in Nat /\ newIndex \in Nat
      /\ matrix[<<oldIndex, newIndex>>] = CellValue(matrix, oldIndex, newIndex)
      /\ \A o, n \in Nat : matrix[<<o, n>>] \in Nat
      /\ \A o, n \in Nat : o >= Len(previous) \/ n >= Len(next) => matrix[<<o, n>>] = 0
  <2>1. oldIndex \in Nat /\ newIndex \in Nat
      BY <1>1
  <2>2. ASSUME NEW o \in Nat, NEW n \in Nat, o >= Len(previous) \/ n >= Len(next)
        PROVE  matrix[<<o, n>>] = 0
    <3>1. matrix[<<o, n>>] = CellValue(matrix, o, n)
        BY <1>1, MatrixCells
    <3>2. CellValue(matrix, o, n) = 0
        BY <2>2, Zenon DEF CellValue
    <3>q. QED
        BY <3>1, <3>2
  <2>3. \A o, n \in Nat : o >= Len(previous) \/ n >= Len(next) => matrix[<<o, n>>] = 0
      BY <2>2, Zenon
  <2>q. QED
      BY <1>1, <2>1, <2>3, MatrixCells, Zenon
<1>7. CASE PushContext
  <2>1. PICK row : row = Row("context", oldIndex + 1, newIndex + 1, previous[oldIndex + 1])
      OBVIOUS
  <2>2. oldIndex + 1 \in 1 .. Len(previous) /\ newIndex + 1 \in 1 .. Len(next)
      BY <1>1, <1>7 DEF PushContext, Matching
  <2>3. row \in RowSet /\ row.type = "context"
      BY <1>1, <2>1, <2>2 DEF Row, RowSet, RowTypes
  <2>4. /\ rows' = Append(rows, row)
        /\ oldIndex' = oldIndex + 1 /\ newIndex' = newIndex + 1
        /\ oldIndex < Len(previous) /\ newIndex < Len(next)
        /\ previous[oldIndex + 1] = next[newIndex + 1]
      BY <1>7, <2>1 DEF PushContext, Matching
  <2>5. contextCount \in Nat /\ contextCount' = contextCount + 1
      BY <1>1, <2>3, <2>4, CountAppend
  <2>6. matrix[<<oldIndex, newIndex>>] = matrix[<<oldIndex + 1, newIndex + 1>>] + 1
      BY <1>1, <1>6, <2>4 DEF CellValue
  <2>7. PICK m \in Nat : m = matrix[<<oldIndex + 1, newIndex + 1>>]
      BY <1>6
  <2>8. matrix[<<oldIndex', newIndex'>>] = m
      BY <2>4, <2>7, Zenon
  <2>9. matrix[<<0, 0>>] = contextCount + (m + 1)
      BY <1>5, <2>6, <2>7, Zenon
  <2>q. QED
      BY <2>5, <2>8, <2>9
<1>8. CASE PushAdded
  <2>1. PICK row : row = Row("added", 0, newIndex + 1, next[newIndex + 1])
      OBVIOUS
  <2>2. newIndex + 1 \in 1 .. Len(next)
      BY <1>1, <1>8 DEF PushAdded, AddingFirst
  <2>3. row \in RowSet /\ row.type # "context"
      BY <1>1, <2>1, <2>2 DEF Row, RowSet, RowTypes
  <2>4. /\ rows' = Append(rows, row)
        /\ oldIndex' = oldIndex /\ newIndex' = newIndex + 1
        /\ newIndex < Len(next)
        /\ ~Matching
        /\ \/ oldIndex = Len(previous)
           \/ matrix[<<oldIndex, newIndex + 1>>] > matrix[<<oldIndex + 1, newIndex>>]
      BY <1>8, <2>1 DEF PushAdded, AddingFirst
  <2>5. contextCount \in Nat /\ contextCount' = contextCount
      BY <1>1, <2>3, <2>4, CountAppend
  <2>6. matrix[<<oldIndex, newIndex>>] = matrix[<<oldIndex, newIndex + 1>>]
    <3>1. CASE oldIndex = Len(previous)
        BY <1>1, <1>6, <3>1
    <3>2. CASE oldIndex # Len(previous)
      <4>1. oldIndex < Len(previous) /\ previous[oldIndex + 1] # next[newIndex + 1]
          BY <1>1, <2>4, <3>2 DEF Matching
      <4>2. /\ matrix[<<oldIndex, newIndex + 1>>] \in Nat
            /\ matrix[<<oldIndex + 1, newIndex>>] \in Nat
          BY <1>6
      <4>q. QED
          BY <1>1, <1>6, <2>4, <3>2, <4>1, <4>2 DEF CellValue
    <3>q. QED
        BY <3>1, <3>2
  <2>q. QED
      BY <1>5, <2>4, <2>5, <2>6
<1>9. CASE PushRemoved
  <2>1. PICK row : row = Row("removed", oldIndex + 1, 0, previous[oldIndex + 1])
      OBVIOUS
  <2>2. oldIndex # Len(previous)
      BY <1>1, <1>9 DEF PushRemoved, AddingFirst, DiffDone
  <2>3. oldIndex + 1 \in 1 .. Len(previous) /\ oldIndex < Len(previous)
      BY <1>1, <2>2
  <2>4. row \in RowSet /\ row.type # "context"
      BY <1>1, <2>1, <2>3 DEF Row, RowSet, RowTypes
  <2>5. /\ rows' = Append(rows, row)
        /\ oldIndex' = oldIndex + 1 /\ newIndex' = newIndex
        /\ ~Matching
        /\ newIndex < Len(next) =>
               ~(matrix[<<oldIndex, newIndex + 1>>] > matrix[<<oldIndex + 1, newIndex>>])
      BY <1>9, <2>1 DEF PushRemoved, AddingFirst
  <2>6. contextCount \in Nat /\ contextCount' = contextCount
      BY <1>1, <2>4, <2>5, CountAppend
  <2>7. matrix[<<oldIndex, newIndex>>] = matrix[<<oldIndex + 1, newIndex>>]
    <3>1. CASE newIndex = Len(next)
        BY <1>1, <1>6, <3>1
    <3>2. CASE newIndex # Len(next)
      <4>1. newIndex < Len(next) /\ previous[oldIndex + 1] # next[newIndex + 1]
          BY <1>1, <2>3, <2>5, <3>2 DEF Matching
      <4>2. /\ matrix[<<oldIndex, newIndex + 1>>] \in Nat
            /\ matrix[<<oldIndex + 1, newIndex>>] \in Nat
          BY <1>6
      <4>q. QED
          BY <1>1, <1>6, <2>3, <2>5, <4>1, <4>2 DEF CellValue
    <3>q. QED
        BY <3>1, <3>2
  <2>q. QED
      BY <1>5, <2>5, <2>6, <2>7
<1>q. QED
    BY <1>7, <1>8, <1>9

\* The rows of an alignment and the matrix account for the longest one from the
\* first step to the last.
THEOREM AlignInvariant == DiffSpec => []AlignInv
<1>1. DiffInit => LongestKept
  <2> SUFFICES ASSUME DiffInit PROVE LongestKept
      OBVIOUS
  <2>1. contextCount = 0
    <3>1. {r \in DOMAIN rows : rows[r].type = "context"} = {}
        BY DEF DiffInit
    <3>q. QED
        BY <3>1, FS_EmptySet DEF contextCount
  <2>2. Len(previous) \in Nat /\ Len(next) \in Nat
      BY TwoTexts DEF DiffInit
  <2>3. matrix[<<0, 0>>] \in Nat
      BY <2>2, MatrixCells
  <2>4. oldIndex = 0 /\ newIndex = 0
      BY DEF DiffInit
  <2>q. QED
      BY <2>1, <2>3, <2>4 DEF LongestKept
<1>2. DiffInv /\ LongestKept /\ [DiffNext]_diffVars => LongestKept'
  <2> SUFFICES ASSUME DiffInv, LongestKept, [DiffNext]_diffVars PROVE LongestKept'
      OBVIOUS
  <2>1. CASE Simplify
    <3>1. simplified'
        BY <2>1 DEF Simplify
    <3>q. QED
        BY <3>1, Zenon DEF LongestKept
  <2>2. CASE PushContext \/ PushAdded \/ PushRemoved
      BY <2>2, WalkKeepsLongest DEF AlignInv
  <2>3. CASE UNCHANGED diffVars
    <3>1. /\ before' = before /\ after' = after /\ simplified' = simplified
          /\ oldIndex' = oldIndex /\ newIndex' = newIndex /\ rows' = rows
        BY <2>3 DEF diffVars
    <3>2. previous' = previous /\ next' = next /\ contextCount' = contextCount
        BY <3>1 DEF previous, next, contextCount
    <3>3. matrix' = matrix
        BY <3>2, ZenonT(40) DEF matrix
    <3>q. QED
        BY <3>1, <3>2, <3>3, Zenon DEF LongestKept
  <2>q. QED
      BY <2>1, <2>2, <2>3 DEF DiffNext
<1>q. QED
    BY <1>1, <1>2, DiffInvariant, PTL DEF DiffSpec, AlignInv

\* AlignmentIsLongest for all texts: the matrix holds the length of the longest
\* common subsequence of what is left, and the walk of buildLineDiff loses none of it.
THEOREM AlignmentAlwaysLongest == DiffSpec => []AlignmentIsLongest
<1>1. AlignInv => AlignmentIsLongest
  <2> SUFFICES ASSUME AlignInv, DiffDone, ~simplified,
                      NEW found \in Subsequences(previous, contextCount + 1),
                      found \in Subsequences(next, contextCount + 1)
               PROVE  FALSE
      BY DEF AlignmentIsLongest
  <2>1. /\ Len(previous) \in Nat /\ Len(next) \in Nat
        /\ DOMAIN previous = 1 .. Len(previous) /\ DOMAIN next = 1 .. Len(next)
    <3>1. IsSource(before) /\ IsSource(after)
        BY DiffAssumption DEF AlignInv, DiffInv
    <3>q. QED
        BY <3>1, LinesOf DEF previous, next
  <2>2. /\ matrix[<<oldIndex, newIndex>>] = 0
        /\ matrix[<<0, 0>>] \in Nat
    <3>1. oldIndex \in Nat /\ newIndex \in Nat /\ oldIndex = Len(previous)
        BY <2>1 DEF DiffDone
    <3>2. CellValue(matrix, oldIndex, newIndex) = 0
        BY <2>1, <3>1 DEF CellValue
    <3>q. QED
        BY <2>1, <3>1, <3>2, MatrixCells
  <2>3. contextCount \in Nat
    <3>1. /\ Len(rows) \in Nat /\ DOMAIN rows = 1 .. Len(rows)
        BY DEF AlignInv, DiffInv, DiffTypes
    <3> DEFINE C == {r \in DOMAIN rows : rows[r].type = "context"}
    <3>2. IsFiniteSet(1 .. Len(rows)) /\ C \in SUBSET (1 .. Len(rows))
        BY <3>1, FS_Interval
    <3>q. QED
        BY <3>2, FS_Subset, FS_CardinalityType DEF contextCount
  <2>4. contextCount = matrix[<<0, 0>>]
      BY <2>2, <2>3 DEF AlignInv, LongestKept
  <2>5. PICK size \in Nat : size = contextCount + 1
      BY <2>3
  <2>6. PICK e \in [1 .. size -> DOMAIN previous] :
            /\ \A i, j \in 1 .. size : i < j => e[i] < e[j]
            /\ found = [i \in 1 .. size |-> previous[e[i]]]
      BY <2>5, Zenon DEF Subsequences
  <2>7. PICK f \in [1 .. size -> DOMAIN next] :
            /\ \A i, j \in 1 .. size : i < j => f[i] < f[j]
            /\ found = [i \in 1 .. size |-> next[f[i]]]
      BY <2>5, Zenon DEF Subsequences
  <2>8. Embeds(e, f, size, 0, 0)
    <3>1. \A i \in 1 .. size : previous[e[i]] = next[f[i]]
        BY <2>6, <2>7, Zenon
    <3>2. \A i \in 1 .. size : /\ e[i] \in Nat /\ 0 < e[i] /\ e[i] <= Len(previous)
                               /\ f[i] \in Nat /\ 0 < f[i] /\ f[i] <= Len(next)
        BY <2>1
    <3>3. e \in [1 .. size -> Nat] /\ f \in [1 .. size -> Nat]
        BY <2>1
    <3>q. QED
        BY <2>6, <2>7, <3>1, <3>2, <3>3 DEF Embeds
  <2>9. size <= matrix[<<0, 0>>]
      BY <2>1, <2>8, MatrixBounds
  <2>q. QED
      BY <2>2, <2>4, <2>5, <2>9
<1>q. QED
    BY <1>1, AlignInvariant, PTL

-----------------------------------------------------------------------------
(* The highlighted ranges of a text.                                       *)

\* The lower case form of each character.
LowerParts(s) == [i \in DOMAIN s |-> lower[s[i]]]

\* Every character of a text has a lower case form, which is not empty.
LEMMA LowerPartsType ==
    ASSUME NEW s \in Seq(Characters)
    PROVE  /\ LowerParts(s) \in Seq(Seq(Characters)) /\ Len(LowerParts(s)) = Len(s)
           /\ Len(s) \in Nat
           /\ \A i \in 1 .. Len(s) : /\ LowerParts(s)[i] = lower[s[i]] /\ s[i] \in Characters
                                     /\ LowerParts(s)[i] # <<>>
                                     /\ LowerParts(s)[i] \in Seq(Characters)
<1>1. /\ Len(s) \in Nat /\ DOMAIN s = 1 .. Len(s)
      /\ \A i \in 1 .. Len(s) : s[i] \in Characters
    OBVIOUS
<1>2. \A i \in 1 .. Len(s) : lower[s[i]] \in Seq(Characters) /\ lower[s[i]] # <<>>
    BY <1>1, TextAssumption
<1>3. LowerParts(s) = [i \in 1 .. Len(s) |-> lower[s[i]]]
    BY <1>1 DEF LowerParts
<1>4. \A i \in 1 .. Len(s) : LowerParts(s)[i] = lower[s[i]]
    BY <1>3
<1>5. LowerParts(s) \in Seq(Seq(Characters)) /\ Len(LowerParts(s)) = Len(s)
    BY <1>1, <1>2, <1>3
<1>q. QED
    BY <1>1, <1>2, <1>4, <1>5

\* toLocaleLowerCase of a text is a text.
LEMMA LowerType ==
    ASSUME NEW s \in Seq(Characters)
    PROVE  toLocaleLowerCase(s) \in Seq(Characters) /\ toLocaleLowerCase(s) = FlattenSeq(LowerParts(s))
<1>1. toLocaleLowerCase(s) = FlattenSeq(LowerParts(s))
    BY Zenon DEF toLocaleLowerCase, LowerParts
<1>q. QED
    BY <1>1, LowerPartsType, FlattenType

\* A text that keeps its length in lower case keeps every position.
LEMMA LowerKeeps ==
    ASSUME NEW s \in Seq(Characters), KeepsLength(s)
    PROVE  /\ \A i \in 1 .. Len(s) : Len(lower[s[i]]) = 1
           /\ toLocaleLowerCase(s) = [i \in 1 .. Len(s) |-> lower[s[i]][1]]
<1>1. PICK parts : parts = LowerParts(s)
    OBVIOUS
<1>2. /\ parts \in Seq(Seq(Characters)) /\ Len(parts) = Len(s)
      /\ \A i \in 1 .. Len(s) : parts[i] = lower[s[i]] /\ parts[i] # <<>>
    BY <1>1, LowerPartsType
<1>3. toLocaleLowerCase(s) = FlattenSeq(parts)
    BY <1>1, LowerType
<1>4. Len(FlattenSeq(parts)) = Len(parts)
    BY <1>2, <1>3, Zenon DEF KeepsLength
<1>5. \A i \in 1 .. Len(parts) : parts[i] # <<>>
    BY <1>2, Zenon
<1>6. \A i \in 1 .. Len(parts) : Len(parts[i]) = 1
    BY <1>2, <1>4, <1>5, FlattenGrows
<1>7. FlattenSeq(parts) = [i \in 1 .. Len(parts) |-> parts[i][1]]
    BY <1>2, <1>6, FlattenSingles
<1>8. \A i \in 1 .. Len(s) : Len(lower[s[i]]) = 1
    BY <1>2, <1>6, Zenon
<1>9. [i \in 1 .. Len(parts) |-> parts[i][1]] = [i \in 1 .. Len(s) |-> lower[s[i]][1]]
    BY <1>2
<1>q. QED
    BY <1>3, <1>7, <1>8, <1>9, Zenon

\* Where every position is kept the lower case form of a part is that part of the
\* lower case form.
LEMMA LowerOfPart ==
    ASSUME NEW s \in Seq(Characters), KeepsLength(s),
           NEW from \in Nat, NEW to \in Nat, from <= to, to <= Len(s)
    PROVE  /\ toLocaleLowerCase(SubSeq(s, from + 1, to)) = SubSeq(toLocaleLowerCase(s), from + 1, to)
           /\ SubSeq(s, from + 1, to) \in Seq(Characters)
<1>0. Len(s) \in Nat /\ \A i \in 1 .. Len(s) : s[i] \in Characters
    OBVIOUS
<1>1. PICK part : part = SubSeq(s, from + 1, to)
    OBVIOUS
<1>2. /\ part \in Seq(Characters) /\ Len(part) = to - from
      /\ \A i \in 1 .. to - from : part[i] = s[from + i]
  <2>1. \A i \in from + 1 .. to : s[i] \in Characters
      BY <1>0
  <2>2. /\ part \in Seq(Characters)
        /\ Len(part) = IF from + 1 <= to THEN to - (from + 1) + 1 ELSE 0
        /\ \A i \in 1 .. to - (from + 1) + 1 : part[i] = s[(from + 1) + i - 1]
    <3>1. from + 1 \in Int /\ to \in Int
        OBVIOUS
    <3>q. QED
        BY <1>1, <2>1, <3>1, SubSeqProperties
  <2>q. QED
      BY <1>0, <2>2
<1>3. PICK parts : parts = LowerParts(part)
    OBVIOUS
<1>4. /\ parts \in Seq(Seq(Characters)) /\ Len(parts) = to - from
      /\ \A i \in 1 .. to - from : parts[i] = lower[s[from + i]] /\ Len(parts[i]) = 1
  <2>1. /\ parts \in Seq(Seq(Characters)) /\ Len(parts) = to - from
        /\ \A i \in 1 .. to - from : parts[i] = lower[part[i]]
      BY <1>2, <1>3, LowerPartsType
  <2>2. \A i \in 1 .. to - from : from + i \in 1 .. Len(s)
      BY <1>0
  <2>q. QED
      BY <1>2, <2>1, <2>2, LowerKeeps
<1>5. toLocaleLowerCase(part) = [i \in 1 .. to - from |-> lower[s[from + i]][1]]
  <2>1. FlattenSeq(parts) = [i \in 1 .. Len(parts) |-> parts[i][1]]
      BY <1>4, FlattenSingles
  <2>2. [i \in 1 .. Len(parts) |-> parts[i][1]] = [i \in 1 .. to - from |-> lower[s[from + i]][1]]
      BY <1>4
  <2>3. toLocaleLowerCase(part) = FlattenSeq(parts)
      BY <1>2, <1>3, LowerType
  <2>q. QED
      BY <2>1, <2>2, <2>3
<1>6. PICK low : low = toLocaleLowerCase(s)
    OBVIOUS
<1>7. /\ low \in Seq(Characters) /\ Len(low) = Len(s)
      /\ \A i \in 1 .. Len(s) : low[i] = lower[s[i]][1]
  <2>1. low \in Seq(Characters) /\ Len(low) = Len(s)
      BY <1>6, LowerType DEF KeepsLength
  <2>2. low = [i \in 1 .. Len(s) |-> lower[s[i]][1]]
      BY <1>6, LowerKeeps
  <2>3. \A i \in 1 .. Len(s) : low[i] = lower[s[i]][1]
      BY <2>2
  <2>q. QED
      BY <2>1, <2>3
<1>8. SubSeq(low, from + 1, to) = [i \in 1 .. to - from |-> lower[s[from + i]][1]]
  <2>1. SubSeq(low, from + 1, to) = [i \in 1 .. to - from |-> low[from + i]]
      BY <1>0, <1>7
  <2>2. \A i \in 1 .. to - from : from + i \in 1 .. Len(s)
      BY <1>0
  <2>3. \A i \in 1 .. to - from : low[from + i] = lower[s[from + i]][1]
      BY <1>7, <2>2
  <2>q. QED
      BY <2>1, <2>3
<1>q. QED
    BY <1>1, <1>2, <1>5, <1>6, <1>8

\* Position r is the first from a position on at which s begins, or -1 for none.
FirstAt(in, s, from, r) ==
    \/ /\ r = -1
       /\ \A i \in from .. Len(in) - Len(s) : SubSeq(in, i + 1, i + Len(s)) # s
    \/ /\ r \in from .. Len(in) - Len(s)
       /\ SubSeq(in, r + 1, r + Len(s)) = s
       /\ \A i \in from .. r - 1 : SubSeq(in, i + 1, i + Len(s)) # s

\* indexOf gives the first occurrence from a position on, and -1 only without one.
LEMMA IndexOfFirst ==
    ASSUME NEW in \in Seq(Characters), NEW s \in Seq(Characters), NEW from \in Nat
    PROVE  FirstAt(in, s, from, indexOf(in, s, from)) /\ indexOf(in, s, from) \in Int
<1> DEFINE found == {i \in from .. Len(in) - Len(s) : SubSeq(in, i + 1, i + Len(s)) = s}
<1>0. Len(in) \in Nat /\ Len(s) \in Nat
    OBVIOUS
<1>1. indexOf(in, s, from) = IF found = {} THEN -1 ELSE CHOOSE i \in found : \A j \in found : i <= j
    BY Zenon DEF indexOf
<1>2. CASE found = {}
  <2>1. ASSUME NEW i \in from .. Len(in) - Len(s) PROVE SubSeq(in, i + 1, i + Len(s)) # s
    <3>1. i \notin found
        BY <1>2
    <3>q. QED
        BY <3>1, Zenon
  <2>2. indexOf(in, s, from) = -1
      BY <1>1, <1>2, Zenon
  <2>3. -1 \in Int
      OBVIOUS
  <2>q. QED
      BY <2>1, <2>2, <2>3, Zenon DEF FirstAt
<1>3. CASE found # {}
  <2>1. found \in SUBSET Nat
      BY <1>0
  <2>2. \E x \in found : \A y \in found : x <= y
    <3> HIDE DEF found
    <3>q. QED
        BY <1>3, <2>1, LeastNatural
  <2>3. PICK m : m = CHOOSE i \in found : \A j \in found : i <= j
      OBVIOUS
  <2>4. m \in found /\ \A j \in found : m <= j
      BY <2>2, <2>3, Zenon
  <2>5. indexOf(in, s, from) = m
      BY <1>1, <1>3, <2>3, Zenon
  <2>6. m \in from .. Len(in) - Len(s) /\ SubSeq(in, m + 1, m + Len(s)) = s
      BY <2>4, Zenon
  <2>7. ASSUME NEW i \in from .. m - 1 PROVE SubSeq(in, i + 1, i + Len(s)) # s
    <3>1. ~(m <= i) /\ i \in from .. Len(in) - Len(s)
        BY <1>0, <2>6
    <3>2. i \notin found
        BY <2>4, <3>1, Zenon
    <3>q. QED
        BY <3>1, <3>2, Zenon
  <2>8. m \in Int
      BY <1>0, <2>6
  <2>q. QED
      BY <2>5, <2>6, <2>7, <2>8, Zenon DEF FirstAt
<1>q. QED
    BY <1>2, <1>3

\* A set of positions that is not empty has a last one.
LEMMA GreatestPosition ==
    ASSUME NEW n \in Nat, NEW P \in SUBSET (0 .. n), P # {}
    PROVE  \E x \in P : \A y \in P : y <= x
<1> DEFINE T == {n - x : x \in P}
<1>1. T \in SUBSET Nat /\ T # {}
  <2>1. \A x \in P : n - x \in Nat
      OBVIOUS
  <2>2. PICK x \in P : TRUE
      OBVIOUS
  <2>3. n - x \in T
      BY Zenon
  <2>q. QED
      BY <2>1, <2>3
<1> HIDE DEF T
<1>2. PICK m \in T : \A y \in T : m <= y
    BY <1>1, LeastNatural
<1>3. PICK x \in P : m = n - x
    BY DEF T
<1>4. ASSUME NEW y \in P PROVE y <= x
  <2>1. n - y \in T
      BY DEF T
  <2>2. n - x <= n - y
      BY <1>2, <1>3, <2>1
  <2>q. QED
      BY <2>2
<1>q. QED
    BY <1>4

\* A query is trimmed to a part of it, in lower case.
LEMMA NormalizedType ==
    ASSUME NEW q \in Seq(Characters)
    PROVE  normalized(q) \in Seq(Characters)
<1> DEFINE inner == {i \in DOMAIN q : q[i] # " "}
           first == CHOOSE i \in inner : \A j \in inner : i <= j
           last == CHOOSE i \in inner : \A j \in inner : j <= i
<1>1. normalized(q) = IF inner = {} THEN <<>> ELSE toLocaleLowerCase(SubSeq(q, first, last))
    BY Zenon DEF normalized
<1>2. CASE inner = {}
  <2>1. normalized(q) = <<>>
      BY <1>1, <1>2, Zenon
  <2>q. QED
      BY <2>1
<1>3. CASE inner # {}
  <2>1. Len(q) \in Nat /\ inner \in SUBSET Nat /\ inner \in SUBSET (0 .. Len(q)) /\ inner \subseteq 1 .. Len(q)
    <3>1. DOMAIN q = 1 .. Len(q) /\ Len(q) \in Nat
        OBVIOUS
    <3>2. inner \subseteq 1 .. Len(q)
        BY <3>1
    <3> HIDE DEF inner
    <3>q. QED
        BY <3>1, <3>2
  <2> HIDE DEF inner
  <2>2. \E x \in inner : \A y \in inner : x <= y
      BY <1>3, <2>1, LeastNatural
  <2>3. \E x \in inner : \A y \in inner : y <= x
      BY <1>3, <2>1, GreatestPosition
  <2>4. first \in inner
      BY <2>2, Zenon
  <2>5. last \in inner
      BY <2>3, Zenon
  <2>6. PICK m, k : m = first /\ k = last
      OBVIOUS
  <2>6a. m \in 1 .. Len(q) /\ k \in 1 .. Len(q)
      BY <2>1, <2>4, <2>5, <2>6, Zenon
  <2>7. SubSeq(q, m, k) \in Seq(Characters)
      BY <2>1, <2>6a
  <2>8. normalized(q) = toLocaleLowerCase(SubSeq(q, m, k))
      BY <1>1, <1>3, <2>6, Zenon
  <2>q. QED
      BY <2>7, <2>8, LowerType
<1>q. QED
    BY <1>2, <1>3

\* A range of a text, highlighted or not.
RangeSet == [text : Seq(Characters), match : BOOLEAN]

\* The text of each range.
TextsOf(rs) == [i \in DOMAIN rs |-> rs[i].text]

\* The text up to a position that may lie beyond it.
Spelled(c) == SubSeq(text, 1, IF c > Len(text) THEN Len(text) ELSE c)

\* A range more spells its text more.
LEMMA SpellAppend ==
    ASSUME NEW rs \in Seq(RangeSet), NEW r \in RangeSet
    PROVE  FlattenSeq(TextsOf(Append(rs, r))) = FlattenSeq(TextsOf(rs)) \o r.text
<1>1. PICK new : new = Append(rs, r)
    OBVIOUS
<1>2. /\ new \in Seq(RangeSet) /\ Len(new) = Len(rs) + 1 /\ Len(rs) \in Nat
      /\ \A i \in 1 .. Len(rs) : new[i] = rs[i] /\ rs[i] \in RangeSet
      /\ new[Len(rs) + 1] = r
    BY <1>1
<1>3. r.text \in Seq(Characters) /\ \A i \in 1 .. Len(rs) : rs[i].text \in Seq(Characters)
    BY <1>2 DEF RangeSet
<1>4. TextsOf(rs) \in Seq(Seq(Characters)) /\ TextsOf(rs) = [i \in 1 .. Len(rs) |-> rs[i].text]
  <2>1. TextsOf(rs) = [i \in 1 .. Len(rs) |-> rs[i].text]
      BY DEF TextsOf
  <2>q. QED
      BY <1>2, <1>3, <2>1
<1>5. TextsOf(new) = [i \in 1 .. Len(rs) + 1 |-> new[i].text]
    BY <1>2 DEF TextsOf
<1>6. TextsOf(new) = Append(TextsOf(rs), r.text)
  <2>1. PICK a, b : a = TextsOf(new) /\ b = Append(TextsOf(rs), r.text)
      OBVIOUS
  <2>2. \A i \in 1 .. Len(rs) + 1 : new[i].text \in Seq(Characters)
      BY <1>2, <1>3
  <2>3. a \in Seq(Seq(Characters)) /\ Len(a) = Len(rs) + 1 /\ \A i \in 1 .. Len(rs) + 1 : a[i] = new[i].text
      BY <1>2, <1>5, <2>1, <2>2
  <2>4. PICK t : t = TextsOf(rs)
      OBVIOUS
  <2>5. t \in Seq(Seq(Characters)) /\ Len(t) = Len(rs) /\ \A i \in 1 .. Len(rs) : t[i] = rs[i].text
      BY <1>2, <1>4, <2>4
  <2>6. b = Append(t, r.text)
      BY <2>1, <2>4
  <2>7. /\ b \in Seq(Seq(Characters)) /\ Len(b) = Len(t) + 1
        /\ \A i \in 1 .. Len(t) : b[i] = t[i]
        /\ b[Len(t) + 1] = r.text
      BY <1>3, <2>5, <2>6, AppendParts
  <2>8. \A i \in 1 .. Len(rs) + 1 : i = Len(rs) + 1 \/ i \in 1 .. Len(rs)
      BY <1>2
  <2>9. \A i \in 1 .. Len(a) : a[i] = b[i]
      BY <1>2, <2>3, <2>5, <2>7, <2>8
  <2>10. a = b
      BY <2>3, <2>5, <2>7, <2>9, SeqEqual
  <2>q. QED
      BY <2>1, <2>10
<1>7. FlattenSeq(Append(TextsOf(rs), r.text)) = FlattenSeq(TextsOf(rs)) \o r.text
    BY <1>3, <1>4, FlattenAppend
<1>q. QED
    BY <1>1, <1>6, <1>7

\* What slice takes from a position continues the text up to it.
LEMMA SliceContinues ==
    ASSUME text \in Seq(Characters), NEW c \in Nat, NEW m \in Nat, c <= m
    PROVE  /\ slice(text, c, m) \in Seq(Characters)
           /\ Spelled(c) \o slice(text, c, m) = Spelled(m)
           /\ Spelled(c) \in Seq(Characters)
<1>0. Len(text) \in Nat
    OBVIOUS
<1>1. PICK n \in Nat : n = IF m > Len(text) THEN Len(text) ELSE m
    BY <1>0
<1>2. slice(text, c, m) = SubSeq(text, c + 1, n) /\ Spelled(m) = SubSeq(text, 1, n)
    BY <1>1, Zenon DEF slice, Spelled
<1>3. n <= Len(text)
    BY <1>0, <1>1
<1>4. SubSeq(text, c + 1, n) \in Seq(Characters)
    BY <1>0, <1>3
<1>5. CASE c <= Len(text)
  <2>1. Spelled(c) = SubSeq(text, 1, c)
      BY <1>0, <1>5 DEF Spelled
  <2>2. 1 \in 1 .. Len(text) + 1 /\ c \in 1 - 1 .. Len(text) /\ n \in c .. Len(text)
      BY <1>0, <1>1, <1>5
  <2>3. SubSeq(text, 1, c) \o SubSeq(text, c + 1, n) = SubSeq(text, 1, n)
      BY <2>2, ConcatAdjacentSubSeq
  <2>4. SubSeq(text, 1, c) \in Seq(Characters)
      BY <1>0, <1>5
  <2>q. QED
      BY <1>2, <1>4, <2>1, <2>3, <2>4, Zenon
<1>6. CASE ~(c <= Len(text))
  <2>1. n = Len(text) /\ n < c + 1
      BY <1>0, <1>1, <1>6
  <2>2. SubSeq(text, c + 1, n) = <<>>
      BY <2>1, SubSeqEmpty
  <2>3. Spelled(c) = SubSeq(text, 1, n)
      BY <1>0, <1>6, <2>1 DEF Spelled
  <2>4. SubSeq(text, 1, n) \in Seq(Characters)
      BY <1>0, <1>3
  <2>5. SubSeq(text, 1, n) \o <<>> = SubSeq(text, 1, n)
      BY <2>4, ConcatEmptySeq
  <2>q. QED
      BY <1>2, <1>4, <2>2, <2>3, <2>4, <2>5, Zenon
<1>q. QED
    BY <1>5, <1>6

\* The query as it is searched for.
Needle == normalized(query)

\* The text as it is searched.
Low == toLocaleLowerCase(text)

\* The text contains the query.
Found == Needle # <<>> /\ includes(Low, Needle)

\* A marked range is the query, any other does not contain it.
Right(r) ==
    IF r.match THEN toLocaleLowerCase(r.text) = Needle
    ELSE Needle # <<>> => ~includes(toLocaleLowerCase(r.text), Needle)

\* Ranges that spell the text up to a position and are marked right.
Good(rs, c) ==
    /\ rs \in Seq(RangeSet)
    /\ FlattenSeq(TextsOf(rs)) = Spelled(c)
    /\ KeepsLength(text) => \A i \in DOMAIN rs : Right(rs[i])

\* Some range is highlighted.
AnyMarked(rs) == \E i \in DOMAIN rs : rs[i].match

\* The search selects a node for a text that contains the query, and only then.
LEMMA SelectedByText == Matches(Bearing(text), query) <=> Found
BY Zenon DEF Matches, Bearing, Found, Needle, Low

\* A range more, from where the last one ended.
LEMMA GoodAppend ==
    ASSUME text \in Seq(Characters), NEW rs, NEW c \in Nat, NEW m \in Nat, c <= m,
           NEW r \in RangeSet, r.text = slice(text, c, m),
           Good(rs, c), KeepsLength(text) => Right(r)
    PROVE  /\ Good(Append(rs, r), m)
           /\ AnyMarked(Append(rs, r)) <=> AnyMarked(rs) \/ r.match
<1>1. slice(text, c, m) \in Seq(Characters) /\ Spelled(c) \o slice(text, c, m) = Spelled(m)
    BY SliceContinues
<1>4. rs \in Seq(RangeSet)
    BY Zenon DEF Good
<1>5. PICK new : new = Append(rs, r)
    OBVIOUS
<1>6. /\ new \in Seq(RangeSet) /\ Len(new) = Len(rs) + 1 /\ Len(rs) \in Nat
      /\ \A i \in 1 .. Len(rs) : new[i] = rs[i]
      /\ new[Len(rs) + 1] = r
    BY <1>4, <1>5, AppendParts
<1>7. DOMAIN rs = 1 .. Len(rs) /\ DOMAIN new = 1 .. Len(rs) + 1
    BY <1>4, <1>6
<1>8. /\ \A i \in DOMAIN new : (i \in DOMAIN rs /\ new[i] = rs[i]) \/ (i = Len(rs) + 1 /\ new[i] = r)
      /\ \A i \in DOMAIN rs : i \in DOMAIN new /\ new[i] = rs[i]
      /\ Len(rs) + 1 \in DOMAIN new /\ new[Len(rs) + 1] = r
    BY <1>6, <1>7
<1>9. FlattenSeq(TextsOf(new)) = Spelled(m)
  <2>1. FlattenSeq(TextsOf(new)) = FlattenSeq(TextsOf(rs)) \o r.text
      BY <1>4, <1>5, SpellAppend
  <2>2. FlattenSeq(TextsOf(rs)) = Spelled(c)
      BY Zenon DEF Good
  <2>q. QED
      BY <1>1, <2>1, <2>2, Zenon
<1>10. KeepsLength(text) => \A i \in DOMAIN new : Right(new[i])
    BY <1>8, Zenon DEF Good
<1>11. AnyMarked(new) <=> AnyMarked(rs) \/ r.match
    BY <1>8, Zenon DEF AnyMarked
<1>12. Good(new, m)
    BY <1>6, <1>9, <1>10, Zenon DEF Good
<1>q. QED
    BY <1>5, <1>11, <1>12, Zenon

\* The elements of a part.
LEMMA PartOf ==
    ASSUME NEW S, NEW s \in Seq(S), NEW from \in Nat, NEW k \in Nat, from + k <= Len(s)
    PROVE  SubSeq(s, from + 1, from + k) = [j \in 1 .. k |-> s[from + j]]
OBVIOUS

\* A part of a text in which the query does not begin does not contain it.
LEMMA NoneInPart ==
    ASSUME NEW low \in Seq(Characters), NEW n \in Seq(Characters), n # <<>>,
           NEW c \in Nat, NEW m \in Nat, c <= m, m <= Len(low),
           \A i \in c .. m - Len(n) : SubSeq(low, i + 1, i + Len(n)) # n
    PROVE  ~includes(SubSeq(low, c + 1, m), n)
<1>0. Len(low) \in Nat /\ Len(n) \in Nat /\ Len(n) >= 1
    OBVIOUS
<1>1. PICK part : part = SubSeq(low, c + 1, m)
    OBVIOUS
<1>2. /\ part \in Seq(Characters) /\ Len(part) = m - c
      /\ \A i \in 1 .. m - c : part[i] = low[c + i]
    BY <1>0, <1>1
<1>3. ASSUME NEW i \in 0 .. Len(part) - Len(n) PROVE SubSeq(part, i + 1, i + Len(n)) # n
  <2>1. c + i \in c .. m - Len(n) /\ i \in Nat /\ i + Len(n) <= m - c /\ (c + i) + Len(n) <= m
      BY <1>0, <1>2, <1>3
  <2>2. SubSeq(part, i + 1, i + Len(n)) = [j \in 1 .. Len(n) |-> part[i + j]]
      BY <1>0, <1>2, <2>1, PartOf
  <2>3. SubSeq(low, (c + i) + 1, (c + i) + Len(n)) = [j \in 1 .. Len(n) |-> low[(c + i) + j]]
      BY <1>0, <1>2, <2>1
  <2>4. \A j \in 1 .. Len(n) : part[i + j] = low[(c + i) + j]
    <3> SUFFICES ASSUME NEW j \in 1 .. Len(n) PROVE part[i + j] = low[(c + i) + j]
        OBVIOUS
    <3>1. i + j \in 1 .. m - c /\ c + (i + j) = (c + i) + j
        BY <1>0, <2>1
    <3>q. QED
        BY <1>2, <3>1
  <2>5. SubSeq(part, i + 1, i + Len(n)) = SubSeq(low, (c + i) + 1, (c + i) + Len(n))
      BY <2>2, <2>3, <2>4
  <2>6. SubSeq(low, (c + i) + 1, (c + i) + Len(n)) # n
      BY <2>1
  <2>q. QED
      BY <2>5, <2>6
<1>4. indexOf(part, n, 0) = -1
  <2>1. 0 \in Nat
      OBVIOUS
  <2>2. PICK r : r = indexOf(part, n, 0)
      OBVIOUS
  <2>3. FirstAt(part, n, 0, r)
      BY <1>2, <2>1, <2>2, IndexOfFirst
  <2>4. r \in 0 .. Len(part) - Len(n) => SubSeq(part, r + 1, r + Len(n)) # n
      BY <1>3
  <2>5. r = -1
      BY <2>3, <2>4, Zenon DEF FirstAt
  <2>q. QED
      BY <2>2, <2>5
<1>q. QED
    BY <1>1, <1>4, Zenon DEF includes

\* The inductive invariant of matchingTextRanges.  Where no range is marked yet the
\* loop is still at the beginning of the text.
RangeTypes ==
    /\ text \in Seq(Characters)
    /\ query \in Seq(Characters)
    /\ cursor \in Nat
    /\ highlighting \in BOOLEAN

\* The invariant of matchingTextRanges: the ranges so far spell the text up to the
\* cursor, and once the loop has ended all of it.
RangeInv ==
    /\ RangeTypes
    /\ highlighting =>
           /\ Good(ranges, cursor)
           /\ AnyMarked(ranges) \/ cursor = 0
           /\ AnyMarked(ranges) => Found
           /\ KeepsLength(text) => cursor <= Len(text)
    /\ ~highlighting => Good(ranges, Len(text)) /\ (AnyMarked(ranges) <=> Found)

\* What every step of the loop starts from.
LEMMA NextMatchFirst ==
    ASSUME RangeTypes
    PROVE  /\ Low \in Seq(Characters) /\ Needle \in Seq(Characters)
           /\ Len(Low) \in Nat /\ Len(Needle) \in Nat /\ Len(text) \in Nat
           /\ FirstAt(Low, Needle, cursor, NextMatch)
           /\ NextMatch \in Int
<1>1. Low \in Seq(Characters) /\ Needle \in Seq(Characters) /\ text \in Seq(Characters) /\ cursor \in Nat
    BY LowerType, NormalizedType, Zenon DEF Low, Needle, RangeTypes
<1>2. Len(Low) \in Nat /\ Len(Needle) \in Nat /\ Len(text) \in Nat
    BY <1>1
<1>3. NextMatch = indexOf(Low, Needle, cursor)
    BY Zenon DEF NextMatch, Low, Needle
<1>4. FirstAt(Low, Needle, cursor, indexOf(Low, Needle, cursor)) /\ indexOf(Low, Needle, cursor) \in Int
    BY <1>1, IndexOfFirst
<1>q. QED
    BY <1>1, <1>2, <1>3, <1>4, Zenon

\* A pass of the loop: the part before the match, unless it is empty, and the match.
LEMMA PushMatchKeepsInv ==
    ASSUME RangeInv, PushMatch
    PROVE  RangeInv'
<1>0. /\ RangeTypes /\ highlighting /\ Needle # <<>> /\ NextMatch # -1
      /\ text' = text /\ query' = query /\ highlighting' = highlighting
    BY Zenon DEF RangeInv, PushMatch, Needle
<1>1. /\ Good(ranges, cursor)
      /\ KeepsLength(text) => cursor <= Len(text)
      /\ text \in Seq(Characters) /\ query \in Seq(Characters) /\ cursor \in Nat
    BY <1>0, Zenon DEF RangeInv, RangeTypes
<1>2. /\ Low \in Seq(Characters) /\ Needle \in Seq(Characters)
      /\ Len(Low) \in Nat /\ Len(Needle) \in Nat /\ Len(text) \in Nat /\ NextMatch \in Int
    BY <1>0, NextMatchFirst, Zenon
<1>3. PICK m : m = NextMatch
    OBVIOUS
<1>4. /\ m \in cursor .. Len(Low) - Len(Needle)
      /\ SubSeq(Low, m + 1, m + Len(Needle)) = Needle
      /\ \A i \in cursor .. m - 1 : SubSeq(Low, i + 1, i + Len(Needle)) # Needle
  <2>1. FirstAt(Low, Needle, cursor, NextMatch)
      BY <1>0, NextMatchFirst, Zenon
  <2>q. QED
      BY <1>0, <1>3, <2>1, Zenon DEF FirstAt
<1>5. PICK e : e = m + Len(Needle)
    OBVIOUS
<1>6. /\ m \in Nat /\ e \in Nat /\ cursor <= m /\ m <= e /\ e <= Len(Low) /\ Len(Needle) >= 1
  <2>1. Len(Needle) >= 1
      BY <1>0, <1>2
  <2>q. QED
      BY <1>1, <1>2, <1>4, <1>5, <2>1
<1>7. PICK r1, r2 : /\ r1 = [text |-> slice(text, cursor, m), match |-> FALSE]
                    /\ r2 = [text |-> slice(text, m, e), match |-> TRUE]
    OBVIOUS
<1>8. /\ cursor' = e
      /\ ranges' = ranges \o (IF m > cursor THEN <<r1>> ELSE <<>>) \o <<r2>>
    BY <1>3, <1>5, <1>7, Zenon DEF PushMatch, Needle
<1>9. ASSUME KeepsLength(text)
      PROVE  /\ Len(Low) = Len(text)
             /\ Right(r1)
             /\ Right(r2)
  <2>1. Len(Low) = Len(text)
      BY <1>9, Zenon DEF KeepsLength, Low
  <2>2. slice(text, cursor, m) = SubSeq(text, cursor + 1, m) /\ slice(text, m, e) = SubSeq(text, m + 1, e)
    <3>1. ~(m > Len(text)) /\ ~(e > Len(text))
        BY <1>2, <1>6, <2>1
    <3>q. QED
        BY <3>1, Zenon DEF slice
  <2>3. /\ toLocaleLowerCase(slice(text, cursor, m)) = SubSeq(Low, cursor + 1, m)
        /\ toLocaleLowerCase(slice(text, m, e)) = SubSeq(Low, m + 1, e)
    <3>1. m <= Len(text) /\ e <= Len(text)
        BY <1>2, <1>6, <2>1
    <3>2. toLocaleLowerCase(SubSeq(text, cursor + 1, m)) = SubSeq(toLocaleLowerCase(text), cursor + 1, m)
        BY <1>1, <1>6, <1>9, <3>1, LowerOfPart
    <3>3. toLocaleLowerCase(SubSeq(text, m + 1, e)) = SubSeq(toLocaleLowerCase(text), m + 1, e)
        BY <1>1, <1>6, <1>9, <3>1, LowerOfPart
    <3>q. QED
        BY <2>2, <3>2, <3>3, Zenon DEF Low
  <2>4. ~includes(SubSeq(Low, cursor + 1, m), Needle)
    <3>1. \A i \in cursor .. m - Len(Needle) : SubSeq(Low, i + 1, i + Len(Needle)) # Needle
      <4>1. \A i \in cursor .. m - Len(Needle) : i \in cursor .. m - 1
          BY <1>1, <1>2, <1>6
      <4>q. QED
          BY <1>4, <4>1, Zenon
    <3>2. m <= Len(Low)
        BY <1>2, <1>6
    <3>q. QED
        BY <1>0, <1>1, <1>2, <1>6, <3>1, <3>2, NoneInPart
  <2>5. r1.text = slice(text, cursor, m) /\ ~r1.match /\ r2.text = slice(text, m, e) /\ r2.match
      BY <1>7, Zenon
  <2>6. Right(r1)
      BY <2>3, <2>4, <2>5, Zenon DEF Right
  <2>7. Right(r2)
      BY <1>4, <1>5, <2>3, <2>5, Zenon DEF Right
  <2>q. QED
      BY <2>1, <2>6, <2>7
<1>10. Good(ranges', e) /\ AnyMarked(ranges')
  <2>0. /\ ranges \in Seq(RangeSet) /\ r1 \in RangeSet /\ r2 \in RangeSet
        /\ r1.text = slice(text, cursor, m) /\ r2.text = slice(text, m, e) /\ r2.match
    <3>1. ranges \in Seq(RangeSet)
        BY <1>1, Zenon DEF Good
    <3>2. slice(text, cursor, m) \in Seq(Characters) /\ slice(text, m, e) \in Seq(Characters)
        BY <1>1, <1>6, SliceContinues
    <3>3. r1 \in RangeSet /\ r2 \in RangeSet
        BY <1>7, <3>2 DEF RangeSet
    <3>4. r1.text = slice(text, cursor, m) /\ r2.text = slice(text, m, e) /\ r2.match
        BY <1>7, Zenon
    <3>q. QED
        BY <3>1, <3>3, <3>4, Zenon
  <2>1. CASE m > cursor
    <3>1. ranges' = Append(Append(ranges, r1), r2)
      <4>1. ranges' = ranges \o <<r1>> \o <<r2>>
          BY <1>8, <2>1, Zenon
      <4>2. Append(ranges, r1) = ranges \o <<r1>> /\ Append(ranges, r1) \in Seq(RangeSet)
          BY <2>0, AppendIsConcat
      <4>3. Append(Append(ranges, r1), r2) = Append(ranges, r1) \o <<r2>>
          BY <2>0, <4>2, AppendIsConcat
      <4>q. QED
          BY <4>1, <4>2, <4>3
    <3>2. Good(Append(ranges, r1), m)
        BY <1>1, <1>6, <1>9, <2>0, GoodAppend
    <3>3. Good(Append(Append(ranges, r1), r2), e) /\ AnyMarked(Append(Append(ranges, r1), r2))
      <4>1. PICK rs : rs = Append(ranges, r1)
          OBVIOUS
      <4>2. Good(rs, m)
          BY <3>2, <4>1
      <4>3. Good(Append(rs, r2), e) /\ (AnyMarked(Append(rs, r2)) <=> AnyMarked(rs) \/ r2.match)
          BY <1>1, <1>6, <1>9, <2>0, <4>2, GoodAppend
      <4>q. QED
          BY <2>0, <4>1, <4>3, Zenon
    <3>q. QED
        BY <3>1, <3>3, Zenon
  <2>2. CASE ~(m > cursor)
    <3>1. ranges' = Append(ranges, r2)
      <4>1. ranges' = ranges \o <<>> \o <<r2>>
          BY <1>8, <2>2, Zenon
      <4>2. ranges \o <<>> = ranges
          BY <2>0, ConcatEmptySeq
      <4>3. Append(ranges, r2) = ranges \o <<r2>>
          BY <2>0, AppendIsConcat
      <4>q. QED
          BY <4>1, <4>2, <4>3
    <3>2. cursor = m
        BY <1>1, <1>6, <2>2
    <3>3. Good(Append(ranges, r2), e) /\ AnyMarked(Append(ranges, r2))
      <4>1. r2.text = slice(text, cursor, e) /\ cursor <= e
          BY <1>6, <2>0, <3>2
      <4>2. Good(Append(ranges, r2), e) /\ (AnyMarked(Append(ranges, r2)) <=> AnyMarked(ranges) \/ r2.match)
          BY <1>1, <1>6, <1>9, <2>0, <4>1, GoodAppend
      <4>q. QED
          BY <2>0, <4>2, Zenon
    <3>q. QED
        BY <3>1, <3>3, Zenon
  <2>q. QED
      BY <2>1, <2>2
<1>11. Found
  <2>1. FirstAt(Low, Needle, 0, indexOf(Low, Needle, 0))
    <3>1. 0 \in Nat
        OBVIOUS
    <3>q. QED
        BY <1>2, <3>1, IndexOfFirst
  <2>2. m \in 0 .. Len(Low) - Len(Needle)
      BY <1>1, <1>2, <1>4
  <2>3. indexOf(Low, Needle, 0) # -1
      BY <1>4, <2>1, <2>2 DEF FirstAt
  <2>q. QED
      BY <1>0, <2>3, Zenon DEF Found, includes
<1>12. KeepsLength(text) => e <= Len(text)
    BY <1>6, <1>9
<1>13. /\ Good(ranges, cursor)' <=> Good(ranges', e)
       /\ AnyMarked(ranges)' <=> AnyMarked(ranges')
       /\ Found' <=> Found
       /\ KeepsLength(text)' <=> KeepsLength(text)
    BY <1>0, <1>8, Zenon DEF Good, AnyMarked, Found, KeepsLength, Right, Needle, Low, Spelled
<1>q. QED
  <2>1. RangeTypes'
      BY <1>0, <1>1, <1>6, <1>8, Zenon DEF RangeTypes
  <2>q. QED
      BY <1>0, <1>8, <1>10, <1>11, <1>12, <1>13, <2>1, Zenon DEF RangeInv

\* The end of the loop: what follows the last match.
LEMMA PushRestKeepsInv ==
    ASSUME RangeInv, PushRest
    PROVE  RangeInv'
<1>0. /\ RangeTypes /\ highlighting /\ (Needle = <<>> \/ NextMatch = -1)
      /\ text' = text /\ query' = query /\ ~highlighting' /\ cursor' = cursor
      /\ highlighting' \in BOOLEAN
    BY Zenon DEF RangeInv, PushRest, Needle
<1>1. /\ Good(ranges, cursor)
      /\ AnyMarked(ranges) \/ cursor = 0
      /\ AnyMarked(ranges) => Found
      /\ KeepsLength(text) => cursor <= Len(text)
      /\ text \in Seq(Characters) /\ query \in Seq(Characters) /\ cursor \in Nat
    BY <1>0, Zenon DEF RangeInv, RangeTypes
<1>2. /\ Low \in Seq(Characters) /\ Needle \in Seq(Characters)
      /\ Len(Low) \in Nat /\ Len(Needle) \in Nat /\ Len(text) \in Nat
    BY <1>0, NextMatchFirst, Zenon
<1>3. FirstAt(Low, Needle, cursor, NextMatch)
    BY <1>0, NextMatchFirst, Zenon
<1>4. PICK r : r = [text |-> slice(text, cursor, Len(text)), match |-> FALSE]
    OBVIOUS
<1>5. ranges' = IF cursor < Len(text) \/ ranges = <<>> THEN Append(ranges, r) ELSE ranges
    BY <1>4, Zenon DEF PushRest
<1>6. ranges = <<>> => cursor = 0
  <2>1. ranges = <<>> => DOMAIN ranges = {}
      OBVIOUS
  <2>2. ranges = <<>> => ~AnyMarked(ranges)
      BY <2>1, Zenon DEF AnyMarked
  <2>q. QED
      BY <1>1, <2>2, Zenon
<1>7. ASSUME cursor < Len(text) \/ ranges = <<>>
      PROVE  Good(ranges', Len(text)) /\ (AnyMarked(ranges') <=> AnyMarked(ranges))
  <2>1. cursor <= Len(text)
      BY <1>1, <1>2, <1>6, <1>7
  <2>2. r \in RangeSet
    <3>1. slice(text, cursor, Len(text)) \in Seq(Characters)
        BY <1>1, <1>2, <2>1, SliceContinues
    <3>q. QED
        BY <1>4, <3>1 DEF RangeSet
  <2>3. r.text = slice(text, cursor, Len(text)) /\ ~r.match
      BY <1>4, Zenon
  <2>4. ASSUME KeepsLength(text) PROVE Right(r)
    <3>1. CASE Needle = <<>>
        BY <2>3, <3>1, Zenon DEF Right
    <3>2. CASE Needle # <<>>
      <4>1. Len(Low) = Len(text)
          BY <2>4, Zenon DEF KeepsLength, Low
      <4>2. slice(text, cursor, Len(text)) = SubSeq(text, cursor + 1, Len(text))
        <5>1. ~(Len(text) > Len(text))
            BY <1>2
        <5>q. QED
            BY <5>1, Zenon DEF slice
      <4>3. toLocaleLowerCase(SubSeq(text, cursor + 1, Len(text)))
                = SubSeq(toLocaleLowerCase(text), cursor + 1, Len(text))
        <5>1. Len(text) <= Len(text)
            BY <1>2
        <5>q. QED
            BY <1>1, <1>2, <2>1, <2>4, <5>1, LowerOfPart
      <4>4. NextMatch = -1
          BY <1>0, <3>2, Zenon
      <4>5. \A i \in cursor .. Len(Low) - Len(Needle) : SubSeq(Low, i + 1, i + Len(Needle)) # Needle
        <5>1. ~(-1 \in cursor .. Len(Low) - Len(Needle))
            BY <1>1, <1>2
        <5>q. QED
            BY <1>3, <4>4, <5>1, Zenon DEF FirstAt
      <4>6. ~includes(SubSeq(Low, cursor + 1, Len(text)), Needle)
        <5>1. \A i \in cursor .. Len(text) - Len(Needle) : SubSeq(Low, i + 1, i + Len(Needle)) # Needle
            BY <4>1, <4>5, Zenon
        <5>2. Len(text) <= Len(Low)
            BY <1>2, <4>1
        <5>q. QED
            BY <1>1, <1>2, <2>1, <3>2, <5>1, <5>2, NoneInPart
      <4>q. QED
          BY <2>3, <4>2, <4>3, <4>6, Zenon DEF Right, Low
    <3>q. QED
        BY <3>1, <3>2
  <2>5. Good(Append(ranges, r), Len(text)) /\ (AnyMarked(Append(ranges, r)) <=> AnyMarked(ranges) \/ r.match)
      BY <1>1, <1>2, <2>1, <2>2, <2>3, <2>4, GoodAppend
  <2>q. QED
      BY <1>5, <1>7, <2>3, <2>5, Zenon
<1>8. ASSUME ~(cursor < Len(text) \/ ranges = <<>>)
      PROVE  Good(ranges', Len(text)) /\ (AnyMarked(ranges') <=> AnyMarked(ranges))
  <2>1. ranges' = ranges
      BY <1>5, <1>8, Zenon
  <2>2. Spelled(cursor) = Spelled(Len(text))
    <3>1. cursor >= Len(text)
        BY <1>1, <1>2, <1>8
    <3>2. (IF cursor > Len(text) THEN Len(text) ELSE cursor) = Len(text)
        BY <1>1, <1>2, <3>1
    <3>3. (IF Len(text) > Len(text) THEN Len(text) ELSE Len(text)) = Len(text)
        OBVIOUS
    <3>q. QED
        BY <3>2, <3>3, Zenon DEF Spelled
  <2>q. QED
      BY <1>1, <2>1, <2>2, Zenon DEF Good
<1>9. Found => AnyMarked(ranges)
  <2> SUFFICES ASSUME Found, ~AnyMarked(ranges) PROVE FALSE
      BY Zenon
  <2>1. cursor = 0 /\ Needle # <<>> /\ includes(Low, Needle)
      BY <1>1, Zenon DEF Found
  <2>2. NextMatch = -1
      BY <1>0, <2>1, Zenon
  <2>3. NextMatch = indexOf(Low, Needle, 0)
      BY <2>1, Zenon DEF NextMatch, Low, Needle
  <2>q. QED
      BY <2>1, <2>2, <2>3, Zenon DEF includes
<1>10. Good(ranges', Len(text)) /\ (AnyMarked(ranges') <=> Found)
    BY <1>1, <1>7, <1>8, <1>9, Zenon
<1>11. /\ Good(ranges, Len(text))' <=> Good(ranges', Len(text))
       /\ AnyMarked(ranges)' <=> AnyMarked(ranges')
       /\ Found' <=> Found
    BY <1>0, Zenon DEF Good, AnyMarked, Found, KeepsLength, Right, Needle, Low, Spelled
<1>q. QED
  <2>1. RangeTypes'
      BY <1>0, <1>1, Zenon DEF RangeTypes
  <2>q. QED
      BY <1>0, <1>10, <1>11, <2>1, Zenon DEF RangeInv

\* Without ranges nothing has been spelled.
LEMMA NoRanges ==
    ASSUME ranges = <<>>, text \in Seq(Characters)
    PROVE  Good(ranges, 0) /\ ~AnyMarked(ranges)
<1>1. DOMAIN ranges = {} /\ ranges \in Seq(RangeSet)
    OBVIOUS
<1>2. TextsOf(ranges) = <<>>
    BY <1>1 DEF TextsOf
<1>3. Spelled(0) = <<>>
  <2>1. Len(text) \in Nat
      OBVIOUS
  <2>2. (IF 0 > Len(text) THEN Len(text) ELSE 0) = 0
      BY <2>1
  <2>3. SubSeq(text, 1, 0) = <<>>
      BY SubSeqEmpty
  <2>q. QED
      BY <2>2, <2>3, Zenon DEF Spelled
<1>4. FlattenSeq(TextsOf(ranges)) = Spelled(0)
    BY <1>2, <1>3, FlattenEmpty, Zenon
<1>q. QED
    BY <1>1, <1>4, Zenon DEF Good, AnyMarked

\* The ranges spell what the loop has passed and are marked right after every step.
THEOREM RangeInvariant == SearchSpec => []RangeInv
<1>1. SearchInit => RangeInv
  <2> SUFFICES ASSUME SearchInit PROVE RangeInv
      OBVIOUS
  <2>1. CASE text = <<>> /\ query = <<>> /\ cursor = 0 /\ ranges = <<>> /\ highlighting = FALSE
    <3>1. text \in Seq(Characters) /\ query \in Seq(Characters) /\ cursor \in Nat /\ Len(text) = 0
        BY <2>1
    <3>2. highlighting \in BOOLEAN /\ ~highlighting
        BY <2>1, Zenon
    <3>3. Good(ranges, Len(text)) /\ ~AnyMarked(ranges)
        BY <2>1, <3>1, NoRanges
    <3>4. ~Found
      <4>1. {i \in DOMAIN query : query[i] # " "} = {}
          BY <2>1
      <4>2. Needle = <<>>
          BY <4>1, Zenon DEF Needle, normalized
      <4>q. QED
          BY <4>2, Zenon DEF Found
    <3>q. QED
        BY <3>1, <3>2, <3>3, <3>4, Zenon DEF RangeInv, RangeTypes
  <2>2. CASE text \in TextSamples /\ query \in Queries /\ cursor = 0 /\ ranges = <<>> /\ highlighting = TRUE
    <3>1. text \in Seq(Characters) /\ query \in Seq(Characters) /\ cursor \in Nat
        BY <2>2, TextAssumption
    <3>2. highlighting \in BOOLEAN /\ highlighting
        BY <2>2, Zenon
    <3>3. Good(ranges, cursor) /\ ~AnyMarked(ranges) /\ cursor = 0
        BY <2>2, <3>1, NoRanges
    <3>4. cursor <= Len(text)
        BY <3>1, <3>3
    <3>q. QED
        BY <3>1, <3>2, <3>3, <3>4, Zenon DEF RangeInv, RangeTypes
  <2>q. QED
      BY <2>1, <2>2, Zenon DEF SearchInit
<1>2. RangeInv /\ [SearchNext]_searchVars => RangeInv'
  <2> SUFFICES ASSUME RangeInv, [SearchNext]_searchVars PROVE RangeInv'
      OBVIOUS
  <2>1. ASSUME UNCHANGED rangeVars PROVE RangeInv'
    <3>1. /\ text' = text /\ query' = query /\ cursor' = cursor /\ ranges' = ranges
          /\ highlighting' = highlighting
        BY <2>1, Zenon DEF rangeVars
    <3>q. QED
        BY <3>1, ZenonT(30) DEF RangeInv, RangeTypes, Good, AnyMarked, Found, KeepsLength, Right, Needle, Low, Spelled
  <2>2. CASE Visit
      BY <2>1, <2>2, Zenon DEF Visit
  <2>3. CASE PushMatch
      BY <2>3, PushMatchKeepsInv
  <2>4. CASE PushRest
      BY <2>4, PushRestKeepsInv
  <2>5. CASE UNCHANGED searchVars
      BY <2>1, <2>5, Zenon DEF searchVars, rangeVars
  <2>q. QED
      BY <2>2, <2>3, <2>4, <2>5, Zenon DEF SearchNext
<1>q. QED
    BY <1>1, <1>2, PTL DEF SearchSpec

\* RangesSpellSource for all texts and queries, and any lower case forms.
THEOREM RangesAlwaysSpellSource == SearchSpec => []RangesSpellSource
<1>1. RangeInv => RangesSpellSource
  <2> SUFFICES ASSUME RangeInv, ~highlighting PROVE RangesSpellSource
      BY Zenon DEF RangesSpellSource
  <2>1. Good(ranges, Len(text)) /\ (AnyMarked(ranges) <=> Found) /\ text \in Seq(Characters)
      BY Zenon DEF RangeInv, RangeTypes
  <2>2. Spelled(Len(text)) = text
    <3>1. (IF Len(text) > Len(text) THEN Len(text) ELSE Len(text)) = Len(text)
        OBVIOUS
    <3>2. SubSeq(text, 1, Len(text)) = text
        BY <2>1
    <3>q. QED
        BY <3>1, <3>2, Zenon DEF Spelled
  <2>3. FlattenSeq([i \in DOMAIN ranges |-> ranges[i].text]) = text
      BY <2>1, <2>2, Zenon DEF Good, TextsOf
  <2>4. KeepsLength(text) => \A i \in DOMAIN ranges : Right(ranges[i])
      BY <2>1, Zenon DEF Good
  <2>5. AnyMarked(ranges) <=> Matches(Bearing(text), query)
      BY <2>1, SelectedByText, Zenon
  <2>q. QED
      BY <2>3, <2>4, <2>5, Zenon DEF RangesSpellSource, Right, AnyMarked, Needle
<1>q. QED
    BY <1>1, RangeInvariant, PTL

-----------------------------------------------------------------------------
(* The printed paths of a tree.                                            *)

\* A character of a quoted key as JSON.stringify prints it.
Piece(c) == IF c \in {"\"", "\\"} THEN <<"\\", c>> ELSE <<c>>

\* The characters of a key, printed.
Pieces(key) == [i \in DOMAIN key |-> Piece(key[i])]

\* The text between the quotes.
Escaped(key) == FlattenSeq(Pieces(key))

\* What a quoted key is put together from.
LEMMA PiecesType ==
    ASSUME NEW key \in Seq(Characters)
    PROVE  /\ Pieces(key) \in Seq(Seq(Characters)) /\ Len(Pieces(key)) = Len(key)
           /\ Len(key) \in Nat
           /\ \A i \in 1 .. Len(key) : /\ Pieces(key)[i] = Piece(key[i])
                                       /\ key[i] \in Characters
                                       /\ Piece(key[i]) \in Seq(Characters)
           /\ Escaped(key) \in Seq(Characters) /\ Len(Escaped(key)) \in Nat
<1>1. Len(key) \in Nat /\ DOMAIN key = 1 .. Len(key) /\ \A i \in 1 .. Len(key) : key[i] \in Characters
    OBVIOUS
<1>2. \A c \in Characters : Piece(c) \in Seq(Characters)
  <2> SUFFICES ASSUME NEW c \in Characters PROVE Piece(c) \in Seq(Characters)
      OBVIOUS
  <2>1. "\\" \in Characters
      BY TextAssumption
  <2>2. <<"\\", c>> \in Seq(Characters) /\ <<c>> \in Seq(Characters)
      BY <2>1
  <2>q. QED
      BY <2>2, Zenon DEF Piece
<1>3. Pieces(key) = [i \in 1 .. Len(key) |-> Piece(key[i])]
    BY <1>1 DEF Pieces
<1>4. \A i \in 1 .. Len(key) : Piece(key[i]) \in Seq(Characters)
    BY <1>1, <1>2
<1>5. /\ Pieces(key) \in Seq(Seq(Characters)) /\ Len(Pieces(key)) = Len(key)
      /\ \A i \in 1 .. Len(key) : Pieces(key)[i] = Piece(key[i])
    BY <1>1, <1>3, <1>4
<1>6. Escaped(key) \in Seq(Characters)
    BY <1>5, FlattenType DEF Escaped
<1>7. Len(Escaped(key)) \in Nat
    BY <1>6
<1>q. QED
    BY <1>1, <1>4, <1>5, <1>6, <1>7

\* Where the characters before position d are printed, the printed form of the
\* character at position d follows.
LEMMA EscapedAt ==
    ASSUME NEW key \in Seq(Characters), NEW d \in 1 .. Len(key)
    PROVE  /\ Len(Escaped(SubSeq(key, 1, d - 1))) + Len(Piece(key[d])) <= Len(Escaped(key))
           /\ \A i \in 1 .. Len(Piece(key[d])) :
                  Escaped(key)[Len(Escaped(SubSeq(key, 1, d - 1))) + i] = Piece(key[d])[i]
<1>0. Len(key) \in Nat /\ d \in Nat /\ 1 <= d /\ d <= Len(key) /\ d - 1 \in Nat /\ \A i \in 1 .. Len(key) : key[i] \in Characters
    OBVIOUS
<1>1. PICK c, x, all : c = SubSeq(key, 1, d - 1) /\ x = Piece(key[d]) /\ all = Pieces(key)
    OBVIOUS
<1>2. /\ c \in Seq(Characters) /\ Len(c) = d - 1 /\ \A i \in 1 .. d - 1 : c[i] = key[i]
    BY <1>0, <1>1
<1>3. /\ all \in Seq(Seq(Characters)) /\ Len(all) = Len(key)
      /\ \A i \in 1 .. Len(key) : all[i] = Piece(key[i])
      /\ x \in Seq(Characters) /\ Len(x) \in Nat
    BY <1>0, <1>1, PiecesType
<1>4. /\ Pieces(c) \in Seq(Seq(Characters)) /\ Len(Pieces(c)) = d - 1
      /\ \A i \in 1 .. d - 1 : Pieces(c)[i] = Piece(key[i])
      /\ Escaped(c) \in Seq(Characters) /\ Len(Escaped(c)) \in Nat
    BY <1>2, PiecesType
<1>5. PICK head, rest : head = SubSeq(all, 1, d) /\ rest = SubSeq(all, d + 1, Len(all))
    OBVIOUS
<1>6. /\ head \in Seq(Seq(Characters)) /\ rest \in Seq(Seq(Characters)) /\ Len(head) = d
      /\ \A i \in 1 .. d : head[i] = all[i]
    BY <1>0, <1>3, <1>5
<1>7. all = head \o rest
  <2>1. 1 \in 1 .. Len(all) + 1 /\ d \in 1 - 1 .. Len(all) /\ Len(all) \in d .. Len(all)
      BY <1>0, <1>3
  <2>2. SubSeq(all, 1, d) \o SubSeq(all, d + 1, Len(all)) = SubSeq(all, 1, Len(all))
      BY <1>3, <2>1, ConcatAdjacentSubSeq
  <2>3. SubSeq(all, 1, Len(all)) = all
      BY <1>3
  <2>q. QED
      BY <1>5, <2>2, <2>3
<1>8. head = Append(Pieces(c), x)
  <2>1. PICK p, b : p = Pieces(c) /\ b = Append(p, x)
      OBVIOUS
  <2>2. /\ b \in Seq(Seq(Characters)) /\ Len(b) = Len(p) + 1
        /\ \A i \in 1 .. Len(p) : b[i] = p[i]
        /\ b[Len(p) + 1] = x
      BY <1>3, <1>4, <2>1, AppendParts
  <2>3. Len(p) = d - 1 /\ \A i \in 1 .. d - 1 : p[i] = Piece(key[i])
      BY <1>4, <2>1
  <2>4. /\ Len(b) = d
        /\ \A i \in 1 .. d - 1 : b[i] = Piece(key[i])
        /\ b[d] = Piece(key[d])
      BY <1>0, <1>1, <2>2, <2>3
  <2>5. \A i \in 1 .. d : i \in 1 .. Len(key) /\ (i = d \/ i \in 1 .. d - 1)
      BY <1>0
  <2>6. \A i \in 1 .. Len(head) : head[i] = b[i]
      BY <1>3, <1>6, <2>4, <2>5
  <2>7. head = b
      BY <1>6, <2>2, <2>4, <2>6, SeqEqual
  <2>q. QED
      BY <2>1, <2>7
<1>9. FlattenSeq(head) = Escaped(c) \o x
    BY <1>3, <1>4, <1>8, FlattenAppend DEF Escaped
<1>10. Escaped(key) = FlattenSeq(head) \o FlattenSeq(rest)
    BY <1>1, <1>6, <1>7, FlattenConcat DEF Escaped
<1>11. FlattenSeq(head) \in Seq(Characters) /\ FlattenSeq(rest) \in Seq(Characters)
    BY <1>6, FlattenType
<1>12. PICK e, h, r, full : e = Escaped(c) /\ h = FlattenSeq(head) /\ r = FlattenSeq(rest) /\ full = Escaped(key)
    OBVIOUS
<1>13. /\ Len(h) = Len(e) + Len(x) /\ Len(e) \in Nat
       /\ \A i \in 1 .. Len(x) : h[Len(e) + i] = x[i]
    BY <1>3, <1>4, <1>9, <1>12, ConcatParts
<1>14. /\ Len(full) = Len(h) + Len(r) /\ Len(h) \in Nat /\ Len(r) \in Nat
       /\ \A i \in 1 .. Len(h) : full[i] = h[i]
    BY <1>10, <1>11, <1>12, ConcatParts
<1>15. Len(e) + Len(x) <= Len(full)
    BY <1>3, <1>13, <1>14
<1>16. ASSUME NEW i \in 1 .. Len(x) PROVE full[Len(e) + i] = x[i]
  <2>1. Len(e) + i \in 1 .. Len(h)
      BY <1>3, <1>13
  <2>q. QED
      BY <1>13, <1>14, <2>1
<1>q. QED
    BY <1>1, <1>12, <1>15, <1>16

\* The part of a path that one key adds.
Segment(key, array) ==
    IF array THEN <<"[">> \o key \o <<"]">>
    ELSE IF key \in SimpleKeys THEN <<".">> \o key
    ELSE <<"[">> \o stringify(key) \o <<"]">>

\* What a text between two characters looks like, position by position.
LEMMA Enclosed ==
    ASSUME NEW key \in Seq(Characters), NEW left \in Characters, NEW right \in Characters,
           NEW s, s = <<left>> \o key \o <<right>>
    PROVE  /\ s \in Seq(Characters) /\ Len(s) = Len(key) + 2 /\ Len(key) \in Nat
           /\ s[1] = left /\ s[Len(key) + 2] = right
           /\ \A i \in 1 .. Len(key) : s[i + 1] = key[i]
<1>1. <<left>> \in Seq(Characters) /\ <<right>> \in Seq(Characters)
    OBVIOUS
<1>2. PICK open, close : open = <<left>> /\ close = <<right>>
    OBVIOUS
<1>3. /\ open \in Seq(Characters) /\ Len(open) = 1 /\ open[1] = left
      /\ close \in Seq(Characters) /\ Len(close) = 1 /\ close[1] = right
    BY <1>1, <1>2
<1>4. PICK t : t = open \o key
    OBVIOUS
<1>5. s = t \o close
    BY <1>2, <1>4
<1>6. /\ t \in Seq(Characters) /\ Len(t) = Len(key) + 1 /\ Len(key) \in Nat
      /\ t[1] = left /\ \A i \in 1 .. Len(key) : t[1 + i] = key[i]
  <2>1. /\ t \in Seq(Characters) /\ Len(t) = Len(open) + Len(key) /\ Len(key) \in Nat
        /\ \A i \in 1 .. Len(open) : t[i] = open[i]
        /\ \A i \in 1 .. Len(key) : t[Len(open) + i] = key[i]
    <3>1. open \in Seq(Characters)
        BY <1>3
    <3>q. QED
        BY <1>4, <3>1, ConcatParts
  <2>q. QED
      BY <1>3, <2>1
<1>7. /\ s \in Seq(Characters) /\ Len(s) = Len(t) + 1
      /\ \A i \in 1 .. Len(t) : s[i] = t[i]
      /\ s[Len(t) + 1] = right
  <2>1. /\ s \in Seq(Characters) /\ Len(s) = Len(t) + Len(close)
        /\ \A i \in 1 .. Len(t) : s[i] = t[i]
        /\ \A i \in 1 .. Len(close) : s[Len(t) + i] = close[i]
    <3>1. close \in Seq(Characters) /\ t \in Seq(Characters)
        BY <1>3, <1>6
    <3>q. QED
        BY <1>5, <3>1, ConcatParts
  <2>2. \A n \in Nat : 1 \in 1 .. 1
      OBVIOUS
  <2>3. Len(s) = Len(t) + 1 /\ s[Len(t) + 1] = close[1]
      BY <1>3, <2>1, <2>2, Zenon
  <2>q. QED
      BY <1>3, <2>1, <2>3, Zenon
<1>8. /\ Len(s) = Len(key) + 2 /\ s[1] = left /\ s[Len(key) + 2] = right
    BY <1>6, <1>7
<1>9. ASSUME NEW i \in 1 .. Len(key) PROVE s[i + 1] = key[i]
  <2>1. 1 + i \in 1 .. Len(t) /\ i + 1 = 1 + i
      BY <1>6
  <2>q. QED
      BY <1>6, <1>7, <2>1
<1>q. QED
    BY <1>6, <1>7, <1>8, <1>9

\* The same for a key in brackets.
LEMMA Bracketed ==
    ASSUME NEW key \in Seq(Characters), NEW s, s = <<"[">> \o key \o <<"]">>
    PROVE  /\ s \in Seq(Characters) /\ Len(s) = Len(key) + 2 /\ Len(key) \in Nat
           /\ s[1] = "[" /\ s[Len(key) + 2] = "]"
           /\ \A i \in 1 .. Len(key) : s[i + 1] = key[i]
<1>1. "[" \in Characters /\ "]" \in Characters
    BY TextAssumption
<1>q. QED
    BY <1>1, Enclosed

\* The same for a quoted key.
LEMMA Quoted ==
    ASSUME NEW key \in Seq(Characters), NEW s, s = stringify(key)
    PROVE  /\ s \in Seq(Characters) /\ Len(s) = Len(Escaped(key)) + 2
           /\ s[1] = "\"" /\ s[Len(Escaped(key)) + 2] = "\""
           /\ \A i \in 1 .. Len(Escaped(key)) : s[i + 1] = Escaped(key)[i]
<1>1. "\"" \in Characters
    BY TextAssumption
<1>2. PICK e : e = Escaped(key)
    OBVIOUS
<1>3. e \in Seq(Characters)
    BY <1>2, PiecesType
<1>4. s = <<"\"">> \o e \o <<"\"">>
    BY <1>2, Zenon DEF stringify, Escaped, Pieces, Piece
<1>5. /\ s \in Seq(Characters) /\ Len(s) = Len(e) + 2
      /\ s[1] = "\"" /\ s[Len(e) + 2] = "\""
      /\ \A i \in 1 .. Len(e) : s[i + 1] = e[i]
  <2>1. PICK quote : quote = "\""
      OBVIOUS
  <2>2. quote \in Characters /\ s = <<quote>> \o e \o <<quote>>
      BY <1>1, <1>4, <2>1
  <2>3. /\ s \in Seq(Characters) /\ Len(s) = Len(e) + 2
        /\ s[1] = quote /\ s[Len(e) + 2] = quote
        /\ \A i \in 1 .. Len(e) : s[i + 1] = e[i]
      BY <1>3, <2>2, Enclosed
  <2>q. QED
      BY <2>1, <2>3, Zenon
<1>q. QED
    BY <1>2, <1>5

\* Positions within a text that goes on after another.
LEMMA Inside ==
    /\ \A l, a, b \in Nat : l \in 1 .. 2 /\ a + l <= b =>
           /\ 1 \in 1 .. l /\ a + 1 \in 1 .. b /\ a + 1 + 1 = a + 2
           /\ a + 2 \in 1 .. a + 2 /\ a + 2 \in 1 .. b + 2 /\ a + 2 <= b + 2 /\ a + 2 <= a + 2
    /\ \A a, b \in Nat : a \in 1 .. b => a <= b
OBVIOUS

\* The printed form of a character does not begin with the quote that ends a key.
LEMMA PieceHead ==
    ASSUME NEW c \in Characters
    PROVE  /\ Piece(c) \in Seq(Characters) /\ Len(Piece(c)) \in 1 .. 2 /\ Piece(c)[1] # "\""
           /\ c \in {"\"", "\\"} => Len(Piece(c)) = 2 /\ Piece(c)[1] = "\\" /\ Piece(c)[2] = c
           /\ c \notin {"\"", "\\"} => Piece(c)[1] = c
<1>1. "\\" \in Characters /\ "\\" # "\""
    BY TextAssumption
<1>2. PICK x : x = Piece(c)
    OBVIOUS
<1>3. CASE c \in {"\"", "\\"}
  <2>1. x = <<"\\", c>>
      BY <1>2, <1>3 DEF Piece
  <2>2. x \in Seq(Characters) /\ Len(x) = 2 /\ x[1] = "\\" /\ x[2] = c
      BY <1>1, <2>1
  <2>3. Len(x) \in 1 .. 2 /\ x[1] # "\""
      BY <1>1, <2>2
  <2>q. QED
      BY <1>2, <1>3, <2>2, <2>3, Zenon
<1>4. CASE c \notin {"\"", "\\"}
  <2>1. x = <<c>>
      BY <1>2, <1>4 DEF Piece
  <2>2. x \in Seq(Characters) /\ Len(x) = 1 /\ x[1] = c
      BY <2>1
  <2>3. Len(x) \in 1 .. 2
      BY <2>2
  <2>4. x[1] # "\""
      BY <1>4, <2>2, Zenon
  <2>q. QED
      BY <1>2, <1>4, <2>2, <2>3, <2>4, Zenon
<1>q. QED
    BY <1>3, <1>4

\* Where two keys differ first, so do their printed forms.
LEMMA EscapedDiffer ==
    ASSUME NEW j \in Seq(Characters), NEW k \in Seq(Characters), NEW d \in Nat,
           1 <= d, d <= Len(j), d <= Len(k), j[d] # k[d],
           \A i \in 1 .. d - 1 : j[i] = k[i],
           \A i \in 1 .. Len(Escaped(j)) : i <= Len(Escaped(k)) => Escaped(j)[i] = Escaped(k)[i]
    PROVE  FALSE
<1>1. Len(j) \in Nat /\ Len(k) \in Nat /\ j[d] \in Characters /\ k[d] \in Characters
    OBVIOUS
<1>2. SubSeq(j, 1, d - 1) = SubSeq(k, 1, d - 1)
  <2>1. PICK a, b : a = SubSeq(j, 1, d - 1) /\ b = SubSeq(k, 1, d - 1)
      OBVIOUS
  <2>2. /\ a \in Seq(Characters) /\ Len(a) = d - 1 /\ \A i \in 1 .. d - 1 : a[i] = j[i]
        /\ b \in Seq(Characters) /\ Len(b) = d - 1 /\ \A i \in 1 .. d - 1 : b[i] = k[i]
      BY <1>1, <2>1
  <2>3. \A i \in 1 .. Len(a) : a[i] = b[i]
      BY <2>2
  <2>4. a = b
      BY <2>2, <2>3, SeqEqual
  <2>q. QED
      BY <2>1, <2>4
<1>3. PICK m, e, f, x, y : /\ m = Len(Escaped(SubSeq(j, 1, d - 1))) /\ e = Escaped(j) /\ f = Escaped(k)
                           /\ x = Piece(j[d]) /\ y = Piece(k[d])
    OBVIOUS
<1>4. m \in Nat
  <2>1. SubSeq(j, 1, d - 1) \in Seq(Characters)
      BY <1>1
  <2>q. QED
      BY <1>3, <2>1, PiecesType
<1>5. Len(e) \in Nat /\ Len(f) \in Nat
    BY <1>3, PiecesType
<1>6. d \in 1 .. Len(j) /\ d \in 1 .. Len(k)
    BY <1>1
<1>7. /\ m + Len(x) <= Len(e) /\ \A i \in 1 .. Len(x) : e[m + i] = x[i]
    BY <1>3, <1>6, EscapedAt
<1>8. /\ m + Len(y) <= Len(f) /\ \A i \in 1 .. Len(y) : f[m + i] = y[i]
    BY <1>2, <1>3, <1>6, EscapedAt, ZenonT(40)
<1>9. /\ Len(x) \in 1 .. 2
      /\ j[d] \in {"\"", "\\"} => Len(x) = 2 /\ x[1] = "\\" /\ x[2] = j[d]
      /\ j[d] \notin {"\"", "\\"} => x[1] = j[d]
    BY <1>1, <1>3, PieceHead
<1>10. /\ Len(y) \in 1 .. 2
       /\ k[d] \in {"\"", "\\"} => Len(y) = 2 /\ y[1] = "\\" /\ y[2] = k[d]
       /\ k[d] \notin {"\"", "\\"} => y[1] = k[d]
    BY <1>1, <1>3, PieceHead
<1>11. \A i \in 1 .. Len(e) : i <= Len(f) => e[i] = f[i]
    BY <1>3
<1>12. x[1] = y[1]
  <2>1. 1 \in 1 .. Len(x) /\ 1 \in 1 .. Len(y) /\ m + 1 \in 1 .. Len(e) /\ m + 1 <= Len(f)
    <3>1. Len(x) \in 1 .. 2 /\ Len(y) \in 1 .. 2
        BY <1>9, <1>10
    <3>2. m + Len(x) <= Len(e) /\ m + Len(y) <= Len(f)
        BY <1>7, <1>8
    <3>3. Len(x) \in Nat /\ Len(y) \in Nat
        BY <3>1
    <3>4. /\ 1 \in 1 .. Len(x) /\ m + 1 \in 1 .. Len(e)
          /\ 1 \in 1 .. Len(y) /\ m + 1 \in 1 .. Len(f)
        BY <1>4, <1>5, <3>1, <3>2, <3>3, Inside, Zenon
    <3>5. m + 1 \in Nat
        BY <1>4
    <3>q. QED
        BY <1>5, <3>4, <3>5, Inside, Zenon
  <2>q. QED
      BY <1>7, <1>8, <1>11, <2>1
<1>13. ASSUME Len(x) = 2, Len(y) = 2 PROVE x[2] = y[2]
  <2>1. 2 \in 1 .. Len(x) /\ 2 \in 1 .. Len(y) /\ m + 2 \in 1 .. Len(e) /\ m + 2 <= Len(f)
      BY <1>4, <1>5, <1>7, <1>8, <1>13
  <2>q. QED
      BY <1>7, <1>8, <1>11, <2>1
<1>q. QED
    BY <1>9, <1>10, <1>12, <1>13

\* Two quoted keys that agree as far as both are printed are the same.
LEMMA QuotedAgree ==
    ASSUME NEW j \in Seq(Characters), NEW k \in Seq(Characters),
           \A i \in 1 .. Len(stringify(j)) :
               i <= Len(stringify(k)) => stringify(j)[i] = stringify(k)[i]
    PROVE  j = k
<1>1. PICK e, f, s, t : e = Escaped(j) /\ f = Escaped(k) /\ s = stringify(j) /\ t = stringify(k)
    OBVIOUS
<1>2. Len(e) \in Nat /\ Len(f) \in Nat /\ Len(j) \in Nat /\ Len(k) \in Nat
    BY <1>1, PiecesType
<1>3. /\ Len(s) = Len(e) + 2 /\ s[Len(e) + 2] = "\"" /\ \A i \in 1 .. Len(e) : s[i + 1] = e[i]
    BY <1>1, Quoted
<1>4. /\ Len(t) = Len(f) + 2 /\ t[Len(f) + 2] = "\"" /\ \A i \in 1 .. Len(f) : t[i + 1] = f[i]
    BY <1>1, Quoted
<1>l. Len(s) = Len(e) + 2 /\ Len(t) = Len(f) + 2
    BY <1>3, <1>4
<1>5. \A i \in 1 .. Len(s) : i <= Len(t) => s[i] = t[i]
    BY <1>1
<1>6. \A i \in 1 .. Len(e) : i <= Len(f) => e[i] = f[i]
  <2> SUFFICES ASSUME NEW i \in 1 .. Len(e), i <= Len(f) PROVE e[i] = f[i]
      OBVIOUS
  <2>1. i \in 1 .. Len(f) /\ i + 1 \in 1 .. Len(s) /\ i + 1 <= Len(t)
      BY <1>2, <1>l
  <2>q. QED
      BY <1>3, <1>4, <1>5, <2>1
<1>7. ASSUME NEW d \in 1 .. Len(j), d <= Len(k), j[d] # k[d] PROVE FALSE
  <2> DEFINE D == {i \in Nat : 1 <= i /\ i <= Len(j) /\ i <= Len(k) /\ j[i] # k[i]}
  <2>1. D \in SUBSET Nat /\ d \in D
      BY <1>2, <1>7
  <2>2. PICK least \in D : \A i \in D : least <= i
    <3> HIDE DEF D
    <3>q. QED
        BY <2>1, LeastNatural
  <2>3. \A i \in 1 .. least - 1 : j[i] = k[i]
    <3>1. \A i \in 1 .. least - 1 : i \in Nat /\ 1 <= i /\ i < least /\ i <= Len(j) /\ i <= Len(k)
        BY <1>2, <2>2
    <3>2. \A i \in 1 .. least - 1 : i \notin D
        BY <1>2, <2>2, <3>1
    <3>q. QED
        BY <3>1, <3>2
  <2>4. least \in Nat /\ 1 <= least /\ least <= Len(j) /\ least <= Len(k) /\ j[least] # k[least]
      BY <2>2
  <2>5. \A i \in 1 .. Len(Escaped(j)) : i <= Len(Escaped(k)) => Escaped(j)[i] = Escaped(k)[i]
      BY <1>1, <1>6
  <2>q. QED
      BY <2>3, <2>4, <2>5, EscapedDiffer
<1>8. ASSUME Len(j) < Len(k) PROVE FALSE
  <2>1. PICK d : d = Len(j) + 1
      OBVIOUS
  <2>2. d \in 1 .. Len(k) /\ d - 1 = Len(j) /\ k[d] \in Characters /\ \A i \in 1 .. Len(j) : i \in 1 .. Len(k)
      BY <1>2, <1>8, <2>1
  <2>3. SubSeq(k, 1, d - 1) = j
    <3>1. PICK a : a = SubSeq(k, 1, d - 1)
        OBVIOUS
    <3>2. a \in Seq(Characters) /\ Len(a) = Len(j) /\ \A i \in 1 .. Len(j) : a[i] = k[i]
        BY <1>2, <2>2, <3>1
    <3>3. \A i \in 1 .. Len(a) : a[i] = j[i]
        BY <1>2, <1>7, <1>8, <2>2, <3>2
    <3>4. a = j
        BY <3>2, <3>3, SeqEqual
    <3>q. QED
        BY <3>1, <3>4
  <2>4. PICK y : y = Piece(k[d])
      OBVIOUS
  <2>5. Len(e) + Len(y) <= Len(f) /\ \A i \in 1 .. Len(y) : f[Len(e) + i] = y[i]
      BY <1>1, <2>2, <2>3, <2>4, EscapedAt
  <2>6. Len(y) \in 1 .. 2 /\ y[1] # "\""
      BY <2>2, <2>4, PieceHead
  <2>7. 1 \in 1 .. Len(y) /\ Len(e) + 1 \in 1 .. Len(f) /\ Len(e) + 1 + 1 = Len(e) + 2
        /\ Len(e) + 2 \in 1 .. Len(s) /\ Len(e) + 2 <= Len(t)
    <3>1. Len(e) + Len(y) <= Len(f) /\ Len(y) \in 1 .. 2
        BY <2>5, <2>6
    <3>2. Len(y) \in Nat
        BY <3>1
    <3>3. /\ 1 \in 1 .. Len(y) /\ Len(e) + 1 \in 1 .. Len(f) /\ Len(e) + 1 + 1 = Len(e) + 2
          /\ Len(e) + 2 \in 1 .. Len(e) + 2 /\ Len(e) + 2 <= Len(f) + 2
        BY <1>2, <3>1, <3>2, Inside, Zenon
    <3>q. QED
        BY <1>l, <3>3, Zenon
  <2>8. f[Len(e) + 1] = y[1] /\ t[Len(e) + 2] = f[Len(e) + 1] /\ s[Len(e) + 2] = t[Len(e) + 2]
      BY <1>4, <1>5, <2>5, <2>7
  <2>q. QED
      BY <1>3, <2>6, <2>8
<1>9. ASSUME Len(k) < Len(j) PROVE FALSE
  <2>1. PICK d : d = Len(k) + 1
      OBVIOUS
  <2>2. d \in 1 .. Len(j) /\ d - 1 = Len(k) /\ j[d] \in Characters /\ \A i \in 1 .. Len(k) : i \in 1 .. Len(j)
      BY <1>2, <1>9, <2>1
  <2>3. SubSeq(j, 1, d - 1) = k
    <3>1. PICK a : a = SubSeq(j, 1, d - 1)
        OBVIOUS
    <3>2. a \in Seq(Characters) /\ Len(a) = Len(k) /\ \A i \in 1 .. Len(k) : a[i] = j[i]
        BY <1>2, <2>2, <3>1
    <3>3. \A i \in 1 .. Len(a) : a[i] = k[i]
        BY <1>2, <1>7, <1>9, <2>2, <3>2
    <3>4. a = k
        BY <3>2, <3>3, SeqEqual
    <3>q. QED
        BY <3>1, <3>4
  <2>4. PICK y : y = Piece(j[d])
      OBVIOUS
  <2>5. Len(f) + Len(y) <= Len(e) /\ \A i \in 1 .. Len(y) : e[Len(f) + i] = y[i]
      BY <1>1, <2>2, <2>3, <2>4, EscapedAt
  <2>6. Len(y) \in 1 .. 2 /\ y[1] # "\""
      BY <2>2, <2>4, PieceHead
  <2>7. 1 \in 1 .. Len(y) /\ Len(f) + 1 \in 1 .. Len(e) /\ Len(f) + 1 + 1 = Len(f) + 2
        /\ Len(f) + 2 \in 1 .. Len(s) /\ Len(f) + 2 <= Len(t)
    <3>1. Len(f) + Len(y) <= Len(e) /\ Len(y) \in 1 .. 2
        BY <2>5, <2>6
    <3>2. Len(y) \in Nat
        BY <3>1
    <3>3. /\ 1 \in 1 .. Len(y) /\ Len(f) + 1 \in 1 .. Len(e) /\ Len(f) + 1 + 1 = Len(f) + 2
          /\ Len(f) + 2 \in 1 .. Len(e) + 2 /\ Len(f) + 2 <= Len(f) + 2
        BY <1>2, <3>1, <3>2, Inside, Zenon
    <3>q. QED
        BY <1>l, <3>3, Zenon
  <2>8. e[Len(f) + 1] = y[1] /\ s[Len(f) + 2] = e[Len(f) + 1] /\ s[Len(f) + 2] = t[Len(f) + 2]
      BY <1>3, <1>5, <2>5, <2>7
  <2>q. QED
      BY <1>4, <2>6, <2>8
<1>10. Len(j) = Len(k)
    BY <1>2, <1>8, <1>9
<1>11. \A i \in 1 .. Len(j) : j[i] = k[i]
    BY <1>2, <1>7, <1>10
<1>q. QED
    BY <1>10, <1>11, SeqEqual

\* What an unquoted key adds, position by position.
LEMMA Dotted ==
    ASSUME NEW key \in Seq(Characters), NEW s, s = <<".">> \o key
    PROVE  /\ s \in Seq(Characters) /\ Len(s) = Len(key) + 1 /\ Len(key) \in Nat
           /\ s[1] = "." /\ \A i \in 1 .. Len(key) : s[i + 1] = key[i]
<1>1. "." \in Characters
    BY TextAssumption
<1>2. PICK dot : dot = <<".">>
    OBVIOUS
<1>3. dot \in Seq(Characters) /\ Len(dot) = 1 /\ dot[1] = "."
    BY <1>1, <1>2
<1>4. /\ s \in Seq(Characters) /\ Len(s) = Len(dot) + Len(key) /\ Len(key) \in Nat
      /\ \A i \in 1 .. Len(dot) : s[i] = dot[i]
      /\ \A i \in 1 .. Len(key) : s[Len(dot) + i] = key[i]
  <2>1. s = dot \o key /\ dot \in Seq(Characters)
      BY <1>2, <1>3
  <2>q. QED
      BY <2>1, ConcatParts
<1>5. s[1] = dot[1]
  <2>1. 1 \in 1 .. 1
      OBVIOUS
  <2>q. QED
      BY <1>3, <1>4, <2>1, Zenon
<1>6. \A i \in 1 .. Len(key) : s[i + 1] = key[i]
    BY <1>3, <1>4
<1>q. QED
    BY <1>3, <1>4, <1>5, <1>6

\* A child's path is its parent's with the part of its key.
LEMMA ChildPath ==
    ASSUME NEW p \in Seq(Characters), NEW key \in Seq(Characters), NEW node \in Nodes
    PROVE  /\ childYamlPath(p, key, node.array) = p \o Segment(key, node.array)
           /\ Segment(key, node.array) \in Seq(Characters)
           /\ Len(Segment(key, node.array)) \in Nat /\ Len(Segment(key, node.array)) >= 1
           /\ Segment(key, node.array)[1] \in {".", "["}
<1>1. <<"[">> \in Seq(Characters) /\ <<"]">> \in Seq(Characters) /\ <<".">> \in Seq(Characters)
  <2>1. "[" \in Characters /\ "]" \in Characters /\ "." \in Characters
      BY TextAssumption
  <2>q. QED
      BY <2>1
<1>2. \A t \in Seq(Characters) : p \o <<"[">> \o t \o <<"]">> = p \o (<<"[">> \o t \o <<"]">>)
  <2> SUFFICES ASSUME NEW t \in Seq(Characters)
               PROVE  p \o <<"[">> \o t \o <<"]">> = p \o (<<"[">> \o t \o <<"]">>)
      OBVIOUS
  <2>1. PICK open, close : open = <<"[">> /\ close = <<"]">>
      OBVIOUS
  <2>2. open \in Seq(Characters) /\ close \in Seq(Characters)
      BY <1>1, <2>1
  <2>3. open \o t \in Seq(Characters)
      BY <2>2
  <2>4. p \o open \o t = p \o (open \o t)
      BY <2>2, ConcatAssociative, SMTT(40)
  <2>5. p \o (open \o t) \o close = p \o ((open \o t) \o close)
      BY <2>2, <2>3, ConcatAssociative, SMTT(40)
  <2>q. QED
      BY <2>1, <2>4, <2>5
<1>3. p \o <<".">> \o key = p \o (<<".">> \o key)
    BY <1>1, ConcatAssociative
<1>4. stringify(key) \in Seq(Characters)
    BY Quoted
<1>5. CASE node.array
  <2>1. Segment(key, node.array) = <<"[">> \o key \o <<"]">>
      BY <1>5, Zenon DEF Segment
  <2>2. childYamlPath(p, key, node.array) = p \o <<"[">> \o key \o <<"]">>
      BY <1>5, Zenon DEF childYamlPath
  <2>3. PICK s : s = Segment(key, node.array)
      OBVIOUS
  <2>4. s \in Seq(Characters) /\ Len(s) = Len(key) + 2 /\ Len(key) \in Nat /\ s[1] = "["
      BY <2>1, <2>3, Bracketed
  <2>5. Len(s) \in Nat /\ Len(s) >= 1 /\ s[1] \in {".", "["}
      BY <2>4
  <2>q. QED
      BY <1>2, <2>1, <2>2, <2>3, <2>4, <2>5, Zenon
<1>6. CASE ~node.array /\ key \in SimpleKeys
  <2>1. Segment(key, node.array) = <<".">> \o key
      BY <1>6, Zenon DEF Segment
  <2>2. childYamlPath(p, key, node.array) = p \o <<".">> \o key
      BY <1>6, Zenon DEF childYamlPath
  <2>3. PICK s : s = Segment(key, node.array)
      OBVIOUS
  <2>4. s \in Seq(Characters) /\ Len(s) = Len(key) + 1 /\ Len(key) \in Nat /\ s[1] = "."
      BY <2>1, <2>3, Dotted
  <2>5. Len(s) \in Nat /\ Len(s) >= 1 /\ s[1] \in {".", "["}
      BY <2>4
  <2>q. QED
      BY <1>3, <2>1, <2>2, <2>3, <2>4, <2>5, Zenon
<1>7. CASE ~node.array /\ key \notin SimpleKeys
  <2>1. Segment(key, node.array) = <<"[">> \o stringify(key) \o <<"]">>
      BY <1>7, Zenon DEF Segment
  <2>2. childYamlPath(p, key, node.array) = p \o <<"[">> \o stringify(key) \o <<"]">>
      BY <1>7, Zenon DEF childYamlPath
  <2>3. PICK s, t : s = Segment(key, node.array) /\ t = stringify(key)
      OBVIOUS
  <2>4. s \in Seq(Characters) /\ Len(s) = Len(t) + 2 /\ Len(t) \in Nat /\ s[1] = "["
      BY <1>4, <2>1, <2>3, Bracketed
  <2>5. Len(s) \in Nat /\ Len(s) >= 1 /\ s[1] \in {".", "["}
      BY <2>4
  <2>q. QED
      BY <1>2, <1>4, <2>1, <2>2, <2>3, <2>4, <2>5, Zenon
<1>q. QED
    BY <1>5, <1>6, <1>7, Zenon

\* Path q is p or begins with p and a further part.
Under(p, q) ==
    /\ Len(p) <= Len(q)
    /\ \A i \in 1 .. Len(p) : q[i] = p[i]
    /\ Len(q) > Len(p) => q[Len(p) + 1] \in {".", "["}

\* An entry has a key and a node.
LEMMA EntryType ==
    ASSUME NEW node \in Nodes
    PROVE  /\ node.entries \in Seq([key : Seq(Characters), value : Nodes])
           /\ Len(node.entries) \in Nat /\ DOMAIN node.entries = 1 .. Len(node.entries)
           /\ \A i \in DOMAIN node.entries :
                  node.entries[i].key \in Seq(Characters) /\ node.entries[i].value \in Nodes
<1>1. node.entries \in Seq([key : Seq(Characters), value : Nodes])
    BY TreeAssumption, Zenon
<1>2. PICK all : all = node.entries
    OBVIOUS
<1>3. /\ all \in Seq([key : Seq(Characters), value : Nodes])
      /\ Len(all) \in Nat /\ DOMAIN all = 1 .. Len(all)
      /\ \A i \in DOMAIN all : all[i] \in [key : Seq(Characters), value : Nodes]
  <2>1. PICK S : S = [key : Seq(Characters), value : Nodes]
      OBVIOUS
  <2>2. all \in Seq(S)
      BY <1>1, <1>2, <2>1
  <2>3. Len(all) \in Nat /\ DOMAIN all = 1 .. Len(all) /\ \A i \in DOMAIN all : all[i] \in S
      BY <2>2
  <2>q. QED
      BY <2>1, <2>2, <2>3, Zenon
<1>4. \A i \in DOMAIN all : all[i].key \in Seq(Characters) /\ all[i].value \in Nodes
    BY <1>3
<1>q. QED
    BY <1>2, <1>3, <1>4, Zenon

\* The parts that two keys of a collection add do not begin one another.
LEMMA SiblingsApart ==
    ASSUME NEW node \in Nodes, NEW j \in DOMAIN node.entries, NEW k \in DOMAIN node.entries, j # k
    PROVE  ~Under(Segment(node.entries[j].key, node.array), Segment(node.entries[k].key, node.array))
<1> SUFFICES ASSUME Under(Segment(node.entries[j].key, node.array),
                          Segment(node.entries[k].key, node.array))
             PROVE  FALSE
    OBVIOUS
<1>1. PICK a, b : a = node.entries[j].key /\ b = node.entries[k].key
    OBVIOUS
<1>2. a # b
    BY <1>1, TreeAssumption
<1>3. a \in Seq(Characters) /\ b \in Seq(Characters)
    BY <1>1, EntryType
<1>4. Len(a) \in Nat /\ Len(b) \in Nat /\ DOMAIN a = 1 .. Len(a) /\ DOMAIN b = 1 .. Len(b)
    BY <1>3
<1>5. PICK s, t : s = Segment(a, node.array) /\ t = Segment(b, node.array)
    OBVIOUS
<1>6. Under(s, t)
    BY <1>1, <1>5
<1>7. /\ Len(s) \in Nat /\ Len(s) >= 1 /\ Len(t) \in Nat
      /\ Len(s) <= Len(t) /\ \A i \in 1 .. Len(s) : t[i] = s[i]
      /\ Len(t) > Len(s) => t[Len(s) + 1] \in {".", "["}
    BY <1>3, <1>5, <1>6, ChildPath DEF Under
<1>8. ASSUME Len(a) = Len(b), \A i \in 1 .. Len(a) : a[i] = b[i] PROVE FALSE
    BY <1>2, <1>3, <1>8, SeqEqual
<1>9. CASE node.array
  <2>1. s = <<"[">> \o a \o <<"]">> /\ t = <<"[">> \o b \o <<"]">>
      BY <1>5, <1>9, Zenon DEF Segment
  <2>2. \A n \in 1 .. Len(b) : b[n] # "]"
    <3>1. \A n \in DOMAIN node.entries[k].key : node.entries[k].key[n] # "]"
        BY <1>9, TreeAssumption, Zenon
    <3>q. QED
        BY <1>1, <1>4, <3>1
  <2>3. Len(s) = Len(a) + 2 /\ s[Len(a) + 2] = "]" /\ \A i \in 1 .. Len(a) : s[i + 1] = a[i]
      BY <1>3, <2>1, Bracketed
  <2>4. Len(t) = Len(b) + 2 /\ \A i \in 1 .. Len(b) : t[i + 1] = b[i]
      BY <1>3, <2>1, Bracketed
  <2>5. Len(a) = Len(b)
    <3> SUFFICES ASSUME Len(a) # Len(b) PROVE FALSE
        OBVIOUS
    <3>1. Len(s) = Len(a) + 2 /\ Len(t) = Len(b) + 2 /\ Len(s) <= Len(t)
        BY <1>7, <2>3, <2>4
    <3>2. /\ Len(a) + 1 \in 1 .. Len(b) /\ Len(a) + 1 + 1 = Len(a) + 2 /\ Len(a) + 2 \in 1 .. Len(s)
      <4>1. \A l, m \in Nat : l + 2 <= m + 2 /\ l # m =>
                l + 1 \in 1 .. m /\ l + 1 + 1 = l + 2 /\ l + 2 \in 1 .. l + 2
          OBVIOUS
      <4>2. Len(a) + 2 <= Len(b) + 2
          BY <3>1, Zenon
      <4>3. Len(a) + 1 \in 1 .. Len(b) /\ Len(a) + 1 + 1 = Len(a) + 2 /\ Len(a) + 2 \in 1 .. Len(a) + 2
          BY <1>4, <4>1, <4>2, Zenon
      <4>q. QED
          BY <3>1, <4>3, Zenon
    <3>q. QED
        BY <1>7, <2>2, <2>3, <2>4, <3>2
  <2>6. ASSUME NEW i \in 1 .. Len(a) PROVE a[i] = b[i]
    <3>1. i + 1 \in 1 .. Len(s)
        BY <1>4, <2>3
    <3>q. QED
        BY <1>7, <2>3, <2>4, <2>5, <3>1
  <2>q. QED
      BY <1>8, <2>5, <2>6
<1>10. CASE ~node.array /\ a \in SimpleKeys /\ b \in SimpleKeys
  <2>1. s = <<".">> \o a /\ t = <<".">> \o b
      BY <1>5, <1>10, Zenon DEF Segment
  <2>2. \A n \in 1 .. Len(b) : b[n] \notin {".", "["}
      BY <1>4, <1>10, TreeAssumption
  <2>3. Len(s) = Len(a) + 1 /\ \A i \in 1 .. Len(a) : s[i + 1] = a[i]
      BY <1>3, <2>1, Dotted
  <2>4. Len(t) = Len(b) + 1 /\ \A i \in 1 .. Len(b) : t[i + 1] = b[i]
      BY <1>3, <2>1, Dotted
  <2>5. Len(a) = Len(b)
    <3> SUFFICES ASSUME Len(a) # Len(b) PROVE FALSE
        OBVIOUS
    <3>1. Len(s) = Len(a) + 1 /\ Len(t) = Len(b) + 1 /\ Len(s) <= Len(t)
        BY <1>7, <2>3, <2>4
    <3>2. Len(a) + 1 \in 1 .. Len(b) /\ Len(t) > Len(s)
      <4>1. \A l, m \in Nat : l + 1 <= m + 1 /\ l # m => l + 1 \in 1 .. m /\ m + 1 > l + 1
          OBVIOUS
      <4>2. Len(a) + 1 <= Len(b) + 1
          BY <3>1, Zenon
      <4>3. Len(a) + 1 \in 1 .. Len(b) /\ Len(b) + 1 > Len(a) + 1
          BY <1>4, <4>1, <4>2, Zenon
      <4>q. QED
          BY <3>1, <4>3, Zenon
    <3>3. t[Len(s) + 1] \in {".", "["} /\ t[Len(a) + 1 + 1] = b[Len(a) + 1] /\ Len(s) + 1 = Len(a) + 1 + 1
        BY <1>7, <2>4, <3>1, <3>2
    <3>q. QED
        BY <2>2, <3>2, <3>3
  <2>6. ASSUME NEW i \in 1 .. Len(a) PROVE a[i] = b[i]
    <3>1. i + 1 \in 1 .. Len(s)
        BY <1>4, <2>3
    <3>q. QED
        BY <1>7, <2>3, <2>4, <2>5, <3>1
  <2>q. QED
      BY <1>8, <2>5, <2>6
<1>11. CASE ~node.array /\ a \notin SimpleKeys /\ b \notin SimpleKeys
  <2>1. PICK e, f : e = stringify(a) /\ f = stringify(b)
      OBVIOUS
  <2>2. e \in Seq(Characters) /\ f \in Seq(Characters)
      BY <1>3, <2>1, Quoted
  <2>3. s = <<"[">> \o e \o <<"]">> /\ t = <<"[">> \o f \o <<"]">>
      BY <1>5, <1>11, <2>1, Zenon DEF Segment
  <2>4. Len(e) \in Nat /\ Len(s) = Len(e) + 2 /\ \A i \in 1 .. Len(e) : s[i + 1] = e[i]
      BY <2>2, <2>3, Bracketed
  <2>5. Len(f) \in Nat /\ \A i \in 1 .. Len(f) : t[i + 1] = f[i]
      BY <2>2, <2>3, Bracketed
  <2>6. \A i \in 1 .. Len(e) : i <= Len(f) => e[i] = f[i]
    <3> SUFFICES ASSUME NEW i \in 1 .. Len(e), i <= Len(f) PROVE e[i] = f[i]
        OBVIOUS
    <3>1. i + 1 \in 1 .. Len(s) /\ i \in 1 .. Len(f)
        BY <2>4, <2>5
    <3>q. QED
        BY <1>7, <2>4, <2>5, <3>1
  <2>7. a = b
      BY <1>3, <2>1, <2>6, QuotedAgree
  <2>q. QED
      BY <1>2, <2>7
<1>12. CASE ~node.array /\ (a \in SimpleKeys <=> b \notin SimpleKeys)
  <2>1. t[1] = s[1]
    <3>1. 1 \in 1 .. Len(s)
        BY <1>7
    <3>q. QED
        BY <1>7, <3>1
  <2>2. ASSUME NEW key \in {a, b}, key \in SimpleKeys PROVE Segment(key, node.array)[1] = "."
    <3>1. PICK u : u = <<".">> \o key
        OBVIOUS
    <3>2. u[1] = "."
        BY <1>3, <2>2, <3>1, Dotted
    <3>3. Segment(key, node.array) = <<".">> \o key
        BY <1>12, <2>2, Zenon DEF Segment
    <3>q. QED
        BY <3>1, <3>2, <3>3, Zenon
  <2>3. ASSUME NEW key \in {a, b}, key \notin SimpleKeys PROVE Segment(key, node.array)[1] = "["
    <3>1. PICK e : e = stringify(key)
        OBVIOUS
    <3>2. PICK u : u = <<"[">> \o e \o <<"]">>
        OBVIOUS
    <3>3. e \in Seq(Characters)
        BY <1>3, <3>1, Quoted
    <3>4. u[1] = "["
        BY <3>2, <3>3, Bracketed
    <3>5. Segment(key, node.array) = <<"[">> \o e \o <<"]">>
        BY <1>12, <2>3, <3>1, Zenon DEF Segment
    <3>q. QED
        BY <3>2, <3>4, <3>5, Zenon
  <2>4. "." # "["
      OBVIOUS
  <2>q. QED
      BY <1>5, <1>12, <2>1, <2>2, <2>3, <2>4, Zenon
<1>q. QED
    BY <1>9, <1>10, <1>11, <1>12, Zenon

\* A path is under every path that the one above it is under.
LEMMA UnderLonger ==
    ASSUME NEW p \in Seq(Characters), NEW s \in Seq(Characters), NEW v, v = p \o s,
           Len(s) >= 1, s[1] \in {".", "["}, NEW q \in Seq(Characters)
    PROVE  /\ ~Under(v, p)
           /\ Under(v, q) => Under(p, q)
           /\ Under(q, v) => Under(q, p) \/ Under(p, q)
<1>1. /\ v \in Seq(Characters) /\ Len(v) = Len(p) + Len(s) /\ Len(p) \in Nat /\ Len(s) \in Nat
      /\ \A i \in 1 .. Len(p) : v[i] = p[i]
      /\ \A i \in 1 .. Len(s) : v[Len(p) + i] = s[i]
    BY ConcatParts
<1>2. Len(q) \in Nat
    OBVIOUS
<1>3. v[Len(p) + 1] \in {".", "["}
    BY <1>1
<1>4. Len(v) = Len(p) + Len(s) /\ Len(p) \in Nat /\ Len(s) \in Nat /\ Len(v) \in Nat
    BY <1>1
<1>5. ~Under(v, p)
    BY <1>4 DEF Under
<1>6. ASSUME Under(v, q) PROVE Under(p, q)
  <2>1. Len(v) <= Len(q) /\ \A i \in 1 .. Len(v) : q[i] = v[i]
      BY <1>6 DEF Under
  <2>2. Len(p) <= Len(q) /\ Len(p) + 1 \in 1 .. Len(v) /\ \A i \in 1 .. Len(p) : i \in 1 .. Len(v)
      BY <1>2, <1>4, <2>1
  <2>3. \A i \in 1 .. Len(p) : q[i] = p[i]
      BY <1>1, <2>1, <2>2
  <2>4. q[Len(p) + 1] \in {".", "["}
      BY <1>3, <2>1, <2>2
  <2>q. QED
      BY <2>2, <2>3, <2>4 DEF Under
<1>7. ASSUME Under(q, v) PROVE Under(q, p) \/ Under(p, q)
  <2>1. /\ Len(q) <= Len(v) /\ \A i \in 1 .. Len(q) : v[i] = q[i]
        /\ Len(v) > Len(q) => v[Len(q) + 1] \in {".", "["}
      BY <1>7 DEF Under
  <2>2. CASE Len(q) <= Len(p)
    <3>1. \A i \in 1 .. Len(q) : i \in 1 .. Len(p)
        BY <1>2, <1>4, <2>2
    <3>2. \A i \in 1 .. Len(q) : p[i] = q[i]
        BY <1>1, <2>1, <3>1
    <3>3. ASSUME Len(p) > Len(q) PROVE p[Len(q) + 1] \in {".", "["}
      <4>1. Len(q) + 1 \in 1 .. Len(p) /\ Len(v) > Len(q)
          BY <1>2, <1>4, <3>3
      <4>q. QED
          BY <1>1, <2>1, <4>1
    <3>q. QED
        BY <2>2, <3>2, <3>3 DEF Under
  <2>3. CASE Len(q) > Len(p)
    <3>1. Len(p) <= Len(q) /\ Len(p) + 1 \in 1 .. Len(q) /\ \A i \in 1 .. Len(p) : i \in 1 .. Len(q)
        BY <1>2, <1>4, <2>3
    <3>2. \A i \in 1 .. Len(p) : q[i] = p[i]
        BY <1>1, <2>1, <3>1
    <3>3. q[Len(p) + 1] \in {".", "["}
        BY <1>3, <2>1, <3>1
    <3>q. QED
        BY <3>1, <3>2, <3>3 DEF Under
  <2>q. QED
      BY <1>2, <1>4, <2>2, <2>3
<1>q. QED
    BY <1>5, <1>6, <1>7

\* Below the same path, only the parts that were added matter.
LEMMA UnderSame ==
    ASSUME NEW p \in Seq(Characters), NEW s \in Seq(Characters), NEW t \in Seq(Characters),
           NEW v, v = p \o s, NEW w, w = p \o t, Under(v, w)
    PROVE  Under(s, t)
<1>1. /\ Len(v) = Len(p) + Len(s) /\ Len(p) \in Nat /\ Len(s) \in Nat
      /\ \A i \in 1 .. Len(s) : v[Len(p) + i] = s[i]
    BY ConcatParts
<1>2. /\ Len(w) = Len(p) + Len(t) /\ Len(t) \in Nat
      /\ \A i \in 1 .. Len(t) : w[Len(p) + i] = t[i]
    BY ConcatParts
<1>3. /\ Len(v) <= Len(w) /\ \A i \in 1 .. Len(v) : w[i] = v[i]
      /\ Len(w) > Len(v) => w[Len(v) + 1] \in {".", "["}
    BY DEF Under
<1>4. Len(v) = Len(p) + Len(s) /\ Len(w) = Len(p) + Len(t) /\ Len(v) <= Len(w)
    BY <1>1, <1>2, <1>3
<1>5. Len(p) \in Nat /\ Len(s) \in Nat /\ Len(t) \in Nat
    BY <1>1, <1>2
<1>6. Len(s) <= Len(t)
    BY <1>4, <1>5
<1>7. ASSUME NEW i \in 1 .. Len(s) PROVE t[i] = s[i]
  <2>1. i \in 1 .. Len(t) /\ Len(p) + i \in 1 .. Len(v)
      BY <1>4, <1>5
  <2>q. QED
      BY <1>1, <1>2, <1>3, <2>1
<1>8. ASSUME Len(t) > Len(s) PROVE t[Len(s) + 1] \in {".", "["}
  <2>1. Len(w) > Len(v) /\ Len(s) + 1 \in 1 .. Len(t) /\ Len(v) + 1 = Len(p) + (Len(s) + 1)
      BY <1>4, <1>5, <1>8
  <2>q. QED
      BY <1>2, <1>3, <2>1
<1>q. QED
    BY <1>6, <1>7, <1>8 DEF Under

-----------------------------------------------------------------------------
(* The walk over a tree.  The calls to come are for nodes below none of    *)
(* which another one or a record lies, so that no path is visited twice.   *)

\* A document and a path in it.
Ids == Nat \X Seq(Characters)

\* Calls of visit.
Calls == [value : Nodes, name : Seq(Characters), path : Seq(Characters), document : Nat,
          ancestorIds : Seq(Ids)]

\* Records of the index.
Entered == [id : Ids, name : Seq(Characters), path : Seq(Characters), scalar : BOOLEAN,
            valueText : Seq(Characters), ancestorIds : Seq(Ids)]

\* The record of a path has it in its id.
Labelled(all) == \A r \in DOMAIN all : all[r].id[2] = all[r].path

\* The types of the walk, as the proofs need them.
TreeTypes ==
    /\ pending \in Seq(Calls)
    /\ records \in Seq(Entered)
    /\ \A i \in DOMAIN pending : Len(pending[i].path) >= 1
    /\ Labelled(records)

\* No call is for a node below another call's.
Apart(calls) ==
    \A i, j \in DOMAIN calls :
        i # j /\ calls[i].document = calls[j].document => ~Under(calls[i].path, calls[j].path)

\* No record is for a node below a call's.
Unseen(all, calls) ==
    \A r \in DOMAIN all : \A i \in DOMAIN calls :
        all[r].id[1] = calls[i].document => ~Under(calls[i].path, all[r].path)

\* No two records have the same id.
Told(all) == \A r, s \in DOMAIN all : r # s => all[r].id # all[s].id

\* The record of the ancestor at position a.
Stands(entered, ids, a) ==
    /\ entered.id = ids[a]
    /\ ~entered.scalar
    /\ entered.ancestorIds = SubSeq(ids, 1, a - 1)

\* The ancestors are among the first n records.
Way(all, ids, path, n) ==
    /\ ids = <<>> <=> path = <<"$">>
    /\ \A a \in DOMAIN ids : \E s \in 1 .. n : Stands(all[s], ids, a)

\* The inductive invariant of the walk.
TreeInv ==
    /\ TreeTypes
    /\ Apart(pending)
    /\ Unseen(records, pending)
    /\ Told(records)
    /\ \A r \in DOMAIN records : Way(records, records[r].ancestorIds, records[r].path, r - 1)
    /\ \A i \in DOMAIN pending : Way(records, pending[i].ancestorIds, pending[i].path, Len(records))

\* What Visit makes of the calls to come, the first of which is call.
Remaining(call, calls, id) ==
    [i \in DOMAIN call.value.entries |->
        Call(call.value.entries[i].value, call.value.entries[i].key,
             childYamlPath(call.path, call.value.entries[i].key, call.value.array),
             call.document, Append(call.ancestorIds, id))] \o Tail(calls)

\* A call is for an entry of the node visited, or there was one before.
Follow(left, calls, call, id) ==
    \A i \in DOMAIN left :
        \/ /\ i \in DOMAIN call.value.entries
           /\ left[i].path = call.path \o Segment(call.value.entries[i].key, call.value.array)
           /\ left[i].document = call.document
           /\ left[i].ancestorIds = Append(call.ancestorIds, id)
        \/ /\ i - Len(call.value.entries) + 1 \in 2 .. Len(calls)
           /\ left[i] = calls[i - Len(call.value.entries) + 1]

\* The calls that a visit leaves: one for each entry, then those there were.
LEMMA VisitCalls ==
    ASSUME NEW calls \in Seq(Calls), calls # <<>>, NEW call, call = calls[1],
           NEW id \in Ids, NEW left, left = Remaining(call, calls, id)
    PROVE  /\ call \in Calls /\ left \in Seq(Calls)
           /\ Follow(left, calls, call, id)
<1>1. Len(calls) \in Nat /\ Len(calls) >= 1 /\ call \in Calls
    OBVIOUS
<1>2. PICK node, rest, n : node = call.value /\ rest = Tail(calls) /\ n = Len(node.entries)
    OBVIOUS
<1>3. /\ node \in Nodes /\ call.path \in Seq(Characters) /\ call.document \in Nat
      /\ call.ancestorIds \in Seq(Ids)
    BY <1>1, <1>2 DEF Calls
<1>4. /\ n \in Nat /\ DOMAIN node.entries = 1 .. n
      /\ \A i \in 1 .. n : node.entries[i].key \in Seq(Characters) /\ node.entries[i].value \in Nodes
    BY <1>2, <1>3, EntryType
<1>5. /\ rest \in Seq(Calls) /\ Len(rest) = Len(calls) - 1
      /\ \A i \in 1 .. Len(rest) : rest[i] = calls[i + 1]
    BY <1>1, <1>2
<1>6. PICK ids : ids = Append(call.ancestorIds, id)
    OBVIOUS
<1>7. ids \in Seq(Ids)
    BY <1>3, <1>6
<1> DEFINE Kid(i) == Call(node.entries[i].value, node.entries[i].key,
                          call.path \o Segment(node.entries[i].key, node.array), call.document, ids)
<1>8. ASSUME NEW i \in 1 .. n
      PROVE  /\ Kid(i) \in Calls
             /\ Call(node.entries[i].value, node.entries[i].key,
                     childYamlPath(call.path, node.entries[i].key, node.array), call.document, ids) = Kid(i)
             /\ Kid(i).path = call.path \o Segment(node.entries[i].key, node.array)
             /\ Kid(i).document = call.document
             /\ Kid(i).ancestorIds = ids
  <2>1. node.entries[i].key \in Seq(Characters) /\ node.entries[i].value \in Nodes
      BY <1>4
  <2>2. PICK key, value, seg : key = node.entries[i].key /\ value = node.entries[i].value /\ seg = Segment(key, node.array)
      OBVIOUS
  <2>3. /\ childYamlPath(call.path, key, node.array) = call.path \o seg
        /\ seg \in Seq(Characters)
      BY <1>3, <2>1, <2>2, ChildPath
  <2>4. PICK p : p = call.path \o seg
      OBVIOUS
  <2>5. p \in Seq(Characters)
      BY <1>3, <2>3, <2>4
  <2>6. Kid(i) = [value |-> value, name |-> key, path |-> p, document |-> call.document, ancestorIds |-> ids]
      BY <2>2, <2>4, Zenon DEF Call
  <2>7. PICK kid : kid = Kid(i)
      OBVIOUS
  <2> HIDE DEF Kid
  <2>8. /\ kid \in Calls /\ kid.path = p /\ kid.document = call.document /\ kid.ancestorIds = ids
      BY <1>3, <1>7, <2>1, <2>2, <2>5, <2>6, <2>7 DEF Calls
  <2>9. Call(node.entries[i].value, node.entries[i].key,
             childYamlPath(call.path, node.entries[i].key, node.array), call.document, ids) = Kid(i)
      BY <2>2, <2>3, Zenon DEF Kid
  <2>q. QED
      BY <2>2, <2>4, <2>7, <2>8, <2>9, Zenon
<1>9. PICK kids : kids = [i \in 1 .. n |-> Kid(i)]
    OBVIOUS
<1>10. left = kids \o rest
  <2>1. [i \in DOMAIN call.value.entries |->
            Call(call.value.entries[i].value, call.value.entries[i].key,
                 childYamlPath(call.path, call.value.entries[i].key, call.value.array),
                 call.document, Append(call.ancestorIds, id))]
        = [i \in 1 .. n |->
               Call(node.entries[i].value, node.entries[i].key,
                    childYamlPath(call.path, node.entries[i].key, node.array), call.document, ids)]
      BY <1>2, <1>4, <1>6, Zenon
  <2>2. [i \in 1 .. n |->
             Call(node.entries[i].value, node.entries[i].key,
                  childYamlPath(call.path, node.entries[i].key, node.array), call.document, ids)]
        = [i \in 1 .. n |-> Kid(i)]
    <3> HIDE DEF Kid
    <3>q. QED
      BY <1>8, Zenon
  <2>q. QED
      BY <1>2, <1>9, <2>1, <2>2, Zenon DEF Remaining
<1> HIDE DEF Kid
<1>11. kids \in Seq(Calls) /\ Len(kids) = n /\ \A i \in 1 .. n : kids[i] = Kid(i)
  <2>1. n \in Nat /\ \A i \in 1 .. n : Kid(i) \in Calls
      BY <1>4, <1>8
  <2>q. QED
      BY <1>9, <2>1
<1>12. /\ left \in Seq(Calls) /\ Len(left) = n + Len(rest) /\ Len(rest) \in Nat
       /\ \A i \in 1 .. n : left[i] = kids[i]
       /\ \A i \in 1 .. Len(rest) : left[n + i] = rest[i]
  <2>1. kids \in Seq(Calls) /\ rest \in Seq(Calls) /\ Len(kids) = n
      BY <1>5, <1>11
  <2>2. /\ left \in Seq(Calls) /\ Len(left) = Len(kids) + Len(rest) /\ Len(rest) \in Nat
        /\ \A i \in 1 .. Len(kids) : left[i] = kids[i]
        /\ \A i \in 1 .. Len(rest) : left[Len(kids) + i] = rest[i]
      BY <1>10, <2>1, ConcatParts
  <2>q. QED
      BY <2>1, <2>2, Zenon
<1>13. Len(left) = n + Len(rest) /\ DOMAIN left = 1 .. Len(left)
    BY <1>12
<1>14. ASSUME NEW i \in DOMAIN left
       PROVE  \/ /\ i \in DOMAIN node.entries
                 /\ left[i].path = call.path \o Segment(node.entries[i].key, node.array)
                 /\ left[i].document = call.document
                 /\ left[i].ancestorIds = ids
              \/ /\ i - n + 1 \in 2 .. Len(calls)
                 /\ left[i] = calls[i - n + 1]
  <2>1. i \in 1 .. Len(left)
      BY <1>13, <1>14
  <2>2. CASE i <= n
    <3>1. i \in 1 .. n
        BY <1>4, <2>1, <2>2
    <3>2. left[i] = Kid(i)
        BY <1>11, <1>12, <3>1
    <3>q. QED
        BY <1>4, <1>8, <3>1, <3>2, Zenon
  <2>3. CASE i > n
    <3>1. i - n \in 1 .. Len(rest) /\ n + (i - n) = i /\ i - n + 1 \in 2 .. Len(calls)
      <4>1. Len(rest) = Len(calls) - 1 /\ Len(rest) \in Nat
          BY <1>5, <1>12
      <4>q. QED
          BY <1>1, <1>4, <1>13, <2>1, <2>3, <4>1
    <3>2. left[i] = rest[i - n] /\ rest[i - n] = calls[i - n + 1]
        BY <1>5, <1>12, <3>1
    <3>q. QED
        BY <3>1, <3>2
  <2>4. i <= n \/ i > n
      BY <1>4, <2>1
  <2>q. QED
      BY <2>2, <2>3, <2>4
<1>15. Follow(left, calls, call, id)
    BY <1>2, <1>6, <1>14, Zenon DEF Follow
<1>q. QED
    BY <1>1, <1>12, <1>15

\* The record that Visit adds.
Entry(call, id) ==
    [id |-> id, name |-> call.name, path |-> call.path, scalar |-> call.value.scalar,
     valueText |-> call.value.text, ancestorIds |-> call.ancestorIds]

\* Visit as a step from the records and calls before it.
LEMMA VisitParts ==
    ASSUME Visit
    PROVE  /\ pending # <<>>
           /\ records' = Append(records, Entry(Head(pending), <<Head(pending).document, Head(pending).path>>))
           /\ pending' = Remaining(Head(pending), pending, <<Head(pending).document, Head(pending).path>>)
BY Zenon DEF Visit, Entry, Remaining

\* What an entered record holds.
LEMMA EntryParts ==
    ASSUME NEW call \in Calls, NEW id \in Ids
    PROVE  /\ Entry(call, id) \in Entered /\ Entry(call, id).id = id /\ Entry(call, id).path = call.path
           /\ Entry(call, id).ancestorIds = call.ancestorIds
<1>0. PICK entry : entry = Entry(call, id)
    OBVIOUS
<1>1. /\ call.value \in Nodes /\ call.path \in Seq(Characters) /\ call.name \in Seq(Characters)
      /\ call.ancestorIds \in Seq(Ids)
    BY DEF Calls
<1>2. PICK scalar, valueText : scalar = call.value.scalar /\ valueText = call.value.text
    OBVIOUS
<1>3. scalar \in BOOLEAN /\ valueText \in Seq(Characters)
    BY <1>1, <1>2, TreeAssumption, Zenon
<1>4. entry = [id |-> id, name |-> call.name, path |-> call.path, scalar |-> scalar,
               valueText |-> valueText, ancestorIds |-> call.ancestorIds]
    BY <1>0, <1>2, Zenon DEF Entry
<1>5. entry \in Entered
    BY <1>1, <1>3, <1>4 DEF Entered
<1>6. entry.id = id /\ entry.path = call.path /\ entry.ancestorIds = call.ancestorIds
    BY <1>4
<1>q. QED
    BY <1>0, <1>5, <1>6, Zenon

\* Only a collection has entries.
LEMMA EntryCollection ==
    ASSUME NEW call \in Calls, NEW id \in Ids, NEW i \in DOMAIN call.value.entries
    PROVE  ~Entry(call, id).scalar
<1>1. call.value \in Nodes
    BY DEF Calls
<1>2. call.value.entries # <<>>
  <2>1. PICK all : all = call.value.entries
      OBVIOUS
  <2>2. i \in DOMAIN all
      BY <2>1
  <2>3. all # <<>>
      BY <2>2
  <2>q. QED
      BY <2>1, <2>3
<1>3. ~call.value.scalar
    BY <1>1, <1>2, TreeAssumption, Zenon
<1>4. Entry(call, id).scalar = call.value.scalar
    BY Zenon DEF Entry
<1>q. QED
    BY <1>3, <1>4, Zenon

\* A visit keeps the calls apart.
LEMMA VisitApart ==
    ASSUME NEW calls \in Seq(Calls), calls # <<>>, Apart(calls), NEW call, call = calls[1],
           NEW id \in Ids, NEW left, left = Remaining(call, calls, id)
    PROVE  Apart(left)
<1> SUFFICES ASSUME NEW i \in DOMAIN left, NEW j \in DOMAIN left, i # j,
                    left[i].document = left[j].document, Under(left[i].path, left[j].path)
             PROVE  FALSE
    BY DEF Apart
<1>1. PICK node, n : node = call.value /\ n = Len(node.entries)
    OBVIOUS
<1> DEFINE Seg(k) == Segment(node.entries[k].key, node.array)
           Kid(k) == /\ k \in DOMAIN node.entries
                     /\ left[k].path = call.path \o Seg(k)
                     /\ left[k].document = call.document
           Old(k) == /\ k - n + 1 \in 2 .. Len(calls)
                     /\ left[k] = calls[k - n + 1]
<1>2. /\ call \in Calls
      /\ \A k \in DOMAIN left : Kid(k) \/ Old(k)
  <2>1. call \in Calls /\ Follow(left, calls, call, id)
      BY VisitCalls
  <2>q. QED
      BY <1>1, <2>1, Zenon DEF Follow
<1>3. node \in Nodes /\ call.path \in Seq(Characters)
    BY <1>1, <1>2 DEF Calls
<1>4. /\ n \in Nat /\ DOMAIN node.entries = 1 .. n
      /\ \A k \in DOMAIN node.entries : node.entries[k].key \in Seq(Characters)
    BY <1>1, <1>3, EntryType
<1>5. /\ Len(calls) \in Nat /\ DOMAIN calls = 1 .. Len(calls) /\ 1 \in DOMAIN calls
      /\ \A k \in DOMAIN calls : calls[k] \in Calls
    OBVIOUS
<1>6. \A k \in DOMAIN calls : calls[k].path \in Seq(Characters)
    BY <1>5 DEF Calls
<1>7. \A k \in DOMAIN node.entries :
          /\ Seg(k) \in Seq(Characters) /\ Len(Seg(k)) >= 1 /\ Seg(k)[1] \in {".", "["}
    BY <1>3, <1>4, ChildPath
<1>8. \A k \in DOMAIN left : Old(k) => k - n + 1 \in DOMAIN calls /\ k - n + 1 # 1
    BY <1>5
<1>9. ASSUME NEW k \in DOMAIN left, NEW o \in DOMAIN left, Kid(k), Old(o), left[k].document = left[o].document
      PROVE  ~Under(left[k].path, left[o].path) /\ ~Under(left[o].path, left[k].path)
  <2>1. PICK q, v, seg, z : q = left[o].path /\ v = left[k].path /\ seg = Seg(k) /\ z = o - n + 1
      OBVIOUS
  <2>2. z \in DOMAIN calls /\ z # 1 /\ q = calls[z].path /\ calls[z].document = call.document
      BY <1>8, <1>9, <2>1, Zenon
  <2>3. q \in Seq(Characters) /\ ~Under(call.path, q) /\ ~Under(q, call.path)
      BY <1>5, <1>6, <2>2, Zenon DEF Apart
  <2>4. v = call.path \o seg /\ seg \in Seq(Characters) /\ Len(seg) >= 1 /\ seg[1] \in {".", "["}
      BY <1>7, <1>9, <2>1, Zenon
  <2> HIDE DEF Seg, Kid, Old
  <2>5. /\ Under(v, q) => Under(call.path, q)
        /\ Under(q, v) => Under(q, call.path) \/ Under(call.path, q)
    <3>1. PICK p : p = call.path
        OBVIOUS
    <3>2. p \in Seq(Characters) /\ v = p \o seg /\ q \in Seq(Characters)
        BY <1>3, <2>3, <2>4, <3>1
    <3>3. Len(seg) >= 1 /\ seg[1] \in {".", "["} /\ seg \in Seq(Characters)
        BY <2>4
    <3>4. /\ Under(v, q) => Under(p, q)
          /\ Under(q, v) => Under(q, p) \/ Under(p, q)
        BY <3>2, <3>3, UnderLonger
    <3>q. QED
        BY <3>1, <3>4
  <2>q. QED
      BY <2>1, <2>3, <2>5
<1>10. CASE Kid(i) /\ Kid(j)
  <2>1. PICK s, t, v, w : s = Seg(i) /\ t = Seg(j) /\ v = left[i].path /\ w = left[j].path
      OBVIOUS
  <2>2. v = call.path \o s /\ w = call.path \o t /\ s \in Seq(Characters) /\ t \in Seq(Characters)
      BY <1>7, <1>10, <2>1, Zenon
  <2>3. ~Under(s, t)
      BY <1>3, <1>10, <2>1, SiblingsApart, Zenon
  <2> HIDE DEF Seg, Kid, Old
  <2>4. PICK p : p = call.path
      OBVIOUS
  <2>5. p \in Seq(Characters) /\ v = p \o s /\ w = p \o t /\ Under(v, w)
      BY <1>3, <2>1, <2>2, <2>4
  <2>6. s \in Seq(Characters) /\ t \in Seq(Characters)
      BY <2>2
  <2>7. Under(s, t)
      BY <2>5, <2>6, UnderSame
  <2>q. QED
      BY <2>3, <2>7
<1>11. CASE Old(i) /\ Old(j)
  <2>1. /\ i - n + 1 \in DOMAIN calls /\ j - n + 1 \in DOMAIN calls
        /\ left[i] = calls[i - n + 1] /\ left[j] = calls[j - n + 1]
      BY <1>8, <1>11, Zenon
  <2>2. i - n + 1 # j - n + 1
    <3>1. i \in Int /\ j \in Int
      <4>1. left \in Seq(Calls)
          BY VisitCalls
      <4>q. QED
          BY <4>1
    <3>q. QED
        BY <1>4, <3>1
  <2>q. QED
      BY <2>1, <2>2, Zenon DEF Apart
<1>q. QED
    BY <1>2, <1>9, <1>10, <1>11, Zenon

\* A visit enters a node that no record stands for, and leaves calls that no
\* record lies below.
LEMMA VisitUnseen ==
    ASSUME NEW calls \in Seq(Calls), calls # <<>>, Apart(calls), NEW call, call = calls[1],
           NEW id \in Ids, id[1] = call.document, id[2] = call.path,
           NEW left, left = Remaining(call, calls, id),
           NEW all \in Seq(Entered), Unseen(all, calls), Told(all),
           Labelled(all), NEW entry, entry = Entry(call, id), NEW more, more = Append(all, entry)
    PROVE  Unseen(more, left) /\ Told(more)
<1>1. PICK node, n, p : node = call.value /\ n = Len(node.entries) /\ p = call.path
    OBVIOUS
<1> DEFINE Seg(k) == Segment(node.entries[k].key, node.array)
           Kid(k) == /\ k \in DOMAIN node.entries
                     /\ left[k].path = p \o Seg(k)
                     /\ left[k].document = call.document
           Old(k) == /\ k - n + 1 \in 2 .. Len(calls)
                     /\ left[k] = calls[k - n + 1]
<1>2. /\ call \in Calls
      /\ \A k \in DOMAIN left : Kid(k) \/ Old(k)
  <2>1. call \in Calls /\ Follow(left, calls, call, id)
      BY VisitCalls
  <2>q. QED
      BY <1>1, <2>1, Zenon DEF Follow
<1>3. node \in Nodes /\ p \in Seq(Characters)
    BY <1>1, <1>2 DEF Calls
<1>4. /\ n \in Nat /\ DOMAIN node.entries = 1 .. n
      /\ \A k \in DOMAIN node.entries : node.entries[k].key \in Seq(Characters)
    BY <1>1, <1>3, EntryType
<1>5. /\ Len(calls) \in Nat /\ DOMAIN calls = 1 .. Len(calls) /\ 1 \in DOMAIN calls
    OBVIOUS
<1>6. \A k \in DOMAIN left : Old(k) => k - n + 1 \in DOMAIN calls /\ k - n + 1 # 1
    BY <1>5
<1>7. \A k \in DOMAIN node.entries :
          /\ Seg(k) \in Seq(Characters) /\ Len(Seg(k)) >= 1 /\ Seg(k)[1] \in {".", "["}
    BY <1>3, <1>4, ChildPath
<1>8. entry \in Entered /\ entry.id = id /\ entry.path = p
    BY <1>1, <1>2, EntryParts, Zenon
<1>9. /\ DOMAIN more = 1 .. Len(all) + 1 /\ DOMAIN all = 1 .. Len(all) /\ Len(all) \in Nat
      /\ \A r \in DOMAIN all : more[r] = all[r]
      /\ more[Len(all) + 1] = entry
  <2>1. /\ more \in Seq(Entered) /\ Len(more) = Len(all) + 1 /\ Len(all) \in Nat
        /\ \A r \in 1 .. Len(all) : more[r] = all[r]
        /\ more[Len(all) + 1] = entry
      BY <1>8, AppendParts
  <2>2. DOMAIN more = 1 .. Len(more) /\ DOMAIN all = 1 .. Len(all)
      BY <2>1
  <2>q. QED
      BY <2>1, <2>2, Zenon
<1>10. \A r \in DOMAIN more : r \in DOMAIN all \/ r = Len(all) + 1
  <2>1. \A l \in Nat : \A r \in 1 .. l + 1 : r \in 1 .. l \/ r = l + 1
      OBVIOUS
  <2>q. QED
      BY <1>9, <2>1, Zenon
<1>11. id[1] = call.document /\ id[2] = p
    BY <1>1
<1>12. \A r \in DOMAIN all : all[r].id[1] = call.document => ~Under(p, all[r].path)
    BY <1>1, <1>5, Zenon DEF Unseen
<1>13. \A r \in DOMAIN all : all[r].path \in Seq(Characters)
  <2>1. \A x \in Entered : x.path \in Seq(Characters)
      BY DEF Entered
  <2>2. \A r \in 1 .. Len(all) : all[r] \in Entered
      BY ElementOfSeq
  <2>q. QED
      BY <1>9, <2>1, <2>2, Zenon
<1>14. ASSUME NEW r \in DOMAIN more, NEW k \in DOMAIN left, more[r].id[1] = left[k].document
       PROVE  ~Under(left[k].path, more[r].path)
  <2>1. CASE Kid(k)
    <3>1. PICK v, seg : v = left[k].path /\ seg = Seg(k)
        OBVIOUS
    <3>2. v = p \o seg /\ seg \in Seq(Characters) /\ Len(seg) >= 1 /\ seg[1] \in {".", "["}
        BY <1>7, <2>1, <3>1, Zenon
    <3>3. left[k].document = call.document
        BY <2>1, Zenon
    <3> HIDE DEF Seg, Kid, Old
    <3>4. \A q \in Seq(Characters) : Under(v, q) => Under(p, q)
        BY <1>3, <3>2, UnderLonger
    <3>5. ~Under(v, p)
        BY <1>3, <3>2, UnderLonger
    <3>6. CASE r \in DOMAIN all
      <4>1. more[r] = all[r] /\ all[r].path \in Seq(Characters) /\ ~Under(p, all[r].path)
          BY <1>9, <1>12, <1>13, <1>14, <3>3, <3>6, Zenon
      <4>q. QED
          BY <3>1, <3>4, <4>1, Zenon
    <3>7. CASE r = Len(all) + 1
        BY <1>8, <1>9, <3>1, <3>5, <3>7, Zenon
    <3>q. QED
        BY <1>10, <3>6, <3>7, Zenon
  <2>2. CASE Old(k)
    <3>1. PICK z : z = k - n + 1
        OBVIOUS
    <3>2. z \in DOMAIN calls /\ z # 1 /\ left[k] = calls[z]
        BY <1>6, <2>2, <3>1, Zenon
    <3> HIDE DEF Seg, Kid, Old
    <3>3. CASE r \in DOMAIN all
      <4>1. more[r] = all[r] /\ all[r].id[1] = calls[z].document
          BY <1>9, <1>14, <3>2, <3>3, Zenon
      <4>q. QED
          BY <3>2, <3>3, <4>1, Zenon DEF Unseen
    <3>4. CASE r = Len(all) + 1
      <4>1. more[r] = entry /\ calls[z].document = call.document
          BY <1>8, <1>9, <1>11, <1>14, <3>2, <3>4, Zenon
      <4>2. ~Under(calls[z].path, call.path)
          BY <1>5, <3>2, <4>1, Zenon DEF Apart
      <4>q. QED
          BY <1>1, <1>8, <3>2, <4>1, <4>2, Zenon
    <3>q. QED
        BY <1>10, <3>3, <3>4, Zenon
  <2>q. QED
      BY <1>2, <2>1, <2>2, Zenon
<1> HIDE DEF Seg, Kid, Old
<1>15. \A r \in DOMAIN all : all[r].id # id
  <2> SUFFICES ASSUME NEW r \in DOMAIN all, all[r].id = id PROVE FALSE
      OBVIOUS
  <2>1. all[r].id[1] = call.document /\ all[r].path = p
      BY <1>11, Zenon DEF Labelled
  <2>2. Under(p, p)
      BY <1>3 DEF Under
  <2>q. QED
      BY <1>12, <2>1, <2>2, Zenon
<1>16. Told(more)
  <2> SUFFICES ASSUME NEW r \in DOMAIN more, NEW s \in DOMAIN more, r # s PROVE more[r].id # more[s].id
      BY DEF Told
  <2>1. CASE r \in DOMAIN all /\ s \in DOMAIN all
      BY <1>9, <2>1, Zenon DEF Told
  <2>2. CASE r \in DOMAIN all /\ s = Len(all) + 1
      BY <1>8, <1>9, <1>15, <2>2, Zenon
  <2>3. CASE r = Len(all) + 1 /\ s \in DOMAIN all
      BY <1>8, <1>9, <1>15, <2>3, Zenon
  <2>q. QED
      BY <1>10, <2>1, <2>2, <2>3, Zenon
<1>17. Unseen(more, left)
    BY <1>14, Zenon DEF Unseen
<1>q. QED
    BY <1>16, <1>17

\* The ancestors of a node stay entered.
LEMMA WayLonger ==
    ASSUME NEW all \in Seq(Entered), NEW entry \in Entered, NEW more, more = Append(all, entry),
           NEW ids, NEW path, NEW n \in Nat, n <= Len(all), Way(all, ids, path, n),
           NEW m \in Nat, n <= m
    PROVE  Way(more, ids, path, m)
<1>1. Len(all) \in Nat /\ \A r \in 1 .. Len(all) : more[r] = all[r]
    BY AppendParts
<1>2. \A s \in 1 .. n : s \in 1 .. Len(all) /\ s \in 1 .. m
    BY <1>1
<1>q. QED
    BY <1>1, <1>2, Zenon DEF Way

\* The ancestors of an entry are those of its node, and the node.
LEMMA WayDown ==
    ASSUME NEW all \in Seq(Entered), NEW call \in Calls, NEW id \in Ids,
           Way(all, call.ancestorIds, call.path, Len(all)),
           Len(call.path) >= 1, NEW seg \in Seq(Characters), Len(seg) >= 1,
           NEW entry, entry = Entry(call, id), ~entry.scalar,
           NEW more, more = Append(all, entry),
           NEW ids, ids = Append(call.ancestorIds, id)
    PROVE  Way(more, ids, call.path \o seg, Len(all) + 1)
<1>1. PICK old, p, path : old = call.ancestorIds /\ p = call.path /\ path = p \o seg
    OBVIOUS
<1>2. old \in Seq(Ids) /\ p \in Seq(Characters) /\ Len(p) >= 1
    BY <1>1 DEF Calls
<1>3. path # <<"$">>
  <2>1. Len(path) = Len(p) + Len(seg) /\ Len(p) \in Nat /\ Len(seg) \in Nat
      BY <1>1, <1>2
  <2>2. Len(path) >= 2
      BY <1>2, <2>1
  <2>3. Len(<<"$">>) = 1 /\ ~(1 >= 2)
      OBVIOUS
  <2>q. QED
      BY <2>2, <2>3, Zenon
<1>4. /\ ids \in Seq(Ids) /\ Len(ids) = Len(old) + 1 /\ Len(old) \in Nat
      /\ \A a \in 1 .. Len(old) : ids[a] = old[a]
      /\ ids[Len(old) + 1] = id
  <2>1. ids = Append(old, id)
      BY <1>1
  <2>q. QED
      BY <1>2, <2>1, AppendParts
<1>5. ids # <<>>
    BY <1>4
<1>6. /\ entry \in Entered /\ entry.id = id /\ entry.ancestorIds = old
    BY <1>1, EntryParts, Zenon
<1>7. /\ Len(all) \in Nat /\ \A r \in 1 .. Len(all) : more[r] = all[r]
      /\ more[Len(all) + 1] = entry
    BY <1>6, AppendParts
<1>8. \A a \in 1 .. Len(ids) : SubSeq(ids, 1, a - 1) = SubSeq(old, 1, a - 1)
  <2> SUFFICES ASSUME NEW a \in 1 .. Len(ids) PROVE SubSeq(ids, 1, a - 1) = SubSeq(old, 1, a - 1)
      OBVIOUS
  <2>1. PICK c, d : c = SubSeq(ids, 1, a - 1) /\ d = SubSeq(old, 1, a - 1)
      OBVIOUS
  <2>2. a - 1 \in Nat /\ a - 1 <= Len(old) /\ a - 1 <= Len(ids) /\ Len(ids) \in Nat
        /\ \A i \in 1 .. a - 1 : i \in 1 .. Len(old)
      BY <1>4
  <2>3. c \in Seq(Ids) /\ Len(c) = a - 1 /\ \A i \in 1 .. a - 1 : c[i] = ids[i]
      BY <1>4, <2>1, <2>2
  <2>4. d \in Seq(Ids) /\ Len(d) = a - 1 /\ \A i \in 1 .. a - 1 : d[i] = old[i]
      BY <1>2, <2>1, <2>2
  <2>5. \A i \in 1 .. Len(c) : c[i] = d[i]
      BY <1>4, <2>2, <2>3, <2>4
  <2>6. c = d
      BY <2>3, <2>4, <2>5, SeqEqual
  <2>q. QED
      BY <2>1, <2>6
<1>9. SubSeq(old, 1, Len(old)) = old
    BY <1>2
<1>10. ASSUME NEW a \in DOMAIN ids PROVE \E s \in 1 .. Len(all) + 1 : Stands(more[s], ids, a)
  <2>1. a \in 1 .. Len(ids) /\ DOMAIN old = 1 .. Len(old)
      BY <1>2, <1>4, <1>10
  <2>2. CASE a \in 1 .. Len(old)
    <3>1. PICK s \in 1 .. Len(all) : Stands(all[s], old, a)
        BY <1>1, <2>1, <2>2, Zenon DEF Way
    <3>2. s \in 1 .. Len(all) + 1 /\ more[s] = all[s]
        BY <1>7
    <3>3. ids[a] = old[a] /\ SubSeq(ids, 1, a - 1) = SubSeq(old, 1, a - 1)
        BY <1>4, <1>8, <2>1, <2>2, Zenon
    <3>4. Stands(more[s], ids, a)
        BY <3>1, <3>2, <3>3, Zenon DEF Stands
    <3>q. QED
        BY <3>2, <3>4, Zenon
  <2>3. CASE a = Len(old) + 1
    <3>1. Len(all) + 1 \in 1 .. Len(all) + 1 /\ a - 1 = Len(old)
        BY <1>4, <1>7, <2>3
    <3>2. entry.id = ids[a]
        BY <1>4, <1>6, <2>3, Zenon
    <3>3. entry.ancestorIds = SubSeq(ids, 1, a - 1)
        BY <1>6, <1>8, <1>9, <2>1, <3>1, Zenon
    <3>4. Stands(more[Len(all) + 1], ids, a)
        BY <1>7, <3>2, <3>3, Zenon DEF Stands
    <3>q. QED
        BY <3>1, <3>4, Zenon
  <2>4. a \in 1 .. Len(old) \/ a = Len(old) + 1
    <3>1. \A l \in Nat : \A x \in 1 .. l + 1 : x \in 1 .. l \/ x = l + 1
        OBVIOUS
    <3>2. a \in 1 .. Len(old) + 1 /\ Len(old) \in Nat
        BY <1>4, <2>1
    <3>q. QED
        BY <3>1, <3>2, Zenon
  <2>q. QED
      BY <2>2, <2>3, <2>4, Zenon
<1>11. ids = <<>> <=> path = <<"$">>
    BY <1>3, <1>5, Zenon
<1>12. Way(more, ids, path, Len(all) + 1)
    BY <1>10, <1>11, Zenon DEF Way
<1>q. QED
    BY <1>1, <1>12, Zenon

\* Every visit keeps the invariant.
LEMMA VisitKeepsInv ==
    ASSUME TreeInv, Visit
    PROVE  TreeInv'
<1>1. PICK calls, all : calls = pending /\ all = records
    OBVIOUS
<1>2. PICK call : call = Head(calls)
    OBVIOUS
<1>3. PICK id : id = <<call.document, call.path>>
    OBVIOUS
<1>4. PICK left, entry : left = pending' /\ entry = Entry(call, id)
    OBVIOUS
<1>5. PICK more : more = records'
    OBVIOUS
<1>6. calls # <<>> /\ left = Remaining(call, calls, id) /\ more = Append(all, entry)
    BY <1>1, <1>2, <1>3, <1>4, <1>5, VisitParts, Zenon
<1>7. calls \in Seq(Calls) /\ all \in Seq(Entered) /\ Apart(calls) /\ Unseen(all, calls) /\ Told(all)
    BY <1>1, Zenon DEF TreeInv, TreeTypes
<1>8. /\ \A i \in DOMAIN calls : Len(calls[i].path) >= 1
      /\ Labelled(all)
    BY <1>1, Zenon DEF TreeInv, TreeTypes
<1>9. /\ \A r \in DOMAIN all : Way(all, all[r].ancestorIds, all[r].path, r - 1)
      /\ \A i \in DOMAIN calls : Way(all, calls[i].ancestorIds, calls[i].path, Len(all))
    BY <1>1, Zenon DEF TreeInv
<1>10. call = calls[1] /\ 1 \in DOMAIN calls /\ call \in Calls
    BY <1>2, <1>6, <1>7
<1>11. call.document \in Nat /\ call.path \in Seq(Characters) /\ call.value \in Nodes
    BY <1>10 DEF Calls
<1>12. id \in Ids /\ id[2] = call.path
    BY <1>3, <1>11 DEF Ids
<1>13. left \in Seq(Calls) /\ Follow(left, calls, call, id)
    BY <1>6, <1>7, <1>10, <1>12, VisitCalls
<1>14. Apart(left)
    BY <1>6, <1>7, <1>10, <1>12, VisitApart
<1>15. Unseen(more, left) /\ Told(more)
  <2>1. Labelled(all) /\ call = calls[1] /\ id \in Ids /\ id[1] = call.document /\ id[2] = call.path
      BY <1>3, <1>8, <1>10, <1>12
  <2>q. QED
      BY <1>4, <1>6, <1>7, <2>1, VisitUnseen
<1>16. entry \in Entered /\ entry.id = id /\ entry.path = call.path /\ entry.ancestorIds = call.ancestorIds
    BY <1>4, <1>10, <1>12, EntryParts, Zenon
<1>17. /\ more \in Seq(Entered) /\ Len(more) = Len(all) + 1 /\ Len(all) \in Nat
       /\ \A r \in 1 .. Len(all) : more[r] = all[r]
       /\ more[Len(all) + 1] = entry
    BY <1>6, <1>7, <1>16, AppendParts
<1>18. DOMAIN more = 1 .. Len(all) + 1 /\ DOMAIN all = 1 .. Len(all)
    BY <1>7, <1>17
<1>19. \A l \in Nat : /\ \A r \in 1 .. l + 1 : r \in 1 .. l \/ r = l + 1
                      /\ \A r \in 1 .. l : r - 1 \in Nat /\ r - 1 <= l /\ r - 1 <= r - 1
                      /\ l + 1 - 1 = l /\ l <= l /\ l <= l + 1 /\ l + 1 \in Nat
    OBVIOUS
<1>20. \A r \in DOMAIN more : r \in 1 .. Len(all) \/ r = Len(all) + 1
    BY <1>17, <1>18, <1>19, Zenon
<1>21. Labelled(more)
  <2> SUFFICES ASSUME NEW r \in DOMAIN more PROVE more[r].id[2] = more[r].path
      BY DEF Labelled
  <2>1. CASE r \in 1 .. Len(all)
      BY <1>8, <1>17, <1>18, <2>1, Zenon DEF Labelled
  <2>2. CASE r = Len(all) + 1
      BY <1>12, <1>16, <1>17, <2>2, Zenon
  <2>q. QED
      BY <1>20, <2>1, <2>2, Zenon
<1>22. \A ids, path : \A n, m \in Nat : n <= Len(all) /\ n <= m /\ Way(all, ids, path, n) => Way(more, ids, path, m)
    BY <1>6, <1>7, <1>16, WayLonger
<1>23. ASSUME NEW r \in DOMAIN more PROVE Way(more, more[r].ancestorIds, more[r].path, r - 1)
  <2>1. CASE r \in 1 .. Len(all)
    <3>1. r - 1 \in Nat /\ r - 1 <= Len(all) /\ r - 1 <= r - 1
        BY <1>17, <1>19, <2>1, Zenon
    <3>2. Way(all, all[r].ancestorIds, all[r].path, r - 1) /\ more[r] = all[r]
        BY <1>9, <1>17, <1>18, <2>1, Zenon
    <3>q. QED
        BY <1>22, <3>1, <3>2, Zenon
  <2>2. CASE r = Len(all) + 1
    <3>1. Way(all, call.ancestorIds, call.path, Len(all)) /\ Len(all) <= Len(all)
        BY <1>9, <1>10, <1>17, <1>19, Zenon
    <3>2. r - 1 = Len(all) /\ more[r] = entry
      <4>1. Len(all) \in Nat
          BY <1>17
      <4>2. r - 1 = Len(all)
          BY <2>2, <4>1
      <4>q. QED
          BY <1>17, <2>2, <4>2, Zenon
    <3>q. QED
        BY <1>16, <1>17, <1>22, <3>1, <3>2, Zenon
  <2>q. QED
      BY <1>20, <2>1, <2>2, Zenon
<1>24. ASSUME NEW i \in DOMAIN left
       PROVE  Len(left[i].path) >= 1 /\ Way(more, left[i].ancestorIds, left[i].path, Len(more))
  <2>1. CASE /\ i \in DOMAIN call.value.entries
             /\ left[i].path = call.path \o Segment(call.value.entries[i].key, call.value.array)
             /\ left[i].document = call.document
             /\ left[i].ancestorIds = Append(call.ancestorIds, id)
    <3>1. PICK seg, ids : /\ seg = Segment(call.value.entries[i].key, call.value.array)
                          /\ ids = Append(call.ancestorIds, id)
        OBVIOUS
    <3>2. call.value.entries[i].key \in Seq(Characters)
        BY <1>11, <2>1, EntryType, Zenon
    <3>3. seg \in Seq(Characters) /\ Len(seg) >= 1 /\ Len(seg) \in Nat
        BY <1>11, <3>1, <3>2, ChildPath, Zenon
    <3>4. ~entry.scalar
        BY <1>4, <1>10, <1>12, <2>1, EntryCollection, Zenon
    <3>5. Way(all, call.ancestorIds, call.path, Len(all)) /\ Len(call.path) >= 1
        BY <1>8, <1>9, <1>10, Zenon
    <3>6. Way(more, ids, call.path \o seg, Len(all) + 1)
        BY <1>4, <1>6, <1>7, <1>10, <1>12, <3>1, <3>3, <3>4, <3>5, WayDown
    <3>7. Len(call.path \o seg) >= 1
        BY <1>11, <3>3
    <3>q. QED
        BY <1>17, <2>1, <3>1, <3>6, <3>7, Zenon
  <2>2. CASE /\ i - Len(call.value.entries) + 1 \in 2 .. Len(calls)
             /\ left[i] = calls[i - Len(call.value.entries) + 1]
    <3>1. PICK z : z = i - Len(call.value.entries) + 1
        OBVIOUS
    <3>2. z \in DOMAIN calls
      <4>1. \A l \in Nat : \A x \in 2 .. l : x \in 1 .. l
          OBVIOUS
      <4>2. DOMAIN calls = 1 .. Len(calls) /\ Len(calls) \in Nat
          BY <1>7
      <4>q. QED
          BY <2>2, <3>1, <4>1, <4>2, Zenon
    <3>3. /\ left[i] = calls[z] /\ Len(calls[z].path) >= 1
          /\ Way(all, calls[z].ancestorIds, calls[z].path, Len(all))
        BY <1>8, <1>9, <2>2, <3>1, <3>2, Zenon
    <3>4. Len(all) \in Nat /\ Len(all) <= Len(all) /\ Len(all) <= Len(all) + 1 /\ Len(all) + 1 \in Nat
        BY <1>17, <1>19, Zenon
    <3>5. Way(more, calls[z].ancestorIds, calls[z].path, Len(all) + 1)
        BY <1>22, <3>3, <3>4, Zenon
    <3>q. QED
        BY <1>17, <3>3, <3>5, Zenon
  <2>q. QED
      BY <1>13, <2>1, <2>2, Zenon DEF Follow
<1>q. QED
    BY <1>4, <1>5, <1>13, <1>14, <1>15, <1>17, <1>21, <1>23, <1>24, Zenon DEF TreeInv, TreeTypes

\* The calls for the documents.
LEMMA RootsKeepInv ==
    ASSUME NEW roots \in Seq(Nodes), pending = RootCalls(roots), records = <<>>
    PROVE  TreeInv
<1>1. PICK n, root : n = Len(roots) /\ root = <<"r", "o", "o", "t">>
    OBVIOUS
<1>2. n \in Nat /\ DOMAIN roots = 1 .. n /\ \A i \in 1 .. n : roots[i] \in Nodes
    BY <1>1
<1>3. root \in Seq(Characters) /\ <<"$">> \in Seq(Characters) /\ Len(<<"$">>) = 1 /\ 1 >= 1
  <2>1. "r" \in Characters /\ "o" \in Characters /\ "t" \in Characters /\ "$" \in Characters
      BY TextAssumption
  <2>q. QED
      BY <1>1, <2>1
<1>4. pending = [i \in 1 .. n |-> Call(roots[i], root, <<"$">>, i, <<>>)]
    BY <1>1, <1>2, Zenon DEF RootCalls
<1>5. ASSUME NEW i \in 1 .. n
      PROVE  /\ Call(roots[i], root, <<"$">>, i, <<>>) \in Calls
             /\ Call(roots[i], root, <<"$">>, i, <<>>).path = <<"$">>
             /\ Call(roots[i], root, <<"$">>, i, <<>>).document = i
             /\ Call(roots[i], root, <<"$">>, i, <<>>).ancestorIds = <<>>
  <2>1. roots[i] \in Nodes /\ i \in Nat /\ <<>> \in Seq(Ids)
      BY <1>2
  <2>2. PICK c, top : top = <<"$">> /\ c = Call(roots[i], root, top, i, <<>>)
      OBVIOUS
  <2>3. top \in Seq(Characters)
      BY <1>3, <2>2
  <2>4. c \in Calls /\ c.path = top /\ c.document = i /\ c.ancestorIds = <<>>
      BY <1>3, <2>1, <2>2, <2>3 DEF Calls, Call
  <2>q. QED
      BY <2>2, <2>4, Zenon
<1>6. /\ pending \in Seq(Calls) /\ DOMAIN pending = 1 .. n
  <2> DEFINE C(i) == Call(roots[i], root, <<"$">>, i, <<>>)
  <2>1. pending = [i \in 1 .. n |-> C(i)] /\ \A i \in 1 .. n : C(i) \in Calls
      BY <1>4, <1>5, Zenon
  <2> HIDE DEF C
  <2>q. QED
      BY <1>2, <2>1
<1>7. \A i \in DOMAIN pending : pending[i].path = <<"$">> /\ pending[i].document = i /\ pending[i].ancestorIds = <<>>
    BY <1>4, <1>5, <1>6, ZenonT(40)
<1>8. records \in Seq(Entered) /\ DOMAIN records = {} /\ DOMAIN <<>> = {}
    OBVIOUS
<1>9. TreeTypes
    BY <1>3, <1>6, <1>7, <1>8, Zenon DEF TreeTypes, Labelled
<1>10. Apart(pending)
    BY <1>7, Zenon DEF Apart
<1>11. Unseen(records, pending) /\ Told(records)
    BY <1>8, Zenon DEF Unseen, Told
<1>12. \A i \in DOMAIN pending : Way(records, pending[i].ancestorIds, pending[i].path, Len(records))
    BY <1>7, <1>8, Zenon DEF Way
<1>q. QED
    BY <1>8, <1>9, <1>10, <1>11, <1>12, Zenon DEF TreeInv

\* The invariant of the walk, for every tree whose keys differ within a collection.
THEOREM TreeInvariant == SearchSpec => []TreeInv
<1>1. SearchInit => TreeInv
  <2> SUFFICES ASSUME SearchInit PROVE TreeInv
      OBVIOUS
  <2>1. CASE tree \in Trees /\ pending = RootCalls(tree) /\ records = <<>>
    <3>1. tree \in Seq(Nodes)
        BY <2>1, TreeAssumption
    <3>q. QED
        BY <2>1, <3>1, RootsKeepInv
  <2>2. CASE pending = <<>> /\ records = <<>>
    <3>1. <<>> \in Seq(Nodes) /\ RootCalls(<<>>) = <<>>
        BY DEF RootCalls
    <3>q. QED
        BY <2>2, <3>1, RootsKeepInv
  <2>q. QED
      BY <2>1, <2>2, Zenon DEF SearchInit
<1>2. TreeInv /\ [SearchNext]_searchVars => TreeInv'
  <2> SUFFICES ASSUME TreeInv, [SearchNext]_searchVars PROVE TreeInv'
      OBVIOUS
  <2>1. ASSUME UNCHANGED indexVars PROVE TreeInv'
    <3>1. pending' = pending /\ records' = records
        BY <2>1, Zenon DEF indexVars
    <3>q. QED
        BY <3>1, ZenonT(30) DEF TreeInv, TreeTypes
  <2>2. CASE Visit
      BY <2>2, VisitKeepsInv
  <2>3. CASE PushMatch
      BY <2>1, <2>3, Zenon DEF PushMatch
  <2>4. CASE PushRest
      BY <2>1, <2>4, Zenon DEF PushRest
  <2>5. CASE UNCHANGED searchVars
      BY <2>1, <2>5, Zenon DEF searchVars, indexVars
  <2>q. QED
      BY <2>2, <2>3, <2>4, <2>5, Zenon DEF SearchNext
<1>q. QED
    BY <1>1, <1>2, PTL DEF SearchSpec

\* TreePathsIdentifyNodes for all trees, whatever characters the keys hold.
THEOREM TreePathsAlwaysIdentifyNodes == SearchSpec => []TreePathsIdentifyNodes
<1>1. TreeInv => TreePathsIdentifyNodes
    BY Zenon DEF TreeInv, Told, Way, Stands, TreePathsIdentifyNodes
<1>q. QED
    BY <1>1, TreeInvariant, PTL

=============================================================================

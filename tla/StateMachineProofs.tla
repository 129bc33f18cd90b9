------------------------- MODULE StateMachineProofs -------------------------
(***************************************************************************)
(* Theorems of the keyboard state machine, for every layout, every set of  *)
(* keys and every order of events:                                         *)
(*   TypeCorrect   every field keeps its type;                             *)
(*   ConsumedKeysAreHeld   a key consumed by a chord is held;              *)
(*   DeadlineIsEarliest    chord_deadline covers the tentative buffer.     *)
(* The lemmas on the helpers come first: least elements, the elements a    *)
(* filter retains, the chars a rewrite leaves and pushes, and the earliest *)
(* deadline.                                                               *)
(***************************************************************************)
EXTENDS StateMachine, TLAPS, FiniteSetTheorems, SequenceTheorems

-----------------------------------------------------------------------------
(* Elements of sequences.                                                  *)

(* An element of a sequence over S is in S. *)
LEMMA SeqElement ==
  ASSUME NEW S, NEW s \in Seq(S), NEW i \in DOMAIN s
  PROVE  s[i] \in S
OBVIOUS

(* A sequence is the function of its elements. *)
LEMMA SeqIsFunction ==
  ASSUME NEW S, NEW s \in Seq(S)
  PROVE  s = [i \in 1..Len(s) |-> s[i]]
OBVIOUS

(* The empty sequence is a sequence over any set. *)
LEMMA NoElements == \A S : <<>> \in Seq(S)
OBVIOUS

-----------------------------------------------------------------------------
(* Least and greatest elements.                                            *)

(* A non-empty set of naturals has a least element. *)
LEMMA LeastNat ==
  ASSUME NEW D \in SUBSET Nat, D # {}
  PROVE  \E x \in D : \A y \in D : x <= y
<1>1. PICK x \in D : \A y \in D : ~ (<<y, x>> \in OpToRel(<, Nat))
  BY NatLessThanWellFounded, WFMin
<1>2. \A y \in D : <<y, x>> \in Nat \X Nat
  OBVIOUS
<1>3. \A y \in D : ~(y < x)
  BY <1>1, <1>2 DEF OpToRel
<1>. QED  BY <1>3

(* Min of a non-empty set of naturals is in it and below all of it. *)
LEMMA MinOfNats ==
  ASSUME NEW D \in SUBSET Nat, D # {}
  PROVE  /\ Min(D) \in D
         /\ \A y \in D : Min(D) <= y
<1>1. \E x \in D : \A y \in D : x <= y
  BY LeastNat
<1>. QED  BY <1>1 DEF Min

(* Max of 0 and some indices below n is 0 or one of them. *)
LEMMA MaxOfIndices ==
  ASSUME NEW n \in Nat, NEW L \in SUBSET (1..n)
  PROVE  /\ Max({0} \cup L) \in 0..n
         /\ Max({0} \cup L) \in {0} \cup L
         /\ \A x \in L : x <= Max({0} \cup L)
<1>. DEFINE D == {m \in 0..n : n - m \in {0} \cup L}
<1>1. D \in SUBSET Nat /\ n \in D
  OBVIOUS
<1>2. PICK m \in D : \A y \in D : m <= y
  BY <1>1, LeastNat
<1>3. /\ n - m \in {0} \cup L
      /\ \A x \in {0} \cup L : n - m >= x
  <2>1. n - m \in {0} \cup L
    BY <1>2
  <2>2. ASSUME NEW x \in {0} \cup L  PROVE n - m >= x
    <3>1. n - x \in D
      OBVIOUS
    <3>. QED  BY <3>1, <1>2
  <2>. QED  BY <2>1, <2>2
<1>4. \E x \in {0} \cup L : \A y \in {0} \cup L : x >= y
  BY <1>3
<1>5. /\ Max({0} \cup L) \in {0} \cup L
      /\ \A y \in {0} \cup L : Max({0} \cup L) >= y
  BY <1>4 DEF Max
<1>6. \A g : /\ g \in {0} \cup L
             /\ \A y \in {0} \cup L : g >= y
             => /\ g \in 0..n
                /\ \A x \in L : x <= g
  OBVIOUS
<1>. QED  BY <1>5, <1>6

-----------------------------------------------------------------------------
(* Recursion over 0..n.                                                    *)

(* Induction up to n: a set that has 0 and, with i - 1, has i.             *)
LEMMA UpTo ==
  ASSUME NEW n \in Nat, NEW P, 0 \in P, \A i \in 1..n : i - 1 \in P => i \in P
  PROVE  \A i \in 0..n : i \in P
<1>. DEFINE Bad == {i \in 0..n : i \notin P}
<1>1. ASSUME Bad # {}  PROVE FALSE
  <2>0. Bad \in SUBSET Nat
    OBVIOUS
  <2>1. PICK i \in Bad : \A y \in Bad : i <= y
    <3>. HIDE DEF Bad
    <3>. QED  BY <1>1, <2>0, LeastNat
  <2>2. i \in 1..n /\ i - 1 \in 0..n /\ ~(i <= i - 1)
    BY <2>1
  <2>. QED  BY <2>1, <2>2
<1>. QED  BY <1>1

(* A step taken n times from a base gives a sequence of values.            *)
Iterates(f, n, base, step) ==
  f[0] = base /\ \A i \in 1..n : f[i] = step[<<f[i - 1], i>>]

LEMMA Iteration ==
  ASSUME NEW V, NEW n \in Nat, NEW base \in V, NEW step \in [V \X (1..n) -> V]
  PROVE  \E f \in [0..n -> V] : Iterates(f, n, base, step)
<1>. USE DEF Iterates
<1>. DEFINE Runs(m) == \E f \in [0..m -> V] : Iterates(f, m, base, step)
            P == {m \in 0..n : Runs(m)}
<1>1. 0 \in P
  <2>1. [i \in 0..0 |-> base] \in [0..0 -> V]
    OBVIOUS
  <2>2. Runs(0)
    <3>. DEFINE b == [i \in 0..0 |-> base]
    <3>1. b[0] = base /\ b \in [0..0 -> V] /\ \A i \in 1..0 : b[i] = step[<<b[i - 1], i>>]
      OBVIOUS
    <3>. QED  BY <3>1
  <2>. QED  BY <2>2
<1>2. ASSUME NEW m \in 1..n, m - 1 \in P  PROVE m \in P
  <2>0. Runs(m - 1)
    BY <1>2
  <2>1. PICK f \in [0..(m - 1) -> V] : Iterates(f, m - 1, base, step)
    BY <2>0
  <2>. DEFINE g == [i \in 0..m |-> IF i = m THEN step[<<f[m - 1], m>>] ELSE f[i]]
  <2>2. f[m - 1] \in V /\ step[<<f[m - 1], m>>] \in V
    BY <1>2
  <2>3. g \in [0..m -> V]
    BY <2>2
  <2>4. g[0] = base /\ \A i \in 1..m : g[i] = step[<<g[i - 1], i>>]
    <3>1. \A i \in 0..(m - 1) : g[i] = f[i] /\ i \in 0..m
      BY <1>2
    <3>2. g[m] = step[<<g[m - 1], m>>] /\ g[0] = base
      <4>1. m - 1 \in 0..(m - 1) /\ 0 \in 0..(m - 1) /\ m \in 0..m
        BY <1>2
      <4>. QED  BY <2>1, <3>1, <4>1
    <3>. HIDE DEF g
    <3>3. ASSUME NEW i \in 1..(m - 1)  PROVE g[i] = step[<<g[i - 1], i>>]
      <4>1. i \in 0..(m - 1) /\ i - 1 \in 0..(m - 1)
        BY <1>2
      <4>. QED  BY <2>1, <3>1, <4>1
    <3>4. \A i \in 1..m : i = m \/ i \in 1..(m - 1)
      BY <1>2
    <3>. QED  BY <3>2, <3>3, <3>4
  <2>. HIDE DEF g
  <2>5. Runs(m)
    BY <2>3, <2>4
  <2>. QED  BY <2>5
<1>. HIDE DEF P
<1>3. \A i \in 0..n : i \in P
  BY <1>1, <1>2, UpTo
<1>4. n \in P
  BY <1>3
<1>. QED  BY <1>4 DEF P

-----------------------------------------------------------------------------
(* Concatenation.                                                          *)

(* What FlattenSeq makes of the first i sequences is f[i].                 *)
Concatenates(f, seqs, n) == \A i \in 1..n : f[i] = f[i - 1] \o seqs[i]
Flattening(f, seqs) ==
  /\ DOMAIN f = 0..Len(seqs)
  /\ f[0] = <<>>
  /\ Concatenates(f, seqs, Len(seqs))

(* There is such an f. *)
LEMMA FlatteningExists ==
  ASSUME NEW S, NEW seqs \in Seq(Seq(S))
  PROVE  \E f \in [0..Len(seqs) -> Seq(S)] : Flattening(f, seqs)
<1>. DEFINE n == Len(seqs)
            V == Seq(S)
            step == [x \in V \X (1..n) |-> x[1] \o seqs[x[2]]]
<1>1. n \in Nat /\ <<>> \in V /\ \A i \in 1..n : seqs[i] \in V
  OBVIOUS
<1>2. step \in [V \X (1..n) -> V]
  <2>1. ASSUME NEW x \in V \X (1..n)  PROVE x[1] \o seqs[x[2]] \in V
    BY <1>1
  <2>. QED  BY <2>1
<1>. HIDE DEF n
<1>3. \A v \in V, i \in 1..n : step[<<v, i>>] = v \o seqs[i]
  OBVIOUS
<1>. HIDE DEF step
<1>4. PICK f \in [0..n -> V] : Iterates(f, n, <<>>, step)
  <2>1. <<>> \in V
    BY <1>1
  <2>. HIDE DEF V
  <2>. QED  BY <1>1, <1>2, <2>1, Iteration
<1>5. \A i \in 1..n : f[i - 1] \in V
  BY <1>1
<1>6. \A i \in 1..n : f[i] = f[i - 1] \o seqs[i]
  BY <1>3, <1>4, <1>5 DEF Iterates
<1>. QED  BY <1>4, <1>6 DEF Flattening, Iterates, Concatenates, n

(* There is one only. *)
LEMMA FlatteningUnique ==
  ASSUME NEW n \in Nat, NEW a, NEW b, NEW s, a[0] = b[0],
         Concatenates(a, s, n), Concatenates(b, s, n)
  PROVE  \A i \in 0..n : a[i] = b[i]
<1>. DEFINE P == {i \in 0..n : a[i] = b[i]}
<1>1. 0 \in P
  OBVIOUS
<1>2. ASSUME NEW i \in 1..n, i - 1 \in P  PROVE i \in P
  <2>1. a[i - 1] = b[i - 1] /\ i \in 0..n
    BY <1>2
  <2>. QED  BY <2>1 DEF Concatenates
<1>. HIDE DEF P
<1>3. \A i \in 0..n : i \in P
  BY <1>1, <1>2, UpTo
<1>. QED  BY <1>3 DEF P

(* FlattenSeq is the end of any such f.                                    *)
LEMMA FlattenIs ==
  ASSUME NEW S, NEW seqs \in Seq(Seq(S)), NEW f, Flattening(f, seqs)
  PROVE  FlattenSeq(seqs) = f[Len(seqs)] /\ FlattenSeq(seqs) \in Seq(S)
<1>. DEFINE n == Len(seqs)
<1>0. n \in Nat /\ \A i \in 1..n : seqs[i] \in Seq(S)
  OBVIOUS
<1>1. PICK g \in [0..n -> Seq(S)] : Flattening(g, seqs)
  BY FlatteningExists
<1>2. \A i \in 0..n : f[i] = g[i]
  <2>1. /\ f[0] = g[0]
        /\ Concatenates(f, seqs, n) /\ Concatenates(g, seqs, n)
    BY <1>1 DEF Flattening
  <2>. HIDE DEF n
  <2>. QED  BY <1>0, <2>1, FlatteningUnique
<1>3. CASE n = 0
  <2>1. seqs = <<>>
    BY <1>3
  <2>2. FlattenSeq(seqs) = <<>>
    BY <2>1 DEF FlattenSeq
  <2>. QED  BY <1>1, <1>2, <1>3, <2>2 DEF Flattening
<1>4. CASE n # 0
  <2>. DEFINE h == CHOOSE h : h = [i \in 1..n |-> IF i = 1 THEN seqs[i] ELSE h[i - 1] \o seqs[i]]
              w == [i \in 1..n |-> g[i]]
  <2>1. g[1] = seqs[1]
    <3>0. 1 \in 1..n
      BY <1>0, <1>4
    <3>1. g[1] = g[1 - 1] \o seqs[1] /\ g[0] = <<>> /\ seqs[1] \in Seq(S)
      BY <1>0, <1>1, <3>0 DEF Flattening, Concatenates
    <3>2. 1 - 1 = 0 /\ <<>> \o seqs[1] = seqs[1]
      BY <3>1
    <3>. QED  BY <3>1, <3>2
  <2>2. w = [i \in 1..n |-> IF i = 1 THEN seqs[i] ELSE w[i - 1] \o seqs[i]]
    <3>1. ASSUME NEW i \in 1..n, i # 1  PROVE g[i] = w[i - 1] \o seqs[i]
      <4>1. i - 1 \in 1..n
        BY <1>0, <3>1
      <4>. QED  BY <1>1, <4>1 DEF Flattening, Concatenates
    <3>. QED  BY <2>1, <3>1
  <2>. HIDE DEF w
  <2>3. h = [i \in 1..n |-> IF i = 1 THEN seqs[i] ELSE h[i - 1] \o seqs[i]]
    BY <2>2
  <2>4. FlattenSeq(seqs) = h[n]
    BY <1>4 DEF FlattenSeq
  <2>. HIDE DEF h
  <2>5. h[1] = g[1] /\ \A i \in 2..n : h[i] = h[i - 1] \o seqs[i]
    <3>1. 1 \in 1..n /\ \A i \in 2..n : i \in 1..n /\ i # 1
      BY <1>0, <1>4
    <3>. HIDE DEF n
    <3>2. \A i \in 1..n : h[i] = IF i = 1 THEN seqs[i] ELSE h[i - 1] \o seqs[i]
      BY <2>3
    <3>. QED  BY <2>1, <3>1, <3>2
  <2>. DEFINE a == [i \in 0..n |-> IF i = 0 THEN <<>> ELSE h[i]]
  <2>6. a[0] = g[0] /\ \A i \in 1..n : a[i] = a[i - 1] \o seqs[i]
    <3>0. 1 \in 1..n /\ seqs[1] \in Seq(S) /\ \A i \in 1..n : i \in 0..n
      BY <1>0, <1>4
    <3>1. a[0] = <<>> /\ a[1] = seqs[1] /\ g[0] = <<>>
      BY <1>0, <1>1, <2>1, <2>5, <3>0 DEF Flattening
    <3>2. a[1] = a[1 - 1] \o seqs[1]
      <4>1. 1 - 1 = 0 /\ <<>> \o seqs[1] = seqs[1]
        BY <3>0
      <4>. HIDE DEF a
      <4>. QED  BY <3>1, <4>1
    <3>3. ASSUME NEW i \in 2..n  PROVE a[i] = a[i - 1] \o seqs[i]
      <4>1. i \in 0..n /\ i - 1 \in 0..n /\ i # 0 /\ i - 1 # 0
        BY <1>0
      <4>. QED  BY <2>5, <4>1
    <3>4. \A i \in 1..n : i = 1 \/ i \in 2..n
      BY <1>0
    <3>. HIDE DEF a
    <3>. QED  BY <3>1, <3>2, <3>3, <3>4
  <2>7. a[n] = h[n] /\ n \in 0..n
    BY <1>0, <1>4
  <2>. HIDE DEF a
  <2>8. \A i \in 0..n : a[i] = g[i]
    <3>1. Concatenates(a, seqs, n) /\ Concatenates(g, seqs, n)
      BY <1>1, <2>6 DEF Flattening, Concatenates
    <3>. HIDE DEF n
    <3>. QED  BY <1>0, <2>6, <3>1, FlatteningUnique
  <2>. HIDE DEF n
  <2>9. h[n] = g[n] /\ g[n] \in Seq(S)
    BY <1>1, <2>7, <2>8
  <2>. QED  BY <1>2, <2>4, <2>7, <2>9 DEF n
<1>. QED  BY <1>3, <1>4

(* What it makes of sequences over S is one. *)
LEMMA FlattenType ==
  ASSUME NEW S, NEW seqs \in Seq(Seq(S))
  PROVE  FlattenSeq(seqs) \in Seq(S)
<1>1. \E f : Flattening(f, seqs)
  BY FlatteningExists
<1>. QED  BY <1>1, FlattenIs

(* Of no sequences it makes none. *)
LEMMA FlattenEmpty == FlattenSeq(<<>>) = <<>>
BY DEF FlattenSeq

(* One more sequence goes to the end.                                      *)
LEMMA FlattenAppend ==
  ASSUME NEW S, NEW seqs \in Seq(Seq(S)), NEW x \in Seq(S)
  PROVE  FlattenSeq(Append(seqs, x)) = FlattenSeq(seqs) \o x
<1>. DEFINE n == Len(seqs)
            more == Append(seqs, x)
<1>1. /\ n \in Nat /\ more \in Seq(Seq(S)) /\ Len(more) = n + 1
      /\ more[n + 1] = x /\ \A i \in 1..n : more[i] = seqs[i]
  OBVIOUS
<1>. HIDE DEF more
<1>2. PICK f \in [0..Len(more) -> Seq(S)] : Flattening(f, more)
  BY <1>1, FlatteningExists
<1>. DEFINE g == [i \in 0..n |-> f[i]]
<1>3. DOMAIN f = 0..(n + 1) /\ f[0] = <<>>
      /\ \A i \in 1..(n + 1) : f[i] = f[i - 1] \o more[i]
  BY <1>1, <1>2 DEF Flattening, Concatenates
<1>4. g[0] = <<>> /\ DOMAIN g = 0..n /\ \A i \in 1..n : g[i] = g[i - 1] \o seqs[i]
  <2>1. ASSUME NEW i \in 1..n  PROVE g[i] = g[i - 1] \o seqs[i]
    <3>1. i \in 0..n /\ i - 1 \in 0..n /\ i \in 1..(n + 1)
      BY <1>1
    <3>. HIDE DEF n
    <3>. QED  BY <1>1, <1>3, <3>1
  <2>2. 0 \in 0..n
    BY <1>1
  <2>. QED  BY <1>3, <2>1, <2>2
<1>5. f[n + 1] = g[n] \o x
  <2>1. n \in 0..n /\ n + 1 \in 1..(n + 1) /\ (n + 1) - 1 = n
    BY <1>1
  <2>2. f[n + 1] = f[(n + 1) - 1] \o more[n + 1]
    BY <1>3, <2>1
  <2>. HIDE DEF n
  <2>. QED  BY <1>1, <2>1, <2>2
<1>. HIDE DEF g
<1>6. Flattening(g, seqs)
  BY <1>4 DEF Flattening, Concatenates
<1>7. FlattenSeq(seqs) = g[n]
  BY <1>6, FlattenIs
<1>8. FlattenSeq(more) = f[n + 1]
  BY <1>1, <1>2, FlattenIs
<1>. QED  BY <1>5, <1>7, <1>8 DEF more

(* Appending and concatenating commute. *)
LEMMA AppendConcat ==
  ASSUME NEW S, NEW a \in Seq(S), NEW b \in Seq(S), NEW x \in S
  PROVE  a \o Append(b, x) = Append(a \o b, x) /\ a \o b \in Seq(S)
OBVIOUS

(* The text of two runs of sequences is that of the one, then the other's. *)
LEMMA FlattenConcat ==
  ASSUME NEW S, NEW a \in Seq(Seq(S)), NEW b \in Seq(Seq(S))
  PROVE  FlattenSeq(a \o b) = FlattenSeq(a) \o FlattenSeq(b)
<1>. DEFINE n == Len(b)
            b1(i) == SubSeq(b, 1, i)
            P == {i \in 0..n : FlattenSeq(a \o b1(i)) = FlattenSeq(a) \o FlattenSeq(b1(i))}
<1>1. n \in Nat /\ \A i \in 0..n : b1(i) \in Seq(Seq(S)) /\ Len(b1(i)) = i
  OBVIOUS
<1>2. 0 \in P
  <2>1. b1(0) = <<>> /\ a \o b1(0) = a
    OBVIOUS
  <2>2. FlattenSeq(a) \in Seq(S)
    BY FlattenType
  <2>3. FlattenSeq(a) \o <<>> = FlattenSeq(a)
    BY <2>2
  <2>4. 0 \in 0..n
    BY <1>1
  <2>. HIDE DEF b1
  <2>. QED  BY <2>1, <2>3, <2>4, FlattenEmpty
<1>3. ASSUME NEW i \in 1..n, i - 1 \in P  PROVE i \in P
  <2>1. b[i] \in Seq(S) /\ b1(i) = Append(b1(i - 1), b[i])
        /\ b1(i - 1) \in Seq(Seq(S))
    OBVIOUS
  <2>. HIDE DEF b1
  <2>2. a \o b1(i) = Append(a \o b1(i - 1), b[i]) /\ a \o b1(i - 1) \in Seq(Seq(S))
    <3>. DEFINE c == b1(i - 1)
    <3>1. c \in Seq(Seq(S)) /\ b1(i) = Append(c, b[i])
      BY <2>1
    <3>. HIDE DEF c
    <3>2. a \o Append(c, b[i]) = Append(a \o c, b[i]) /\ a \o c \in Seq(Seq(S))
      <4>. DEFINE T == Seq(S)
      <4>1. a \in Seq(T) /\ c \in Seq(T) /\ b[i] \in T
        BY <2>1, <3>1
      <4>2. a \o Append(c, b[i]) = Append(a \o c, b[i]) /\ a \o c \in Seq(T)
        <5>. HIDE DEF T
        <5>. QED  BY <4>1, AppendConcat
      <4>. QED  BY <4>2
    <3>. QED  BY <3>1, <3>2 DEF c
  <2>3. FlattenSeq(a \o b1(i)) = FlattenSeq(a \o b1(i - 1)) \o b[i]
    BY <2>1, <2>2, FlattenAppend
  <2>4. FlattenSeq(b1(i)) = FlattenSeq(b1(i - 1)) \o b[i]
    BY <2>1, FlattenAppend
  <2>5. FlattenSeq(a) \in Seq(S) /\ FlattenSeq(b1(i - 1)) \in Seq(S)
    BY <2>1, FlattenType
  <2>6. FlattenSeq(a \o b1(i - 1)) = FlattenSeq(a) \o FlattenSeq(b1(i - 1))
    BY <1>3
  <2>. DEFINE fa == FlattenSeq(a)
              fb == FlattenSeq(b1(i - 1))
  <2>7. FlattenSeq(a \o b1(i)) = (fa \o fb) \o b[i] /\ FlattenSeq(b1(i)) = fb \o b[i]
    BY <2>3, <2>4, <2>6
  <2>8. fa \in Seq(S) /\ fb \in Seq(S)
    BY <2>5
  <2>9. (fa \o fb) \o b[i] = fa \o (fb \o b[i])
    <3>. DEFINE x == b[i]
    <3>1. x \in Seq(S)
      BY <2>1
    <3>. HIDE DEF x
    <3>2. (fa \o fb) \o x = fa \o (fb \o x)
      <4>. HIDE DEF fa, fb
      <4>. QED  BY <2>8, <3>1
    <3>. QED  BY <3>2 DEF x
  <2>10. i \in 0..n
    BY <1>1
  <2>. QED  BY <2>7, <2>9, <2>10 DEF fa
<1>. HIDE DEF P
<1>4. n \in P
  <2>1. \A i \in 0..n : i \in P
    BY <1>1, <1>2, <1>3, UpTo
  <2>. QED  BY <1>1, <2>1
<1>5. b1(n) = b
  OBVIOUS
<1>. QED  BY <1>4, <1>5 DEF P

-----------------------------------------------------------------------------
(* Retained.                                                               *)

Increasing(f, n) == \A a, b \in 1..n : a < b => f[a] < f[b]

(* A set of indices has an increasing enumeration. *)
LEMMA Enumeration ==
  ASSUME NEW m \in Nat, NEW I \in SUBSET (1..m)
  PROVE  /\ Cardinality(I) \in Nat
         /\ \E f \in [1..Cardinality(I) -> I] : Increasing(f, Cardinality(I))
<1>. DEFINE Enum(J) == /\ Cardinality(J) \in Nat
                       /\ \E f \in [1..Cardinality(J) -> J] : Increasing(f, Cardinality(J))
            Bad == {n \in Nat : \E J \in SUBSET (1..n) : ~Enum(J)}
<1>1. ASSUME Bad # {}  PROVE FALSE
  <2>1. PICK n \in Bad : \A y \in Bad : n <= y
    BY <1>1, LeastNat
  <2>2. PICK J \in SUBSET (1..n) : ~Enum(J)
    BY <2>1
  <2>3. n # 0
    <3>1. ASSUME n = 0  PROVE Enum({}) /\ J = {}
      <4>1. J = {}
        BY <3>1
      <4>2. Cardinality({}) = 0
        BY FS_EmptySet
      <4>3. [i \in 1..0 |-> i] \in [1..0 -> {}]
        OBVIOUS
      <4>4. Increasing([i \in 1..0 |-> i], 0)
        BY DEF Increasing
      <4>5. \E f \in [1..0 -> {}] : Increasing(f, 0)
        BY <4>3, <4>4
      <4>6. ASSUME NEW c, c = 0
            PROVE  c \in Nat /\ \E f \in [1..c -> {}] : Increasing(f, c)
        BY <4>5, <4>6
      <4>. QED  BY <4>1, <4>2, <4>6
    <3>. QED  BY <3>1, <2>2
  <2>4. n - 1 \in Nat /\ n - 1 \notin Bad
    <3>1. n \in Nat
      BY <2>1
    <3>2. n - 1 \in Nat /\ ~(n <= n - 1)
      BY <2>3, <3>1
    <3>. QED  BY <2>1, <3>2
  <2>. DEFINE K == J \ {n}
  <2>5. K \in SUBSET (1..(n-1)) /\ Enum(K)
    <3>1. K \in SUBSET (1..(n-1))
      BY <2>2
    <3>. QED  BY <3>1, <2>4
  <2>6. n \in J
    BY <2>2, <2>5
  <2>. DEFINE c == Cardinality(K)
  <2>7. PICK f \in [1..c -> K] : Increasing(f, c)
    BY <2>5
  <2>8. IsFiniteSet(K)
    <3>1. IsFiniteSet(1..(n-1))
      BY FS_Interval
    <3>. QED  BY <3>1, <2>5, FS_Subset
  <2>9. c \in Nat /\ Cardinality(J) = c + 1
    <3>1. J = K \cup {n} /\ n \notin K
      BY <2>6
    <3>. QED  BY <3>1, <2>8, FS_AddElement, <2>5
  <2>. DEFINE g == [a \in 1..(c+1) |-> IF a = c + 1 THEN n ELSE f[a]]
  <2>. HIDE DEF c
  <2>10. g \in [1..(c+1) -> J]
    BY <2>6, <2>7, <2>9
  <2>11. Increasing(g, c+1)
    <3>1. SUFFICES ASSUME NEW a \in 1..(c+1), NEW b \in 1..(c+1), a < b
                   PROVE  g[a] < g[b]
      BY DEF Increasing
    <3>2. a \in 1..c /\ g[a] = f[a] /\ f[a] \in K
      BY <2>7, <2>9, <3>1
    <3>3. CASE b = c + 1
      <4>1. g[b] = n /\ n \in Nat
        BY <2>1, <3>3
      <4>2. f[a] \in 1..(n-1)
        BY <2>5, <3>2
      <4>. QED  BY <3>2, <4>1, <4>2
    <3>4. CASE b # c + 1
      BY <3>1, <3>2, <3>4, <2>7, <2>9 DEF Increasing
    <3>. QED  BY <3>3, <3>4
  <2>12. Enum(J)
    BY <2>9, <2>10, <2>11
  <2>. QED  BY <2>2, <2>12
<1>2. Enum(I)
  BY <1>1
<1>. QED  BY <1>2

(* A filter takes the elements at the given indices, in order. *)
LEMMA RetainedIs ==
  ASSUME NEW S, NEW s \in Seq(S), NEW I \in SUBSET DOMAIN s
  PROVE  /\ Cardinality(I) \in Nat
         /\ \E nth \in [1..Cardinality(I) -> I] :
              /\ Increasing(nth, Cardinality(I))
              /\ Retained(s, I) = [a \in 1..Cardinality(I) |-> s[nth[a]]]
<1>. DEFINE n == Cardinality(I)
            nth == CHOOSE f \in [1..n -> I] :
                      \A a, b \in 1..n : a < b => f[a] < f[b]
<1>1. Len(s) \in Nat /\ I \in SUBSET (1..Len(s))
  OBVIOUS
<1>2. /\ n \in Nat
      /\ \E f \in [1..n -> I] : \A a, b \in 1..n : a < b => f[a] < f[b]
  BY <1>1, Enumeration DEF Increasing
<1>3. nth \in [1..n -> I] /\ Increasing(nth, n)
  BY <1>2 DEF Increasing
<1>4. Retained(s, I) = [a \in 1..n |-> s[nth[a]]]
  BY DEF Retained
<1>. HIDE DEF nth
<1>. QED  BY <1>2, <1>3, <1>4

(* So it leaves a sequence over the same set. *)
LEMMA RetainedSeq ==
  ASSUME NEW S, NEW s \in Seq(S), NEW I \in SUBSET DOMAIN s
  PROVE  /\ Retained(s, I) \in Seq(S)
         /\ DOMAIN Retained(s, I) = 1..Len(Retained(s, I))
         /\ \A a \in DOMAIN Retained(s, I) :
              \E i \in I : Retained(s, I)[a] = s[i]
<1>. DEFINE n == Cardinality(I)
<1>1. n \in Nat /\ \A i \in I : s[i] \in S
  BY RetainedIs
<1>2. PICK nth \in [1..n -> I] : Retained(s, I) = [a \in 1..n |-> s[nth[a]]]
  BY RetainedIs
<1>. HIDE DEF n
<1>3. \A a \in 1..n : nth[a] \in I
  BY <1>2
<1>4. [a \in 1..n |-> s[nth[a]]] \in Seq(S)
  BY <1>1, <1>3
<1>. QED  BY <1>1, <1>2, <1>3, <1>4

(* And it leaves every element at those indices. *)
LEMMA RetainedKeeps ==
  ASSUME NEW S, NEW s \in Seq(S), NEW I \in SUBSET DOMAIN s, NEW i \in I
  PROVE  \E a \in DOMAIN Retained(s, I) : Retained(s, I)[a] = s[i]
<1>. DEFINE n == Cardinality(I)
<1>1. n \in Nat
  BY RetainedIs
<1>2. PICK nth \in [1..n -> I] :
        Increasing(nth, n) /\ Retained(s, I) = [a \in 1..n |-> s[nth[a]]]
  BY RetainedIs
<1>3. IsFiniteSet(I)
  <2>1. Len(s) \in Nat /\ DOMAIN s = 1..Len(s)
    OBVIOUS
  <2>2. IsFiniteSet(DOMAIN s)
    BY <2>1, FS_Interval
  <2>. QED  BY <2>2, FS_Subset
<1>4. ASSUME \A a \in 1..n : nth[a] # i  PROVE FALSE
  <2>. DEFINE J == I \ {i}
  <2>1. IsFiniteSet(J) /\ Cardinality(J) = n - 1
    BY <1>3, FS_RemoveElement
  <2>2. IsFiniteSet(1..n) /\ Cardinality(1..n) = n
    BY <1>1, FS_Interval
  <2>3. nth \in [1..n -> J]
    BY <1>2, <1>4
  <2>. HIDE DEF n, J
  <2>4. n - 1 < n
    BY <1>1
  <2>5. \E a, b \in 1..n : a # b /\ nth[a] = nth[b]
    BY <2>1, <2>2, <2>3, <2>4, FS_PigeonHole
  <2>6. PICK a \in 1..n, b \in 1..n : a # b /\ nth[a] = nth[b]
    BY <2>5
  <2>7. nth[a] \in I /\ nth[b] \in I
    BY <1>2 DEF n
  <2>8. a < b \/ b < a
    BY <1>1, <2>6
  <2>9. I \in SUBSET Nat
    OBVIOUS
  <2>10. nth[a] \in Nat /\ nth[b] \in Nat
    BY <2>7, <2>9
  <2>. QED  BY <1>2, <2>6, <2>8, <2>10 DEF Increasing, n
<1>. QED  BY <1>2, <1>4

-----------------------------------------------------------------------------
(* The tentative buffer.                                                   *)

(* A new char is well typed. *)
LEMMA NewCharType ==
  ASSUME NEW kana \in Seq(STRING), NEW src \in Seq(Keys),
         NEW d \in Nat \cup {NoDeadline}, NEW tail \in Seq(Token)
  PROVE  NewChar(kana, src, d, tail) \in TentativeChar
BY DEF NewChar, TentativeChar

(* emit_sequence appends chars that no deadline rewrites. *)
LEMMA PushedSeq ==
  ASSUME NEW tb \in Seq(TentativeChar), NEW cell \in Seq(Token),
         NEW src \in Seq(Keys)
  PROVE  /\ Pushed(tb, cell, src) \in Seq(TentativeChar)
         /\ \A i \in DOMAIN Pushed(tb, cell, src) :
              \/ i \in DOMAIN tb /\ Pushed(tb, cell, src)[i] = tb[i]
              \/ Pushed(tb, cell, src)[i].deadline = NoDeadline
<1>. DEFINE kana == Retained(cell, {i \in DOMAIN cell : cell[i].kind = "kana"})
            more == [i \in DOMAIN kana |-> NewChar(kana[i].text, src, NoDeadline, <<>>)]
<1>1. kana \in Seq(Token) /\ DOMAIN kana = 1..Len(kana)
  BY RetainedSeq
<1>2. Pushed(tb, cell, src) = tb \o more
  BY DEF Pushed
<1>. HIDE DEF kana
<1>3. \A i \in 1..Len(kana) : kana[i].text \in Seq(STRING)
  <2>1. \A i \in 1..Len(kana) : kana[i] \in Token
    BY <1>1
  <2>. QED  BY <2>1 DEF Token
<1>4. \A i \in 1..Len(kana) :
        NewChar(kana[i].text, src, NoDeadline, <<>>) \in TentativeChar
  BY <1>3 DEF NewChar, TentativeChar, NoDeadline
<1>5. more \in Seq(TentativeChar)
  BY <1>1, <1>4
<1>6. \A i \in DOMAIN more : more[i].deadline = NoDeadline
  BY DEF NewChar
<1>. HIDE DEF more
<1>7. tb \o more \in Seq(TentativeChar)
  BY <1>5
<1>8. ASSUME NEW i \in DOMAIN (tb \o more)
      PROVE  \/ i \in DOMAIN tb /\ (tb \o more)[i] = tb[i]
             \/ (tb \o more)[i].deadline = NoDeadline
  <2>1. CASE i <= Len(tb)
    BY <1>5, <2>1
  <2>2. CASE i > Len(tb)
    <3>1. (tb \o more)[i] = more[i - Len(tb)] /\ i - Len(tb) \in DOMAIN more
      BY <1>5, <2>2
    <3>. QED  BY <3>1, <1>6
  <2>. QED  BY <1>5, <2>1, <2>2
<1>. QED  BY <1>2, <1>7, <1>8

(* What a rewrite leaves is a prefix of the buffer. *)
LEMMA PrefixSeq ==
  ASSUME NEW tb \in Seq(TentativeChar), NEW n \in 0..Len(tb)
  PROVE  /\ SubSeq(tb, 1, n) \in Seq(TentativeChar)
         /\ \A i \in DOMAIN SubSeq(tb, 1, n) :
              i \in DOMAIN tb /\ SubSeq(tb, 1, n)[i] = tb[i]
OBVIOUS

(* A rewrite leaves between none and all of the buffer. *)
LEMMA UnaffectedRange ==
  ASSUME NEW tb \in Seq(TentativeChar), NEW ruleKeys
  PROVE  Unaffected(tb, ruleKeys) \in 0..Len(tb)
<1>1. Len(tb) \in Nat /\ Locked(tb, ruleKeys) \in SUBSET (1..Len(tb))
  BY DEF Locked
<1>. QED  BY <1>1, MaxOfIndices DEF Unaffected

-----------------------------------------------------------------------------
(* Deadlines.                                                              *)

(* update_chord_deadline finds a deadline that covers the whole buffer. *)
LEMMA EarliestCovers ==
  ASSUME NEW tb \in Seq(TentativeChar)
  PROVE  /\ EarliestDeadline(tb) \in Nat \cup {NoDeadline}
         /\ Covers(EarliestDeadline(tb), tb)
<1>. DEFINE D == {tb[i].deadline : i \in DOMAIN tb} \ {NoDeadline}
<1>1. D \in SUBSET Nat
  <2>1. \A i \in DOMAIN tb : tb[i] \in TentativeChar
    BY SeqElement
  <2>. QED  BY <2>1 DEF TentativeChar
<1>2. \A i \in DOMAIN tb : tb[i].deadline # NoDeadline => tb[i].deadline \in D
  OBVIOUS
<1>3. EarliestDeadline(tb) = IF D = {} THEN NoDeadline ELSE Min(D)
  BY DEF EarliestDeadline
<1>. HIDE DEF D
<1>4. CASE D = {}
  BY <1>2, <1>3, <1>4 DEF Covers
<1>5. CASE D # {}
  <2>. DEFINE m == Min(D)
  <2>1. m \in D /\ \A y \in D : m <= y
    BY <1>1, <1>5, MinOfNats
  <2>2. EarliestDeadline(tb) = m
    BY <1>3, <1>5
  <2>. HIDE DEF m
  <2>3. m \in Nat /\ m # NoDeadline
    BY <1>1, <2>1 DEF NoDeadline
  <2>. QED  BY <1>2, <2>1, <2>2, <2>3 DEF Covers
<1>. QED  BY <1>4, <1>5

(* A buffer each char of which was there before, or has no deadline, is    *)
(* covered by the deadline that covered the old one.                       *)
LEMMA CoversKept ==
  ASSUME NEW old, NEW new, NEW d, Covers(d, old),
         \A i \in DOMAIN new :
            \/ i \in DOMAIN old /\ new[i].deadline = old[i].deadline
            \/ new[i].deadline = NoDeadline
  PROVE  Covers(d, new)
BY DEF Covers

(* The sooner of the chord deadline and a new char's covers both.          *)
LEMMA SoonerCovers ==
  ASSUME NEW tb \in Seq(TentativeChar), NEW char \in TentativeChar,
         NEW d \in Nat \cup {NoDeadline}, Covers(d, tb),
         char.deadline # NoDeadline
  PROVE  /\ SoonerOf(d, char.deadline) \in Nat
         /\ Covers(SoonerOf(d, char.deadline), Append(tb, char))
<1>1. char.deadline \in Nat /\ \A i \in DOMAIN tb : tb[i].deadline \in Nat \cup {NoDeadline}
  <2>1. \A i \in DOMAIN tb : tb[i] \in TentativeChar
    BY SeqElement
  <2>. QED  BY <2>1 DEF TentativeChar
<1>2. /\ SoonerOf(d, char.deadline) \in Nat
      /\ SoonerOf(d, char.deadline) <= char.deadline
      /\ d # NoDeadline => SoonerOf(d, char.deadline) <= d
  BY <1>1 DEF SoonerOf, NoDeadline
<1>3. ASSUME NEW i \in DOMAIN Append(tb, char)
      PROVE  \/ i \in DOMAIN tb /\ Append(tb, char)[i] = tb[i]
             \/ Append(tb, char)[i] = char
  OBVIOUS
<1>. QED  BY <1>1, <1>2, <1>3 DEF Covers, NoDeadline

-----------------------------------------------------------------------------
(* The pending keys, and the rules they complete.                          *)

(* Pruning leaves a sequence of pending keys. *)
LEMMA PrunedSeq ==
  ASSUME NEW p \in Seq(PendingKey)
  PROVE  Pruned(p) \in Seq(PendingKey)
<1>. DEFINE I == {i \in DOMAIN p : now - p[i].ts <= ChordWindowFor(p[i].key)}
<1>1. Retained(p, I) \in Seq(PendingKey)
  BY RetainedSeq
<1>. QED  BY <1>1 DEF Pruned

(* The keys of a pending sequence. *)
LEMMA PendingNamesSeq ==
  ASSUME NEW p \in Seq(PendingKey)
  PROVE  PendingNames(p) \in Seq(Keys)
<1>1. \A i \in DOMAIN p : p[i] \in PendingKey
  BY SeqElement
<1>2. \A i \in DOMAIN p : p[i].key \in Keys
  BY <1>1 DEF PendingKey
<1>. QED  BY <1>2 DEF PendingNames

(* A resolved rule types a cell, and its source is a sequence of keys. *)
LEMMA ResolvedRuleType ==
  ASSUME NEW p \in Seq(PendingKey), NEW tb \in Seq(TentativeChar),
         NEW k \in Keys, NEW rule \in ResolvedRule(p, tb, k)
  PROVE  rule.output \in Seq(Token) /\ rule.src \in Seq(Keys)
<1>1. CASE rule \in PrefixRule(p)
  <2>1. /\ p[1].key \in DOMAIN Layout.prefix
        /\ p[2].key \in DOMAIN Layout.prefix[p[1].key]
        /\ rule = [output |-> Layout.prefix[p[1].key][p[2].key], src |-> PendingNames(p)]
    BY <1>1 DEF PrefixRule
  <2>2. IsGrid(Layout.prefix[p[1].key])
    BY <2>1, LayoutAssumption
  <2>. QED  BY <2>1, <2>2, PendingNamesSeq DEF IsGrid
<1>2. CASE rule \in TimedChordRule(p)
  <2>1. PICK i \in DOMAIN Layout.chords :
          rule = [output |-> Layout.chords[i].output, src |-> PendingNames(p)]
    BY <1>2 DEF TimedChordRule, FirstOf, TimedChords
  <2>2. Layout.chords[i].output \in Seq(Token)
    <3>1. Layout.chords[i] \in ChordRule
      BY LayoutAssumption, SeqElement
    <3>. QED  BY <3>1 DEF ChordRule
  <2>. QED  BY <2>1, <2>2, PendingNamesSeq
<1>3. CASE rule \in PostfixRule(tb, k)
  <2>1. /\ tb # <<>>
        /\ k \in DOMAIN Layout.postfix
        /\ tb[Len(tb)].src[1] \in DOMAIN Layout.postfix[k]
        /\ rule = [output |-> Layout.postfix[k][tb[Len(tb)].src[1]],
                   src |-> Append(tb[Len(tb)].src, k)]
    BY <1>3 DEF PostfixRule
  <2>2. IsGrid(Layout.postfix[k])
    BY <2>1, LayoutAssumption
  <2>3. tb[Len(tb)].src \in Seq(Keys)
    <3>1. Len(tb) \in DOMAIN tb
      BY <2>1
    <3>2. tb[Len(tb)] \in TentativeChar
      BY <3>1, SeqElement
    <3>. QED  BY <3>2 DEF TentativeChar
  <2>. QED  BY <2>1, <2>2, <2>3 DEF IsGrid
<1>. QED  BY <1>1, <1>2, <1>3 DEF ResolvedRule

-----------------------------------------------------------------------------
(* The characters of a buffer.                                             *)

(* The kana of a buffer are sequences of characters. *)
LEMMA KanaSeq ==
  ASSUME NEW tb \in Seq(TentativeChar)
  PROVE  [i \in DOMAIN tb |-> tb[i].kana] \in Seq(Seq(STRING))
<1>1. DOMAIN tb = 1..Len(tb) /\ Len(tb) \in Nat
  OBVIOUS
<1>2. \A i \in 1..Len(tb) : tb[i].kana \in Seq(STRING)
  <2>1. \A i \in 1..Len(tb) : tb[i] \in TentativeChar
    OBVIOUS
  <2>. QED  BY <2>1 DEF TentativeChar
<1>. DEFINE T == Seq(STRING)
<1>. HIDE DEF T
<1>3. [i \in 1..Len(tb) |-> tb[i].kana] \in Seq(T)
  BY <1>1, <1>2 DEF T
<1>. QED  BY <1>1, <1>3 DEF T

(* So is their text. *)
LEMMA TextType ==
  ASSUME NEW tb \in Seq(TentativeChar)
  PROVE  TextOf(tb) \in Seq(STRING)
BY KanaSeq, FlattenType DEF TextOf

(* The text of no char, and of a buffer in two parts. *)
LEMMA TextEmpty == TextOf(<<>>) = <<>>
BY FlattenEmpty DEF TextOf

LEMMA TextConcat ==
  ASSUME NEW a \in Seq(TentativeChar), NEW b \in Seq(TentativeChar)
  PROVE  TextOf(a \o b) = TextOf(a) \o TextOf(b)
<1>. DEFINE kana(tb) == [i \in DOMAIN tb |-> tb[i].kana]
            T == Seq(STRING)
<1>1. kana(a) \in Seq(T) /\ kana(b) \in Seq(T)
  BY KanaSeq
<1>2. kana(a \o b) = kana(a) \o kana(b)
  <2>. DEFINE c == a \o b
  <2>1. /\ Len(a) \in Nat /\ Len(b) \in Nat /\ DOMAIN c = 1..(Len(a) + Len(b))
        /\ \A i \in DOMAIN c : c[i] = IF i <= Len(a) THEN a[i] ELSE b[i - Len(a)]
    OBVIOUS
  <2>2. /\ kana(a) \o kana(b) \in Seq(T)
        /\ Len(kana(a)) = Len(a) /\ Len(kana(b)) = Len(b)
        /\ Len(kana(a) \o kana(b)) = Len(a) + Len(b)
    <3>1. DOMAIN a = 1..Len(a) /\ DOMAIN b = 1..Len(b)
      OBVIOUS
    <3>2. Len(kana(a)) = Len(a) /\ Len(kana(b)) = Len(b)
      BY <2>1, <3>1
    <3>. HIDE DEF kana, T
    <3>. QED  BY <1>1, <3>2
  <2>3. \A i \in 1..(Len(a) + Len(b)) :
          (kana(a) \o kana(b))[i] = IF i <= Len(a) THEN kana(a)[i] ELSE kana(b)[i - Len(a)]
    <3>. HIDE DEF kana, T
    <3>. QED  BY <1>1, <2>2
  <2>4. \A i \in 1..(Len(a) + Len(b)) :
          c[i].kana = IF i <= Len(a) THEN kana(a)[i] ELSE kana(b)[i - Len(a)]
    <3>1. ASSUME NEW i \in 1..(Len(a) + Len(b)), i <= Len(a)
          PROVE  c[i].kana = kana(a)[i]
      BY <2>1, <3>1
    <3>2. ASSUME NEW i \in 1..(Len(a) + Len(b)), ~(i <= Len(a))
          PROVE  c[i].kana = kana(b)[i - Len(a)]
      BY <2>1, <3>2
    <3>. HIDE DEF c, kana
    <3>. QED  BY <3>1, <3>2
  <2>5. kana(c) = [i \in 1..(Len(a) + Len(b)) |-> c[i].kana]
    BY <2>1
  <2>6. kana(a) \o kana(b) = [i \in 1..(Len(a) + Len(b)) |-> (kana(a) \o kana(b))[i]]
    <3>. DEFINE ab == kana(a) \o kana(b)
    <3>1. ab \in Seq(T) /\ Len(ab) = Len(a) + Len(b)
      BY <2>2
    <3>. HIDE DEF ab, T
    <3>2. ab = [i \in 1..Len(ab) |-> ab[i]]
      BY <3>1, SeqIsFunction
    <3>. QED  BY <3>1, <3>2 DEF ab
  <2>. HIDE DEF c, kana
  <2>7. kana(c) = kana(a) \o kana(b)
    BY <2>3, <2>4, <2>5, <2>6
  <2>. QED  BY <2>7 DEF c
<1>. HIDE DEF kana
<1>3. FlattenSeq(kana(a) \o kana(b)) = FlattenSeq(kana(a)) \o FlattenSeq(kana(b))
  BY <1>1, FlattenConcat
<1>. QED  BY <1>2, <1>3 DEF TextOf, kana

-----------------------------------------------------------------------------
(* Facts about the helpers in a well-typed state.                          *)

(* What a regular key finds (its buffers, after a fresh key dropped them)  *)
(* is well typed, and so is the pruned pending sequence with the key.      *)
LEMMA RegularTypes ==
  ASSUME TypeOK, NEW k \in Keys
  PROVE  /\ TentativeAt(k) \in Seq(TentativeChar)
         /\ PendingAt(k) \in Seq(PendingKey)
         /\ Append(PendingAt(k), [key |-> k, ts |-> now]) \in Seq(PendingKey)
         /\ SpecPending(k) \in Seq(PendingKey)
         /\ HeldAt(k) \in SUBSET Keys
<1>1. /\ TentativeAt(k) \in Seq(TentativeChar)
      /\ PendingAt(k) \in Seq(PendingKey)
      /\ HeldAt(k) \in SUBSET Keys
  BY DEF TypeOK, TentativeAt, PendingAt, HeldAt
<1>2. [key |-> k, ts |-> now] \in PendingKey
  BY DEF TypeOK, PendingKey
<1>3. Append(PendingAt(k), [key |-> k, ts |-> now]) \in Seq(PendingKey)
  BY <1>1, <1>2
<1>4. SpecPending(k) \in Seq(PendingKey)
  BY <1>3, PrunedSeq DEF SpecPending
<1>. QED  BY <1>1, <1>3, <1>4

(* Dropping the last element keeps a sequence's type. *)
LEMMA FrontType ==
  ASSUME NEW S, NEW s \in Seq(S)
  PROVE  Front(s) \in Seq(S)
<1>1. CASE s = <<>>
  BY <1>1 DEF Front
<1>2. CASE s # <<>>
  BY <1>2 DEF Front
<1>. QED  BY <1>1, <1>2

(* Interrupting the pressed modifiers keeps their states typed. *)
LEMMA InterruptedType ==
  ASSUME TypeOK
  PROVE  Interrupted(modifiers) \in [DOMAIN Layout.modifiers -> ModifierState]
BY DEF TypeOK, Interrupted, ModifierState

(* A release confirms chars: it keeps their number, type and deadlines. *)
LEMMA ConfirmedType ==
  ASSUME NEW tb \in Seq(TentativeChar), NEW k
  PROVE  /\ Confirmed(tb, k) \in Seq(TentativeChar)
         /\ DOMAIN Confirmed(tb, k) = DOMAIN tb
         /\ \A i \in DOMAIN tb : Confirmed(tb, k)[i].deadline = tb[i].deadline
<1>1. \A i \in 1..Len(tb) :
        [tb[i] EXCEPT !.confirmed = tb[i].confirmed \/ k \in ToSet(tb[i].src)] \in TentativeChar
  <2>1. SUFFICES ASSUME NEW i \in 1..Len(tb)
                 PROVE  [tb[i] EXCEPT !.confirmed = tb[i].confirmed \/ k \in ToSet(tb[i].src)]
                          \in TentativeChar
    OBVIOUS
  <2>2. tb[i] \in TentativeChar
    OBVIOUS
  <2>3. (tb[i].confirmed \/ k \in ToSet(tb[i].src)) \in BOOLEAN
    OBVIOUS
  <2>. QED  BY <2>2, <2>3 DEF TentativeChar
<1>2. Confirmed(tb, k) = [i \in 1..Len(tb) |->
        [tb[i] EXCEPT !.confirmed = tb[i].confirmed \/ k \in ToSet(tb[i].src)]]
  BY DEF Confirmed
<1>3. Confirmed(tb, k) \in Seq(TentativeChar)
  BY <1>1, <1>2
<1>4. \A i \in 1..Len(tb) : tb[i] \in TentativeChar
  OBVIOUS
<1>5. DOMAIN tb = 1..Len(tb)
  OBVIOUS
<1>6. \A i \in 1..Len(tb) : Confirmed(tb, k)[i].deadline = tb[i].deadline
  BY <1>2, <1>4 DEF TentativeChar
<1>. QED  BY <1>2, <1>3, <1>5, <1>6

(* The cells, modifiers and chords of a layout, element by element. *)
LEMMA LayoutCells ==
  /\ \A k \in DOMAIN Layout.base : Layout.base[k] \in Seq(Token) \ {<<>>}
  /\ \A i \in DOMAIN Layout.modified : \A k \in DOMAIN Layout.modified[i] :
        Layout.modified[i][k] \in Seq(Token)
  /\ \A i \in DOMAIN Layout.modifiers :
        Layout.modifiers[i] \in ModifierDef
  /\ \A i \in DOMAIN Layout.chords :
        /\ Layout.chords[i].output \in Seq(Token)
        /\ Layout.chords[i].keys \in Seq(Keys)
        /\ ChordKeys(i) \in SUBSET Keys
<1>1. \A k \in DOMAIN Layout.base : Layout.base[k] \in Seq(Token) \ {<<>>}
  BY LayoutAssumption DEF IsGrid
<1>2. \A i \in DOMAIN Layout.modified : \A k \in DOMAIN Layout.modified[i] :
        Layout.modified[i][k] \in Seq(Token)
  <2>1. \A i \in DOMAIN Layout.modified : IsGrid(Layout.modified[i])
    BY LayoutAssumption
  <2>. QED  BY <2>1 DEF IsGrid
<1>3. \A i \in DOMAIN Layout.modifiers : Layout.modifiers[i] \in ModifierDef
  BY LayoutAssumption
<1>4. \A i \in DOMAIN Layout.chords :
        Layout.chords[i].output \in Seq(Token) /\ Layout.chords[i].keys \in Seq(Keys)
  <2>1. \A i \in DOMAIN Layout.chords : Layout.chords[i] \in ChordRule
    BY LayoutAssumption, SeqElement
  <2>. QED  BY <2>1 DEF ChordRule
<1>5. \A i \in DOMAIN Layout.chords : ChordKeys(i) \in SUBSET Keys
  BY <1>4 DEF ChordKeys, ToSet
<1>. QED  BY <1>1, <1>2, <1>3, <1>4, <1>5

-----------------------------------------------------------------------------
(* A key consumed by a chord is still held.  Inductive as it stands: only  *)
(* a chord, all of whose keys are held, adds to the consumed keys, and a   *)
(* release leaves both sets.                                               *)

(* A key consumed by a mutual chord is held, whatever events arrive. *)
THEOREM ConsumedKeysAreHeld == Spec => []ConsumedHeld
<1>1. Init => ConsumedHeld
  BY DEF Init, ConsumedHeld
<1>2. ConsumedHeld /\ [Next]_vars => ConsumedHeld'
  <2>1. SUFFICES ASSUME ConsumedHeld, [Next]_vars  PROVE ConsumedHeld'
    OBVIOUS
  <2>2. ASSUME NEW k \in Keys, NEW shift \in BOOLEAN, KeyDown(k, shift)
        PROVE  ConsumedHeld'
    <3>1. ASSUME EnterRegular(k), consumed' = consumed  PROVE ConsumedHeld'
      BY <2>1, <3>1 DEF EnterRegular, HeldAt, ConsumedHeld
    <3>2. CASE HeldKeyDown(k)
      BY <2>1, <3>2 DEF HeldKeyDown, ConsumedHeld
    <3>3. CASE ModifierKeyDown(k)
      BY <2>1, <3>3 DEF ModifierKeyDown, ConsumedHeld
    <3>4. CASE TriggerOn(k)
      BY <2>1, <3>4 DEF TriggerOn, ConsumedHeld
    <3>5. CASE TriggerOff(k)
      BY <2>1, <3>5 DEF TriggerOff, ConsumedHeld
    <3>6. CASE BackspaceDown(k)
      BY <2>1, <3>6 DEF BackspaceDown, ConsumedHeld
    <3>7. CASE DirectKey(k)
      BY <3>1, <3>7 DEF DirectKey
    <3>8. CASE LayerKey(k)
      BY <3>1, <3>8 DEF LayerKey
    <3>9. CASE ChordKey(k)
      <4>1. PICK c \in MutualChordMatch(k, HeldAt(k)) :
              consumed' = consumed \cup ChordKeys(c)
        BY <3>9 DEF ChordKey
      <4>2. ChordKeys(c) \subseteq HeldAt(k)
        BY DEF MutualChordMatch
      <4>3. held' = HeldAt(k) /\ held \subseteq HeldAt(k)
        BY <3>9 DEF ChordKey, EnterRegular, HeldAt
      <4>. QED  BY <2>1, <4>1, <4>2, <4>3 DEF ConsumedHeld
    <3>10. ASSUME Speculative(k)  PROVE ConsumedHeld'
      BY <3>1, <3>10 DEF Speculative
    <3>11. CASE RuleKey(k)
      BY <3>10, <3>11 DEF RuleKey
    <3>12. CASE WaitingKey(k)
      BY <3>10, <3>12 DEF WaitingKey, Unresolved
    <3>13. CASE UnassignedKey(k, shift)
      BY <3>10, <3>13 DEF UnassignedKey, Unresolved
    <3>14. CASE PassthroughKey(k)
      BY <3>10, <3>14 DEF PassthroughKey, Unresolved
    <3>15. CASE WholeCellKey(k)
      BY <3>10, <3>15 DEF WholeCellKey, BaseKey, Unresolved
    <3>16. CASE SpeculativeKey(k)
      BY <3>10, <3>16 DEF SpeculativeKey, BaseKey, Unresolved
    <3>. QED  BY <2>2, <3>2, <3>3, <3>4, <3>5, <3>6, <3>7, <3>8, <3>9, <3>11,
                 <3>12, <3>13, <3>14, <3>15, <3>16 DEF KeyDown
  <2>3. ASSUME NEW k \in Keys, KeyUp(k)  PROVE ConsumedHeld'
    <3>1. LeaveHeld(k)
      BY <2>3 DEF KeyUp, ModifierKeyUp, ModifierTap, TriggerUp, RegularKeyUp
    <3>. QED  BY <2>1, <3>1 DEF LeaveHeld, ConsumedHeld
  <2>4. CASE Tick
    BY <2>1, <2>4 DEF Tick, ConsumedHeld
  <2>5. CASE Reset
    BY <2>1, <2>5 DEF Reset, ConsumedHeld
  <2>6. CASE NotifyConversion
    BY <2>1, <2>6 DEF NotifyConversion, ConsumedHeld
  <2>7. CASE NotifyComposition
    BY <2>1, <2>7 DEF NotifyComposition, ConsumedHeld
  <2>8. CASE Advance
    BY <2>1, <2>8 DEF Advance, ConsumedHeld
  <2>9. CASE UNCHANGED vars
    BY <2>1, <2>9 DEF vars, ConsumedHeld
  <2>. QED  BY <2>1, <2>2, <2>3, <2>4, <2>5, <2>6, <2>7, <2>8, <2>9 DEF Next
<1>. QED  BY <1>1, <1>2, PTL DEF Spec

-----------------------------------------------------------------------------
(* Type correctness, action by action.                                     *)

(* A pressed modifier key leaves the modifier's state typed. *)
LEMMA ModifierPressedType ==
  ASSUME TypeOK, NEW k \in Keys, NEW i \in DOMAIN Layout.modifiers
  PROVE  ModifierPressed(Layout.modifiers[i], modifiers[i], k) \in ModifierState
<1>1. modifiers[i] \in ModifierState /\ now \in Nat
  BY DEF TypeOK
<1>2. Layout.modifiers[i].kind \in {"Hold", "Oneshot", "Toggle"}
  BY LayoutCells DEF ModifierDef
<1>. QED  BY <1>1, <1>2 DEF ModifierPressed, ModifierState

(* modifier_index finds a modifier of the layout. *)
LEMMA ModifierIndexType ==
  ASSUME NEW k
  PROVE  ModifierIndex(k) \subseteq DOMAIN Layout.modifiers
BY DEF ModifierIndex, FirstOf

(* The key events that return before a regular key is looked up. *)
LEMMA EarlyKeyDownType ==
  ASSUME TypeOK, NEW k \in Keys,
         HeldKeyDown(k) \/ ModifierKeyDown(k) \/ TriggerOn(k) \/ TriggerOff(k)
         \/ BackspaceDown(k)
  PROVE  TypeOK'
<1>1. CASE HeldKeyDown(k)
  BY <1>1 DEF TypeOK, HeldKeyDown
<1>2. CASE ModifierKeyDown(k)
  <2>1. PICK i \in ModifierIndex(k) :
          modifiers' = [modifiers EXCEPT ![i] =
                          ModifierPressed(Layout.modifiers[i], modifiers[i], k)]
    BY <1>2 DEF ModifierKeyDown
  <2>2. modifiers' \in [DOMAIN Layout.modifiers -> ModifierState]
    BY <2>1, ModifierIndexType, ModifierPressedType DEF TypeOK
  <2>. QED  BY <1>2, <2>2 DEF TypeOK, ModifierKeyDown, buffers, trig
<1>3. CASE TriggerOn(k)
  <2>1. triggerInterrupted' \in BOOLEAN
    BY <1>3 DEF TypeOK, TriggerOn
  <2>. QED  BY <1>3, <2>1, NoElements DEF TypeOK, TriggerOn
<1>4. CASE TriggerOff(k)
  BY <1>4 DEF TypeOK, TriggerOff
<1>5. CASE BackspaceDown(k)
  <2>1. tentative' \in Seq(TentativeChar)
    <3>1. CASE tentative # <<>>
      <4>1. Len(tentative) - 1 \in 0..Len(tentative)
        BY <3>1 DEF TypeOK
      <4>. QED  BY <1>5, <3>1, <4>1, PrefixSeq DEF TypeOK, BackspaceDown
    <3>2. CASE tentative = <<>>
      BY <1>5, <3>2 DEF TypeOK, BackspaceDown
    <3>. QED  BY <3>1, <3>2
  <2>2. modifiers' \in [DOMAIN Layout.modifiers -> ModifierState]
    BY <1>5, InterruptedType DEF BackspaceDown
  <2>. QED  BY <1>5, <2>1, <2>2 DEF TypeOK, BackspaceDown, trig
<1>. QED  BY <1>1, <1>2, <1>3, <1>4, <1>5

(* Entering a regular key leaves the held keys and the mode typed. *)
LEMMA EnteredType ==
  ASSUME TypeOK, NEW k \in Keys, EnterRegular(k)
  PROVE  /\ held' \in SUBSET Keys
         /\ mozcMode' \in {"Composition", "Conversion"}
BY RegularTypes DEF TypeOK, EnterRegular

(* process_direct_key keeps every field's type. *)
LEMMA DirectKeyType ==
  ASSUME TypeOK, NEW k \in Keys, DirectKey(k)
  PROVE  TypeOK'
<1>. USE DEF DirectKey
<1>1. held' \in SUBSET Keys /\ mozcMode' \in {"Composition", "Conversion"}
  BY EnteredType
<1>2. modifiers' \in [DOMAIN Layout.modifiers -> ModifierState]
  BY InterruptedType
<1>3. pending' \in Seq(PendingKey)
  BY NoElements, RegularTypes
<1>4. tentative' \in Seq(TentativeChar)
  BY NoElements, RegularTypes
<1>. QED  BY <1>1, <1>2, <1>3, <1>4 DEF TypeOK

(* A key of a modifier layer keeps every field's type. *)
LEMMA LayerKeyType ==
  ASSUME TypeOK, NEW k \in Keys, LayerKey(k)
  PROVE  TypeOK'
<1>. USE DEF LayerKey
<1>1. held' \in SUBSET Keys /\ mozcMode' \in {"Composition", "Conversion"}
  BY EnteredType
<1>2. modifiers' \in [DOMAIN Layout.modifiers -> ModifierState]
  <2>1. DOMAIN modifiers = DOMAIN Layout.modifiers
    BY DEF TypeOK
  <2>2. \A i \in DOMAIN modifiers :
          [Interrupted(modifiers)[i] EXCEPT !.oneshot = FALSE] \in ModifierState
    BY <2>1, InterruptedType DEF ModifierState
  <2>. QED  BY <2>1, <2>2
<1>3. tentative' \in Seq(TentativeChar)
  <2>1. PICK i \in ModifiedLayer(k) :
          \/ tentative' = TentativeAt(k)
          \/ tentative' = Pushed(TentativeAt(k), Layout.modified[i][k], <<k>>)
    OBVIOUS
  <2>2. /\ i \in DOMAIN Layout.modified
        /\ k \in DOMAIN Layout.modified[i]
    BY <2>1, LayoutAssumption DEF ModifiedLayer, FirstOf, TypeOK
  <2>3. Layout.modified[i][k] \in Seq(Token) /\ <<k>> \in Seq(Keys)
    BY <2>2, LayoutCells
  <2>. QED  BY <2>1, <2>3, RegularTypes, PushedSeq
<1>4. pending' \in Seq(PendingKey)
  BY RegularTypes
<1>. QED  BY <1>1, <1>2, <1>3, <1>4 DEF TypeOK, trig

(* fire_mutual_chord keeps every field's type. *)
LEMMA ChordKeyType ==
  ASSUME TypeOK, NEW k \in Keys, ChordKey(k)
  PROVE  TypeOK'
<1>. DEFINE tb == TentativeAt(k)
            p  == PendingAt(k)
<1>1. PICK c \in MutualChordMatch(k, HeldAt(k)) :
        /\ tentative' = Pushed(SubSeq(tb, 1, Unaffected(tb, ChordKeys(c))),
                               Layout.chords[c].output, Layout.chords[c].keys)
        /\ pending' = Retained(p, {i \in DOMAIN p : p[i].key \notin ChordKeys(c)})
        /\ consumed' = consumed \cup ChordKeys(c)
        /\ chordDeadline' = EarliestDeadline(tentative')
  BY DEF ChordKey
<1>2. c \in DOMAIN Layout.chords
  BY DEF MutualChordMatch, MutualChords
<1>3. /\ Layout.chords[c].output \in Seq(Token)
      /\ Layout.chords[c].keys \in Seq(Keys)
      /\ ChordKeys(c) \in SUBSET Keys
  BY <1>2, LayoutCells
<1>4. tb \in Seq(TentativeChar) /\ p \in Seq(PendingKey)
  BY RegularTypes
<1>5. SubSeq(tb, 1, Unaffected(tb, ChordKeys(c))) \in Seq(TentativeChar)
  BY <1>4, UnaffectedRange, PrefixSeq
<1>6. tentative' \in Seq(TentativeChar)
  BY <1>1, <1>3, <1>5, PushedSeq
<1>7. pending' \in Seq(PendingKey)
  BY <1>1, <1>4, RetainedSeq
<1>8. chordDeadline' \in Nat \cup {NoDeadline}
  BY <1>1, <1>6, EarliestCovers
<1>9. consumed' \in SUBSET Keys
  BY <1>1, <1>3 DEF TypeOK
<1>10. held' \in SUBSET Keys /\ mozcMode' \in {"Composition", "Conversion"}
  BY EnteredType DEF ChordKey
<1>11. modifiers' \in [DOMAIN Layout.modifiers -> ModifierState]
  BY InterruptedType DEF ChordKey
<1>. QED  BY <1>6, <1>7, <1>8, <1>9, <1>10, <1>11 DEF TypeOK, ChordKey, trig

(* The fields every speculative key leaves typed. *)
LEMMA SpeculativeType ==
  ASSUME TypeOK, NEW k \in Keys, Speculative(k)
  PROVE  /\ modifiers' \in [DOMAIN Layout.modifiers -> ModifierState]
         /\ held' \in SUBSET Keys
         /\ mozcMode' \in {"Composition", "Conversion"}
         /\ trigger' \in {"Inactive", "Active"}
         /\ triggerInterrupted' \in BOOLEAN
         /\ consumed' \in SUBSET Keys
         /\ now' \in Nat
BY EnteredType, InterruptedType DEF Speculative, TypeOK, trig

(* apply_rule_match keeps every field's type. *)
LEMMA RuleKeyType ==
  ASSUME TypeOK, NEW k \in Keys, RuleKey(k)
  PROVE  TypeOK'
<1>. DEFINE tb == TentativeAt(k)
<1>1. PICK rule \in ResolvedRule(SpecPending(k), tb, k) :
        tentative' = Pushed(SubSeq(tb, 1, Unaffected(tb, ToSet(rule.src))),
                            rule.output, rule.src)
  BY DEF RuleKey
<1>2. tb \in Seq(TentativeChar) /\ SpecPending(k) \in Seq(PendingKey)
  BY RegularTypes
<1>3. rule.output \in Seq(Token) /\ rule.src \in Seq(Keys)
  BY <1>1, <1>2, ResolvedRuleType
<1>4. SubSeq(tb, 1, Unaffected(tb, ToSet(rule.src))) \in Seq(TentativeChar)
  BY <1>2, UnaffectedRange, PrefixSeq
<1>5. tentative' \in Seq(TentativeChar)
  BY <1>1, <1>3, <1>4, PushedSeq
<1>6. chordDeadline' \in Nat \cup {NoDeadline}
  BY <1>5, EarliestCovers DEF RuleKey
<1>7. pending' \in Seq(PendingKey)
  BY DEF RuleKey
<1>. QED  BY <1>5, <1>6, <1>7, SpeculativeType DEF TypeOK, RuleKey

(* Keys that type nothing: waiting, unassigned and passthrough keys. *)
LEMMA SilentKeyType ==
  ASSUME TypeOK, NEW k \in Keys, NEW shift \in BOOLEAN,
         WaitingKey(k) \/ UnassignedKey(k, shift) \/ PassthroughKey(k)
  PROVE  TypeOK'
<1>1. Speculative(k)
  BY DEF WaitingKey, UnassignedKey, PassthroughKey, Unresolved
<1>2. /\ pending' \in {SpecPending(k), Front(SpecPending(k)), <<>>}
      /\ tentative' \in {TentativeAt(k), <<>>}
      /\ chordDeadline' = chordDeadline
  BY DEF WaitingKey, UnassignedKey, PassthroughKey
<1>3. <<>> \in Seq(PendingKey) /\ <<>> \in Seq(TentativeChar)
  OBVIOUS
<1>4. pending' \in Seq(PendingKey)
  BY <1>2, <1>3, RegularTypes, FrontType
<1>5. tentative' \in Seq(TentativeChar)
  BY <1>2, <1>3, RegularTypes
<1>. QED  BY <1>1, <1>2, <1>4, <1>5, SpeculativeType DEF TypeOK

(* A key whose whole cell is emitted keeps every field's type. *)
LEMMA WholeCellKeyType ==
  ASSUME TypeOK, NEW k \in Keys, WholeCellKey(k)
  PROVE  TypeOK'
<1>1. Speculative(k)
  BY DEF WholeCellKey, BaseKey, Unresolved
<1>2. Layout.base[k] \in Seq(Token) /\ <<k>> \in Seq(Keys)
  BY LayoutCells DEF WholeCellKey, BaseKey
<1>3. tentative' \in Seq(TentativeChar)
  BY <1>2, RegularTypes, PushedSeq DEF WholeCellKey
<1>4. pending' \in Seq(PendingKey) /\ chordDeadline' = chordDeadline
  BY DEF WholeCellKey
<1>. QED  BY <1>1, <1>3, <1>4, SpeculativeType DEF TypeOK

(* A window is a natural number. *)
LEMMA ChordWindowType ==
  ASSUME NEW k
  PROVE  ChordWindowFor(k) \in Nat
<1>. DEFINE own == {i \in TimedChords : /\ k \in ChordKeys(i)
                                        /\ Layout.chords[i].window # NoWindow}
<1>1. CASE own = {}
  BY <1>1, LayoutAssumption DEF ChordWindowFor
<1>2. CASE own # {}
  <2>1. own \in SUBSET Nat
    BY LayoutAssumption DEF TimedChords
  <2>2. Min(own) \in own
    BY <1>2, <2>1, MinOfNats
  <2>3. Layout.chords[Min(own)].window \in Nat
    <3>1. Min(own) \in DOMAIN Layout.chords
      BY <2>2 DEF TimedChords
    <3>2. Layout.chords[Min(own)] \in ChordRule
      BY <3>1, LayoutAssumption, SeqElement
    <3>3. Layout.chords[Min(own)].window # NoWindow
      BY <2>2
    <3>. QED  BY <3>2, <3>3 DEF ChordRule
  <2>4. ChordWindowFor(k) = Layout.chords[Min(own)].window
    BY <1>2 DEF ChordWindowFor
  <2>. QED  BY <2>3, <2>4
<1>. QED  BY <1>1, <1>2

(* The speculative char, and the deadline it may move.  Both invariants of *)
(* the deadline follow from this description of the step.                  *)
LEMMA SpeculativeChar ==
  ASSUME TypeOK, NEW k \in Keys, SpeculativeKey(k)
  PROVE  \E char \in TentativeChar :
           /\ tentative' = Append(TentativeAt(k), char)
           /\ chordDeadline' = IF char.deadline = NoDeadline
                               THEN chordDeadline
                               ELSE SoonerOf(chordDeadline, char.deadline)
<1>. DEFINE cell == Layout.base[k]
            deadline == CASE HasTimedChord(k) -> now + ChordWindowFor(k)
                          [] ~HasTimedChord(k) /\ HasMutualChord(k)
                                           -> now + Layout.mutualWindow
                          [] OTHER         -> NoDeadline
            char == NewChar(cell[1].text, <<k>>, deadline, Tail(cell))
<1>1. /\ tentative' = Append(TentativeAt(k), char)
      /\ chordDeadline' = IF deadline = NoDeadline THEN chordDeadline
                                                   ELSE SoonerOf(chordDeadline, deadline)
  BY DEF SpeculativeKey
<1>2. cell \in Seq(Token) /\ cell # <<>> /\ <<k>> \in Seq(Keys)
  BY LayoutCells DEF SpeculativeKey, BaseKey
<1>3. cell[1].text \in Seq(STRING) /\ Tail(cell) \in Seq(Token)
  <2>1. cell[1] \in Token /\ Tail(cell) \in Seq(Token)
    BY <1>2
  <2>. QED  BY <2>1 DEF Token
<1>4. deadline \in Nat \cup {NoDeadline}
  BY ChordWindowType, LayoutAssumption DEF TypeOK
<1>5. char \in TentativeChar
  BY <1>2, <1>3, <1>4, NewCharType
<1>6. char.deadline = deadline
  BY DEF NewChar
<1>. QED  BY <1>1, <1>5, <1>6

(* A speculatively emitted key keeps every field's type. *)
LEMMA SpeculativeKeyType ==
  ASSUME TypeOK, NEW k \in Keys, SpeculativeKey(k)
  PROVE  TypeOK'
<1>1. Speculative(k)
  BY DEF SpeculativeKey, BaseKey, Unresolved
<1>2. PICK char \in TentativeChar :
        /\ tentative' = Append(TentativeAt(k), char)
        /\ chordDeadline' = IF char.deadline = NoDeadline
                            THEN chordDeadline
                            ELSE SoonerOf(chordDeadline, char.deadline)
  BY SpeculativeChar
<1>3. tentative' \in Seq(TentativeChar)
  BY <1>2, RegularTypes, AppendProperties
<1>4. chordDeadline' \in Nat \cup {NoDeadline}
  BY <1>2 DEF TypeOK, SoonerOf, TentativeChar
<1>5. pending' \in Seq(PendingKey)
  BY RegularTypes DEF SpeculativeKey
<1>. QED  BY <1>1, <1>3, <1>4, <1>5, SpeculativeType DEF TypeOK

(* process_key_down keeps every field's type. *)
LEMMA KeyDownType ==
  ASSUME TypeOK, NEW k \in Keys, NEW shift \in BOOLEAN, KeyDown(k, shift)
  PROVE  TypeOK'
BY EarlyKeyDownType, DirectKeyType, LayerKeyType, ChordKeyType, RuleKeyType,
   SilentKeyType, WholeCellKeyType, SpeculativeKeyType DEF KeyDown

-----------------------------------------------------------------------------
(* Releases, and the calls that are not key events.                        *)

(* A release leaves both key sets typed. *)
LEMMA LeaveHeldType ==
  ASSUME TypeOK, NEW k \in Keys, LeaveHeld(k)
  PROVE  held' \in SUBSET Keys /\ consumed' \in SUBSET Keys
BY DEF TypeOK, LeaveHeld

(* A modifier's release without a tap keeps every field's type. *)
LEMMA ModifierKeyUpType ==
  ASSUME TypeOK, NEW k \in Keys, ModifierKeyUp(k)
  PROVE  TypeOK'
<1>1. tentative' \in Seq(TentativeChar)
  BY ConfirmedType DEF ModifierKeyUp, TypeOK
<1>2. modifiers' \in [DOMAIN Layout.modifiers -> ModifierState]
  <2>1. PICK i \in ModifierIndex(k) :
          \/ modifiers' = modifiers
          \/ modifiers' = [modifiers EXCEPT
               ![i].pressed = modifiers[i].pressed \ {k},
               ![i].oneshot = modifiers[i].oneshot /\ StillHeld(i, k)]
    BY DEF ModifierKeyUp
  <2>2. i \in DOMAIN Layout.modifiers /\ modifiers[i] \in ModifierState
    BY ModifierIndexType DEF TypeOK
  <2>3. (modifiers[i].oneshot /\ StillHeld(i, k)) \in BOOLEAN
    OBVIOUS
  <2>4. [modifiers[i] EXCEPT !.pressed = modifiers[i].pressed \ {k},
                             !.oneshot = modifiers[i].oneshot /\ StillHeld(i, k)]
          \in ModifierState
    BY <2>2, <2>3 DEF ModifierState
  <2>. QED  BY <2>1, <2>2, <2>4 DEF TypeOK
<1>. QED  BY <1>1, <1>2, LeaveHeldType DEF TypeOK, ModifierKeyUp, trig

(* A modifier's tap keeps every field's type. *)
LEMMA ModifierTapType ==
  ASSUME TypeOK, NEW k \in Keys, ModifierTap(k)
  PROVE  TypeOK'
<1>. DEFINE tb == Confirmed(tentative, k)
<1>1. tb \in Seq(TentativeChar) /\ <<k>> \in Seq(Keys)
  BY ConfirmedType DEF TypeOK
<1>2. PICK i \in ModifierIndex(k) :
        /\ modifiers' = [modifiers EXCEPT ![i].pressed = {}]
        /\ \/ tentative' = tb
           \/ k \in DOMAIN Layout.base /\ tentative' = Pushed(tb, Layout.base[k], <<k>>)
           \/ tentative' = Pushed(tb, Layout.modifiers[i].tapOutput, <<k>>)
  BY DEF ModifierTap
<1>3. i \in DOMAIN Layout.modifiers
  BY ModifierIndexType
<1>4. tentative' \in Seq(TentativeChar)
  <2>1. k \in DOMAIN Layout.base => Layout.base[k] \in Seq(Token)
    BY LayoutCells
  <2>2. Layout.modifiers[i].tapOutput \in Seq(Token)
    BY <1>3, LayoutCells DEF ModifierDef
  <2>. QED  BY <1>1, <1>2, <2>1, <2>2, PushedSeq
<1>5. modifiers' \in [DOMAIN Layout.modifiers -> ModifierState]
  BY <1>2, <1>3 DEF TypeOK, ModifierState
<1>. QED  BY <1>4, <1>5, LeaveHeldType DEF TypeOK, ModifierTap, trig

(* process_key_up keeps every field's type. *)
LEMMA KeyUpType ==
  ASSUME TypeOK, NEW k \in Keys, KeyUp(k)
  PROVE  TypeOK'
<1>1. CASE ModifierKeyUp(k)
  BY <1>1, ModifierKeyUpType
<1>2. CASE ModifierTap(k)
  BY <1>2, ModifierTapType
<1>3. CASE TriggerUp(k)
  <2>1. tentative' \in Seq(TentativeChar)
    BY <1>3, ConfirmedType DEF TriggerUp, TypeOK
  <2>2. pending' \in Seq(PendingKey)
    BY <1>3, NoElements DEF TypeOK, TriggerUp
  <2>3. trigger' \in {"Inactive", "Active"}
    BY <1>3 DEF TypeOK, TriggerUp
  <2>4. held' \in SUBSET Keys /\ consumed' \in SUBSET Keys
    BY <1>3, LeaveHeldType DEF TriggerUp
  <2>. QED  BY <1>3, <2>1, <2>2, <2>3, <2>4 DEF TypeOK, TriggerUp
<1>4. CASE RegularKeyUp(k)
  <2>1. tentative' \in Seq(TentativeChar)
    BY <1>4, ConfirmedType DEF RegularKeyUp, TypeOK
  <2>. QED  BY <1>4, <2>1, LeaveHeldType DEF TypeOK, RegularKeyUp, trig
<1>. QED  BY <1>1, <1>2, <1>3, <1>4 DEF KeyUp

(* A char whose deadline has passed. *)
LEMMA ExpiredCharType ==
  ASSUME NEW char \in TentativeChar
  PROVE  /\ [char EXCEPT !.deadline = NoDeadline, !.tail = <<>>] \in TentativeChar
         /\ [char EXCEPT !.deadline = NoDeadline, !.tail = <<>>].deadline = NoDeadline
<1>1. <<>> \in Seq(Token)
  BY NoElements
<1>. QED  BY <1>1 DEF TentativeChar

(* tick() clears deadlines and tails, and finds the next deadline.         *)
LEMMA TickBuffer ==
  ASSUME TypeOK, Tick
  PROVE  /\ tentative' \in Seq(TentativeChar)
         /\ DOMAIN tentative' = DOMAIN tentative
         /\ \A i \in DOMAIN tentative :
              \/ tentative'[i] = tentative[i]
              \/ tentative'[i].deadline = NoDeadline
         /\ \/ chordDeadline' = EarliestDeadline(tentative')
            \/ chordDeadline' = chordDeadline
<1>. DEFINE due == chordDeadline # NoDeadline /\ now >= chordDeadline
            expired == {i \in DOMAIN tentative :
                          /\ due
                          /\ tentative[i].deadline # NoDeadline
                          /\ now >= tentative[i].deadline}
            char(i) == IF i \in expired
                       THEN [tentative[i] EXCEPT !.deadline = NoDeadline, !.tail = <<>>]
                       ELSE tentative[i]
<1>1. /\ tentative' = [i \in DOMAIN tentative |-> char(i)]
      /\ chordDeadline' = IF due THEN EarliestDeadline(tentative') ELSE chordDeadline
  BY DEF Tick
<1>2. tentative \in Seq(TentativeChar)
  BY DEF TypeOK
<1>3. \A i \in 1..Len(tentative) : tentative[i] \in TentativeChar
  BY <1>2
<1>4. \A i \in 1..Len(tentative) :
        /\ char(i) \in TentativeChar
        /\ char(i) = tentative[i] \/ char(i).deadline = NoDeadline
  <2>1. SUFFICES ASSUME NEW i \in 1..Len(tentative)
                 PROVE  /\ char(i) \in TentativeChar
                        /\ char(i) = tentative[i] \/ char(i).deadline = NoDeadline
    OBVIOUS
  <2>2. tentative[i] \in TentativeChar
    BY <1>3
  <2>. QED  BY <2>2, ExpiredCharType
<1>. HIDE DEF char
<1>5. tentative' = [i \in 1..Len(tentative) |-> char(i)]
  BY <1>1, <1>2
<1>6. tentative' \in Seq(TentativeChar)
  BY <1>2, <1>4, <1>5
<1>. QED  BY <1>1, <1>2, <1>4, <1>5, <1>6

(* Every field has its type at the start. *)
LEMMA InitType ==
  ASSUME Init
  PROVE  TypeOK
<1>1. \A i \in DOMAIN Layout.modifiers :
        [pressed |-> {}, interrupted |-> FALSE, pressedAt |-> 0,
         oneshot |-> FALSE, toggled |-> FALSE] \in ModifierState
  BY DEF ModifierState
<1>2. modifiers \in [DOMAIN Layout.modifiers -> ModifierState]
  BY <1>1 DEF Init
<1>3. pending \in Seq(PendingKey) /\ tentative \in Seq(TentativeChar)
  BY NoElements DEF Init
<1>4. /\ trigger \in {"Inactive", "Active"} /\ triggerInterrupted \in BOOLEAN
      /\ mozcMode \in {"Composition", "Conversion"}
      /\ chordDeadline \in Nat \cup {NoDeadline} /\ now \in Nat
  BY DEF Init
<1>5. held \subseteq Keys /\ consumed \subseteq Keys
  BY DEF Init
<1>. QED  BY <1>2, <1>3, <1>4, <1>5 DEF TypeOK

(* Every step keeps it. *)
LEMMA NextType ==
  TypeOK /\ [Next]_vars => TypeOK'
<1>1. SUFFICES ASSUME TypeOK, [Next]_vars  PROVE TypeOK'
  OBVIOUS
<1>2. ASSUME NEW k \in Keys, NEW shift \in BOOLEAN, KeyDown(k, shift)
      PROVE  TypeOK'
  BY <1>1, <1>2, KeyDownType
<1>3. ASSUME NEW k \in Keys, KeyUp(k)  PROVE TypeOK'
  BY <1>1, <1>3, KeyUpType
<1>4. CASE Tick
  <2>1. tentative' \in Seq(TentativeChar) /\ chordDeadline' \in Nat \cup {NoDeadline}
    BY <1>1, <1>4, TickBuffer, EarliestCovers DEF TypeOK
  <2>2. pending' \in Seq(PendingKey)
    BY <1>1, <1>4, PrunedSeq DEF Tick, TypeOK
  <2>. QED  BY <1>1, <1>4, <2>1, <2>2 DEF Tick, TypeOK, trig
<1>5. CASE Reset
  <2>1. modifiers' \in [DOMAIN Layout.modifiers -> ModifierState]
    BY <1>1, <1>5 DEF Reset, TypeOK, ModifierState
  <2>. QED  BY <1>1, <1>5, <2>1, NoElements DEF Reset, TypeOK
<1>6. CASE NotifyConversion
  <2>1. /\ tentative' \in Seq(TentativeChar)
        /\ pending' \in Seq(PendingKey)
        /\ held' \in SUBSET Keys
        /\ consumed' \in SUBSET Keys
    BY <1>1, <1>6, NoElements DEF NotifyConversion, TypeOK
  <2>. QED  BY <1>1, <1>6, <2>1 DEF NotifyConversion, TypeOK, trig
<1>7. CASE NotifyComposition
  BY <1>1, <1>7 DEF NotifyComposition, TypeOK, buffers, trig
<1>8. CASE Advance
  BY <1>1, <1>8 DEF Advance, TypeOK, buffers, trig
<1>9. CASE UNCHANGED vars
  BY <1>1, <1>9 DEF vars, TypeOK
<1>. QED  BY <1>1, <1>2, <1>3, <1>4, <1>5, <1>6, <1>7, <1>8, <1>9 DEF Next

(* Every field keeps its type under every event, for every layout. *)
THEOREM TypeCorrect == Spec => []TypeOK
BY InitType, NextType, PTL DEF Spec

-----------------------------------------------------------------------------
(* chord_deadline is never later than the deadline of a tentative char.    *)
(* The invariant is TypeOK /\ DeadlineCovers: paths that only shrink the   *)
(* buffer, confirm its chars or push chars without a deadline keep the old *)
(* deadline; rewrites and ticks recompute it; a speculative char lowers it.*)

(* Every deadline covers the empty buffer. *)
LEMMA CoversNothing == \A d : Covers(d, <<>>)
BY DEF Covers

(* chord_deadline covers the buffer a regular key finds. *)
LEMMA CoversAt ==
  ASSUME DeadlineCovers, NEW k
  PROVE  Covers(chordDeadline, TentativeAt(k))
BY CoversNothing DEF DeadlineCovers, TentativeAt

(* Pushed chars have no deadline, so the old one still covers the buffer.  *)
LEMMA CoversPushed ==
  ASSUME NEW tb \in Seq(TentativeChar), NEW cell \in Seq(Token),
         NEW src \in Seq(Keys), NEW d, Covers(d, tb)
  PROVE  Covers(d, Pushed(tb, cell, src))
<1>. DEFINE new == Pushed(tb, cell, src)
<1>1. \A i \in DOMAIN new :
        \/ i \in DOMAIN tb /\ new[i] = tb[i]
        \/ new[i].deadline = NoDeadline
  BY PushedSeq
<1>. HIDE DEF new
<1>2. Covers(d, new)
  BY <1>1, CoversKept
<1>. QED  BY <1>2 DEF new

(* process_key_down keeps the buffer covered. *)
LEMMA KeyDownCovers ==
  ASSUME TypeOK, TypeOK', DeadlineCovers, NEW k \in Keys, NEW shift \in BOOLEAN,
         KeyDown(k, shift)
  PROVE  DeadlineCovers'
<1>1. ASSUME chordDeadline' = chordDeadline,
             tentative' \in {tentative, TentativeAt(k), <<>>}
      PROVE  DeadlineCovers'
  BY <1>1, CoversAt, CoversNothing DEF DeadlineCovers
<1>2. ASSUME chordDeadline' = EarliestDeadline(tentative')
      PROVE  DeadlineCovers'
  <2>1. tentative' \in Seq(TentativeChar)
    BY DEF TypeOK
  <2>. QED  BY <1>2, <2>1, EarliestCovers DEF DeadlineCovers
<1>3. ASSUME chordDeadline' = chordDeadline, NEW cell \in Seq(Token),
             tentative' = Pushed(TentativeAt(k), cell, <<k>>)
      PROVE  DeadlineCovers'
  <2>1. <<k>> \in Seq(Keys)
    OBVIOUS
  <2>2. Covers(chordDeadline, Pushed(TentativeAt(k), cell, <<k>>))
    BY <2>1, RegularTypes, CoversAt, CoversPushed
  <2>. QED  BY <1>3, <2>2 DEF DeadlineCovers
<1>4. CASE HeldKeyDown(k) \/ ModifierKeyDown(k) \/ TriggerOn(k) \/ TriggerOff(k)
  BY <1>1, <1>4 DEF HeldKeyDown, ModifierKeyDown, TriggerOn, TriggerOff, buffers
<1>5. CASE BackspaceDown(k)
  <2>1. CASE tentative = <<>>
    BY <1>1, <1>5, <2>1 DEF BackspaceDown
  <2>2. CASE tentative # <<>>
    <3>1. Len(tentative) - 1 \in 0..Len(tentative)
      BY <2>2 DEF TypeOK
    <3>2. tentative \in Seq(TentativeChar)
      BY DEF TypeOK
    <3>. DEFINE rest == SubSeq(tentative, 1, Len(tentative) - 1)
    <3>3. \A i \in DOMAIN rest : i \in DOMAIN tentative /\ rest[i] = tentative[i]
      BY <3>1, <3>2, PrefixSeq
    <3>4. tentative' = rest /\ chordDeadline' = chordDeadline
      BY <1>5, <2>2 DEF BackspaceDown
    <3>. HIDE DEF rest
    <3>5. Covers(chordDeadline, rest)
      BY <3>3, CoversKept DEF DeadlineCovers
    <3>. QED  BY <3>4, <3>5 DEF DeadlineCovers
  <2>. QED  BY <2>1, <2>2
<1>6. CASE DirectKey(k)
  BY <1>1, <1>6 DEF DirectKey
<1>7. CASE LayerKey(k)
  <2>1. PICK i \in ModifiedLayer(k) :
          \/ tentative' = TentativeAt(k)
          \/ tentative' = Pushed(TentativeAt(k), Layout.modified[i][k], <<k>>)
    BY <1>7 DEF LayerKey
  <2>2. i \in DOMAIN Layout.modified /\ k \in DOMAIN Layout.modified[i]
    BY <2>1, LayoutAssumption DEF ModifiedLayer, FirstOf, TypeOK
  <2>3. Layout.modified[i][k] \in Seq(Token)
    BY <2>2, LayoutCells
  <2>4. chordDeadline' = chordDeadline
    BY <1>7 DEF LayerKey
  <2>. QED  BY <1>1, <1>3, <2>1, <2>3, <2>4
<1>8. CASE ChordKey(k) \/ RuleKey(k)
  BY <1>2, <1>8 DEF ChordKey, RuleKey
<1>9. CASE WaitingKey(k) \/ UnassignedKey(k, shift) \/ PassthroughKey(k)
  BY <1>1, <1>9 DEF WaitingKey, UnassignedKey, PassthroughKey
<1>10. CASE WholeCellKey(k)
  <2>1. Layout.base[k] \in Seq(Token)
    BY <1>10, LayoutCells DEF WholeCellKey, BaseKey
  <2>. QED  BY <1>3, <1>10, <2>1 DEF WholeCellKey
<1>11. CASE SpeculativeKey(k)
  <2>1. PICK char \in TentativeChar :
          /\ tentative' = Append(TentativeAt(k), char)
          /\ chordDeadline' = IF char.deadline = NoDeadline
                              THEN chordDeadline
                              ELSE SoonerOf(chordDeadline, char.deadline)
    BY <1>11, SpeculativeChar
  <2>2. /\ TentativeAt(k) \in Seq(TentativeChar)
        /\ Covers(chordDeadline, TentativeAt(k))
        /\ chordDeadline \in Nat \cup {NoDeadline}
    BY RegularTypes, CoversAt DEF TypeOK
  <2>3. CASE char.deadline = NoDeadline
    <3>1. \A i \in DOMAIN Append(TentativeAt(k), char) :
            \/ /\ i \in DOMAIN TentativeAt(k)
               /\ Append(TentativeAt(k), char)[i] = TentativeAt(k)[i]
            \/ Append(TentativeAt(k), char)[i] = char
      BY <2>2
    <3>2. Covers(chordDeadline, Append(TentativeAt(k), char))
      BY <2>2, <2>3, <3>1, CoversKept
    <3>. QED  BY <2>1, <2>3, <3>2 DEF DeadlineCovers
  <2>4. CASE char.deadline # NoDeadline
    <3>1. Covers(SoonerOf(chordDeadline, char.deadline), Append(TentativeAt(k), char))
      BY <2>2, <2>4, SoonerCovers
    <3>. QED  BY <2>1, <2>4, <3>1 DEF DeadlineCovers
  <2>. QED  BY <2>3, <2>4
<1>. QED  BY <1>4, <1>5, <1>6, <1>7, <1>8, <1>9, <1>10, <1>11 DEF KeyDown

(* process_key_up keeps the buffer covered. *)
LEMMA KeyUpCovers ==
  ASSUME TypeOK, DeadlineCovers, NEW k \in Keys, KeyUp(k)
  PROVE  DeadlineCovers'
<1>. DEFINE tb == Confirmed(tentative, k)
<1>1. /\ tb \in Seq(TentativeChar)
      /\ <<k>> \in Seq(Keys)
      /\ Covers(chordDeadline, tb)
  BY ConfirmedType, CoversKept DEF TypeOK, DeadlineCovers
<1>2. chordDeadline' = chordDeadline
  BY DEF KeyUp, ModifierKeyUp, ModifierTap, TriggerUp, RegularKeyUp
<1>3. CASE ModifierKeyUp(k) \/ TriggerUp(k) \/ RegularKeyUp(k)
  BY <1>1, <1>2, <1>3 DEF ModifierKeyUp, TriggerUp, RegularKeyUp, DeadlineCovers
<1>4. CASE ModifierTap(k)
  <2>1. PICK i \in ModifierIndex(k) :
          \/ tentative' = tb
          \/ k \in DOMAIN Layout.base /\ tentative' = Pushed(tb, Layout.base[k], <<k>>)
          \/ tentative' = Pushed(tb, Layout.modifiers[i].tapOutput, <<k>>)
    BY <1>4 DEF ModifierTap
  <2>2. k \in DOMAIN Layout.base => Layout.base[k] \in Seq(Token)
    BY LayoutCells
  <2>3. Layout.modifiers[i].tapOutput \in Seq(Token)
    BY ModifierIndexType, LayoutCells DEF ModifierDef
  <2>4. Covers(chordDeadline, tentative')
    BY <1>1, <2>1, <2>2, <2>3, CoversPushed
  <2>. QED  BY <1>2, <2>4 DEF DeadlineCovers
<1>. QED  BY <1>3, <1>4 DEF KeyUp

(* No char expires before chord_deadline, so tick() never looks too late.  *)
THEOREM DeadlineIsEarliest == Spec => []DeadlineCovers
<1>1. Init => DeadlineCovers
  BY CoversNothing DEF Init, DeadlineCovers
<1>2. TypeOK /\ TypeOK' /\ DeadlineCovers /\ [Next]_vars => DeadlineCovers'
  <2>1. SUFFICES ASSUME TypeOK, TypeOK', DeadlineCovers, [Next]_vars
                 PROVE  DeadlineCovers'
    OBVIOUS
  <2>2. ASSUME NEW k \in Keys, NEW shift \in BOOLEAN, KeyDown(k, shift)
        PROVE  DeadlineCovers'
    BY <2>1, <2>2, KeyDownCovers
  <2>3. ASSUME NEW k \in Keys, KeyUp(k)  PROVE DeadlineCovers'
    BY <2>1, <2>3, KeyUpCovers
  <2>4. CASE Tick
    <3>1. Covers(chordDeadline, tentative')
      BY <2>1, <2>4, TickBuffer, CoversKept DEF DeadlineCovers
    <3>2. Covers(EarliestDeadline(tentative'), tentative')
      BY <2>1, <2>4, TickBuffer, EarliestCovers
    <3>. QED  BY <2>1, <2>4, <3>1, <3>2, TickBuffer DEF DeadlineCovers
  <2>5. CASE Reset
    BY <2>5, CoversNothing DEF Reset, DeadlineCovers
  <2>6. CASE NotifyConversion
    BY <2>1, <2>6, CoversNothing DEF NotifyConversion, DeadlineCovers
  <2>7. CASE NotifyComposition
    BY <2>1, <2>7 DEF NotifyComposition, DeadlineCovers, buffers
  <2>8. CASE Advance
    BY <2>1, <2>8 DEF Advance, DeadlineCovers, buffers
  <2>9. CASE UNCHANGED vars
    BY <2>1, <2>9 DEF vars, DeadlineCovers
  <2>. QED  BY <2>1, <2>2, <2>3, <2>4, <2>5, <2>6, <2>7, <2>8, <2>9 DEF Next
<1>. QED  BY <1>1, <1>2, TypeCorrect, PTL DEF Spec
=============================================================================

---------------------------- MODULE SequenceFacts ----------------------------
(***************************************************************************)
(* Facts about natural numbers and sequences that the proofs share.        *)
(*                                                                         *)
(* Induction is stated with a set where the library theorems have an       *)
(* operator: what is to be proved of every n is that the set of the n it   *)
(* holds of contains all of Nat.  The proofs about loops, recursive        *)
(* functions and concatenations rest on it.                                *)
(***************************************************************************)
EXTENDS Integers, SequencesExt, SequenceTheorems, FiniteSetTheorems,
        WellFoundedInduction, TLAPS

(* A nonempty set of natural numbers has a least element.                  *)
LEMMA LeastElement ==
    ASSUME NEW B \in SUBSET Nat, B # {}
    PROVE  \E b \in B : \A m \in B : b <= m
  <1> DEFINE R == OpToRel(<, Nat)
  <1>1. IsWellFoundedOn(R, Nat)
    BY NatLessThanWellFounded
  <1>2. \A m, n \in Nat : m < n => <<m, n>> \in R
    BY DEF OpToRel
  <1> HIDE DEF R
  <1>3. PICK b \in B : \A m \in B : ~(<<m, b>> \in R)
    BY <1>1, WFMin
  <1>4. ASSUME NEW m \in B PROVE b <= m
    <2>1. b \in Nat /\ m \in Nat /\ ~(m < b)
      BY <1>2, <1>3
    <2> QED BY <2>1
  <1> QED BY <1>4

LEMMA GreatestElement ==
    ASSUME NEW n \in Nat, NEW B \in SUBSET (0 .. n), B # {}
    PROVE  Max(B) \in B /\ \A m \in B : m <= Max(B)
  <1> DEFINE C == { n - b : b \in B }
  <1>1. C \in SUBSET Nat /\ C # {}
    OBVIOUS
  <1>2. PICK c \in C : \A m \in C : c <= m
    BY <1>1, LeastElement
  <1>3. PICK b \in B : c = n - b
    OBVIOUS
  <1>4. ASSUME NEW m \in B PROVE b >= m
    <2>1. n - m \in C
      OBVIOUS
    <2>2. b \in Nat /\ m \in Nat /\ c <= n - m
      BY <1>2, <2>1
    <2> QED BY <1>3, <2>2
  <1> HIDE DEF C
  <1>5. \E x \in B : \A y \in B : x >= y
    BY <1>4
  <1>6. Max(B) \in B /\ \A y \in B : Max(B) >= y
    BY <1>5 DEF Max
  <1>7. ASSUME NEW m \in B PROVE m <= Max(B)
    <2>1. m \in 0 .. n /\ Max(B) \in 0 .. n
      BY <1>6
    <2>2. Max(B) >= m
      BY <1>6
    <2> QED BY <2>1, <2>2
  <1> QED BY <1>6, <1>7

LEMMA SmallestElement ==
    ASSUME NEW B \in SUBSET Nat, B # {}
    PROVE  Min(B) \in B /\ \A m \in B : Min(B) <= m
  <1>1. \E b \in B : \A m \in B : b <= m
    BY LeastElement
  <1> QED BY <1>1 DEF Min

LEMMA NatInductionOnSet ==
    ASSUME NEW S, 0 \in S, \A n \in Nat : n \in S => n + 1 \in S
    PROVE  \A n \in Nat : n \in S
  <1>1. SUFFICES ASSUME Nat \ S # {} PROVE FALSE
    OBVIOUS
  <1>2. PICK b \in Nat \ S : \A m \in Nat \ S : b <= m
    BY <1>1, LeastElement
  <1>3. b \in Nat /\ b \notin S /\ b # 0
    OBVIOUS
  <1>4. b - 1 \in Nat /\ ~(b <= b - 1) /\ (b - 1) + 1 = b
    BY <1>3
  <1>5. b - 1 \in S
    BY <1>2, <1>4
  <1> QED BY <1>3, <1>4, <1>5

(* Up to a bound: what a loop of N turns keeps.                            *)
LEMMA IntervalInduction ==
    ASSUME NEW N \in Nat, NEW S, 0 \in S,
           \A n \in 0 .. (N - 1) : n \in S => n + 1 \in S
    PROVE  \A n \in 0 .. N : n \in S
  <1> DEFINE T == { n \in Nat : n <= N => n \in S }
  <1>1. 0 \in T
    OBVIOUS
  <1>2. \A n \in Nat : n \in T => n + 1 \in T
    OBVIOUS
  <1> HIDE DEF T
  <1>3. \A n \in Nat : n \in T
    BY <1>1, <1>2, NatInductionOnSet
  <1> QED BY <1>3 DEF T
------------------------------------------------------------------------------
(* FlattenSeq, the concatenation of a sequence of sequences.               *)

FlatEquation(parts, N, g) ==
    g = [i \in 1 .. N |-> IF i = 1 THEN parts[i] ELSE g[i - 1] \o parts[i]]

(* Its recursive function is defined by its equation.                      *)
LEMMA FlatExists ==
    ASSUME NEW parts, NEW N \in Nat
    PROVE  \E g : FlatEquation(parts, N, g)
  <1> DEFINE S == { n \in Nat : \E g : FlatEquation(parts, n, g) }
  <1>1. 0 \in S
    <2>1. FlatEquation(parts, 0, [i \in 1 .. 0 |-> <<>>])
      BY DEF FlatEquation
    <2> QED BY <2>1
  <1>2. ASSUME NEW n \in Nat, n \in S PROVE n + 1 \in S
    <2>1. PICK g : FlatEquation(parts, n, g)
      BY <1>2
    <2> DEFINE last == IF n = 0 THEN parts[n + 1] ELSE g[n] \o parts[n + 1]
               h    == [i \in 1 .. (n + 1) |-> IF i = n + 1 THEN last ELSE g[i]]
    <2>2. ASSUME NEW i \in 1 .. (n + 1)
          PROVE  h[i] = IF i = 1 THEN parts[i] ELSE h[i - 1] \o parts[i]
      <3>1. CASE i = n + 1
        <4>1. i # 1 => n \in 1 .. (n + 1) /\ h[n] = g[n]
          BY <3>1
        <4> QED BY <3>1, <4>1
      <3>2. CASE i # n + 1
        <4>1. i \in 1 .. n /\ h[i] = g[i] /\ (i # 1 => h[i - 1] = g[i - 1])
          BY <3>2
        <4>2. g[i] = IF i = 1 THEN parts[i] ELSE g[i - 1] \o parts[i]
          BY <2>1, <4>1 DEF FlatEquation
        <4> HIDE DEF h
        <4> QED BY <4>1, <4>2
      <3> QED BY <3>1, <3>2
    <2>3. h = [i \in 1 .. (n + 1) |-> h[i]]
      OBVIOUS
    <2> HIDE DEF h
    <2>4. FlatEquation(parts, n + 1, h)
      BY <2>2, <2>3 DEF FlatEquation
    <2>5. \E f : FlatEquation(parts, n + 1, f)
      BY <2>4
    <2> QED BY <2>5
  <1> HIDE DEF S
  <1>3. N \in S
    BY <1>1, <1>2, NatInductionOnSet
  <1> QED BY <1>3 DEF S

LEMMA FlattenUnfolds ==
    ASSUME NEW parts, Len(parts) \in Nat \ {0}
    PROVE  \E g : /\ FlatEquation(parts, Len(parts), g)
                  /\ FlattenSeq(parts) = g[Len(parts)]
  <1>1. \E g : FlatEquation(parts, Len(parts), g)
    BY FlatExists
  <1> QED BY <1>1 DEF FlattenSeq, FlatEquation

AgreeUpTo(ps, qs, n) == \A i \in 1 .. n : ps[i] = qs[i]

(* What is concatenated up to n depends on the first n parts.              *)
LEMMA FlatAgree ==
    ASSUME NEW ps, NEW qs, NEW M \in Nat, NEW N \in Nat, NEW n \in Nat, n <= M, n <= N,
           NEW g, FlatEquation(ps, M, g), NEW h, FlatEquation(qs, N, h),
           AgreeUpTo(ps, qs, n)
    PROVE  AgreeUpTo(g, h, n)
  <1> DEFINE S == { i \in Nat : i \in 1 .. n => g[i] = h[i] }
  <1>1. 0 \in S
    OBVIOUS
  <1>2. ASSUME NEW i \in Nat, i \in S PROVE i + 1 \in S
    <2> SUFFICES ASSUME i + 1 \in 1 .. n PROVE g[i + 1] = h[i + 1]
      OBVIOUS
    <2>1. i + 1 \in 1 .. M /\ i + 1 \in 1 .. N /\ (i + 1) - 1 = i /\ (i + 1 = 1 <=> i = 0)
      OBVIOUS
    <2>2. g[i + 1] = IF i = 0 THEN ps[i + 1] ELSE g[i] \o ps[i + 1]
      BY <2>1 DEF FlatEquation
    <2>3. h[i + 1] = IF i = 0 THEN qs[i + 1] ELSE h[i] \o qs[i + 1]
      BY <2>1 DEF FlatEquation
    <2>4. i # 0 => g[i] = h[i]
      BY <1>2
    <2>5. ps[i + 1] = qs[i + 1]
      BY DEF AgreeUpTo
    <2> QED BY <2>2, <2>3, <2>4, <2>5
  <1> HIDE DEF S
  <1>3. \A i \in Nat : i \in S
    BY <1>1, <1>2, NatInductionOnSet
  <1> QED BY <1>3 DEF S, AgreeUpTo

(* One part more.                                                          *)
LEMMA FlattenStep ==
    ASSUME NEW S, NEW n \in Nat, NEW parts \in [1 .. (n + 1) -> Seq(S)],
           NEW front, front = [i \in 1 .. n |-> parts[i]]
    PROVE  FlattenSeq(parts) = FlattenSeq(front) \o parts[n + 1]
  <1>1. Len(parts) = n + 1 /\ Len(front) = n /\ parts[n + 1] \in Seq(S)
    OBVIOUS
  <1>2. PICK g : FlatEquation(parts, n + 1, g) /\ FlattenSeq(parts) = g[n + 1]
    BY <1>1, FlattenUnfolds
  <1>3. CASE n = 0
    <2>1. g[n + 1] = parts[n + 1]
      BY <1>2, <1>3 DEF FlatEquation
    <2>2. FlattenSeq(front) = <<>>
      BY <1>1, <1>3 DEF FlattenSeq
    <2>3. <<>> \o parts[n + 1] = parts[n + 1]
      BY <1>1
    <2> QED BY <1>2, <2>1, <2>2, <2>3
  <1>4. CASE n # 0
    <2>1. PICK h : FlatEquation(front, n, h) /\ FlattenSeq(front) = h[n]
      BY <1>1, <1>4, FlattenUnfolds
    <2>2. AgreeUpTo(front, parts, n)
      BY DEF AgreeUpTo
    <2>3. n + 1 \in Nat /\ n <= n /\ n <= n + 1 /\ n \in 1 .. n
      BY <1>4
    <2>4. AgreeUpTo(h, g, n)
      BY <1>2, <2>1, <2>2, <2>3, FlatAgree
    <2>5. g[n + 1] = g[n] \o parts[n + 1]
      <3>1. n + 1 \in 1 .. (n + 1) /\ n + 1 # 1 /\ (n + 1) - 1 = n
        BY <1>4
      <3> QED BY <1>2, <3>1 DEF FlatEquation
    <2>6. h[n] = g[n]
      BY <2>3, <2>4 DEF AgreeUpTo
    <2> QED BY <1>2, <2>1, <2>5, <2>6
  <1> QED BY <1>3, <1>4

(* The concatenation of sequences over S is one.                           *)
LEMMA FlattenType ==
    ASSUME NEW S, NEW n \in Nat, NEW parts \in [1 .. n -> Seq(S)]
    PROVE  FlattenSeq(parts) \in Seq(S)
  <1> DEFINE P == { m \in Nat : \A ps \in [1 .. m -> Seq(S)] : FlattenSeq(ps) \in Seq(S) }
  <1>1. 0 \in P
    <2> SUFFICES ASSUME NEW ps \in [1 .. 0 -> Seq(S)] PROVE FlattenSeq(ps) \in Seq(S)
      OBVIOUS
    <2>1. ps = <<>> /\ Len(ps) = 0
      OBVIOUS
    <2> QED BY <2>1 DEF FlattenSeq
  <1>2. ASSUME NEW m \in Nat, m \in P PROVE m + 1 \in P
    <2> SUFFICES ASSUME NEW ps \in [1 .. (m + 1) -> Seq(S)] PROVE FlattenSeq(ps) \in Seq(S)
      OBVIOUS
    <2> DEFINE front == [i \in 1 .. m |-> ps[i]]
    <2>1. front \in [1 .. m -> Seq(S)] /\ ps[m + 1] \in Seq(S)
      OBVIOUS
    <2>2. FlattenSeq(front) \in Seq(S)
      BY <1>2, <2>1
    <2>3. FlattenSeq(ps) = FlattenSeq(front) \o ps[m + 1]
      BY FlattenStep
    <2> HIDE DEF front
    <2> QED BY <2>1, <2>2, <2>3
  <1> HIDE DEF P
  <1>3. n \in P
    BY <1>1, <1>2, NatInductionOnSet
  <1> QED BY <1>3 DEF P

LEMMA FlattenEmpty == FlattenSeq(<<>>) = <<>>
  BY DEF FlattenSeq

LEMMA FlattenAppend ==
    ASSUME NEW S, NEW parts \in Seq(Seq(S)), NEW e \in Seq(S)
    PROVE  /\ FlattenSeq(Append(parts, e)) = FlattenSeq(parts) \o e
           /\ FlattenSeq(parts) \in Seq(S)
  <1> DEFINE n == Len(parts)
             all == Append(parts, e)
  <1>1. n \in Nat /\ parts \in [1 .. n -> Seq(S)]
    BY LenProperties
  <1>2. /\ all \in Seq(Seq(S)) /\ Len(all) = n + 1
        /\ (\A i \in 1 .. n : all[i] = parts[i]) /\ all[n + 1] = e
    BY AppendProperties
  <1>3. all \in [1 .. (n + 1) -> Seq(S)]
    BY <1>2, LenProperties
  <1>4. parts = [i \in 1 .. n |-> all[i]]
    BY <1>1, <1>2
  <1> HIDE DEF all, n
  <1>5. FlattenSeq(all) = FlattenSeq(parts) \o e
    BY <1>1, <1>2, <1>3, <1>4, FlattenStep
  <1> QED BY <1>1, <1>5, FlattenType DEF all
(* Empty parts in front of the first one that is not do not show.          *)
LEMMA FlattenFirst ==
    ASSUME NEW S, NEW n \in Nat, NEW parts \in [1 .. n -> Seq(S)],
           NEW p \in 1 .. n, parts[p] # <<>>, \A i \in 1 .. (p - 1) : parts[i] = <<>>
    PROVE  FlattenSeq(parts) # <<>> /\ FlattenSeq(parts)[1] = parts[p][1]
  <1> DEFINE upTo(m) == [i \in 1 .. m |-> parts[i]]
             text(m) == FlattenSeq(upTo(m))
             P == { m \in 0 .. n : /\ m < p => text(m) = <<>>
                                   /\ m >= p => text(m) # <<>> /\ text(m)[1] = parts[p][1] }
  <1>1. \A m \in 0 .. n : upTo(m) \in [1 .. m -> Seq(S)] /\ text(m) \in Seq(S)
    <2>1. ASSUME NEW m \in 0 .. n PROVE upTo(m) \in [1 .. m -> Seq(S)]
      OBVIOUS
    <2>2. ASSUME NEW m \in 0 .. n PROVE text(m) \in Seq(S)
      <3>1. m \in Nat /\ upTo(m) \in [1 .. m -> Seq(S)]
        BY <2>1
      <3> HIDE DEF upTo
      <3> QED BY <3>1, FlattenType
    <2> QED BY <2>1, <2>2
  <1>2. ASSUME NEW m \in 0 .. (n - 1)
        PROVE  text(m + 1) = text(m) \o parts[m + 1]
    <2>1. /\ m \in Nat /\ m + 1 \in 0 .. n /\ upTo(m) = [i \in 1 .. m |-> upTo(m + 1)[i]]
          /\ upTo(m + 1)[m + 1] = parts[m + 1]
      OBVIOUS
    <2>2. upTo(m + 1) \in [1 .. (m + 1) -> Seq(S)]
      BY <1>1, <2>1
    <2> HIDE DEF upTo
    <2> QED BY <2>1, <2>2, FlattenStep
  <1>3. text(0) = <<>>
    <2>1. upTo(0) = <<>>
      OBVIOUS
    <2> HIDE DEF upTo
    <2> QED BY <2>1, FlattenEmpty
  <1>4. text(n) = FlattenSeq(parts)
    <2>1. upTo(n) = parts
      OBVIOUS
    <2> HIDE DEF upTo
    <2> QED BY <2>1
  <1> HIDE DEF text, upTo
  <1>5. 0 \in P
    BY <1>3
  <1>6. ASSUME NEW m \in 0 .. (n - 1), m \in P PROVE m + 1 \in P
    <2>1. m + 1 \in 0 .. n /\ text(m) \in Seq(S) /\ parts[m + 1] \in Seq(S)
      BY <1>1
    <2>2. CASE m + 1 < p
      <3>1. text(m) = <<>> /\ parts[m + 1] = <<>>
        BY <1>6, <2>2
      <3> QED BY <1>2, <2>1, <2>2, <3>1
    <2>3. CASE m + 1 = p
      <3>1. text(m) = <<>> /\ text(m + 1) = <<>> \o parts[p]
        <4>1. m < p
          BY <2>3
        <4>2. text(m) = <<>>
          BY <1>6, <4>1
        <4>3. text(m + 1) = text(m) \o parts[m + 1]
          BY <1>2
        <4> QED BY <2>3, <4>2, <4>3
      <3>2. text(m + 1) = parts[p]
        BY <2>1, <2>3, <3>1, ConcatEmptySeq
      <3> QED BY <2>1, <2>3, <3>2
    <2>4. CASE m + 1 > p
      <3>1. m >= p /\ text(m) # <<>> /\ text(m)[1] = parts[p][1]
        BY <1>6, <2>4
      <3>2. /\ text(m + 1) = text(m) \o parts[m + 1]
            /\ Len(text(m)) \in Nat /\ Len(text(m)) # 0 /\ Len(parts[m + 1]) \in Nat
        <4>1. text(m + 1) = text(m) \o parts[m + 1]
          BY <1>2
        <4>2. Len(text(m)) \in Nat /\ Len(text(m)) # 0 /\ Len(parts[m + 1]) \in Nat
          BY <2>1, <3>1
        <4> QED BY <4>1, <4>2
      <3>3. Len(text(m + 1)) = Len(text(m)) + Len(parts[m + 1]) /\ text(m + 1)[1] = text(m)[1]
        BY <2>1, <3>2, ConcatProperties
      <3>4. text(m + 1) # <<>>
        BY <3>2, <3>3
      <3> QED BY <2>1, <2>4, <3>1, <3>3, <3>4
    <2> QED BY <2>2, <2>3, <2>4
  <1> HIDE DEF P
  <1>7. n \in P
    <2>1. \A m \in 0 .. (n - 1) : m \in P => m + 1 \in P
      BY <1>6
    <2>2. \A m \in 0 .. n : m \in P
      BY <1>5, <2>1, IntervalInduction
    <2> QED BY <2>2
  <1> QED BY <1>4, <1>7 DEF P

LEMMA FlattenNothing ==
    ASSUME NEW n \in Nat, NEW parts, parts = [i \in 1 .. n |-> <<>>]
    PROVE  FlattenSeq(parts) = <<>>
  <1> DEFINE upTo(m) == [i \in 1 .. m |-> <<>>]
             P == { m \in Nat : FlattenSeq(upTo(m)) = <<>> }
  <1>1. 0 \in P
    <2>1. upTo(0) = <<>>
      OBVIOUS
    <2> HIDE DEF upTo
    <2> QED BY <2>1, FlattenEmpty
  <1>2. ASSUME NEW m \in Nat, m \in P PROVE m + 1 \in P
    <2>1. /\ upTo(m + 1) \in [1 .. (m + 1) -> Seq({0})]
          /\ upTo(m) = [i \in 1 .. m |-> upTo(m + 1)[i]] /\ upTo(m + 1)[m + 1] = <<>>
      OBVIOUS
    <2> HIDE DEF upTo
    <2>2. FlattenSeq(upTo(m + 1)) = FlattenSeq(upTo(m)) \o upTo(m + 1)[m + 1]
      BY <2>1, FlattenStep
    <2>3. FlattenSeq(upTo(m)) = <<>>
      BY <1>2
    <2>4. <<>> \o <<>> = <<>>
      OBVIOUS
    <2> QED BY <2>1, <2>2, <2>3, <2>4
  <1> HIDE DEF P
  <1>3. n \in P
    BY <1>1, <1>2, NatInductionOnSet
  <1> QED BY <1>3 DEF P

LEMMA PairOf ==
    ASSUME NEW S, NEW a \in S, NEW b \in S
    PROVE  <<a>> \o <<b>> = <<a, b>>
  <1> DEFINE s == <<a>> \o <<b>>
             p == <<a, b>>
  <1>1. s \in Seq(S) /\ Len(s) = 2 /\ s[1] = a /\ s[2] = b
    BY ConcatProperties
  <1>2. p \in Seq(S) /\ Len(p) = 2 /\ p[1] = a /\ p[2] = b
    OBVIOUS
  <1> HIDE DEF s, p
  <1>3. \A i \in 1 .. Len(s) : s[i] = p[i]
    BY <1>1, <1>2
  <1>4. s = p
    BY <1>1, <1>2, <1>3, SeqEqual
  <1> QED BY <1>4 DEF s, p

(* \o by a name the provers can match.                                     *)
Then(s, t) == s \o t

LEMMA ThenType ==
    ASSUME NEW S
    PROVE  \A s, t \in Seq(S) : Then(s, t) \in Seq(S)
  BY ConcatProperties DEF Then

LEMMA ThenAssociative ==
    ASSUME NEW S
    PROVE  \A s, t, u \in Seq(S) : Then(Then(s, t), u) = Then(s, Then(t, u))
  BY ConcatAssociative DEF Then

LEMMA Regroup ==
    ASSUME NEW S, NEW a, NEW b, NEW c, NEW d, NEW e,
           a \in Seq(S), b \in Seq(S), c \in Seq(S), d \in Seq(S), e \in Seq(S)
    PROVE  Then(Then(Then(a, Then(b, c)), d), e) = Then(a, Then(b, Then(c, Then(d, e))))
  <1>1. Then(b, c) \in Seq(S) /\ Then(d, e) \in Seq(S) /\ Then(a, Then(b, c)) \in Seq(S)
    BY ThenType
  <1>2. Then(Then(Then(a, Then(b, c)), d), e) = Then(Then(a, Then(b, c)), Then(d, e))
    BY <1>1, ThenAssociative
  <1>3. Then(Then(a, Then(b, c)), Then(d, e)) = Then(a, Then(Then(b, c), Then(d, e)))
    BY <1>1, ThenAssociative
  <1>4. Then(Then(b, c), Then(d, e)) = Then(b, Then(c, Then(d, e)))
    BY <1>1, ThenAssociative
  <1> QED BY <1>2, <1>3, <1>4

(* Stretches of a sequence. *)

LEMMA StretchType ==
    ASSUME NEW S, NEW s \in Seq(S), NEW a \in Nat \ {0}, NEW b \in 0 .. Len(s)
    PROVE  /\ SubSeq(s, a, b) \in Seq(S)
           /\ Len(SubSeq(s, a, b)) = IF a <= b THEN b - a + 1 ELSE 0
           /\ \A j \in 1 .. (b - a + 1) : SubSeq(s, a, b)[j] = s[a + j - 1]
  <1>1. \A j \in a .. b : s[j] \in S
    OBVIOUS
  <1> QED BY <1>1, SubSeqProperties

LEMMA SameSequence ==
    ASSUME NEW S, NEW s \in Seq(S), NEW t \in Seq(S), Len(s) = Len(t),
           \A j \in 1 .. Len(s) : s[j] = t[j]
    PROVE  s = t
  OBVIOUS

LEMMA WholeStretch ==
    ASSUME NEW S, NEW s \in Seq(S)
    PROVE  SubSeq(s, 1, Len(s)) = s
  <1> DEFINE t == SubSeq(s, 1, Len(s))
  <1>1. /\ Len(s) \in Nat /\ t \in Seq(S) /\ Len(t) = Len(s)
        /\ \A j \in 1 .. Len(s) : t[j] = s[j]
    BY StretchType
  <1> HIDE DEF t
  <1>2. t = s
    BY <1>1, SameSequence
  <1> QED BY <1>2 DEF t

(* Two adjoining stretches are one.                                        *)
LEMMA StretchJoin ==
    ASSUME NEW S, NEW s \in Seq(S), NEW a \in Nat \ {0},
           NEW m \in 0 .. Len(s), NEW b \in 0 .. Len(s), a <= m + 1, m <= b
    PROVE  SubSeq(s, a, m) \o SubSeq(s, m + 1, b) = SubSeq(s, a, b)
  <1> DEFINE l == SubSeq(s, a, m)
             r == SubSeq(s, m + 1, b)
             w == SubSeq(s, a, b)
             j == l \o r
  <1>1. /\ l \in Seq(S) /\ Len(l) = m - a + 1
        /\ \A k \in 1 .. (m - a + 1) : l[k] = s[a + k - 1]
    BY StretchType
  <1>2. /\ r \in Seq(S) /\ Len(r) = b - m
        /\ \A k \in 1 .. (b - m) : r[k] = s[m + k]
    BY StretchType
  <1>3. /\ w \in Seq(S) /\ Len(w) = b - a + 1
        /\ \A k \in 1 .. (b - a + 1) : w[k] = s[a + k - 1]
    BY StretchType
  <1> HIDE DEF l, r, w
  <1>4. /\ j \in Seq(S) /\ Len(j) = Len(l) + Len(r)
        /\ \A k \in 1 .. Len(l) : j[k] = l[k]
        /\ \A k \in Len(l) + 1 .. Len(l) + Len(r) : j[k] = r[k - Len(l)]
    <2>1. l \in Seq(S) /\ r \in Seq(S)
      BY <1>1, <1>2
    <2> QED BY <2>1
  <1> HIDE DEF j
  <1>5. Len(j) = Len(w)
    BY <1>1, <1>2, <1>3, <1>4
  <1>6. \A k \in 1 .. Len(j) : j[k] = w[k]
    <2> TAKE k \in 1 .. Len(j)
    <2>1. CASE k <= Len(l)
      BY <1>1, <1>3, <1>4, <1>5, <2>1
    <2>2. CASE k > Len(l)
      <3>1. k \in Len(l) + 1 .. Len(l) + Len(r) /\ k - Len(l) \in 1 .. (b - m)
        BY <1>1, <1>2, <1>4, <2>2
      <3>2. j[k] = s[m + (k - Len(l))]
        BY <1>2, <1>4, <3>1
      <3>3. m + (k - Len(l)) = a + k - 1
        BY <1>1, <3>1
      <3>4. k \in 1 .. (b - a + 1)
        BY <1>3, <1>5
      <3> QED BY <1>3, <3>2, <3>3, <3>4
    <2> QED BY <1>1, <1>4, <2>1, <2>2
  <1>7. j = w
    BY <1>3, <1>4, <1>5, <1>6, SameSequence
  <1> QED BY <1>7 DEF j, l, r, w

LEMMA FrontStretch ==
    ASSUME NEW A, NEW r \in Seq(A), NEW t \in Seq(A),
           NEW a \in Nat \ {0}, NEW b \in 0 .. Len(r)
    PROVE  SubSeq(r \o t, a, b) = SubSeq(r, a, b)
  <1> DEFINE j == r \o t
             u == SubSeq(j, a, b)
             v == SubSeq(r, a, b)
  <1>1. /\ j \in Seq(A) /\ Len(j) = Len(r) + Len(t) /\ Len(r) \in Nat /\ Len(t) \in Nat
        /\ \A i \in 1 .. Len(r) : j[i] = r[i]
    BY ConcatProperties
  <1> HIDE DEF j
  <1>2. b \in 0 .. Len(j)
    BY <1>1
  <1>3. /\ u \in Seq(A) /\ Len(u) = (IF a <= b THEN b - a + 1 ELSE 0)
        /\ \A i \in 1 .. (b - a + 1) : u[i] = j[a + i - 1]
    BY <1>1, <1>2, StretchType
  <1>4. /\ v \in Seq(A) /\ Len(v) = (IF a <= b THEN b - a + 1 ELSE 0)
        /\ \A i \in 1 .. (b - a + 1) : v[i] = r[a + i - 1]
    BY StretchType
  <1> HIDE DEF u, v
  <1>5. ASSUME NEW i \in 1 .. Len(u) PROVE u[i] = v[i]
    <2>1. i \in 1 .. (b - a + 1) /\ a + i - 1 \in 1 .. Len(r)
      BY <1>1, <1>3
    <2> QED BY <1>1, <1>3, <1>4, <2>1
  <1>6. u = v
    BY <1>3, <1>4, <1>5, SameSequence
  <1> QED BY <1>6 DEF u, v, j

LEMMA BackStretch ==
    ASSUME NEW A, NEW r \in Seq(A), NEW t \in Seq(A)
    PROVE  SubSeq(r \o t, Len(r) + 1, Len(r \o t)) = t
  <1> DEFINE j == r \o t
             u == SubSeq(j, Len(r) + 1, Len(j))
  <1>1. /\ j \in Seq(A) /\ Len(j) = Len(r) + Len(t) /\ Len(r) \in Nat /\ Len(t) \in Nat
        /\ \A i \in 1 .. (Len(r) + Len(t)) :
              j[i] = IF i <= Len(r) THEN r[i] ELSE t[i - Len(r)]
    BY ConcatProperties
  <1> HIDE DEF j
  <1>2. Len(r) + 1 \in Nat \ {0} /\ Len(j) \in 0 .. Len(j)
    BY <1>1
  <1>3. /\ u \in Seq(A)
        /\ Len(u) = (IF Len(r) + 1 <= Len(j) THEN Len(j) - (Len(r) + 1) + 1 ELSE 0)
        /\ \A i \in 1 .. (Len(j) - (Len(r) + 1) + 1) : u[i] = j[Len(r) + 1 + i - 1]
    BY <1>1, <1>2, StretchType
  <1> HIDE DEF u
  <1>4. Len(u) = Len(t)
    BY <1>1, <1>3
  <1>5. ASSUME NEW i \in 1 .. Len(u) PROVE u[i] = t[i]
    <2>1. /\ i \in 1 .. (Len(j) - (Len(r) + 1) + 1)
          /\ Len(r) + 1 + i - 1 \in 1 .. (Len(r) + Len(t))
          /\ ~(Len(r) + 1 + i - 1 <= Len(r)) /\ Len(r) + 1 + i - 1 - Len(r) = i
      BY <1>1, <1>4
    <2>2. u[i] = j[Len(r) + 1 + i - 1]
      BY ONLY <1>3, <2>1
    <2>3. \A x \in 1 .. (Len(r) + Len(t)) : ~(x <= Len(r)) => j[x] = t[x - Len(r)]
      BY <1>1
    <2>4. j[Len(r) + 1 + i - 1] = t[i]
      BY <2>1, <2>3
    <2> QED BY <2>2, <2>4
  <1>6. u = t
    BY <1>3, <1>4, <1>5, SameSequence
  <1> QED BY <1>6 DEF u, j

(* A stretch of a stretch is one.                                          *)
LEMMA StretchWithin ==
    ASSUME NEW S, NEW s \in Seq(S), NEW a \in Nat \ {0}, NEW b \in 0 .. Len(s), a <= b + 1,
           NEW c \in Nat \ {0}, NEW d \in 0 .. (b - a + 1)
    PROVE  SubSeq(SubSeq(s, a, b), c, d) = SubSeq(s, a + c - 1, a + d - 1)
  <1> DEFINE t == SubSeq(s, a, b)
             u == SubSeq(t, c, d)
             v == SubSeq(s, a + c - 1, a + d - 1)
  <1>1. /\ t \in Seq(S) /\ Len(t) = b - a + 1
        /\ \A k \in 1 .. (b - a + 1) : t[k] = s[a + k - 1]
    BY StretchType
  <1> HIDE DEF t
  <1>2. /\ u \in Seq(S) /\ Len(u) = IF c <= d THEN d - c + 1 ELSE 0
        /\ \A k \in 1 .. (d - c + 1) : u[k] = t[c + k - 1]
    <2>1. d \in 0 .. Len(t)
      BY <1>1
    <2> QED BY <1>1, <2>1, StretchType
  <1>3. /\ v \in Seq(S) /\ Len(v) = IF c <= d THEN d - c + 1 ELSE 0
        /\ \A k \in 1 .. (d - c + 1) : v[k] = s[a + c + k - 2]
    <2>1. a + c - 1 \in Nat \ {0} /\ a + d - 1 \in 0 .. Len(s)
      OBVIOUS
    <2>2. /\ v \in Seq(S)
          /\ Len(v) = IF a + c - 1 <= a + d - 1 THEN (a + d - 1) - (a + c - 1) + 1 ELSE 0
          /\ \A k \in 1 .. ((a + d - 1) - (a + c - 1) + 1) : v[k] = s[(a + c - 1) + k - 1]
      BY <2>1, StretchType
    <2> HIDE DEF v
    <2>3. (a + d - 1) - (a + c - 1) + 1 = d - c + 1
      OBVIOUS
    <2>4. \A k \in 1 .. (d - c + 1) : (a + c - 1) + k - 1 = a + c + k - 2
      OBVIOUS
    <2> QED BY <2>2, <2>3, <2>4
  <1> HIDE DEF u, v
  <1>4. Len(u) = Len(v)
    BY <1>2, <1>3
  <1>5. \A k \in 1 .. Len(u) : u[k] = v[k]
    <2> TAKE k \in 1 .. Len(u)
    <2>1. c <= d /\ k \in 1 .. (d - c + 1)
      BY <1>2
    <2>2. c + k - 1 \in 1 .. (b - a + 1) /\ a + (c + k - 1) - 1 = a + c + k - 2
      BY <2>1
    <2> QED BY <1>1, <1>2, <1>3, <2>1, <2>2
  <1>6. u = v
    BY <1>2, <1>3, <1>4, <1>5, SameSequence
  <1> QED BY <1>6 DEF t, u, v
-------------------------------------------------------------------------------
(* How often a value has been met in a sequence up to a position, and where*)
(* it occurs again.                                                        *)
Met(s, value, n) == { j \in 1 .. n : s[j] = value }

Later(s, p) == { q \in DOMAIN s : q > p /\ s[q] = s[p] }

(* Meeting one more element.                                               *)
LEMMA MetOneMore ==
    ASSUME NEW s, NEW value, NEW n \in Nat
    PROVE  /\ IsFiniteSet(Met(s, value, n)) /\ Cardinality(Met(s, value, n)) \in Nat
           /\ Cardinality(Met(s, value, n + 1)) =
                 IF s[n + 1] = value THEN Cardinality(Met(s, value, n)) + 1
                 ELSE Cardinality(Met(s, value, n))
  <1>1. IsFiniteSet(1 .. n)
    BY FS_Interval
  <1>2. Met(s, value, n) \in SUBSET (1 .. n)
    BY DEF Met
  <1>3. IsFiniteSet(Met(s, value, n)) /\ Cardinality(Met(s, value, n)) \in Nat
    BY <1>1, <1>2, FS_Subset, FS_CardinalityType
  <1>4. n + 1 \notin Met(s, value, n)
    BY DEF Met
  <1>5. Met(s, value, n + 1) = IF s[n + 1] = value THEN Met(s, value, n) \cup {n + 1}
                               ELSE Met(s, value, n)
    BY DEF Met
  <1> QED BY <1>3, <1>4, <1>5, FS_AddElement

LEMMA LaterFinite ==
    ASSUME NEW S, NEW s \in Seq(S), NEW p \in DOMAIN s
    PROVE  /\ IsFiniteSet(Later(s, p))
           /\ Cardinality(Later(s, p)) \in Nat
  <1>1. IsFiniteSet(1 .. Len(s))
    BY FS_Interval
  <1>2. Later(s, p) \in SUBSET (1 .. Len(s))
    BY DEF Later
  <1> QED BY <1>1, <1>2, FS_Subset, FS_CardinalityType

(* Fewer occurrences follow a later one.                                   *)
LEMMA LaterDecreases ==
    ASSUME NEW S, NEW s \in Seq(S), NEW p \in DOMAIN s, NEW q \in Later(s, p)
    PROVE  Cardinality(Later(s, q)) < Cardinality(Later(s, p))
  <1>1. q \in DOMAIN s /\ p \in Int /\ q \in Int /\ q > p /\ s[q] = s[p]
    BY DEF Later
  <1>2. Later(s, q) \in SUBSET Later(s, p)
    <2> SUFFICES ASSUME NEW r \in Later(s, q) PROVE r \in Later(s, p)
      OBVIOUS
    <2>1. r \in DOMAIN s /\ r \in Int /\ r > q /\ s[r] = s[q]
      BY DEF Later
    <2> QED BY <1>1, <2>1 DEF Later
  <1>3. q \notin Later(s, q)
    BY <1>1 DEF Later
  <1>4. /\ IsFiniteSet(Later(s, p)) /\ Cardinality(Later(s, p)) \in Nat
        /\ Cardinality(Later(s, q)) \in Nat
    BY <1>1, LaterFinite
  <1>5. /\ Cardinality(Later(s, q)) <= Cardinality(Later(s, p))
        /\ Cardinality(Later(s, q)) # Cardinality(Later(s, p))
    BY <1>2, <1>3, <1>4, FS_Subset
  <1> QED BY <1>4, <1>5

(* An occurrence is determined by its value and how many follow it.        *)
LEMMA LaterDetermines ==
    ASSUME NEW S, NEW s \in Seq(S), NEW p \in DOMAIN s, NEW q \in DOMAIN s,
           s[p] = s[q], Cardinality(Later(s, p)) = Cardinality(Later(s, q))
    PROVE  p = q
  <1>1. /\ Cardinality(Later(s, p)) \in Nat /\ Cardinality(Later(s, q)) \in Nat
        /\ p \in Int /\ q \in Int
    BY LaterFinite
  <1>2. CASE p < q
    <2>1. q \in Later(s, p)
      BY <1>1, <1>2 DEF Later
    <2> QED BY <1>1, <2>1, LaterDecreases
  <1>3. CASE q < p
    <2>1. p \in Later(s, q)
      BY <1>1, <1>3 DEF Later
    <2> QED BY <1>1, <2>1, LaterDecreases
  <1> QED BY <1>1, <1>2, <1>3

(* What follows an occurrence is what has not been met yet.                *)
LEMMA LaterIsUnmet ==
    ASSUME NEW S, NEW s \in Seq(S), NEW p \in DOMAIN s
    PROVE  Cardinality(Later(s, p))
             = Cardinality(Met(s, s[p], Len(s))) - Cardinality(Met(s, s[p], p))
  <1> DEFINE all  == Met(s, s[p], Len(s))
             past == Met(s, s[p], p)
  <1>1. p \in 1 .. Len(s) /\ Len(s) \in Nat /\ DOMAIN s = 1 .. Len(s)
    OBVIOUS
  <1>2. IsFiniteSet(past) /\ IsFiniteSet(Later(s, p))
    BY <1>1, MetOneMore, LaterFinite
  <1>3. all = past \cup Later(s, p) /\ past \cap Later(s, p) = {}
    BY <1>1 DEF Met, Later
  <1> HIDE DEF all, past
  <1>4. Cardinality(past \cap Later(s, p)) = 0
    BY <1>3, FS_EmptySet
  <1>5. /\ Cardinality(past) \in Nat /\ Cardinality(Later(s, p)) \in Nat
        /\ Cardinality(all) = Cardinality(past) + Cardinality(Later(s, p))
                                - Cardinality(past \cap Later(s, p))
    BY <1>2, <1>3, FS_Union, FS_CardinalityType
  <1>6. Cardinality(Later(s, p)) = Cardinality(all) - Cardinality(past)
    BY <1>4, <1>5
  <1> QED BY <1>6 DEF all, past
-------------------------------------------------------------------------------
(* One element more, and one put between others.                           *)

(* The greater of two numbers.                                             *)
LEMMA GreaterOf ==
    ASSUME NEW a \in Nat, NEW b \in Int
    PROVE  Max({a, b}) = IF a >= b THEN a ELSE b
  <1> DEFINE m == IF a >= b THEN a ELSE b
  <1>1. m \in {a, b} /\ \A y \in {a, b} : m >= y
    OBVIOUS
  <1>2. \A x \in {a, b} : (\A y \in {a, b} : x >= y) => x = m
    OBVIOUS
  <1> HIDE DEF m
  <1>3. Max({a, b}) = m
    BY <1>1, <1>2 DEF Max
  <1> QED BY <1>3 DEF m

LEMMA OneOf == ASSUME NEW A, NEW c \in A PROVE <<c>> \in Seq(A)
  OBVIOUS

(* An element more is a sequence of one more.                              *)
LEMMA AppendIs ==
    ASSUME NEW A, NEW s \in Seq(A), NEW c \in A
    PROVE  Append(s, c) = s \o <<c>> /\ <<c>> \in Seq(A)
  <1> DEFINE l == Append(s, c)
             one == <<c>>
             r == s \o one
  <1>0. one \in Seq(A) /\ Len(one) = 1 /\ one[1] = c
    OBVIOUS
  <1>1. /\ Len(s) \in Nat /\ l \in Seq(A) /\ Len(l) = Len(s) + 1 /\ l[Len(s) + 1] = c
        /\ \A j \in 1 .. Len(s) : l[j] = s[j]
    BY AppendProperties
  <1> HIDE DEF l, one
  <1>2. /\ r \in Seq(A) /\ Len(r) = Len(s) + 1
        /\ \A i \in 1 .. (Len(s) + 1) : r[i] = IF i <= Len(s) THEN s[i] ELSE one[i - Len(s)]
    <2>1. /\ s \o one \in Seq(A) /\ Len(s \o one) = Len(s) + Len(one)
          /\ \A i \in 1 .. (Len(s) + Len(one)) :
                (s \o one)[i] = IF i <= Len(s) THEN s[i] ELSE one[i - Len(s)]
      BY ONLY <1>0, s \in Seq(A), ConcatProperties
    <2> QED BY <1>0, <2>1
  <1> HIDE DEF r
  <1>3. ASSUME NEW i \in 1 .. Len(l) PROVE l[i] = r[i]
    <2>1. CASE i = Len(s) + 1
      <3>1. ~(i <= Len(s)) /\ i - Len(s) = 1
        BY <1>1, <2>1
      <3> QED BY <1>0, <1>1, <1>2, <2>1, <3>1
    <2>2. CASE i # Len(s) + 1
      <3>1. i \in 1 .. Len(s) /\ i <= Len(s)
        BY <1>1, <2>2
      <3> QED BY <1>1, <1>2, <3>1
    <2> QED BY <2>1, <2>2
  <1>4. l = r
    BY <1>1, <1>2, <1>3, SameSequence
  <1> QED BY <1>0, <1>4 DEF l, r, one

(* A sequence is its front and its last element.                           *)
LEMMA LastOff ==
    ASSUME NEW A, NEW s \in Seq(A), s # <<>>
    PROVE  \E d \in Seq(A) : s = Append(d, Last(s)) /\ Last(s) \in A /\ Len(d) = Len(s) - 1
  <1> DEFINE n == Len(s) - 1
             d == SubSeq(s, 1, n)
             c == s[n + 1]
             r == Append(d, c)
  <1>1. n \in Nat /\ Len(s) = n + 1 /\ c \in A /\ Last(s) = c
    <2>1. Len(s) \in Nat /\ Len(s) # 0
      OBVIOUS
    <2>2. Len(s) \in 1 .. Len(s) /\ n + 1 = Len(s) /\ n \in Nat
      BY <2>1
    <2> QED BY <2>2 DEF Last
  <1> HIDE DEF n, c
  <1>2. d \in Seq(A) /\ Len(d) = n /\ \A j \in 1 .. n : d[j] = s[j]
    <2>1. 1 \in Nat \ {0} /\ n \in 0 .. Len(s) /\ n - 1 + 1 = n
      BY <1>1
    <2>2. /\ d \in Seq(A) /\ Len(d) = (IF 1 <= n THEN n - 1 + 1 ELSE 0)
          /\ \A j \in 1 .. (n - 1 + 1) : d[j] = s[1 + j - 1]
      BY <2>1, StretchType
    <2> HIDE DEF d
    <2> QED BY <1>1, <2>1, <2>2
  <1> HIDE DEF d
  <1>3. /\ r \in Seq(A) /\ Len(r) = n + 1 /\ r[n + 1] = c
        /\ \A j \in 1 .. n : r[j] = d[j]
    BY <1>1, <1>2, AppendProperties
  <1> HIDE DEF r
  <1>4. ASSUME NEW j \in 1 .. Len(s) PROVE s[j] = r[j]
    <2>1. j \in 1 .. n \/ j = n + 1
      BY <1>1
    <2> QED BY <1>2, <1>3, <2>1 DEF c
  <1>5. s = r
    BY <1>1, <1>3, <1>4, SameSequence
  <1> QED BY <1>1, <1>2, <1>5 DEF r

(* Stretches of a sequence with an element more.                           *)
LEMMA StretchAppend ==
    ASSUME NEW A, NEW s \in Seq(A), NEW c \in A, NEW t, t = Append(s, c)
    PROVE  /\ t \in Seq(A) /\ Len(t) = Len(s) + 1 /\ t[Len(s) + 1] = c /\ Len(s) \in Nat
           /\ \A j \in 1 .. Len(s) : t[j] = s[j]
           /\ \A a \in Nat \ {0} : \A b \in 0 .. Len(s) : SubSeq(t, a, b) = SubSeq(s, a, b)
           /\ \A a \in 1 .. (Len(s) + 1) :
                 SubSeq(t, a, Len(s) + 1) = Append(SubSeq(s, a, Len(s)), c)
  <1> DEFINE n == Len(s)
  <1>1. /\ n \in Nat /\ t \in Seq(A) /\ Len(t) = n + 1 /\ t[n + 1] = c
        /\ \A j \in 1 .. n : t[j] = s[j]
    BY AppendProperties
  <1>2. ASSUME NEW a \in Nat \ {0}, NEW b \in 0 .. n
        PROVE  SubSeq(t, a, b) = SubSeq(s, a, b)
    <2> DEFINE u == SubSeq(t, a, b)
               v == SubSeq(s, a, b)
    <2>0. b \in 0 .. Len(t)
      BY <1>1
    <2>1. /\ u \in Seq(A) /\ Len(u) = (IF a <= b THEN b - a + 1 ELSE 0)
          /\ \A j \in 1 .. (b - a + 1) : u[j] = t[a + j - 1]
      BY <1>1, <2>0, StretchType
    <2>2. /\ v \in Seq(A) /\ Len(v) = (IF a <= b THEN b - a + 1 ELSE 0)
          /\ \A j \in 1 .. (b - a + 1) : v[j] = s[a + j - 1]
      BY StretchType
    <2> HIDE DEF u, v
    <2>3. ASSUME NEW j \in 1 .. Len(u) PROVE u[j] = v[j]
      <3>1. j \in 1 .. (b - a + 1) /\ a + j - 1 \in 1 .. n
        BY <1>1, <2>1
      <3> QED BY <1>1, <2>1, <2>2, <3>1
    <2>4. u = v
      BY <2>1, <2>2, <2>3, SameSequence
    <2> QED BY <2>4 DEF u, v
  <1>3. ASSUME NEW a \in 1 .. (n + 1)
        PROVE  SubSeq(t, a, n + 1) = Append(SubSeq(s, a, n), c)
    <2> DEFINE u == SubSeq(t, a, n + 1)
               v == SubSeq(s, a, n)
               w == Append(v, c)
    <2>0. a \in Nat \ {0} /\ n + 1 \in 0 .. Len(t) /\ n \in 0 .. Len(s)
      BY <1>1
    <2>1. /\ u \in Seq(A) /\ Len(u) = (IF a <= n + 1 THEN n + 1 - a + 1 ELSE 0)
          /\ \A j \in 1 .. (n + 1 - a + 1) : u[j] = t[a + j - 1]
      BY <1>1, <2>0, StretchType
    <2>2. /\ v \in Seq(A) /\ Len(v) = (IF a <= n THEN n - a + 1 ELSE 0)
          /\ \A j \in 1 .. (n - a + 1) : v[j] = s[a + j - 1]
      BY <2>0, StretchType
    <2> HIDE DEF u, v
    <2>3. /\ w \in Seq(A) /\ Len(w) = Len(v) + 1 /\ w[Len(v) + 1] = c
          /\ \A j \in 1 .. Len(v) : w[j] = v[j]
      BY <2>2, AppendProperties
    <2> HIDE DEF w
    <2>4. Len(v) = n - a + 1 /\ Len(u) = n + 1 - a + 1 /\ Len(u) = Len(w)
      BY <1>1, <2>1, <2>2, <2>3
    <2>5. ASSUME NEW j \in 1 .. Len(u) PROVE u[j] = w[j]
      <3>1. CASE j = Len(v) + 1
        <4>1. a + j - 1 = n + 1 /\ j \in 1 .. (n + 1 - a + 1)
          BY <1>1, <2>4, <3>1
        <4> QED BY <1>1, <2>1, <2>3, <3>1, <4>1
      <3>2. CASE j # Len(v) + 1
        <4>1. /\ j \in 1 .. (n + 1 - a + 1) /\ j \in 1 .. (n - a + 1) /\ j \in 1 .. Len(v)
              /\ a + j - 1 \in 1 .. n
          BY <1>1, <2>4, <3>2
        <4> QED BY <1>1, <2>1, <2>2, <2>3, <4>1
      <3> QED BY <3>1, <3>2
    <2>6. u = w
      BY <2>1, <2>3, <2>4, <2>5, SameSequence
    <2> QED BY <2>6 DEF u, v, w
  <1> QED BY <1>1, <1>2, <1>3

(* A stretch of the second of two sequences.                               *)
LEMMA BackPart ==
    ASSUME NEW A, NEW r \in Seq(A), NEW t \in Seq(A), NEW c \in Nat \ {0}, NEW d \in 0 .. Len(t)
    PROVE  SubSeq(r \o t, Len(r) + c, Len(r) + d) = SubSeq(t, c, d)
  <1> DEFINE j == r \o t
             m == Len(r)
             n == Len(t)
  <1>1. j \in Seq(A) /\ Len(j) = m + n /\ m \in Nat /\ n \in Nat
    BY ConcatProperties
  <1>2. SubSeq(j, m + 1, Len(j)) = t
    BY BackStretch
  <1> HIDE DEF j, m
  <1>3. /\ m + 1 \in Nat \ {0} /\ Len(j) \in 0 .. Len(j) /\ m + 1 <= Len(j) + 1
        /\ d \in 0 .. (Len(j) - (m + 1) + 1)
    BY <1>1
  <1>4. SubSeq(SubSeq(j, m + 1, Len(j)), c, d) = SubSeq(j, m + 1 + c - 1, m + 1 + d - 1)
    BY ONLY <1>1, <1>3, c \in Nat \ {0}, StretchWithin
  <1>5. m + 1 + c - 1 = m + c /\ m + 1 + d - 1 = m + d
    BY <1>1
  <1> QED BY <1>2, <1>4, <1>5 DEF j, m

(* An element between two sequences.                                       *)
LEMMA BetweenFacts ==
    ASSUME NEW S, NEW c \in S, NEW x \in Seq(S), NEW y \in Seq(S), NEW z, z = x \o (<<c>> \o y)
    PROVE  /\ z \in Seq(S) /\ Len(z) = Len(x) + 1 + Len(y) /\ Len(x) \in Nat /\ Len(y) \in Nat
           /\ \A j \in 1 .. Len(x) : z[j] = x[j]
           /\ z[Len(x) + 1] = c
           /\ \A j \in 1 .. Len(y) : z[Len(x) + 1 + j] = y[j]
  <1> DEFINE one == <<c>>
             m == one \o y
  <1>1. one \in Seq(S) /\ Len(one) = 1 /\ one[1] = c /\ Len(x) \in Nat /\ Len(y) \in Nat
    BY OneOf
  <1>0. z = x \o m
    OBVIOUS
  <1> HIDE DEF one
  <1>2. /\ m \in Seq(S) /\ Len(m) = 1 + Len(y) /\ m[1] = c
        /\ \A j \in 1 .. Len(y) : m[1 + j] = y[j]
    <2>1. /\ m \in Seq(S) /\ Len(m) = Len(one) + Len(y)
          /\ \A i \in 1 .. (Len(one) + Len(y)) : m[i] = IF i <= Len(one) THEN one[i] ELSE y[i - Len(one)]
      BY <1>1, ConcatProperties
    <2> HIDE DEF m
    <2>2. m[1] = c
      <3>1. 1 \in 1 .. (Len(one) + Len(y)) /\ 1 <= Len(one)
        BY <1>1
      <3> QED BY ONLY <1>1, <2>1, <3>1
    <2>3. ASSUME NEW j \in 1 .. Len(y) PROVE m[1 + j] = y[j]
      <3>1. 1 + j \in 1 .. (Len(one) + Len(y)) /\ ~(1 + j <= Len(one)) /\ 1 + j - Len(one) = j
        BY <1>1
      <3>2. m[1 + j] = y[1 + j - Len(one)]
        BY ONLY <2>1, <3>1
      <3> QED BY ONLY <3>1, <3>2
    <2> QED BY <1>1, <2>1, <2>2, <2>3
  <1>3. z = x \o m
    BY <1>0
  <1> HIDE DEF m
  <1>4. /\ x \o m \in Seq(S) /\ Len(x \o m) = Len(x) + Len(m)
        /\ \A i \in 1 .. (Len(x) + Len(m)) : (x \o m)[i] = IF i <= Len(x) THEN x[i] ELSE m[i - Len(x)]
    <2>1. m \in Seq(S) /\ x \in Seq(S)
      BY <1>2
    <2> QED BY ONLY <2>1, ConcatProperties
  <1>5. /\ z \in Seq(S) /\ Len(z) = Len(x) + Len(m)
        /\ \A i \in 1 .. (Len(x) + Len(m)) : z[i] = IF i <= Len(x) THEN x[i] ELSE m[i - Len(x)]
    BY ONLY <1>3, <1>4
  <1>6. Len(z) = Len(x) + 1 + Len(y)
    BY <1>1, <1>2, <1>5
  <1>7. ASSUME NEW j \in 1 .. Len(x) PROVE z[j] = x[j]
    <2>1. j \in 1 .. (Len(x) + Len(m)) /\ j <= Len(x)
      BY <1>1, <1>2
    <2> QED BY ONLY <1>5, <2>1
  <1>8. z[Len(x) + 1] = c
    <2>1. Len(x) + 1 \in 1 .. (Len(x) + Len(m)) /\ ~(Len(x) + 1 <= Len(x)) /\ Len(x) + 1 - Len(x) = 1
      BY <1>1, <1>2
    <2>2. z[Len(x) + 1] = m[Len(x) + 1 - Len(x)]
      BY ONLY <1>5, <2>1
    <2> QED BY ONLY <1>2, <2>1, <2>2
  <1>9. ASSUME NEW j \in 1 .. Len(y) PROVE z[Len(x) + 1 + j] = y[j]
    <2>1. /\ Len(x) + 1 + j \in 1 .. (Len(x) + Len(m)) /\ ~(Len(x) + 1 + j <= Len(x))
          /\ Len(x) + 1 + j - Len(x) = 1 + j
      BY <1>1, <1>2
    <2>2. z[Len(x) + 1 + j] = m[Len(x) + 1 + j - Len(x)]
      BY ONLY <1>5, <2>1
    <2> QED BY <1>2, <2>1, <2>2
  <1> QED BY <1>1, <1>5, <1>6, <1>7, <1>8, <1>9

(* A stretch of a sequence that stands in another, one place further on.   *)
LEMMA StretchMoved ==
    ASSUME NEW A, NEW N \in Seq(A), NEW s \in Seq(A), Len(s) = Len(N) + 3,
           \A p \in 1 .. Len(N) : s[p + 1] = N[p],
           NEW x \in 1 .. (Len(N) + 1), NEW y \in 0 .. Len(N)
    PROVE  SubSeq(s, x + 1, y + 1) = SubSeq(N, x, y)
  <1> DEFINE u == SubSeq(s, x + 1, y + 1)
             v == SubSeq(N, x, y)
  <1>1. /\ N \in Seq(A) /\ s \in Seq(A) /\ Len(N) \in Nat
        /\ x \in Nat \ {0} /\ x + 1 \in Nat \ {0} /\ y + 1 \in 0 .. Len(s)
        /\ y + 1 - (x + 1) + 1 = y - x + 1 /\ (x + 1 <= y + 1 <=> x <= y)
    OBVIOUS
  <1>2. /\ u \in Seq(A) /\ Len(u) = IF x + 1 <= y + 1 THEN y + 1 - (x + 1) + 1 ELSE 0
        /\ \A j \in 1 .. (y + 1 - (x + 1) + 1) : u[j] = s[x + 1 + j - 1]
    BY ONLY <1>1, StretchType
  <1>3. /\ v \in Seq(A) /\ Len(v) = IF x <= y THEN y - x + 1 ELSE 0
        /\ \A j \in 1 .. (y - x + 1) : v[j] = N[x + j - 1]
    BY ONLY <1>1, StretchType
  <1> HIDE DEF u, v
  <1>4. Len(u) = Len(v) /\ Len(u) \in Nat
    BY <1>1, <1>2, <1>3
  <1>5. ASSUME NEW j \in 1 .. Len(u) PROVE u[j] = v[j]
    <2>1. j \in 1 .. (y - x + 1)
      BY <1>1, <1>2
    <2>2. x + j - 1 \in 1 .. Len(N) /\ x + 1 + j - 1 = x + j - 1 + 1
      BY <1>1, <2>1
    <2> QED BY <1>1, <1>2, <1>3, <2>1, <2>2
  <1>6. u = v
    BY <1>2, <1>3, <1>4, <1>5, SameSequence
  <1> QED BY <1>6 DEF u, v

(* An element put in before the one at p.                                  *)
LEMMA InsertedAt ==
    ASSUME NEW A, NEW w \in Seq(A), NEW p \in 1 .. (Len(w) + 1), NEW c \in A,
           NEW v, v = InsertAt(w, p, c)
    PROVE  /\ v \in Seq(A) /\ Len(v) = Len(w) + 1 /\ v[p] = c /\ Len(w) \in Nat
           /\ \A j \in 1 .. (p - 1) : v[j] = w[j]
           /\ \A j \in p .. Len(w) : v[j + 1] = w[j]
  <1> DEFINE l == SubSeq(w, 1, p - 1)
             r == SubSeq(w, p, Len(w))
             one == <<c>>
  <1>1. v = (l \o one) \o r
    BY DEF InsertAt
  <1>2. /\ w \in Seq(A) /\ Len(w) \in Nat /\ p \in Nat \ {0} /\ 1 \in Nat \ {0}
        /\ p - 1 \in 0 .. Len(w) /\ Len(w) \in 0 .. Len(w)
    OBVIOUS
  <1>3. /\ l \in Seq(A) /\ Len(l) = p - 1 /\ \A j \in 1 .. (p - 1) : l[j] = w[j]
    <2>1. /\ l \in Seq(A) /\ Len(l) = (IF 1 <= p - 1 THEN p - 1 - 1 + 1 ELSE 0)
          /\ \A j \in 1 .. (p - 1 - 1 + 1) : l[j] = w[1 + j - 1]
      BY <1>2, StretchType
    <2> HIDE DEF l
    <2> QED BY <1>2, <2>1
  <1>4. /\ r \in Seq(A) /\ Len(r) = Len(w) - p + 1
        /\ \A j \in 1 .. (Len(w) - p + 1) : r[j] = w[p + j - 1]
    <2>1. /\ r \in Seq(A) /\ Len(r) = (IF p <= Len(w) THEN Len(w) - p + 1 ELSE 0)
          /\ \A j \in 1 .. (Len(w) - p + 1) : r[j] = w[p + j - 1]
      BY <1>2, StretchType
    <2> HIDE DEF r
    <2> QED BY <1>2, <2>1
  <1>5. one \in Seq(A) /\ Len(one) = 1 /\ one[1] = c
    BY OneOf
  <1> HIDE DEF l, r, one
  <1> DEFINE m == l \o one
  <1>6. /\ m \in Seq(A) /\ Len(m) = p /\ m[p] = c
        /\ \A j \in 1 .. (p - 1) : m[j] = w[j]
    <2>1. /\ m \in Seq(A) /\ Len(m) = Len(l) + Len(one)
          /\ \A i \in 1 .. (Len(l) + Len(one)) : m[i] = IF i <= Len(l) THEN l[i] ELSE one[i - Len(l)]
      BY <1>3, <1>5, ConcatProperties
    <2> HIDE DEF m
    <2> QED BY <1>2, <1>3, <1>5, <2>1
  <1>7. v = m \o r
    BY <1>1
  <1> HIDE DEF m
  <1>8. /\ v \in Seq(A) /\ Len(v) = Len(m) + Len(r)
        /\ \A i \in 1 .. (Len(m) + Len(r)) : v[i] = IF i <= Len(m) THEN m[i] ELSE r[i - Len(m)]
    <2>1. /\ m \o r \in Seq(A) /\ Len(m \o r) = Len(m) + Len(r)
          /\ \A i \in 1 .. (Len(m) + Len(r)) :
                (m \o r)[i] = IF i <= Len(m) THEN m[i] ELSE r[i - Len(m)]
      BY ONLY <1>4, <1>6, ConcatProperties
    <2> QED BY ONLY <1>7, <2>1
  <1>9. ASSUME NEW j \in p .. Len(w) PROVE v[j + 1] = w[j]
    <2>1. j + 1 \in 1 .. (Len(m) + Len(r)) /\ ~(j + 1 <= Len(m)) /\ j + 1 - Len(m) = j + 1 - p
          /\ j + 1 - p \in 1 .. (Len(w) - p + 1) /\ p + (j + 1 - p) - 1 = j
      BY <1>2, <1>4, <1>6
    <2>2. v[j + 1] = r[j + 1 - Len(m)]
      BY ONLY <1>8, <2>1
    <2>3. r[j + 1 - p] = w[p + (j + 1 - p) - 1]
      BY ONLY <1>4, <2>1
    <2> QED BY ONLY <2>1, <2>2, <2>3
  <1> QED BY <1>2, <1>4, <1>6, <1>8, <1>9

(* What is kept when a character is added is true of every sequence.       *)
LEMMA AppendInduction ==
    ASSUME NEW A, NEW P, <<>> \in P,
           \A s \in Seq(A), c \in A : s \in P => Append(s, c) \in P
    PROVE  \A s \in Seq(A) : s \in P
  <1> DEFINE S == { n \in Nat : \A s \in Seq(A) : Len(s) = n => s \in P }
  <1>1. 0 \in S
    <2>1. \A s \in Seq(A) : Len(s) = 0 => s = <<>>
      OBVIOUS
    <2> QED BY <2>1
  <1>2. ASSUME NEW n \in Nat, n \in S PROVE n + 1 \in S
    <2> SUFFICES ASSUME NEW s \in Seq(A), Len(s) = n + 1 PROVE s \in P
      OBVIOUS
    <2> DEFINE t == SubSeq(s, 1, n)
               c == s[n + 1]
    <2>1. /\ n \in 0 .. Len(s) /\ 1 \in Nat \ {0} /\ n - 1 + 1 = n
          /\ n + 1 \in 1 .. Len(s) /\ c \in A
      OBVIOUS
    <2>2. t \in Seq(A) /\ Len(t) = n /\ \A j \in 1 .. n : t[j] = s[j]
      BY <2>1, StretchType
    <2> HIDE DEF t, c
    <2>3. Append(t, c) \in P
      BY <1>2, <2>1, <2>2
    <2>4. /\ Append(t, c) \in Seq(A) /\ Len(Append(t, c)) = n + 1
          /\ \A j \in 1 .. n : Append(t, c)[j] = t[j]
          /\ Append(t, c)[n + 1] = c
      BY <2>1, <2>2, AppendProperties
    <2>5. \A j \in 1 .. Len(s) : s[j] = Append(t, c)[j]
      <3> SUFFICES ASSUME NEW j \in 1 .. (n + 1) PROVE s[j] = Append(t, c)[j]
        OBVIOUS
      <3>1. CASE j = n + 1
        BY <2>4, <3>1 DEF c
      <3>2. CASE j # n + 1
        <4>1. j \in 1 .. n
          BY <3>2
        <4> QED BY <2>2, <2>4, <4>1
      <3> QED BY <3>1, <3>2
    <2>6. s = Append(t, c)
      <3>1. Len(s) = Len(Append(t, c))
        BY <2>4
      <3> QED BY ONLY <2>4, <2>5, <3>1, s \in Seq(A), SameSequence
    <2> QED BY <2>3, <2>6
  <1> HIDE DEF S
  <1>3. \A n \in Nat : n \in S
    BY <1>1, <1>2, NatInductionOnSet
  <1> QED BY <1>3 DEF S
==============================================================================

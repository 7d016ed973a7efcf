------------------------- MODULE CanonicalTextProofs -------------------------
(***************************************************************************)
(* For every message and whatever is done to it between two parses: no     *)
(* line of a header block is empty, each field the parser makes is a       *)
(* stretch of whole lines of the message, and canonicalization hides from  *)
(* a signature what it is meant to hide.                                   *)
(***************************************************************************)
EXTENDS CanonicalTextInvariants, SequenceFacts, TLAPS

-------------------------------------------------------------------------------
(* IndexFrom and Split. *)

FirstAt(s, from, c, e) ==
    /\ e \in from .. (Len(s) + 1) /\ (e <= Len(s) => s[e] = c)
    /\ \A p \in from .. (e - 1) : s[p] # c

LEMMA IndexFacts ==
    ASSUME NEW A, NEW s \in Seq(A), NEW from \in 1 .. (Len(s) + 1), NEW c
    PROVE  FirstAt(s, from, c, IndexFrom(s, from, c))
  <1> DEFINE B == { p \in from .. Len(s) : s[p] = c } \cup {Len(s) + 1}
             e == Min(B)
  <1>1. B \in SUBSET Nat /\ B # {} /\ Len(s) \in Nat
    OBVIOUS
  <1>2. IndexFrom(s, from, c) = e
    BY DEF IndexFrom
  <1> HIDE DEF B, e
  <1>3. e \in B /\ \A m \in B : e <= m
    BY <1>1, SmallestElement DEF e
  <1>4. e \in from .. (Len(s) + 1) /\ (e <= Len(s) => s[e] = c)
    BY <1>1, <1>3 DEF B
  <1>5. ASSUME NEW p \in from .. (e - 1) PROVE s[p] # c
    <2>1. p \in from .. Len(s) /\ p \in Int /\ e \in Int /\ p < e
      BY <1>1, <1>4
    <2>2. p \notin B
      BY <1>3, <2>1
    <2> QED BY <2>1, <2>2 DEF B
  <1> QED BY <1>2, <1>4, <1>5 DEF FirstAt

LEMMA IndexIs ==
    ASSUME NEW A, NEW s \in Seq(A), NEW from \in 1 .. (Len(s) + 1), NEW c,
           NEW e, FirstAt(s, from, c, e)
    PROVE  IndexFrom(s, from, c) = e
  <1> DEFINE i == IndexFrom(s, from, c)
  <1>1. /\ i \in from .. (Len(s) + 1) /\ (i <= Len(s) => s[i] = c)
        /\ \A p \in from .. (i - 1) : s[p] # c
    BY IndexFacts DEF FirstAt
  <1>2. i \in Int /\ e \in Int /\ Len(s) \in Nat
    BY <1>1 DEF FirstAt
  <1> HIDE DEF i
  <1>3. ~(i < e)
    BY <1>1, <1>2 DEF FirstAt
  <1>4. ~(e < i)
    BY <1>1, <1>2 DEF FirstAt
  <1> QED BY <1>2, <1>3, <1>4 DEF i

PartsEquation(s, c, n, f) ==
    f = [p \in n .. (Len(s) + 1) |->
           LET q == IndexFrom(s, p, c)
           IN  IF q > Len(s) THEN << SubSeq(s, p, Len(s)) >>
               ELSE << SubSeq(s, p, q - 1) >> \o f[q + 1]]

(* The equation of the parts has a solution, found from the end of the     *)
(* text backwards.                                                         *)
LEMMA PartsExist ==
    ASSUME NEW A, NEW s \in Seq(A), NEW c
    PROVE  \E f : PartsEquation(s, c, 1, f)
  <1> DEFINE L == Len(s)
             P == { k \in 0 .. L : \E f : PartsEquation(s, c, L + 1 - k, f) }
  <1>1. L \in Nat
    OBVIOUS
  <1>2. 0 \in P
    <2> DEFINE f == [p \in (L + 1) .. (L + 1) |-> << SubSeq(s, p, L) >>]
    <2>1. ASSUME NEW p \in (L + 1) .. (L + 1) PROVE IndexFrom(s, p, c) > L
      <3>1. p \in 1 .. (L + 1) /\ p = L + 1
        BY <1>1
      <3>2. IndexFrom(s, p, c) \in p .. (L + 1)
        BY <3>1, IndexFacts DEF FirstAt
      <3> QED BY <1>1, <3>1, <3>2
    <2>2. PartsEquation(s, c, L + 1, f)
      BY <2>1 DEF PartsEquation
    <2> QED BY <1>1, <2>2
  <1>3. ASSUME NEW k \in 0 .. (L - 1), k \in P PROVE k + 1 \in P
    <2> DEFINE n == L - k
    <2>1. n \in 1 .. L /\ L + 1 - k = n + 1 /\ L + 1 - (k + 1) = n
      BY <1>1
    <2>2. PICK f : PartsEquation(s, c, n + 1, f)
      BY <1>3, <2>1
    <2> DEFINE g == [p \in n .. (L + 1) |->
                       IF p # n THEN f[p]
                       ELSE LET q == IndexFrom(s, p, c)
                            IN  IF q > Len(s) THEN << SubSeq(s, p, Len(s)) >>
                                ELSE << SubSeq(s, p, q - 1) >> \o f[q + 1]]
    <2> HIDE DEF n
    <2>3. ASSUME NEW p \in n .. (L + 1), IndexFrom(s, p, c) <= L
          PROVE  f[IndexFrom(s, p, c) + 1] = g[IndexFrom(s, p, c) + 1]
      <3>1. p \in 1 .. (L + 1)
        BY <1>1, <2>1
      <3>2. IndexFrom(s, p, c) \in p .. (L + 1)
        BY <3>1, IndexFacts DEF FirstAt
      <3>3. IndexFrom(s, p, c) + 1 \in (n + 1) .. (L + 1)
        BY <1>1, <2>1, <2>3, <3>1, <3>2
      <3> QED BY <1>1, <2>1, <3>3
    <2>4. ASSUME NEW p \in n .. (L + 1)
          PROVE  /\ IndexFrom(s, p, c) \in Int
                 /\ g[p] = LET q == IndexFrom(s, p, c)
                           IN  IF q > Len(s) THEN << SubSeq(s, p, Len(s)) >>
                               ELSE << SubSeq(s, p, q - 1) >> \o g[q + 1]
      <3>1. p \in 1 .. (L + 1)
        BY <1>1, <2>1
      <3>2. IndexFrom(s, p, c) \in p .. (L + 1) /\ IndexFrom(s, p, c) \in Int
        BY <3>1, IndexFacts DEF FirstAt
      <3>3. p # n => p \in (n + 1) .. (L + 1)
        BY <1>1, <2>1
      <3>4. g[p] = LET q == IndexFrom(s, p, c)
                   IN  IF q > Len(s) THEN << SubSeq(s, p, Len(s)) >>
                       ELSE << SubSeq(s, p, q - 1) >> \o f[q + 1]
        BY <2>2, <3>3 DEF PartsEquation
      <3>5. CASE IndexFrom(s, p, c) > L
        BY <3>2, <3>4, <3>5
      <3>6. CASE ~(IndexFrom(s, p, c) > L)
        <4>1. IndexFrom(s, p, c) <= L
          BY <1>1, <3>2, <3>6
        <4>2. f[IndexFrom(s, p, c) + 1] = g[IndexFrom(s, p, c) + 1]
          BY <2>3, <4>1
        <4> HIDE DEF g
        <4> QED BY <3>2, <3>4, <3>6, <4>2
      <3> QED BY <3>5, <3>6
    <2>5. g = [p \in n .. (L + 1) |-> g[p]]
      OBVIOUS
    <2>6. PartsEquation(s, c, n, g)
      <3> HIDE DEF g
      <3> QED BY <2>4, <2>5 DEF PartsEquation
    <2>7. k + 1 \in 0 .. L
      BY <1>1
    <2> QED BY <2>1, <2>6, <2>7
  <1> HIDE DEF P, L
  <1>4. \A k \in 0 .. L : k \in P
    BY ONLY <1>1, <1>2, <1>3, IntervalInduction
  <1>5. L \in P /\ L + 1 - L = 1
    BY <1>1, <1>4
  <1> QED BY <1>5 DEF P

PartTo(s, c, p, q) ==
    PartsFrom(s, c)[p] = IF q > Len(s) THEN << SubSeq(s, p, Len(s)) >>
                         ELSE << SubSeq(s, p, q - 1) >> \o PartsFrom(s, c)[q + 1]

LEMMA PartsUnfold ==
    ASSUME NEW A, NEW s \in Seq(A), NEW c, NEW p \in 1 .. (Len(s) + 1)
    PROVE  PartTo(s, c, p, IndexFrom(s, p, c))
  <1>1. PartsFrom(s, c) = CHOOSE f : PartsEquation(s, c, 1, f)
    BY DEF PartsFrom, PartsEquation
  <1>2. PartsEquation(s, c, 1, PartsFrom(s, c))
    BY <1>1, PartsExist
  <1> HIDE DEF PartsFrom
  <1> QED BY <1>2 DEF PartsEquation, PartTo
-------------------------------------------------------------------------------
(* The framed message. *)

LEMMA Letters ==
    /\ CRLF \in Alphabet /\ "CR" \in Alphabet /\ "LF" \in Alphabet /\ "v" \in Alphabet
    /\ \A space \in WSP : space \in Alphabet
    /\ \A ch \in DOMAIN LowerOf : LowerOf[ch] \in Alphabet
    /\ CRLF \notin WSP
  <1>1. CRLF \notin WSP
    BY DEF CRLF, WSP
  <1>2. \A ch \in DOMAIN LowerOf : LowerOf[ch] \in Lowered
    BY DEF Lowered
  <1> QED BY <1>1, <1>2 DEF Alphabet

LEMMA MessagesAreTexts == \A m \in Messages : m \in Text
  <1> SUFFICES ASSUME NEW m \in Messages PROVE m \in Seq(Alphabet)
    BY DEF Text
  <1>1. m \in Seq(ToSet(m))
    BY MessagesAreSequences
  <1>2. ToSet(m) \subseteq Received
    BY DEF Received
  <1>3. ToSet(m) \subseteq Alphabet
    BY <1>2 DEF Alphabet
  <1> QED BY <1>1, <1>3, SeqMonotonic

LEMMA ReplacedType ==
    ASSUME NEW s \in Text, NEW old, NEW new \in Alphabet
    PROVE  ReplaceEach(s, old, new) \in Text
  BY DEF ReplaceEach, Text

LEMMA NormalizedType ==
    ASSUME NEW r \in Text
    PROVE  Normalize(r) \in Text
  <1> DEFINE paired == { p \in 2 .. Len(r) : r[p - 1] = "CR" /\ r[p] = "LF" }
             pieces == [p \in DOMAIN r |-> IF p + 1 \in paired THEN <<>> ELSE <<r[p]>>]
  <1>1. Len(r) \in Nat /\ DOMAIN r = 1 .. Len(r) /\ \A p \in 1 .. Len(r) : r[p] \in Alphabet
    BY DEF Text
  <1>2. pieces \in [1 .. Len(r) -> Seq(Alphabet)]
    <2> HIDE DEF paired
    <2>1. ASSUME NEW p \in 1 .. Len(r)
          PROVE  (IF p + 1 \in paired THEN <<>> ELSE <<r[p]>>) \in Seq(Alphabet)
      BY <1>1
    <2> QED BY <1>1, <2>1
  <1>3. FlattenSeq(pieces) \in Seq(Alphabet)
    <2> HIDE DEF pieces
    <2> QED BY <1>1, <1>2, FlattenType
  <1>4. ReplacePair(r) \in Text
    BY <1>3 DEF ReplacePair, Text
  <1> QED BY <1>4, ReplacedType, Letters DEF Normalize

LEMMA FramedFacts ==
    ASSUME NEW r \in Text, NEW N, N = Normalize(r), NEW s, s = Framed(r)
    PROVE  /\ N \in Text /\ Len(N) \in Nat
           /\ s \in Text /\ Len(s) = Len(N) + 3
           /\ s[1] = CRLF /\ s[Len(N) + 2] = CRLF /\ s[Len(N) + 3] = CRLF
           /\ \A p \in 1 .. Len(N) : s[p + 1] = N[p]
  <1> DEFINE one == <<CRLF>>
             two == <<CRLF, CRLF>>
             start == one \o N
             n == Len(N)
  <1>1. N \in Seq(Alphabet) /\ n \in Nat
    BY NormalizedType DEF Text
  <1>2. /\ one \in Seq(Alphabet) /\ two \in Seq(Alphabet)
        /\ Len(one) = 1 /\ Len(two) = 2 /\ one[1] = CRLF /\ two[1] = CRLF /\ two[2] = CRLF
    BY Letters
  <1> HIDE DEF one, two
  <1>3. /\ start \in Seq(Alphabet) /\ Len(start) = n + 1
        /\ \A i \in 1 .. (n + 1) : start[i] = IF i <= 1 THEN one[i] ELSE N[i - 1]
    <2>1. /\ one \o N \in Seq(Alphabet) /\ Len(one \o N) = Len(one) + n
          /\ \A i \in 1 .. (Len(one) + n) :
                (one \o N)[i] = IF i <= Len(one) THEN one[i] ELSE N[i - Len(one)]
      BY ONLY <1>1, <1>2, ConcatProperties
    <2>2. Len(one) = 1 /\ 1 + n = n + 1
      BY <1>1, <1>2
    <2> QED BY <2>1, <2>2
  <1> HIDE DEF start
  <1>4. /\ start \o two \in Seq(Alphabet) /\ Len(start \o two) = n + 3
        /\ \A i \in 1 .. (n + 3) : (start \o two)[i] = IF i <= n + 1 THEN start[i]
                                                       ELSE two[i - (n + 1)]
    <2>1. /\ start \o two \in Seq(Alphabet) /\ Len(start \o two) = Len(start) + Len(two)
          /\ \A i \in 1 .. (Len(start) + Len(two)) :
                (start \o two)[i] = IF i <= Len(start) THEN start[i]
                                    ELSE two[i - Len(start)]
      BY ONLY <1>2, <1>3, ConcatProperties
    <2>2. Len(start) = n + 1 /\ Len(start) + Len(two) = n + 3
      BY <1>1, <1>2, <1>3
    <2> QED BY <2>1, <2>2
  <1>5. s = start \o two
    BY DEF Framed, start, one, two
  <1>6. s[1] = CRLF
    <2>1. 1 \in 1 .. (n + 1) /\ 1 \in 1 .. (n + 3) /\ 1 <= n + 1 /\ 1 <= 1
      BY <1>1
    <2> QED BY <1>2, <1>3, <1>4, <1>5, <2>1
  <1>7. s[n + 2] = CRLF /\ s[n + 3] = CRLF
    <2>1. /\ n + 2 \in 1 .. (n + 3) /\ ~(n + 2 <= n + 1) /\ n + 2 - (n + 1) = 1
          /\ n + 3 \in 1 .. (n + 3) /\ ~(n + 3 <= n + 1) /\ n + 3 - (n + 1) = 2
      BY <1>1
    <2>2. s[n + 2] = two[1] /\ s[n + 3] = two[2]
      BY ONLY <1>4, <1>5, <2>1
    <2> QED BY <1>2, <2>2
  <1>8. ASSUME NEW p \in 1 .. n PROVE s[p + 1] = N[p]
    <2>1. /\ p + 1 \in 1 .. (n + 3) /\ p + 1 <= n + 1 /\ p + 1 \in 1 .. (n + 1)
          /\ ~(p + 1 <= 1) /\ p + 1 - 1 = p
      BY <1>1
    <2> QED BY <1>3, <1>4, <1>5, <2>1
  <1> QED BY <1>1, <1>4, <1>5, <1>6, <1>7, <1>8 DEF Text

(* The first empty line, and that it is the first.                         *)
LEMMA FirstGap ==
    ASSUME NEW s \in Text, Gaps(s) # {}
    PROVE  /\ Min(Gaps(s)) \in 1 .. (Len(s) - 1)
           /\ s[Min(Gaps(s))] = CRLF /\ s[Min(Gaps(s)) + 1] = CRLF
           /\ NoGapBefore(s, Min(Gaps(s)))
  <1> DEFINE g == Min(Gaps(s))
  <1>1. Gaps(s) \in SUBSET Nat /\ Len(s) \in Nat
    BY DEF Gaps, Text
  <1>2. g \in Gaps(s) /\ \A m \in Gaps(s) : g <= m
    BY <1>1, SmallestElement
  <1>3. g \in 1 .. (Len(s) - 1) /\ s[g] = CRLF /\ s[g + 1] = CRLF
    BY <1>2 DEF Gaps
  <1>4. ASSUME NEW p \in 1 .. (g - 1), s[p] = CRLF PROVE s[p + 1] # CRLF
    <2>1. p \in 1 .. (Len(s) - 1) /\ ~(g <= p)
      BY <1>1, <1>3
    <2> QED BY <1>2, <1>4, <2>1 DEF Gaps
  <1> QED BY <1>3, <1>4 DEF NoGapBefore

LEMMA GapIs ==
    ASSUME NEW s \in Text, NEW g \in 1 .. (Len(s) - 1),
           s[g] = CRLF, s[g + 1] = CRLF, NoGapBefore(s, g)
    PROVE  Gaps(s) # {} /\ Min(Gaps(s)) = g
  <1> DEFINE m == Min(Gaps(s))
  <1>1. Gaps(s) # {}
    BY DEF Gaps
  <1>2. /\ m \in 1 .. (Len(s) - 1) /\ s[m] = CRLF /\ s[m + 1] = CRLF /\ NoGapBefore(s, m)
    BY <1>1, FirstGap
  <1> HIDE DEF m
  <1>3. m \in Int /\ g \in Int
    BY <1>2
  <1>4. ~(m < g) /\ ~(g < m)
    <2>1. m < g => m \in 1 .. (g - 1)
      BY <1>2, <1>3
    <2>2. g < m => g \in 1 .. (m - 1)
      BY <1>3
    <2> QED BY <1>2, <2>1, <2>2 DEF NoGapBefore
  <1>5. m = g
    BY <1>3, <1>4
  <1> QED BY <1>1, <1>5 DEF m

LEMMA FramedGap ==
    ASSUME NEW r \in Text
    PROVE  HasGap(Framed(r), Min(Gaps(Framed(r))))
  <1> DEFINE N == Normalize(r)
             s == Framed(r)
             n == Len(N)
  <1>1. /\ n \in Nat /\ s \in Text /\ Len(s) = n + 3
        /\ s[1] = CRLF /\ s[n + 2] = CRLF /\ s[n + 3] = CRLF
    BY FramedFacts
  <1>2. Gaps(s) # {}
    <2>1. n + 2 \in 1 .. (Len(s) - 1) /\ n + 2 + 1 = n + 3
      BY <1>1
    <2> QED BY <1>1, <2>1 DEF Gaps
  <1> HIDE DEF s
  <1> QED BY <1>1, <1>2, FirstGap DEF HasGap, s
-------------------------------------------------------------------------------
(* The lines of the header block. *)

LineTo(s, g, a, b) ==
    /\ b \in (a + 2) .. g /\ s[b] = CRLF
    /\ \A q \in (a + 1) .. (b - 1) : s[q] # CRLF
    /\ LineAt(s, a) = SubSeq(s, a + 1, b - 1)
    /\ LineAt(s, a) \in Text /\ LineAt(s, a) # <<>> /\ LineAt(s, a)[1] = s[a + 1]
    /\ Rest(s, g, a) = << LineAt(s, a) >> \o Rest(s, g, b)

(* The line behind a line end of the block is not empty, ends at the next  *)
(* one, and is the first of the lines from there.                          *)
LEMMA LineStep ==
    ASSUME NEW s, NEW g, HasGap(s, g), NEW a \in 1 .. (g - 1), s[a] = CRLF
    PROVE  LineTo(s, g, a, NextEnd(s, a))
  <1> DEFINE b == NextEnd(s, a)
             L == LineAt(s, a)
             B == Block(s, g)
  <1>0. b = IndexFrom(s, a + 1, CRLF) /\ LineAt(s, a) = SubSeq(s, a + 1, b - 1)
    BY DEF NextEnd, LineAt
  <1> HIDE DEF b
  <1>1. /\ s \in Seq(Alphabet) /\ Len(s) \in Nat /\ g \in 1 .. (Len(s) - 1) /\ g \in Nat
        /\ s[g] = CRLF /\ NoGapBefore(s, g)
    BY DEF HasGap, Text
  <1>2. a \in Nat /\ a >= 1 /\ a < g
    BY <1>1
  <1>3. s[a + 1] # CRLF
    BY <1>1 DEF NoGapBefore
  <1>4. a + 1 < g
    BY <1>1, <1>2, <1>3
  <1>5. a + 1 \in 1 .. (Len(s) + 1)
    BY <1>1, <1>2
  <1>6. /\ b \in (a + 1) .. (Len(s) + 1) /\ (b <= Len(s) => s[b] = CRLF)
        /\ \A q \in (a + 1) .. (b - 1) : s[q] # CRLF
    BY <1>0, <1>1, <1>5, IndexFacts DEF FirstAt
  <1>7. b \in Int /\ b <= g
    <2>1. b \in Int
      BY <1>1, <1>6
    <2>2. ~(g < b)
      <3>1. g < b => g \in (a + 1) .. (b - 1)
        BY <1>1, <1>4, <2>1
      <3> QED BY <1>1, <1>6, <3>1
    <2> QED BY <1>1, <2>1, <2>2
  <1>8. b <= Len(s) /\ s[b] = CRLF
    BY <1>1, <1>6, <1>7
  <1>9. b # a + 1
    BY <1>3, <1>8
  <1>10. b \in (a + 2) .. g
    BY <1>1, <1>2, <1>6, <1>7, <1>9
  <1>11. /\ SubSeq(s, a + 1, b - 1) \in Seq(Alphabet)
         /\ Len(SubSeq(s, a + 1, b - 1)) = b - 1 - (a + 1) + 1
         /\ SubSeq(s, a + 1, b - 1)[1] = s[a + 1]
    <2>1. /\ a + 1 \in Nat \ {0} /\ b - 1 \in 0 .. Len(s) /\ a + 1 <= b - 1
          /\ 1 \in 1 .. (b - 1 - (a + 1) + 1) /\ a + 1 + 1 - 1 = a + 1
      BY <1>1, <1>2, <1>10
    <2>2. /\ SubSeq(s, a + 1, b - 1) \in Seq(Alphabet)
          /\ Len(SubSeq(s, a + 1, b - 1)) =
               IF a + 1 <= b - 1 THEN b - 1 - (a + 1) + 1 ELSE 0
          /\ \A j \in 1 .. (b - 1 - (a + 1) + 1) :
                SubSeq(s, a + 1, b - 1)[j] = s[a + 1 + j - 1]
      BY ONLY <1>1, <2>1, StretchType
    <2> QED BY <2>1, <2>2
  <1>12. L = SubSeq(s, a + 1, b - 1)
    BY <1>0
  <1>13. L # <<>>
    <2>1. Len(L) # 0
      BY <1>2, <1>10, <1>11, <1>12
    <2> QED BY <2>1
  <1>14. /\ B \in Seq(Alphabet) /\ Len(B) = g - 2
         /\ \A j \in 1 .. (g - 2) : B[j] = s[j + 1]
    <2>1. /\ 2 \in Nat \ {0} /\ g - 1 \in 0 .. Len(s) /\ 2 <= g - 1
          /\ g - 1 - 2 + 1 = g - 2
      BY <1>1, <1>2, <1>4
    <2>2. /\ SubSeq(s, 2, g - 1) \in Seq(Alphabet)
          /\ Len(SubSeq(s, 2, g - 1)) = IF 2 <= g - 1 THEN g - 1 - 2 + 1 ELSE 0
          /\ \A j \in 1 .. (g - 1 - 2 + 1) : SubSeq(s, 2, g - 1)[j] = s[2 + j - 1]
      BY ONLY <1>1, <2>1, StretchType
    <2>3. \A j \in 1 .. (g - 2) : 2 + j - 1 = j + 1
      BY <1>1
    <2> QED BY <2>1, <2>2, <2>3 DEF Block
  <1> HIDE DEF B, L
  <1>15. IndexFrom(B, a, CRLF) = b - 1
    <2>1. /\ a \in 1 .. (Len(B) + 1) /\ b - 1 \in a .. (Len(B) + 1)
      BY <1>1, <1>2, <1>4, <1>10, <1>14
    <2>2. b - 1 <= Len(B) => B[b - 1] = CRLF
      <3>1. ASSUME b - 1 <= Len(B) PROVE b - 1 \in 1 .. (g - 2) /\ b - 1 + 1 = b
        BY <1>1, <1>2, <1>10, <1>14, <3>1
      <3> QED BY <1>8, <1>14, <3>1
    <2>3. ASSUME NEW p \in a .. (b - 1 - 1) PROVE B[p] # CRLF
      <3>1. p \in 1 .. (g - 2) /\ p + 1 \in (a + 1) .. (b - 1)
        BY <1>1, <1>2, <1>10
      <3> QED BY <1>6, <1>14, <3>1
    <2>4. FirstAt(B, a, CRLF, b - 1)
      BY <2>1, <2>2, <2>3 DEF FirstAt
    <2> QED BY ONLY <1>14, <2>1, <2>4, IndexIs
  <1>16. PartsFrom(B, CRLF)[a] =
           IF b - 1 > Len(B) THEN << SubSeq(B, a, Len(B)) >>
           ELSE << SubSeq(B, a, b - 1 - 1) >> \o PartsFrom(B, CRLF)[b - 1 + 1]
    <2>1. a \in 1 .. (Len(B) + 1)
      BY <1>1, <1>2, <1>4, <1>14
    <2>2. PartTo(B, CRLF, a, IndexFrom(B, a, CRLF))
      BY ONLY <1>14, <2>1, PartsUnfold
    <2>3. PartTo(B, CRLF, a, b - 1)
      BY <1>15, <2>2
    <2> QED BY <2>3 DEF PartTo
  <1>17. Rest(s, g, a) = PartsFrom(B, CRLF)[a]
    BY <1>2 DEF Rest, B
  <1>18. ASSUME NEW d \in 0 .. (g - 2), d + 1 = b - 1 PROVE SubSeq(B, a, d) = L
    <2>1. /\ 2 \in Nat \ {0} /\ g - 1 \in 0 .. Len(s) /\ 2 <= g - 1 + 1
          /\ a \in Nat \ {0} /\ d \in 0 .. (g - 1 - 2 + 1)
          /\ 2 + a - 1 = a + 1 /\ 2 + d - 1 = b - 1
      BY <1>1, <1>2, <1>4, <1>10, <1>18
    <2>2. SubSeq(SubSeq(s, 2, g - 1), a, d) = SubSeq(s, 2 + a - 1, 2 + d - 1)
      BY ONLY <1>1, <2>1, StretchWithin
    <2> QED BY <1>12, <2>1, <2>2 DEF B, Block
  <1>19. CASE b = g
    <2>1. b - 1 > Len(B) /\ Len(B) \in 0 .. (g - 2) /\ Len(B) + 1 = b - 1
      BY <1>1, <1>4, <1>14, <1>19
    <2>2. Rest(s, g, a) = << L >>
      BY <1>16, <1>17, <1>18, <2>1
    <2>3. Rest(s, g, b) = <<>> /\ << L >> \o <<>> = << L >>
      BY <1>19 DEF Rest
    <2> QED BY <1>6, <1>8, <1>10, <1>11, <1>12, <1>13, <2>2, <2>3
                 DEF Text, L, LineTo, b
  <1>20. CASE b # g
    <2>1. /\ ~(b - 1 > Len(B)) /\ b - 1 - 1 \in 0 .. (g - 2) /\ b - 1 - 1 + 1 = b - 1
          /\ b - 1 + 1 = b
      BY <1>1, <1>2, <1>10, <1>14, <1>20
    <2>2. Rest(s, g, a) = << L >> \o PartsFrom(B, CRLF)[b]
      BY <1>16, <1>17, <1>18, <2>1
    <2>3. Rest(s, g, b) = PartsFrom(B, CRLF)[b]
      BY <1>20 DEF Rest, B
    <2> QED BY <1>6, <1>8, <1>10, <1>11, <1>12, <1>13, <2>2, <2>3
                 DEF Text, L, LineTo, b
  <1> QED BY <1>19, <1>20

(* From the end of the block backwards: the lines from any line end on are *)
(* texts, and none of them is empty.                                       *)
FullLines(ls) == ls \in Seq(Text) /\ \A k \in DOMAIN ls : ls[k] # <<>>

LEMMA RestIsFull ==
    ASSUME NEW s, NEW g, HasGap(s, g), NEW a \in 1 .. g, s[a] = CRLF
    PROVE  FullLines(Rest(s, g, a))
  <1> DEFINE Full(p) == s[p] = CRLF => FullLines(Rest(s, g, p))
             P == { k \in 0 .. (g - 1) : \A p \in (g - k) .. g : Full(p) }
  <1>1. g \in Nat /\ g >= 1
    BY DEF HasGap, Text
  <1>2. 0 \in P
    <2>1. Rest(s, g, g) = <<>>
      BY DEF Rest
    <2>2. FullLines(<<>>)
      BY DEF FullLines
    <2>3. \A p \in (g - 0) .. g : p = g
      BY <1>1
    <2>4. \A p \in (g - 0) .. g : Full(p)
      BY <2>1, <2>2, <2>3
    <2> QED BY <1>1, <2>4
  <1>3. ASSUME NEW k \in 0 .. (g - 1 - 1), k \in P PROVE k + 1 \in P
    <2> DEFINE p == g - (k + 1)
    <2>1. /\ p \in 1 .. (g - 1) /\ k + 1 \in 0 .. (g - 1)
          /\ \A q \in (g - (k + 1)) .. g : q = p \/ q \in (g - k) .. g
          /\ \A q \in (p + 2) .. g : q \in (g - k) .. g
      BY <1>1
    <2>2. Full(p)
      <3> SUFFICES ASSUME s[p] = CRLF PROVE FullLines(Rest(s, g, p))
        OBVIOUS
      <3> DEFINE b == NextEnd(s, p)
                 L == LineAt(s, p)
                 R == Rest(s, g, b)
      <3>1. /\ b \in (p + 2) .. g /\ s[b] = CRLF /\ L \in Text /\ L # <<>>
            /\ Rest(s, g, p) = << L >> \o R
        <4>1. LineTo(s, g, p, b)
          <5> HIDE DEF p
          <5> QED BY <2>1, LineStep
        <4> HIDE DEF p, b
        <4> QED BY <4>1 DEF LineTo
      <3>2. FullLines(R)
        <4> HIDE DEF b, p
        <4> QED BY <1>3, <2>1, <3>1
      <3> HIDE DEF L, R, b, p
      <3>3. /\ << L >> \in Seq(Text) /\ Len(<< L >>) = 1 /\ << L >>[1] = L
            /\ R \in Seq(Text) /\ Len(R) \in Nat /\ DOMAIN R = 1 .. Len(R)
        BY <3>1, <3>2 DEF FullLines
      <3>4. /\ << L >> \o R \in Seq(Text) /\ Len(<< L >> \o R) = Len(<< L >>) + Len(R)
            /\ \A i \in 1 .. (Len(<< L >>) + Len(R)) :
                  (<< L >> \o R)[i] = IF i <= Len(<< L >>) THEN << L >>[i]
                                      ELSE R[i - Len(<< L >>)]
        BY ONLY <3>3, ConcatProperties
      <3>5. ASSUME NEW i \in 1 .. (1 + Len(R)) PROVE (<< L >> \o R)[i] # <<>>
        <4>1. i = 1 \/ (~(i <= 1) /\ i - 1 \in 1 .. Len(R))
          BY <3>3
        <4>2. R # <<>> => \A j \in 1 .. Len(R) : R[j] # <<>>
          BY <3>2, <3>3 DEF FullLines
        <4>3. CASE i = 1
          BY <3>1, <3>3, <3>4, <4>3
        <4>4. CASE ~(i <= 1) /\ i - 1 \in 1 .. Len(R)
          <5>1. (<< L >> \o R)[i] = R[i - 1]
            BY <3>3, <3>4, <4>4
          <5>2. R[i - 1] # <<>>
            BY <3>2, <3>3, <4>4 DEF FullLines
          <5> QED BY <5>1, <5>2
        <4> QED BY <4>1, <4>3, <4>4
      <3>6. DOMAIN (<< L >> \o R) = 1 .. (1 + Len(R))
        BY <3>3, <3>4
      <3> QED BY <3>1, <3>4, <3>5, <3>6 DEF FullLines
    <2> HIDE DEF p, Full
    <2>3. \A q \in (g - (k + 1)) .. g : Full(q)
      BY <1>3, <2>1, <2>2
    <2> QED BY <2>1, <2>3
  <1>4. g - 1 \in Nat
    BY <1>1
  <1> HIDE DEF P
  <1>5. \A k \in 0 .. (g - 1) : k \in P
    BY ONLY <1>2, <1>3, <1>4, IntervalInduction
  <1>6. g - 1 \in P /\ a \in (g - (g - 1)) .. g
    BY <1>1, <1>5
  <1> QED BY <1>6 DEF P

(* The next line and the lines behind it.                                  *)
LEMMA NextLine ==
    ASSUME NEW s, NEW g, HasGap(s, g), NEW a \in 1 .. g, s[a] = CRLF,
           Rest(s, g, a) # <<>>
    PROVE  /\ a \in 1 .. (g - 1) /\ LineTo(s, g, a, NextEnd(s, a))
           /\ Head(Rest(s, g, a)) = LineAt(s, a)
           /\ Tail(Rest(s, g, a)) = Rest(s, g, NextEnd(s, a))
  <1> DEFINE b == NextEnd(s, a)
             L == LineAt(s, a)
             R == Rest(s, g, b)
  <1>1. a \in 1 .. (g - 1)
    <2>1. g \in Nat
      BY DEF HasGap, Text
    <2>2. a # g
      BY DEF Rest
    <2> QED BY <2>1, <2>2
  <1>2. /\ b \in (a + 2) .. g /\ s[b] = CRLF /\ L \in Text
        /\ Rest(s, g, a) = << L >> \o R
    <2>1. LineTo(s, g, a, b)
      BY <1>1, LineStep
    <2> HIDE DEF b
    <2> QED BY <2>1 DEF LineTo
  <1>3. b \in 1 .. g
    <2>1. g \in Nat
      BY DEF HasGap, Text
    <2> QED BY <1>1, <1>2, <2>1
  <1>4. R \in Seq(Text)
    BY <1>2, <1>3, RestIsFull DEF FullLines
  <1>6. LineTo(s, g, a, b)
    BY <1>1, LineStep
  <1> HIDE DEF L, R, b
  <1>5. Head(<< L >> \o R) = L /\ Tail(<< L >> \o R) = R
    BY <1>2, <1>4
  <1> QED BY <1>1, <1>2, <1>5, <1>6 DEF L, R, b
-------------------------------------------------------------------------------
(* What SplitMessage makes of the framed message. *)

LEMMA EndsWith ==
    ASSUME NEW s \in Text
    PROVE  /\ IsPrefix(<<CRLF>>, s) <=> Len(s) >= 1 /\ s[1] = CRLF
           /\ IsSuffix(<<CRLF>>, s) <=> Len(s) >= 1 /\ s[Len(s)] = CRLF
  <1> DEFINE one == <<CRLF>>
             n == Len(s)
             back == Reverse(s)
  <1>1. one \in Text /\ Len(one) = 1 /\ one[1] = CRLF /\ n \in Nat
    BY Letters DEF Text
  <1>2. Reverse(one) = one
    BY DEF Reverse
  <1>3. back \in Text /\ Len(back) = n /\ (n >= 1 => back[1] = s[n])
    BY DEF Reverse, Text
  <1> HIDE DEF one, back
  <1>4. ASSUME NEW t \in Text
        PROVE  IsPrefix(one, t) <=> Len(t) >= 1 /\ t[1] = CRLF
    <2>1. SubSeq(one, 1, 1) = one
      BY <1>1, WholeStretch DEF Text
    <2>2. CASE Len(t) >= 1
      <3>1. /\ SubSeq(t, 1, 1) \in Seq(Alphabet) /\ Len(SubSeq(t, 1, 1)) = 1
            /\ SubSeq(t, 1, 1)[1] = t[1]
        <4>1. 1 \in Nat \ {0} /\ 1 \in 0 .. Len(t) /\ t \in Seq(Alphabet)
          BY <2>2 DEF Text
        <4>2. /\ SubSeq(t, 1, 1) \in Seq(Alphabet)
              /\ Len(SubSeq(t, 1, 1)) = IF 1 <= 1 THEN 1 - 1 + 1 ELSE 0
              /\ \A j \in 1 .. (1 - 1 + 1) : SubSeq(t, 1, 1)[j] = t[1 + j - 1]
          BY ONLY <4>1, StretchType
        <4> QED BY <4>2
      <3>2. t[1] = CRLF => SubSeq(t, 1, 1) = one
        <4>1. ASSUME t[1] = CRLF
              PROVE  \A j \in 1 .. Len(one) : one[j] = SubSeq(t, 1, 1)[j]
          BY <1>1, <3>1, <4>1
        <4> QED BY <1>1, <3>1, <4>1, SameSequence DEF Text
      <3> QED BY <1>1, <2>1, <2>2, <3>1, <3>2 DEF IsPrefix
    <2>3. CASE ~(Len(t) >= 1)
      BY <1>1, <2>3 DEF IsPrefix, Text
    <2> QED BY <2>2, <2>3
  <1>5. IsSuffix(one, s) <=> n >= 1 /\ s[n] = CRLF
    <2>1. IsSuffix(one, s) <=> IsPrefix(one, back)
      BY <1>2 DEF IsSuffix, back
    <2> QED BY <1>3, <1>4, <2>1
  <1> QED BY <1>4, <1>5 DEF one

LEMMA ShiftedStretch ==
    ASSUME NEW N \in Text, NEW s \in Text, Len(s) = Len(N) + 3,
           \A p \in 1 .. Len(N) : s[p + 1] = N[p],
           NEW x \in 1 .. (Len(N) + 1), NEW y \in 0 .. Len(N)
    PROVE  SubSeq(s, x + 1, y + 1) = SubSeq(N, x, y)
  BY StretchMoved DEF Text

LEMMA BodyIs ==
    ASSUME NEW s, NEW g, HasGap(s, g),
           NEW e, e = IF g + 1 >= Len(s) - 2 THEN g + 1 ELSE Len(s) - 2
    PROVE  BodyOf(s, g) = SubSeq(s, g + 2, e) /\ BodyOf(s, g) \in Text
  <1>1. /\ s \in Seq(Alphabet) /\ g \in Nat /\ g + 1 \in Nat /\ Len(s) - 2 \in Int
        /\ g + 2 \in Nat \ {0} /\ e \in 0 .. Len(s)
    BY DEF HasGap, Text
  <1>2. Max({g + 1, Len(s) - 2}) = e
    BY <1>1, GreaterOf
  <1>3. SubSeq(s, g + 2, e) \in Seq(Alphabet)
    BY <1>1, StretchType
  <1> QED BY <1>2, <1>3 DEF BodyOf, Text
LinesOf(N) == IF HeaderBlock(N) = <<>> THEN <<>> ELSE Split(HeaderBlock(N), CRLF)
Behind(N)  == IF Gaps(N) = {} THEN <<>> ELSE SubSeq(N, Min(Gaps(N)) + 2, Len(N))

(* A message that begins with an empty line.                               *)
LEMMA SplitBlank ==
    ASSUME NEW r \in Text, NEW N, N = Normalize(r), NEW s, s = Framed(r),
           IsPrefix(<<CRLF>>, N)
    PROVE  Min(Gaps(s)) = 1 /\ Tail(N) = BodyOf(s, 1)
  <1> DEFINE n == Len(N)
  <1>1. /\ N \in Text /\ n \in Nat /\ s \in Text /\ Len(s) = n + 3
        /\ s[1] = CRLF /\ \A p \in 1 .. n : s[p + 1] = N[p]
    BY FramedFacts
  <1>2. n >= 1 /\ N[1] = CRLF
    BY <1>1, EndsWith
  <1>3. s[1 + 1] = CRLF /\ 1 \in 1 .. (Len(s) - 1)
    BY <1>1, <1>2
  <1>4. NoGapBefore(s, 1)
    BY DEF NoGapBefore
  <1>5. Min(Gaps(s)) = 1
    BY <1>1, <1>3, <1>4, GapIs
  <1>6. HasGap(s, 1)
    BY <1>1, <1>3, <1>4 DEF HasGap
  <1>7. BodyOf(s, 1) = SubSeq(s, 3, n + 1)
    <2>1. n + 1 = (IF 1 + 1 >= Len(s) - 2 THEN 1 + 1 ELSE Len(s) - 2) /\ 1 + 2 = 3
      BY <1>1, <1>2
    <2> QED BY <1>6, <2>1, BodyIs
  <1>8. SubSeq(s, 3, n + 1) = SubSeq(N, 2, n)
    <2>1. 2 \in 1 .. (Len(N) + 1) /\ n \in 0 .. Len(N) /\ 2 + 1 = 3
      BY <1>1, <1>2
    <2>2. SubSeq(s, 2 + 1, n + 1) = SubSeq(N, 2, n)
      BY <1>1, <2>1, ShiftedStretch
    <2> QED BY <2>1, <2>2
  <1>9. Tail(N) = SubSeq(N, 2, n)
    <2>1. N \in Seq(Alphabet) /\ N # <<>>
      BY <1>1, <1>2 DEF Text
    <2> QED BY <2>1, TailIsSubSeq
  <1> QED BY <1>5, <1>7, <1>8, <1>9

(* No text at all.                                                         *)
LEMMA SplitNothing ==
    ASSUME NEW r \in Text, NEW N, N = Normalize(r), NEW s, s = Framed(r), N = <<>>
    PROVE  Min(Gaps(s)) = 1 /\ LinesOf(N) = <<>> /\ Behind(N) = BodyOf(s, 1)
  <1>1. /\ s \in Text /\ Len(s) = 3 /\ s[1] = CRLF /\ s[2] = CRLF
    <2>1. Len(N) = 0 /\ 0 + 3 = 3 /\ 0 + 2 = 2
      OBVIOUS
    <2>2. /\ Framed(r) \in Text /\ Len(Framed(r)) = Len(Normalize(r)) + 3
          /\ Framed(r)[1] = CRLF /\ Framed(r)[Len(Normalize(r)) + 2] = CRLF
      BY ONLY r \in Text, FramedFacts
    <2> QED BY <2>1, <2>2
  <1>2. s[1 + 1] = CRLF /\ 1 \in 1 .. (Len(s) - 1)
    BY <1>1
  <1>3. NoGapBefore(s, 1)
    BY DEF NoGapBefore
  <1>4. Min(Gaps(s)) = 1
    BY <1>1, <1>2, <1>3, GapIs
  <1>5. HasGap(s, 1)
    BY <1>1, <1>2, <1>3 DEF HasGap
  <1>6. BodyOf(s, 1) = <<>>
    <2>1. 2 = (IF 1 + 1 >= Len(s) - 2 THEN 1 + 1 ELSE Len(s) - 2) /\ 1 + 2 = 3
      BY <1>1
    <2>2. BodyOf(s, 1) = SubSeq(s, 3, 2)
      BY <1>5, <2>1, BodyIs
    <2> QED BY <2>2, SubSeqEmpty
  <1>7. Gaps(N) = {}
    BY DEF Gaps
  <1>8. N \in Text /\ ~IsSuffix(<<CRLF>>, N)
    <2>1. N \in Text /\ Len(N) = 0
      BY DEF Text
    <2> QED BY <2>1, EndsWith
  <1>9. HeaderBlock(N) = <<>>
    BY <1>7, <1>8 DEF HeaderBlock
  <1> QED BY <1>4, <1>6, <1>7, <1>9 DEF LinesOf, Behind

(* A text that begins with a line: the block ends in front of the first    *)
(* empty line.                                                             *)
LEMMA SplitText ==
    ASSUME NEW r \in Text, NEW N, N = Normalize(r), NEW s, s = Framed(r),
           N # <<>>, ~IsPrefix(<<CRLF>>, N)
    PROVE  /\ Min(Gaps(s)) \in 3 .. (Len(N) + 2)
           /\ HeaderBlock(N) = SubSeq(N, 1, Min(Gaps(s)) - 2)
           /\ Behind(N) = BodyOf(s, Min(Gaps(s)))
  <1> DEFINE n == Len(N)
  <1>1. /\ N \in Text /\ n \in Nat /\ s \in Text /\ Len(s) = n + 3
        /\ s[1] = CRLF /\ s[n + 2] = CRLF /\ s[n + 3] = CRLF
        /\ \A p \in 1 .. n : s[p + 1] = N[p]
    BY FramedFacts
  <1>2. n >= 1 /\ N[1] # CRLF
    <2>1. n # 0
      BY <1>1 DEF Text
    <2> QED BY <1>1, <2>1, EndsWith
  <1>3. ASSUME NEW m \in 1 .. n, NoGapBefore(N, m) PROVE NoGapBefore(s, m + 1)
    <2> SUFFICES ASSUME NEW p \in 1 .. (m + 1 - 1), s[p] = CRLF PROVE s[p + 1] # CRLF
      BY DEF NoGapBefore
    <2>1. p \in 1 .. n /\ s[p + 1] = N[p]
      BY <1>1
    <2>2. CASE p = 1
      BY <1>2, <2>1, <2>2
    <2>3. CASE p # 1
      <3>1. p - 1 \in 1 .. n /\ p - 1 \in 1 .. (m - 1) /\ p - 1 + 1 = p
        BY <1>1, <2>3
      <3>2. N[p - 1] = CRLF
        BY <1>1, <3>1
      <3> QED BY <1>3, <2>1, <3>1, <3>2 DEF NoGapBefore
    <2> QED BY <2>2, <2>3
  <1>4. ASSUME NEW g \in 1 .. (n + 2), s[g] = CRLF, s[g + 1] = CRLF, NoGapBefore(s, g)
        PROVE  Min(Gaps(s)) = g /\ HasGap(s, g)
    <2>1. g \in 1 .. (Len(s) - 1)
      BY <1>1
    <2> QED BY <1>1, <1>4, <2>1, GapIs DEF HasGap
  <1>5. CASE Gaps(N) # {}
    <2> DEFINE m == Min(Gaps(N))
    <2>1. m \in 1 .. (n - 1) /\ N[m] = CRLF /\ N[m + 1] = CRLF /\ NoGapBefore(N, m)
      BY <1>1, <1>5, FirstGap
    <2>2. Behind(N) = SubSeq(N, m + 2, n) /\ HeaderBlock(N) = SubSeq(N, 1, m - 1)
      BY <1>5 DEF Behind, HeaderBlock
    <2> HIDE DEF m
    <2>3. /\ m \in 1 .. n /\ m + 1 \in 1 .. n /\ m + 1 \in 1 .. (n + 2) /\ m # 1
          /\ m + 1 + 1 = m + 2 /\ m \in Nat
      BY <1>1, <1>2, <2>1
    <2>4. s[m + 1] = CRLF /\ s[m + 1 + 1] = CRLF /\ NoGapBefore(s, m + 1)
      BY <1>1, <1>3, <2>1, <2>3
    <2>5. Min(Gaps(s)) = m + 1 /\ HasGap(s, m + 1)
      BY <1>4, <2>3, <2>4
    <2>6. BodyOf(s, m + 1) = SubSeq(s, m + 3, n + 1)
      <3>1. /\ n + 1 = (IF m + 1 + 1 >= Len(s) - 2 THEN m + 1 + 1 ELSE Len(s) - 2)
            /\ m + 1 + 2 = m + 3
        BY <1>1, <2>1
      <3> QED BY <2>5, <3>1, BodyIs
    <2>7. SubSeq(s, m + 3, n + 1) = SubSeq(N, m + 2, n)
      <3>1. m + 2 \in 1 .. (Len(N) + 1) /\ n \in 0 .. Len(N) /\ m + 2 + 1 = m + 3
        BY <1>1, <2>1
      <3>2. SubSeq(s, m + 2 + 1, n + 1) = SubSeq(N, m + 2, n)
        BY <1>1, <3>1, ShiftedStretch
      <3> QED BY <3>1, <3>2
    <2>8. m + 1 \in 3 .. (n + 2) /\ m + 1 - 2 = m - 1
      BY <1>1, <2>1, <2>3
    <2>9. HeaderBlock(N) = SubSeq(N, 1, m + 1 - 2)
      BY <2>2, <2>8
    <2>10. Behind(N) = BodyOf(s, m + 1)
      BY <2>2, <2>6, <2>7
    <2> QED BY <2>3, <2>5, <2>8, <2>9, <2>10
  <1>6. CASE Gaps(N) = {}
    <2>1. NoGapBefore(N, n)
      BY <1>6 DEF Gaps, NoGapBefore
    <2>2. n \in 1 .. n /\ NoGapBefore(s, n + 1) /\ s[n + 1] = N[n]
      BY <1>1, <1>2, <1>3, <2>1
    <2>3. Behind(N) = <<>>
      BY <1>6 DEF Behind
    <2>4. ASSUME NEW g \in (n + 1) .. (n + 2), HasGap(s, g) PROVE BodyOf(s, g) = <<>>
      <3>1. /\ g + 1 = (IF g + 1 >= Len(s) - 2 THEN g + 1 ELSE Len(s) - 2)
            /\ g + 1 < g + 2 /\ g + 1 \in Int /\ g + 2 \in Int
        BY <1>1
      <3>2. BodyOf(s, g) = SubSeq(s, g + 2, g + 1)
        BY <2>4, <3>1, BodyIs
      <3> QED BY <3>1, <3>2, SubSeqEmpty
    <2>5. CASE N[n] = CRLF
      <3>1. /\ n + 1 \in 1 .. (n + 2) /\ s[n + 1] = CRLF /\ s[n + 1 + 1] = CRLF
            /\ n # 1 /\ n + 1 \in 3 .. (n + 2) /\ n + 1 - 2 = n - 1
            /\ n + 1 \in (n + 1) .. (n + 2)
        <4>1. n + 1 + 1 = n + 2 /\ n # 1
          BY <1>1, <1>2, <2>5
        <4> QED BY <1>1, <1>2, <2>2, <2>5, <4>1
      <3>2. Min(Gaps(s)) = n + 1 /\ HasGap(s, n + 1)
        BY <1>4, <2>2, <3>1
      <3>3. IsSuffix(<<CRLF>>, N)
        BY <1>1, <1>2, <2>5, EndsWith
      <3>4. HeaderBlock(N) = SubSeq(N, 1, n - 1)
        BY <1>6, <3>3 DEF HeaderBlock, Front
      <3>5. HeaderBlock(N) = SubSeq(N, 1, n + 1 - 2) /\ Behind(N) = BodyOf(s, n + 1)
        BY <2>3, <2>4, <3>1, <3>2, <3>4
      <3> QED BY <3>1, <3>2, <3>5
    <2>6. CASE N[n] # CRLF
      <3>1. /\ n + 2 \in 1 .. (n + 2) /\ s[n + 2] = CRLF /\ s[n + 2 + 1] = CRLF
            /\ n + 2 \in 3 .. (n + 2) /\ n + 2 - 2 = n /\ n + 2 \in (n + 1) .. (n + 2)
        <4>1. n + 2 + 1 = n + 3
          BY <1>1
        <4> QED BY <1>1, <1>2, <4>1
      <3>2. NoGapBefore(s, n + 2)
        <4> SUFFICES ASSUME NEW p \in 1 .. (n + 2 - 1), s[p] = CRLF PROVE s[p + 1] # CRLF
          BY DEF NoGapBefore
        <4>1. p \in 1 .. (n + 1 - 1) \/ p = n + 1
          BY <1>1
        <4>2. p # n + 1
          BY <2>2, <2>6
        <4> QED BY <2>2, <4>1, <4>2 DEF NoGapBefore
      <3>3. Min(Gaps(s)) = n + 2 /\ HasGap(s, n + 2)
        BY <1>4, <3>1, <3>2
      <3>4. ~IsSuffix(<<CRLF>>, N)
        BY <1>1, <1>2, <2>6, EndsWith
      <3>5. HeaderBlock(N) = N
        BY <1>6, <3>4 DEF HeaderBlock
      <3>6. SubSeq(N, 1, n) = N
        BY <1>1, WholeStretch DEF Text
      <3>7. HeaderBlock(N) = SubSeq(N, 1, n + 2 - 2) /\ Behind(N) = BodyOf(s, n + 2)
        BY <2>3, <2>4, <3>1, <3>3, <3>5, <3>6
      <3> QED BY <3>1, <3>3, <3>7
    <2> QED BY <2>5, <2>6
  <1> QED BY <1>5, <1>6

(* The lines to parse are all those up to the first empty line.            *)
LEMMA SplitParsed ==
    ASSUME NEW r \in Text, NEW N, N = Normalize(r), NEW s, s = Framed(r),
           NEW g, g = Min(Gaps(s))
    PROVE  /\ (IF IsPrefix(<<CRLF>>, N) THEN <<>> ELSE LinesOf(N)) = Rest(s, g, 1)
           /\ (IF IsPrefix(<<CRLF>>, N) THEN Tail(N) ELSE Behind(N)) = BodyOf(s, g)
  <1>1. CASE IsPrefix(<<CRLF>>, N)
    BY <1>1, SplitBlank DEF Rest
  <1>2. CASE ~IsPrefix(<<CRLF>>, N) /\ N = <<>>
    BY <1>2, SplitNothing DEF Rest
  <1>3. CASE ~IsPrefix(<<CRLF>>, N) /\ N # <<>>
    <2>1. /\ N \in Text /\ Len(N) \in Nat /\ s \in Text /\ Len(s) = Len(N) + 3
          /\ \A p \in 1 .. Len(N) : s[p + 1] = N[p]
      BY FramedFacts
    <2>2. /\ g \in 3 .. (Len(N) + 2) /\ HeaderBlock(N) = SubSeq(N, 1, g - 2)
          /\ Behind(N) = BodyOf(s, g)
      BY <1>3, SplitText
    <2>3. SubSeq(s, 2, g - 1) = SubSeq(N, 1, g - 2)
      <3>1. /\ 1 \in 1 .. (Len(N) + 1) /\ g - 2 \in 0 .. Len(N)
            /\ 1 + 1 = 2 /\ g - 2 + 1 = g - 1
        BY <2>1, <2>2
      <3>2. SubSeq(s, 1 + 1, g - 2 + 1) = SubSeq(N, 1, g - 2)
        BY <2>1, <3>1, ShiftedStretch
      <3> QED BY <3>1, <3>2
    <2>4. Len(SubSeq(N, 1, g - 2)) = g - 2
      <3>1. N \in Seq(Alphabet) /\ 1 \in Nat \ {0} /\ g - 2 \in 0 .. Len(N)
            /\ 1 <= g - 2 /\ g - 2 - 1 + 1 = g - 2
        BY <2>1, <2>2 DEF Text
      <3>2. Len(SubSeq(N, 1, g - 2)) = IF 1 <= g - 2 THEN g - 2 - 1 + 1 ELSE 0
        BY ONLY <3>1, StretchType
      <3> QED BY <3>1, <3>2
    <2>5. HeaderBlock(N) # <<>>
      <3>1. Len(HeaderBlock(N)) # 0
        BY <2>1, <2>2, <2>4
      <3> QED BY <3>1
    <2>6. LinesOf(N) = PartsFrom(Block(s, g), CRLF)[1]
      BY <2>2, <2>3, <2>5 DEF LinesOf, Split, Block
    <2>7. g # 1
      BY <2>1, <2>2
    <2> QED BY <1>3, <2>2, <2>6, <2>7 DEF Rest
  <1> QED BY <1>1, <1>2, <1>3
-------------------------------------------------------------------------------
(* A line in its parts, and with another line behind it. *)

ColonIn(r) == IndexFrom(r, 1, ":")

LEMMA ColonFacts ==
    ASSUME NEW r \in Text, Contains(r, ":")
    PROVE  /\ ColonIn(r) \in 1 .. Len(r) /\ FirstAt(r, 1, ":", ColonIn(r))
  <1>1. r \in Seq(Alphabet) /\ Len(r) \in Nat /\ 1 \in 1 .. (Len(r) + 1)
    BY DEF Text
  <1>2. FirstAt(r, 1, ":", ColonIn(r))
    BY <1>1, IndexFacts DEF ColonIn
  <1>3. PICK i \in 1 .. Len(r) : r[i] = ":"
    BY DEF Contains
  <1>4. ColonIn(r) \in Int /\ ColonIn(r) >= 1
    BY <1>1, <1>2 DEF FirstAt
  <1>5. ~(i < ColonIn(r))
    <2>1. i < ColonIn(r) => i \in 1 .. (ColonIn(r) - 1)
      BY <1>1, <1>4
    <2> QED BY <1>2, <1>3, <2>1 DEF FirstAt
  <1> QED BY <1>1, <1>2, <1>4, <1>5

LEMMA PartsOfLine ==
    ASSUME NEW r \in Text, Contains(r, ":")
    PROVE  NameOf(r) \in Text /\ ValueOf(r) \in Text
  <1> DEFINE c == ColonIn(r)
             f == SubSeq(r, 1, c - 1)
             solid == { p \in DOMAIN f : f[p] \notin WSP }
  <1>1. r \in Seq(Alphabet) /\ Len(r) \in Nat /\ c \in 1 .. Len(r)
    BY ColonFacts DEF Text
  <1>2. NameOf(r) = SubSeq(f, 1, Max({0} \cup solid)) /\ ValueOf(r) = SubSeq(r, c + 1, Len(r))
    BY DEF NameOf, ValueOf, TrimRightWSP, ColonIn
  <1> HIDE DEF c
  <1>3. c - 1 \in 0 .. Len(r) /\ c + 1 \in Nat \ {0} /\ Len(r) \in 0 .. Len(r)
        /\ 1 \in Nat \ {0}
    BY <1>1
  <1>4. f \in Seq(Alphabet)
    BY <1>1, <1>3, StretchType
  <1> HIDE DEF f
  <1>5. {0} \cup solid \in SUBSET (0 .. Len(f)) /\ Len(f) \in Nat /\ {0} \cup solid # {}
    BY <1>4
  <1>6. Max({0} \cup solid) \in 0 .. Len(f)
    <2> HIDE DEF solid
    <2> QED BY <1>5, GreatestElement
  <1>7. SubSeq(f, 1, Max({0} \cup solid)) \in Seq(Alphabet)
    BY <1>3, <1>4, <1>6, StretchType
  <1>8. SubSeq(r, c + 1, Len(r)) \in Seq(Alphabet)
    BY <1>1, <1>3, StretchType
  <1> QED BY <1>2, <1>7, <1>8 DEF Text

(* What follows a line with a colon belongs to its value.                  *)
LEMMA LongerLine ==
    ASSUME NEW r \in Text, Contains(r, ":"), NEW t \in Text
    PROVE  /\ r \o t \in Text /\ Contains(r \o t, ":")
           /\ NameOf(r \o t) = NameOf(r) /\ ValueOf(r \o t) = ValueOf(r) \o t
  <1> DEFINE c == ColonIn(r)
             j == r \o t
  <1>1. /\ r \in Seq(Alphabet) /\ t \in Seq(Alphabet) /\ Len(r) \in Nat /\ Len(t) \in Nat
        /\ c \in 1 .. Len(r) /\ FirstAt(r, 1, ":", c)
    BY ColonFacts DEF Text
  <1>2. /\ j \in Seq(Alphabet) /\ Len(j) = Len(r) + Len(t)
        /\ \A i \in 1 .. Len(r) : j[i] = r[i]
    BY <1>1, ConcatProperties
  <1> HIDE DEF c, j
  <1>3. c \in 1 .. Len(j) /\ j[c] = ":"
    BY <1>1, <1>2 DEF FirstAt
  <1>4. IndexFrom(j, 1, ":") = c
    <2>1. ASSUME NEW p \in 1 .. (c - 1) PROVE j[p] # ":"
      <3>1. p \in 1 .. Len(r)
        BY <1>1
      <3> QED BY <1>1, <1>2, <3>1 DEF FirstAt
    <2>2. FirstAt(j, 1, ":", c) /\ 1 \in 1 .. (Len(j) + 1)
      BY <1>1, <1>2, <1>3, <2>1 DEF FirstAt
    <2> QED BY <1>2, <2>2, IndexIs
  <1>5. /\ c - 1 \in 0 .. Len(r) /\ 1 \in Nat \ {0} /\ c + 1 \in Nat \ {0}
        /\ Len(r) \in 0 .. Len(r) /\ Len(r) \in 0 .. Len(j) /\ Len(j) \in 0 .. Len(j)
        /\ c + 1 <= Len(r) + 1 /\ Len(r) <= Len(j)
    BY <1>1, <1>2
  <1>6. NameOf(j) = NameOf(r)
    <2>1. SubSeq(j, 1, c - 1) = SubSeq(r, 1, c - 1)
      BY <1>1, <1>5, FrontStretch DEF j
    <2> QED BY <1>4, <2>1 DEF NameOf, ColonIn, c
  <1>7. ValueOf(j) = ValueOf(r) \o t
    <2>1. SubSeq(j, c + 1, Len(r)) = SubSeq(r, c + 1, Len(r))
      BY <1>1, <1>5, FrontStretch DEF j
    <2>2. SubSeq(j, Len(r) + 1, Len(j)) = t
      BY <1>1, BackStretch DEF j
    <2>3. SubSeq(j, c + 1, Len(r)) \o SubSeq(j, Len(r) + 1, Len(j)) = SubSeq(j, c + 1, Len(j))
      BY <1>2, <1>5, StretchJoin
    <2> QED BY <1>4, <2>1, <2>2, <2>3 DEF ValueOf, ColonIn, c
  <1> QED BY <1>2, <1>3, <1>6, <1>7 DEF Contains, Text, j

(* A field with a line more.                                               *)
LEMMA GrownField ==
    ASSUME NEW f \in Field, Contains(f.raw, ":"), f.name = NameOf(f.raw),
           f.value = ValueOf(f.raw), NEW line \in Text
    PROVE  /\ Grown(f, line) \in Field
           /\ Grown(f, line).raw = f.raw \o <<CRLF>> \o line
           /\ Contains(Grown(f, line).raw, ":")
           /\ Grown(f, line).name = f.name
           /\ f.name = NameOf(Grown(f, line).raw)
           /\ Grown(f, line).value = ValueOf(Grown(f, line).raw)
  <1> DEFINE one == <<CRLF>>
             k == Grown(f, line)
             m == f.raw \o one
  <1>1. /\ f.raw \in Text /\ f.name \in Text /\ f.value \in Text /\ one \in Text
        /\ f = [name |-> f.name, value |-> f.value, raw |-> f.raw]
    BY Letters DEF Field, Text
  <1>2. k = [name |-> f.name, value |-> f.value \o one \o line, raw |-> m \o line]
    <2> DEFINE h == [name |-> f.name, value |-> f.value \o one \o line, raw |-> m \o line]
    <2>1. k = [x \in {"name", "value", "raw"} |-> k[x]]
      BY <1>1 DEF Grown
    <2>2. k["name"] = f.name /\ k["value"] = f.value \o one \o line /\ k["raw"] = m \o line
      BY <1>1 DEF Grown
    <2>3. h = [x \in {"name", "value", "raw"} |-> h[x]]
      OBVIOUS
    <2>4. h["name"] = f.name /\ h["value"] = f.value \o one \o line /\ h["raw"] = m \o line
      OBVIOUS
    <2> HIDE DEF k, h
    <2>5. \A x \in {"name", "value", "raw"} : h[x] = k[x]
      BY <2>2, <2>4
    <2> QED BY <2>1, <2>3, <2>5 DEF h
  <1>3. k.name = f.name /\ k.value = f.value \o one \o line /\ k.raw = m \o line
    BY <1>2
  <1> HIDE DEF one, k
  <1>4. /\ m \in Text /\ Contains(m, ":") /\ NameOf(m) = f.name
        /\ ValueOf(m) = f.value \o one
    <2>1. /\ f.raw \in Text /\ Contains(f.raw, ":") /\ one \in Text
          /\ NameOf(f.raw) = f.name /\ ValueOf(f.raw) = f.value
      BY <1>1
    <2> QED BY ONLY <2>1, LongerLine
  <1>5. /\ m \o line \in Text /\ Contains(m \o line, ":") /\ NameOf(m \o line) = f.name
        /\ ValueOf(m \o line) = f.value \o one \o line
    <2> HIDE DEF m
    <2> QED BY <1>4, LongerLine
  <1>6. ValueOf(m \o line) \in Text
    <2> HIDE DEF m
    <2> QED BY <1>5, PartsOfLine
  <1>7. k \in Field
    <2> HIDE DEF m
    <2> QED BY <1>1, <1>2, <1>5, <1>6 DEF Field
  <1> QED BY <1>3, <1>5, <1>7 DEF k, one
-------------------------------------------------------------------------------
(* Fields begun, and where each stops, as the cursor moves from line end   *)
(* to line end.                                                            *)

NextTo(s, a, b) ==
    /\ a \in Nat \ {0} /\ b \in Nat /\ a + 2 <= b /\ s[a] = CRLF /\ s[b] = CRLF
    /\ \A q \in (a + 1) .. (b - 1) : s[q] # CRLF

LEMMA HeadsAreBreaks ==
    ASSUME NEW s, NEW g, NEW a, NEW b, LineTo(s, g, a, b), s[a] = CRLF
    PROVE  /\ IsBreak(s, a) <=> ~Continues(LineAt(s, a))
           /\ IsHead(s, a) => IsBreak(s, a)
  BY DEF LineTo, IsBreak, IsHead, Continues

LEMMA HeadsFinite ==
    ASSUME NEW s, NEW a \in Nat \ {0}
    PROVE  /\ IsFiniteSet(HeadsBefore(s, a)) /\ Cardinality(HeadsBefore(s, a)) \in Nat
           /\ a \notin HeadsBefore(s, a)
           /\ \A p \in HeadsBefore(s, a) : p \in Nat \ {0} /\ p < a /\ IsHead(s, p)
  <1>1. IsFiniteSet(1 .. (a - 1))
    BY FS_Interval
  <1>2. HeadsBefore(s, a) \subseteq 1 .. (a - 1)
    BY DEF HeadsBefore
  <1>3. IsFiniteSet(HeadsBefore(s, a)) /\ Cardinality(HeadsBefore(s, a)) \in Nat
    BY <1>1, <1>2, FS_Subset, FS_CardinalityType
  <1> QED BY <1>2, <1>3 DEF HeadsBefore

(* No line begins between two line ends that follow each other.            *)
LEMMA HeadsNext ==
    ASSUME NEW s, NEW a, NEW b, NextTo(s, a, b)
    PROVE  HeadsBefore(s, b) = HeadsBefore(s, a) \cup { p \in {a} : IsHead(s, p) }
  <1>1. a \in Nat \ {0} /\ b \in Nat /\ a + 2 <= b
    BY DEF NextTo
  <1>2. ASSUME NEW p \in 1 .. (b - 1), IsHead(s, p) PROVE p \in 1 .. (a - 1) \/ p = a
    <2>1. p \notin (a + 1) .. (b - 1)
      BY <1>2 DEF NextTo, IsHead
    <2> QED BY <1>1, <2>1
  <1>3. \A p \in 1 .. (a - 1) : p \in 1 .. (b - 1)
    BY <1>1
  <1>4. a \in 1 .. (b - 1)
    BY <1>1
  <1> QED BY <1>2, <1>3, <1>4 DEF HeadsBefore

LEMMA RankFacts ==
    ASSUME NEW s, NEW a \in Nat \ {0}, NEW p \in HeadsBefore(s, a)
    PROVE  /\ Rank(s, p) \in 1 .. Cardinality(HeadsBefore(s, a))
           /\ Rank(s, p) = Cardinality(HeadsBefore(s, a)) <=> ~Followed(s, p, a)
  <1> DEFINE H == HeadsBefore(s, a)
             U == { q \in 1 .. p : IsHead(s, q) }
  <1>1. IsFiniteSet(H) /\ Cardinality(H) \in Nat /\ p \in Nat \ {0} /\ p < a /\ IsHead(s, p)
    BY HeadsFinite
  <1>2. U \subseteq H
    BY <1>1 DEF HeadsBefore
  <1>3. p \in U
    BY <1>1
  <1>4. H \subseteq U <=> ~Followed(s, p, a)
    <2>1. ASSUME Followed(s, p, a) PROVE ~(H \subseteq U)
      <3>1. PICK r \in (p + 1) .. (a - 1) : IsHead(s, r)
        BY <2>1 DEF Followed
      <3>2. r \in 1 .. (a - 1) /\ r \notin 1 .. p
        BY <1>1, <3>1
      <3> QED BY <3>1, <3>2 DEF HeadsBefore
    <2>2. ASSUME ~Followed(s, p, a), NEW r \in H PROVE r \in U
      <3>1. r \in 1 .. (a - 1) /\ IsHead(s, r)
        BY DEF HeadsBefore
      <3>2. r \notin (p + 1) .. (a - 1)
        BY <2>2, <3>1 DEF Followed
      <3>3. r \in 1 .. p
        BY <1>1, <3>1, <3>2
      <3> QED BY <3>1, <3>3
    <2> QED BY <2>1, <2>2
  <1>5. Rank(s, p) = Cardinality(U)
    BY DEF Rank
  <1> HIDE DEF U, H
  <1>6. /\ IsFiniteSet(U) /\ Cardinality(U) \in Nat /\ Cardinality(U) <= Cardinality(H)
        /\ Cardinality(U) = Cardinality(H) => U = H
    BY <1>1, <1>2, FS_Subset, FS_CardinalityType
  <1>7. Cardinality(U) # 0
    BY <1>3, <1>6, FS_EmptySet
  <1>8. Cardinality(U) = Cardinality(H) <=> H \subseteq U
    BY <1>2, <1>6
  <1>9. Cardinality(U) \in 1 .. Cardinality(H)
    BY <1>1, <1>6, <1>7
  <1> QED BY <1>4, <1>5, <1>8, <1>9 DEF H

LEMMA RankOfNext ==
    ASSUME NEW s, NEW a \in Nat \ {0}, IsHead(s, a)
    PROVE  Rank(s, a) = Cardinality(HeadsBefore(s, a)) + 1
  <1>1. { q \in 1 .. a : IsHead(s, q) } = HeadsBefore(s, a) \cup {a}
    <2>1. \A q \in 1 .. a : q = a \/ q \in 1 .. (a - 1)
      OBVIOUS
    <2>2. a \in 1 .. a /\ \A q \in 1 .. (a - 1) : q \in 1 .. a
      OBVIOUS
    <2> QED BY <2>1, <2>2 DEF HeadsBefore
  <1>2. IsFiniteSet(HeadsBefore(s, a)) /\ a \notin HeadsBefore(s, a)
    BY HeadsFinite
  <1> QED BY <1>1, <1>2, FS_AddElement DEF Rank

IsStop(s, p, a, e) ==
    /\ e \in (p + 1) .. a /\ (e < a => IsBreak(s, e))
    /\ \A q \in (p + 1) .. (e - 1) : ~IsBreak(s, q)

LEMMA StopFacts ==
    ASSUME NEW s, NEW p \in Nat, NEW a \in Nat, p < a
    PROVE  IsStop(s, p, a, StopAt(s, p, a))
  <1> DEFINE B == Breaks(s, p, a) \cup {a}
             e == Min(B)
  <1>1. B \in SUBSET Nat /\ B # {} /\ B \subseteq (p + 1) .. a
    BY DEF Breaks
  <1>2. \A q \in (p + 1) .. a : q \in B <=> (IsBreak(s, q) \/ q = a)
    BY DEF Breaks
  <1> HIDE DEF B
  <1>3. e \in B /\ \A m \in B : e <= m
    BY <1>1, SmallestElement
  <1> HIDE DEF e
  <1>4. e \in (p + 1) .. a /\ e \in Nat
    BY <1>1, <1>3
  <1>5. e < a => IsBreak(s, e)
    BY <1>2, <1>3, <1>4
  <1>6. ASSUME NEW q \in (p + 1) .. (e - 1) PROVE ~IsBreak(s, q)
    <2>1. q \in (p + 1) .. a /\ ~(e <= q)
      BY <1>4
    <2> QED BY <1>2, <1>3, <2>1
  <1> QED BY <1>4, <1>5, <1>6 DEF IsStop, StopAt, e, B

LEMMA StopIs ==
    ASSUME NEW s, NEW p \in Nat, NEW a \in Nat, p < a, NEW e, IsStop(s, p, a, e)
    PROVE  StopAt(s, p, a) = e
  <1> DEFINE m == StopAt(s, p, a)
  <1>1. IsStop(s, p, a, m)
    BY StopFacts
  <1> HIDE DEF m
  <1>2. m \in (p + 1) .. a /\ e \in (p + 1) .. a /\ m \in Int /\ e \in Int
    BY <1>1 DEF IsStop
  <1>3. ~(m < e)
    <2>1. m < e => m \in (p + 1) .. (e - 1) /\ m < a
      BY <1>2
    <2> QED BY <1>1, <2>1 DEF IsStop
  <1>4. ~(e < m)
    <2>1. e < m => e \in (p + 1) .. (m - 1) /\ e < a
      BY <1>2
    <2> QED BY <1>1, <2>1 DEF IsStop
  <1> QED BY <1>2, <1>3, <1>4 DEF m

(* Once a field is closed, or a break stands at the cursor, it stops where *)
(* it did; else it grows up to the cursor.                                 *)
LEMMA StopStays ==
    ASSUME NEW s, NEW p \in Nat, NEW a, NEW b, p < a, NextTo(s, a, b)
    PROVE  /\ Closed(s, p, a) \/ IsBreak(s, a) => StopAt(s, p, b) = StopAt(s, p, a)
           /\ ~Closed(s, p, a) => StopAt(s, p, a) = a
           /\ ~Closed(s, p, a) /\ ~IsBreak(s, a) => StopAt(s, p, b) = b
           /\ Closed(s, p, b) <=> Closed(s, p, a) \/ IsBreak(s, a)
           /\ Followed(s, p, b) <=> Followed(s, p, a) \/ IsHead(s, a)
           /\ StopAt(s, a, b) = b /\ ~Closed(s, a, b) /\ ~Followed(s, a, b)
  <1>1. a \in Nat /\ b \in Nat /\ a + 2 <= b /\ p < b /\ a < b
    BY DEF NextTo
  <1>2. \A q \in (a + 1) .. (b - 1) : ~IsBreak(s, q) /\ ~IsHead(s, q)
    BY DEF NextTo, IsBreak, IsHead
  <1>3. \A q \in (p + 1) .. (b - 1) :
           q \in (p + 1) .. (a - 1) \/ q = a \/ q \in (a + 1) .. (b - 1)
    BY <1>1
  <1>4. a \in (p + 1) .. (b - 1) /\ \A q \in (p + 1) .. (a - 1) : q \in (p + 1) .. (b - 1)
    BY <1>1
  <1>5. ASSUME Closed(s, p, a) \/ IsBreak(s, a) PROVE StopAt(s, p, b) = StopAt(s, p, a)
    <2> DEFINE e == StopAt(s, p, a)
    <2>1. IsStop(s, p, a, e)
      BY <1>1, StopFacts
    <2> HIDE DEF e
    <2>2. e \in (p + 1) .. a /\ e \in Int
      BY <1>1, <2>1 DEF IsStop
    <2>3. IsBreak(s, e)
      <3>1. CASE e < a
        BY <2>1, <3>1 DEF IsStop
      <3>2. CASE ~(e < a)
        <4>1. e = a
          BY <1>1, <2>2, <3>2
        <4>2. ~Closed(s, p, a)
          BY <2>1, <4>1 DEF IsStop, Closed
        <4> QED BY <1>5, <4>1, <4>2
      <3> QED BY <3>1, <3>2
    <2>4. e \in (p + 1) .. b
      BY <1>1, <2>2
    <2>5. IsStop(s, p, b, e)
      BY <2>1, <2>3, <2>4 DEF IsStop
    <2> QED BY <1>1, <2>5, StopIs DEF e
  <1>6. ASSUME ~Closed(s, p, a) PROVE StopAt(s, p, a) = a
    <2>1. a \in (p + 1) .. a /\ ~(a < a)
      BY <1>1
    <2>2. IsStop(s, p, a, a)
      BY <1>6, <2>1 DEF IsStop, Closed
    <2> QED BY <1>1, <2>2, StopIs
  <1>7. Closed(s, p, b) <=> Closed(s, p, a) \/ IsBreak(s, a)
    BY <1>2, <1>3, <1>4 DEF Closed
  <1>8. Followed(s, p, b) <=> Followed(s, p, a) \/ IsHead(s, a)
    BY <1>2, <1>3, <1>4 DEF Followed
  <1>9. ASSUME ~Closed(s, p, b) PROVE StopAt(s, p, b) = b
    <2>1. b \in (p + 1) .. b /\ ~(b < b)
      BY <1>1
    <2>2. IsStop(s, p, b, b)
      BY <1>9, <2>1 DEF IsStop, Closed
    <2> QED BY <1>1, <2>2, StopIs
  <1>10. StopAt(s, a, b) = b
    <2>1. b \in (a + 1) .. b /\ ~(b < b)
      BY <1>1
    <2>2. IsStop(s, a, b, b)
      BY <1>2, <2>1 DEF IsStop
    <2> QED BY <1>1, <2>2, StopIs
  <1>11. ~Closed(s, a, b) /\ ~Followed(s, a, b)
    BY <1>2 DEF Closed, Followed
  <1> QED BY <1>5, <1>6, <1>7, <1>8, <1>9, <1>10, <1>11
-------------------------------------------------------------------------------
(* What the parser does with the line at the cursor. *)

AtLine(s, g, a, b) ==
    HasGap(s, g) /\ a \in 1 .. (g - 1) /\ s[a] = CRLF /\ LineTo(s, g, a, b)

LEMMA AtLineFacts ==
    ASSUME NEW s, NEW g, NEW a, NEW b, AtLine(s, g, a, b)
    PROVE  /\ a \in Nat \ {0} /\ b \in Nat /\ NextTo(s, a, b)
           /\ IsBreak(s, a) <=> ~Continues(LineAt(s, a))
           /\ IsHead(s, a) => IsBreak(s, a)
           /\ IsHead(s, a) <=> ~Continues(LineAt(s, a)) /\ IsFieldLine(LineAt(s, a))
           /\ HeadsBefore(s, b) = HeadsBefore(s, a) \cup { p \in {a} : IsHead(s, p) }
           /\ LineAt(s, a) \in Text /\ LineAt(s, a) = SubSeq(s, a + 1, b - 1)
  <1>1. HasGap(s, g) /\ a \in 1 .. (g - 1) /\ s[a] = CRLF /\ LineTo(s, g, a, b)
    BY DEF AtLine
  <1>2. g \in Nat
    BY <1>1 DEF HasGap, Text
  <1>3. a \in Nat \ {0} /\ b \in Nat /\ a + 2 <= b
    BY <1>1, <1>2 DEF LineTo
  <1>4. NextTo(s, a, b)
    BY <1>1, <1>3 DEF LineTo, NextTo
  <1>5. IsHead(s, a) <=> ~Continues(LineAt(s, a)) /\ IsFieldLine(LineAt(s, a))
    BY <1>1 DEF IsHead
  <1>6. LineAt(s, a) \in Text /\ LineAt(s, a) = SubSeq(s, a + 1, b - 1)
    BY <1>1 DEF LineTo
  <1> QED BY <1>1, <1>3, <1>4, <1>5, <1>6, HeadsAreBreaks, HeadsNext

(* A field that has its break, or gets it from this line, stays as it is.  *)
LEMMA FieldStays ==
    ASSUME NEW s, NEW g, NEW a, NEW b, AtLine(s, g, a, b), NEW f,
           NEW p \in HeadsBefore(s, a), FieldUpTo(f, s, p, a),
           Closed(s, p, a) \/ IsBreak(s, a)
    PROVE  FieldUpTo(f, s, p, b) /\ Closed(s, p, b)
  <1>1. a \in Nat \ {0} /\ NextTo(s, a, b)
    BY AtLineFacts
  <1>2. p \in Nat /\ p < a
    BY <1>1, HeadsFinite
  <1>3. StopAt(s, p, b) = StopAt(s, p, a) /\ Closed(s, p, b)
    BY <1>1, <1>2, StopStays
  <1> QED BY <1>3 DEF FieldUpTo

LEMMA DroppedLine ==
    ASSUME NEW s, NEW g, NEW a, NEW b, AtLine(s, g, a, b),
           NEW hs \in Seq(Field), NEW skip \in BOOLEAN, FieldsUpTo(s, a, hs, skip),
           Continues(LineAt(s, a)), hs = <<>> \/ skip
    PROVE  FieldsUpTo(s, b, hs, skip)
  <1>1. /\ a \in Nat \ {0} /\ ~IsHead(s, a) /\ HeadsBefore(s, b) = HeadsBefore(s, a)
    <2>1. /\ a \in Nat \ {0} /\ ~IsHead(s, a)
          /\ HeadsBefore(s, b) = HeadsBefore(s, a) \cup { p \in {a} : IsHead(s, p) }
      BY AtLineFacts
    <2>2. { p \in {a} : IsHead(s, p) } = {}
      BY <2>1
    <2> QED BY <2>1, <2>2
  <1>2. ASSUME NEW p \in HeadsBefore(s, b)
        PROVE  /\ FieldUpTo(hs[Rank(s, p)], s, p, b)
               /\ Closed(s, p, b) <=> (skip \/ Followed(s, p, b))
    <2>1. p \in HeadsBefore(s, a)
      BY <1>1
    <2>2. skip
      <3>1. IsFiniteSet(HeadsBefore(s, a)) /\ HeadsBefore(s, a) # {}
        BY <1>1, <2>1, HeadsFinite
      <3>2. Len(hs) # 0
        BY <3>1, FS_EmptySet DEF FieldsUpTo
      <3> QED BY <3>2
    <2>3. FieldUpTo(hs[Rank(s, p)], s, p, a) /\ Closed(s, p, a)
      BY <2>1, <2>2 DEF FieldsUpTo
    <2>4. FieldUpTo(hs[Rank(s, p)], s, p, b) /\ Closed(s, p, b)
      BY <2>1, <2>3, FieldStays
    <2> QED BY <2>2, <2>4
  <1> QED BY <1>1, <1>2 DEF FieldsUpTo

LEMMA SkippedLine ==
    ASSUME NEW s, NEW g, NEW a, NEW b, AtLine(s, g, a, b),
           NEW hs \in Seq(Field), NEW skip \in BOOLEAN, FieldsUpTo(s, a, hs, skip),
           ~Continues(LineAt(s, a)), ~IsFieldLine(LineAt(s, a))
    PROVE  FieldsUpTo(s, b, hs, TRUE)
  <1>1. /\ a \in Nat \ {0} /\ IsBreak(s, a) /\ HeadsBefore(s, b) = HeadsBefore(s, a)
    <2>1. /\ a \in Nat \ {0} /\ IsBreak(s, a) /\ ~IsHead(s, a)
          /\ HeadsBefore(s, b) = HeadsBefore(s, a) \cup { p \in {a} : IsHead(s, p) }
      BY AtLineFacts
    <2>2. { p \in {a} : IsHead(s, p) } = {}
      BY <2>1
    <2> QED BY <2>1, <2>2
  <1>2. ASSUME NEW p \in HeadsBefore(s, b)
        PROVE  FieldUpTo(hs[Rank(s, p)], s, p, b) /\ Closed(s, p, b)
    <2>1. p \in HeadsBefore(s, a)
      BY <1>1
    <2>2. FieldUpTo(hs[Rank(s, p)], s, p, a)
      BY <2>1 DEF FieldsUpTo
    <2> QED BY <1>1, <2>1, <2>2, FieldStays
  <1> QED BY <1>1, <1>2 DEF FieldsUpTo

LEMMA TakenLine ==
    ASSUME NEW s, NEW g, NEW a, NEW b, AtLine(s, g, a, b),
           NEW hs \in Seq(Field), NEW skip \in BOOLEAN, FieldsUpTo(s, a, hs, skip),
           ~Continues(LineAt(s, a)), IsFieldLine(LineAt(s, a)),
           NEW f, f = [name  |-> NameOf(LineAt(s, a)), value |-> ValueOf(LineAt(s, a)),
                       raw   |-> LineAt(s, a)]
    PROVE  f \in Field /\ FieldsUpTo(s, b, Append(hs, f), FALSE)
  <1> DEFINE n == Cardinality(HeadsBefore(s, a))
             more == Append(hs, f)
  <1>1. /\ a \in Nat \ {0} /\ IsHead(s, a) /\ IsBreak(s, a) /\ NextTo(s, a, b)
        /\ HeadsBefore(s, b) = HeadsBefore(s, a) \cup {a}
        /\ LineAt(s, a) \in Text /\ LineAt(s, a) = SubSeq(s, a + 1, b - 1)
    BY AtLineFacts
  <1>2. f.name = NameOf(f.raw) /\ f.value = ValueOf(f.raw) /\ f.raw = LineAt(s, a)
    OBVIOUS
  <1>3. Contains(f.raw, ":") /\ ValidFieldName(f.name)
    BY <1>2 DEF IsFieldLine
  <1>4. f \in Field
    <2>1. NameOf(LineAt(s, a)) \in Text /\ ValueOf(LineAt(s, a)) \in Text
      BY <1>1, <1>2, <1>3, PartsOfLine
    <2> QED BY <1>1, <2>1 DEF Field
  <1>5. /\ more \in Seq(Field) /\ Len(more) = Len(hs) + 1
        /\ \A i \in 1 .. Len(hs) : more[i] = hs[i]
        /\ more[Len(hs) + 1] = f
    BY <1>4, AppendProperties
  <1>6. /\ IsFiniteSet(HeadsBefore(s, a)) /\ n \in Nat /\ a \notin HeadsBefore(s, a)
        /\ \A p \in HeadsBefore(s, a) : p \in Nat \ {0} /\ p < a
    BY <1>1, HeadsFinite
  <1>7. Len(hs) = n /\ Cardinality(HeadsBefore(s, b)) = n + 1
    BY <1>1, <1>6, FS_AddElement DEF FieldsUpTo
  <1> HIDE DEF n, more
  <1>8. ASSUME NEW p \in HeadsBefore(s, a)
        PROVE  /\ FieldUpTo(more[Rank(s, p)], s, p, b)
               /\ Closed(s, p, b) /\ Followed(s, p, b)
    <2>1. Rank(s, p) \in 1 .. n
      BY <1>1, RankFacts DEF n
    <2>2. more[Rank(s, p)] = hs[Rank(s, p)]
      BY <1>5, <1>7, <2>1
    <2>3. FieldUpTo(more[Rank(s, p)], s, p, a)
      BY <2>2 DEF FieldsUpTo
    <2>4. FieldUpTo(more[Rank(s, p)], s, p, b) /\ Closed(s, p, b)
      BY <1>1, <2>3, FieldStays
    <2>5. Followed(s, p, b)
      BY <1>1, <1>6, StopStays
    <2> QED BY <2>4, <2>5
  <1>9. FieldUpTo(more[Rank(s, a)], s, a, b) /\ ~Closed(s, a, b) /\ ~Followed(s, a, b)
    <2>1. more[Rank(s, a)] = f
      BY <1>1, <1>5, <1>7, RankOfNext DEF n
    <2>2. StopAt(s, a, b) = b /\ ~Closed(s, a, b) /\ ~Followed(s, a, b)
      <3>1. 0 \in Nat /\ 0 < a /\ NextTo(s, a, b)
        BY <1>1
      <3> QED BY ONLY <3>1, StopStays
    <2>3. FieldUpTo(f, s, a, b)
      BY <1>1, <1>2, <1>3, <2>2 DEF FieldUpTo
    <2> QED BY <2>1, <2>2, <2>3
  <1>10. FieldsUpTo(s, b, more, FALSE)
    BY <1>1, <1>5, <1>7, <1>8, <1>9 DEF FieldsUpTo
  <1> QED BY <1>4, <1>10 DEF more

LEMMA GrownStretch ==
    ASSUME NEW s \in Text, NEW p \in Nat, NEW a \in Nat, NEW b \in Nat,
           p < a, a < b, b <= Len(s) + 1, s[a] = CRLF
    PROVE  SubSeq(s, p + 1, a - 1) \o <<CRLF>> \o SubSeq(s, a + 1, b - 1)
             = SubSeq(s, p + 1, b - 1)
  <1>1. s \in Seq(Alphabet) /\ Len(s) \in Nat
    BY DEF Text
  <1>2. /\ p + 1 \in Nat \ {0} /\ a \in Nat \ {0} /\ a - 1 \in 0 .. Len(s)
        /\ a \in 0 .. Len(s) /\ b - 1 \in 0 .. Len(s) /\ p + 1 <= a - 1 + 1 /\ a - 1 <= a
        /\ p + 1 <= a + 1 /\ a <= b - 1 /\ a - 1 + 1 = a /\ a <= a
    BY <1>1
  <1>3. SubSeq(s, a, a) = <<CRLF>>
    <2>1. /\ SubSeq(s, a, a) \in Seq(Alphabet) /\ Len(SubSeq(s, a, a)) = 1
          /\ SubSeq(s, a, a)[1] = s[a]
      <3>1. /\ SubSeq(s, a, a) \in Seq(Alphabet)
            /\ Len(SubSeq(s, a, a)) = IF a <= a THEN a - a + 1 ELSE 0
            /\ \A j \in 1 .. (a - a + 1) : SubSeq(s, a, a)[j] = s[a + j - 1]
        BY ONLY <1>1, <1>2, StretchType
      <3>2. a - a + 1 = 1 /\ a + 1 - 1 = a /\ 1 \in 1 .. (a - a + 1)
        BY <1>2
      <3> QED BY <1>2, <3>1, <3>2
    <2>2. <<CRLF>> \in Seq(Alphabet) /\ Len(<<CRLF>>) = 1 /\ <<CRLF>>[1] = CRLF
      BY Letters
    <2>3. \A j \in 1 .. Len(SubSeq(s, a, a)) : SubSeq(s, a, a)[j] = <<CRLF>>[j]
      BY <2>1, <2>2
    <2> QED BY <2>1, <2>2, <2>3, SameSequence
  <1>4. SubSeq(s, p + 1, a - 1) \o SubSeq(s, a - 1 + 1, a) = SubSeq(s, p + 1, a)
    BY ONLY <1>1, <1>2, StretchJoin
  <1>5. SubSeq(s, p + 1, a) \o SubSeq(s, a + 1, b - 1) = SubSeq(s, p + 1, b - 1)
    BY ONLY <1>1, <1>2, StretchJoin
  <1> QED BY <1>2, <1>3, <1>4, <1>5

LEMMA ContinuedField ==
    ASSUME NEW s, NEW g, NEW a, NEW b, AtLine(s, g, a, b),
           NEW hs \in Seq(Field), NEW skip \in BOOLEAN, FieldsUpTo(s, a, hs, skip),
           Continues(LineAt(s, a)), hs # <<>>, ~skip,
           NEW more, more = GrownLast(hs, LineAt(s, a))
    PROVE  more \in Seq(Field) /\ FieldsUpTo(s, b, more, skip)
  <1> DEFINE n == Len(hs)
             L == LineAt(s, a)
             last == Grown(hs[n], L)
  <1>1. /\ a \in Nat \ {0} /\ ~IsHead(s, a) /\ ~IsBreak(s, a) /\ NextTo(s, a, b)
        /\ HeadsBefore(s, b) = HeadsBefore(s, a)
        /\ L \in Text /\ L = SubSeq(s, a + 1, b - 1)
    <2>1. /\ a \in Nat \ {0} /\ ~IsHead(s, a) /\ ~IsBreak(s, a) /\ NextTo(s, a, b)
          /\ HeadsBefore(s, b) = HeadsBefore(s, a) \cup { p \in {a} : IsHead(s, p) }
          /\ L \in Text /\ L = SubSeq(s, a + 1, b - 1)
      BY AtLineFacts
    <2>2. { p \in {a} : IsHead(s, p) } = {}
      BY <2>1
    <2> QED BY <2>1, <2>2
  <1>2. n \in Nat \ {0} /\ n \in 1 .. Len(hs) /\ hs[n] \in Field
    <2>1. Len(hs) \in Nat /\ Len(hs) # 0
      OBVIOUS
    <2> QED BY <2>1, ElementOfSeq
  <1>3. s \in Text /\ b \in Nat /\ a < b /\ b <= Len(s) + 1
    <2>1. s \in Text /\ Len(s) \in Nat /\ g \in 1 .. (Len(s) - 1) /\ b \in (a + 2) .. g
      BY DEF AtLine, HasGap, LineTo, Text
    <2> QED BY <1>1, <2>1
  <1> HIDE DEF L
  <1>4. /\ n = Cardinality(HeadsBefore(s, a))
        /\ \A p \in HeadsBefore(s, a) :
              FieldUpTo(hs[Rank(s, p)], s, p, a) /\ (Closed(s, p, a) <=> Followed(s, p, a))
    BY DEF FieldsUpTo
  <1>5. ASSUME NEW p \in HeadsBefore(s, a)
        PROVE  p \in Nat /\ p < a /\ Rank(s, p) \in 1 .. n /\ (Rank(s, p) = n <=> ~Followed(s, p, a))
    BY <1>1, <1>4, HeadsFinite, RankFacts
  <1>6. \E p \in HeadsBefore(s, a) : ~Followed(s, p, a)
    <2>1. HeadsBefore(s, a) \in SUBSET (0 .. a) /\ HeadsBefore(s, a) # {}
      <3>1. IsFiniteSet(HeadsBefore(s, a))
        BY <1>1, HeadsFinite
      <3>2. HeadsBefore(s, a) # {}
        BY <1>2, <1>4, FS_EmptySet
      <3> QED BY <1>1, <1>5, <3>2
    <2> DEFINE p == Max(HeadsBefore(s, a))
    <2>2. p \in HeadsBefore(s, a) /\ \A m \in HeadsBefore(s, a) : m <= p
      BY <1>1, <2>1, GreatestElement
    <2> HIDE DEF p
    <2>3. ASSUME NEW r \in (p + 1) .. (a - 1) PROVE ~IsHead(s, r)
      <3>1. p \in Nat /\ r \in 1 .. (a - 1) /\ ~(r <= p)
        BY <1>1, <1>5, <2>2
      <3> QED BY <2>2, <3>1 DEF HeadsBefore
    <2> QED BY <2>2, <2>3 DEF Followed
  <1>7. ASSUME NEW p \in HeadsBefore(s, a), ~Followed(s, p, a)
        PROVE  /\ last \in Field /\ FieldUpTo(last, s, p, b)
               /\ ~Closed(s, p, b) /\ ~Followed(s, p, b)
    <2>1. Rank(s, p) = n /\ p \in Nat /\ p < a
      BY <1>5, <1>7
    <2>2. FieldUpTo(hs[n], s, p, a) /\ ~Closed(s, p, a)
      BY <1>4, <1>7, <2>1
    <2>3. /\ StopAt(s, p, a) = a /\ StopAt(s, p, b) = b
          /\ ~Closed(s, p, b) /\ ~Followed(s, p, b)
      BY <1>1, <1>7, <2>1, <2>2, StopStays
    <2>4. /\ Contains(hs[n].raw, ":") /\ hs[n].name = NameOf(hs[n].raw)
          /\ hs[n].value = ValueOf(hs[n].raw) /\ ValidFieldName(hs[n].name)
          /\ hs[n].raw = SubSeq(s, p + 1, a - 1)
      BY <2>2, <2>3 DEF FieldUpTo
    <2>5. /\ last \in Field /\ last.raw = hs[n].raw \o <<CRLF>> \o L
          /\ Contains(last.raw, ":") /\ last.name = hs[n].name
          /\ hs[n].name = NameOf(last.raw) /\ last.value = ValueOf(last.raw)
      BY <1>1, <1>2, <2>4, GrownField
    <2> HIDE DEF last
    <2>6. last.raw = SubSeq(s, p + 1, b - 1)
      <3>1. /\ s \in Text /\ p \in Nat /\ a \in Nat /\ b \in Nat
            /\ p < a /\ a < b /\ b <= Len(s) + 1 /\ s[a] = CRLF
        BY <1>1, <1>3, <2>1 DEF AtLine
      <3>2. SubSeq(s, p + 1, a - 1) \o <<CRLF>> \o SubSeq(s, a + 1, b - 1)
              = SubSeq(s, p + 1, b - 1)
        BY ONLY <3>1, GrownStretch
      <3> QED BY <1>1, <2>4, <2>5, <3>2
    <2> QED BY <2>3, <2>4, <2>5, <2>6 DEF FieldUpTo
  <1>8. last \in Field
    BY <1>6, <1>7
  <1>9. more = [hs EXCEPT ![n] = last]
    BY DEF L, GrownLast
  <1> HIDE DEF last
  <1>10. /\ more \in Seq(Field) /\ Len(more) = n
         /\ \A i \in 1 .. n : more[i] = IF i = n THEN last ELSE hs[i]
    BY <1>2, <1>8, <1>9, ExceptSeq
  <1> HIDE DEF n
  <1>11. ASSUME NEW p \in HeadsBefore(s, b)
         PROVE  /\ FieldUpTo(more[Rank(s, p)], s, p, b)
                /\ Closed(s, p, b) <=> (skip \/ Followed(s, p, b))
    <2>1. p \in HeadsBefore(s, a)
      BY <1>1
    <2>2. Rank(s, p) \in 1 .. n /\ p \in Nat /\ p < a
      BY <1>5, <2>1
    <2>3. CASE Followed(s, p, a)
      <3>1. Rank(s, p) # n
        BY <1>5, <2>1, <2>3
      <3>2. FieldUpTo(more[Rank(s, p)], s, p, a) /\ Closed(s, p, a)
        BY <1>4, <1>10, <2>1, <2>2, <2>3, <3>1
      <3>3. FieldUpTo(more[Rank(s, p)], s, p, b) /\ Closed(s, p, b)
        BY <2>1, <3>2, FieldStays
      <3>4. Followed(s, p, b)
        BY <1>1, <2>2, <2>3, StopStays
      <3> QED BY <3>3, <3>4
    <2>4. CASE ~Followed(s, p, a)
      <3>1. more[Rank(s, p)] = last
        BY <1>5, <1>10, <2>1, <2>2, <2>4
      <3> QED BY <1>7, <2>1, <2>4, <3>1
    <2> QED BY <2>3, <2>4
  <1>12. Len(more) = Cardinality(HeadsBefore(s, b))
    BY <1>1, <1>4, <1>10
  <1> QED BY <1>10, <1>11, <1>12 DEF FieldsUpTo
-------------------------------------------------------------------------------
(* The inductive invariant: the parser stands at a line end of the header  *)
(* block, the lines left are those behind it, and the fields are those of  *)
(* the lines in front of it; with no line left it is the block's end.      *)

LEMMA NoFieldYet == ASSUME NEW s PROVE FieldsUpTo(s, 1, <<>>, FALSE)
  <1>1. HeadsBefore(s, 1) = {}
    BY DEF HeadsBefore
  <1> QED BY <1>1, FS_EmptySet DEF FieldsUpTo

(* Without a line left the cursor is at the end of the block.              *)
LEMMA AllParsed ==
    ASSUME NEW r \in Text, NEW hs, NEW text, NEW skip, Parsed(r, <<>>, hs, text, skip)
    PROVE  FieldsUpTo(Framed(r), Stop(r), hs, skip)
  <1> DEFINE s == Framed(r)
             g == Stop(r)
  <1>1. HasGap(s, g)
    BY FramedGap DEF Stop
  <1> HIDE DEF s, g
  <1>2. PICK a \in 1 .. g : ParsedUpTo(s, g, a, <<>>, hs, skip)
    BY DEF Parsed, s, g
  <1>3. s[a] = CRLF /\ Rest(s, g, a) = <<>> /\ FieldsUpTo(s, a, hs, skip)
    BY <1>2 DEF ParsedUpTo
  <1>4. a = g
    <2> SUFFICES ASSUME a # g PROVE FALSE
      OBVIOUS
    <2>1. g \in Nat
      BY <1>1 DEF HasGap, Text
    <2>2. a \in 1 .. (g - 1)
      BY <2>1
    <2>3. LineTo(s, g, a, NextEnd(s, a))
      BY <1>1, <1>3, <2>2, LineStep
    <2>4. /\ NextEnd(s, a) \in 1 .. g /\ s[NextEnd(s, a)] = CRLF
          /\ Rest(s, g, a) = << LineAt(s, a) >> \o Rest(s, g, NextEnd(s, a))
      <3> HIDE DEF NextEnd
      <3>1. NextEnd(s, a) \in (a + 2) .. g
        BY <2>3 DEF LineTo
      <3>2. NextEnd(s, a) \in 1 .. g
        BY <2>1, <2>2, <3>1
      <3> QED BY <2>3, <3>2 DEF LineTo
    <2>5. Rest(s, g, NextEnd(s, a)) \in Seq(Text) /\ LineAt(s, a) \in Text
      <3>1. FullLines(Rest(s, g, NextEnd(s, a)))
        BY ONLY <1>1, <2>4, RestIsFull
      <3> QED BY <2>3, <3>1 DEF FullLines, LineTo
    <2> HIDE DEF NextEnd, LineAt, Rest
    <2>6. Rest(s, g, a) # <<>>
      BY <2>4, <2>5
    <2> QED BY <1>3, <2>6
  <1> QED BY <1>3, <1>4 DEF s, g

(* With one left, the fields after it decide whether the state behind it   *)
(* is a parsed one.                                                        *)
NextParsed(r, ls, hs, text, skip, a, b) ==
    /\ AtLine(Framed(r), Stop(r), a, b)
    /\ Head(ls) = LineAt(Framed(r), a)
    /\ FieldsUpTo(Framed(r), a, hs, skip)
    /\ \A hs2 \in Seq(Field), skip2 \in BOOLEAN :
          FieldsUpTo(Framed(r), b, hs2, skip2) => Parsed(r, Tail(ls), hs2, text, skip2)

LEMMA NextOfParsed ==
    ASSUME NEW r \in Text, NEW ls, ls # <<>>, NEW hs, NEW text, NEW skip,
           Parsed(r, ls, hs, text, skip)
    PROVE  \E a, b : NextParsed(r, ls, hs, text, skip, a, b)
  <1> DEFINE s == Framed(r)
             g == Stop(r)
  <1>1. HasGap(s, g)
    BY FramedGap DEF Stop
  <1> HIDE DEF s, g
  <1>2. PICK a \in 1 .. g : ParsedUpTo(s, g, a, ls, hs, skip)
    BY DEF Parsed, s, g
  <1>3. s[a] = CRLF /\ ls = Rest(s, g, a) /\ FieldsUpTo(s, a, hs, skip)
    BY <1>2 DEF ParsedUpTo
  <1> DEFINE b == NextEnd(s, a)
  <1>4. /\ a \in 1 .. (g - 1) /\ LineTo(s, g, a, b)
        /\ Head(ls) = LineAt(s, a) /\ Tail(ls) = Rest(s, g, b)
    BY <1>1, <1>3, NextLine
  <1> HIDE DEF b
  <1>5. AtLine(s, g, a, b)
    BY <1>1, <1>3, <1>4 DEF AtLine
  <1>6. b \in 1 .. g /\ s[b] = CRLF
    <2>1. g \in Nat
      BY <1>1 DEF HasGap, Text
    <2>2. b \in (a + 2) .. g /\ s[b] = CRLF
      BY <1>4 DEF LineTo
    <2> QED BY <1>4, <2>1, <2>2
  <1>7. ASSUME NEW hs2 \in Seq(Field), NEW skip2 \in BOOLEAN, FieldsUpTo(s, b, hs2, skip2)
        PROVE  Parsed(r, Tail(ls), hs2, text, skip2)
    <2>1. ParsedUpTo(s, g, b, Tail(ls), hs2, skip2)
      BY <1>4, <1>6, <1>7 DEF ParsedUpTo
    <2>2. text \in Text /\ text = BodyOf(s, g)
      BY DEF Parsed, s, g
    <2> QED BY <1>6, <1>7, <2>1, <2>2 DEF Parsed, s, g
  <1>8. NextParsed(r, ls, hs, text, skip, a, b)
    BY <1>3, <1>4, <1>5, <1>7 DEF NextParsed, s, g
  <1> QED BY <1>8
-------------------------------------------------------------------------------
(* The parser keeps the invariant, action by action. *)

LEMMA CInvInit == CanonInit => CInv
  BY MessagesAreTexts DEF CanonInit, Init, CInv

LEMMA SplitKeeps == CInv /\ SplitMessage => CInv'
  <1> SUFFICES ASSUME CInv, SplitMessage PROVE CInv'
    OBVIOUS
  <1> DEFINE N == Normalize(raw)
             s == Framed(raw)
             g == Stop(raw)
  <1>1. raw \in Text /\ raw' = raw /\ pc' = "parse"
    BY DEF CInv, SplitMessage
  <1>2. /\ lines' = IF IsPrefix(<<CRLF>>, N) THEN <<>> ELSE LinesOf(N)
        /\ body' = IF IsPrefix(<<CRLF>>, N) THEN Tail(N) ELSE Behind(N)
        /\ headers' = <<>> /\ skipping' = FALSE
    BY DEF SplitMessage, LinesOf, Behind
  <1>3. lines' = Rest(s, g, 1) /\ body' = BodyOf(s, g)
    <2>1. /\ (IF IsPrefix(<<CRLF>>, N) THEN <<>> ELSE LinesOf(N)) = Rest(s, g, 1)
          /\ (IF IsPrefix(<<CRLF>>, N) THEN Tail(N) ELSE Behind(N)) = BodyOf(s, g)
      BY <1>1, SplitParsed DEF Stop
    <2> QED BY <1>2, <2>1
  <1>4. HasGap(s, g)
    BY <1>1, FramedGap DEF Stop
  <1> HIDE DEF s, g, N
  <1>5. BodyOf(s, g) \in Text
    BY <1>4, BodyIs
  <1>6. 1 \in 1 .. g /\ s[1] = CRLF
    BY <1>4 DEF HasGap, Text
  <1>7. ParsedUpTo(s, g, 1, lines', headers', skipping')
    BY <1>2, <1>3, <1>6, NoFieldYet DEF ParsedUpTo
  <1>8. Parsed(raw, lines', headers', body', skipping')
    <2>1. headers' \in Seq(Field) /\ skipping' \in BOOLEAN
      <3>1. headers' = <<>> /\ skipping' = FALSE
        BY <1>2
      <3>2. <<>> \in Seq(Field)
        OBVIOUS
      <3> QED BY <3>1, <3>2
    <2> QED BY <1>3, <1>5, <1>6, <1>7, <2>1 DEF Parsed, s, g
  <1> QED BY <1>1, <1>8 DEF CInv

(* What every action on a line has to show.                                *)
LEMMA LineKeeps ==
    ASSUME CInv, Parsing, Advance, NEW a, NEW b,
           NextParsed(raw, lines, headers, body, skipping, a, b),
           headers' \in Seq(Field), skipping' \in BOOLEAN,
           FieldsUpTo(Framed(raw), b, headers', skipping')
    PROVE  CInv'
  <1>1. /\ raw' = raw /\ pc' = pc /\ pc = "parse" /\ body' = body
        /\ lines' = Tail(lines) /\ raw \in Text
    BY DEF CInv, Parsing, Advance
  <1>2. Parsed(raw, lines', headers', body', skipping')
    BY <1>1 DEF NextParsed
  <1> QED BY <1>1, <1>2 DEF CInv

LEMMA LineThere ==
    ASSUME CInv, Parsing
    PROVE  /\ headers \in Seq(Field) /\ skipping \in BOOLEAN
           /\ \E a, b : NextParsed(raw, lines, headers, body, skipping, a, b)
  <1>1. /\ raw \in Text /\ lines # <<>>
        /\ Parsed(raw, lines, headers, body, skipping)
    BY DEF CInv, Parsing
  <1>2. headers \in Seq(Field) /\ skipping \in BOOLEAN
    BY <1>1 DEF Parsed
  <1> QED BY <1>1, <1>2, NextOfParsed

LEMMA DropKeeps == CInv /\ DropContinuation => CInv'
  <1> SUFFICES ASSUME CInv, DropContinuation PROVE CInv'
    OBVIOUS
  <1>1. /\ Parsing /\ Advance /\ Continues(Head(lines)) /\ (headers = <<>> \/ skipping)
        /\ headers' = headers /\ skipping' = skipping
    BY DEF DropContinuation
  <1>2. /\ headers \in Seq(Field) /\ skipping \in BOOLEAN
        /\ \E a, b : NextParsed(raw, lines, headers, body, skipping, a, b)
    BY <1>1, LineThere
  <1>3. PICK a, b : NextParsed(raw, lines, headers, body, skipping, a, b)
    BY <1>2
  <1>4. /\ AtLine(Framed(raw), Stop(raw), a, b)
        /\ Head(lines) = LineAt(Framed(raw), a)
        /\ FieldsUpTo(Framed(raw), a, headers, skipping)
    BY <1>3 DEF NextParsed
  <1>5. FieldsUpTo(Framed(raw), b, headers, skipping)
    BY <1>1, <1>2, <1>4, DroppedLine
  <1> QED BY <1>1, <1>2, <1>3, <1>5, LineKeeps

LEMMA ContinueKeeps == CInv /\ ContinueField => CInv'
  <1> SUFFICES ASSUME CInv, ContinueField PROVE CInv'
    OBVIOUS
  <1>1. /\ Parsing /\ Advance /\ Continues(Head(lines)) /\ headers # <<>> /\ ~skipping
        /\ headers' = GrownLast(headers, Head(lines)) /\ skipping' = skipping
    BY DEF ContinueField, GrownLast
  <1>2. /\ headers \in Seq(Field) /\ skipping \in BOOLEAN
        /\ \E a, b : NextParsed(raw, lines, headers, body, skipping, a, b)
    BY <1>1, LineThere
  <1>3. PICK a, b : NextParsed(raw, lines, headers, body, skipping, a, b)
    BY <1>2
  <1>4. /\ AtLine(Framed(raw), Stop(raw), a, b)
        /\ Head(lines) = LineAt(Framed(raw), a)
        /\ FieldsUpTo(Framed(raw), a, headers, skipping)
    BY <1>3 DEF NextParsed
  <1>5. /\ Continues(LineAt(Framed(raw), a))
        /\ headers' = GrownLast(headers, LineAt(Framed(raw), a))
    BY <1>1, <1>4
  <1>6. headers' \in Seq(Field) /\ FieldsUpTo(Framed(raw), b, headers', skipping)
    BY ONLY <1>1, <1>2, <1>4, <1>5, ContinuedField
  <1> QED BY <1>1, <1>2, <1>3, <1>6, LineKeeps

LEMMA TakeKeeps == CInv /\ TakeField => CInv'
  <1> SUFFICES ASSUME CInv, TakeField PROVE CInv'
    OBVIOUS
  <1> DEFINE f == [name  |-> NameOf(Head(lines)), value |-> ValueOf(Head(lines)),
                   raw   |-> Head(lines)]
  <1>1. /\ Parsing /\ Advance /\ ~Continues(Head(lines)) /\ IsFieldLine(Head(lines))
        /\ headers' = Append(headers, f) /\ skipping' = FALSE
    BY DEF TakeField
  <1>2. /\ headers \in Seq(Field) /\ skipping \in BOOLEAN
        /\ \E a, b : NextParsed(raw, lines, headers, body, skipping, a, b)
    BY <1>1, LineThere
  <1>3. PICK a, b : NextParsed(raw, lines, headers, body, skipping, a, b)
    BY <1>2
  <1>4. /\ AtLine(Framed(raw), Stop(raw), a, b)
        /\ Head(lines) = LineAt(Framed(raw), a)
        /\ FieldsUpTo(Framed(raw), a, headers, skipping)
    BY <1>3 DEF NextParsed
  <1>5. f = [name  |-> NameOf(LineAt(Framed(raw), a)), value |-> ValueOf(LineAt(Framed(raw), a)),
             raw   |-> LineAt(Framed(raw), a)]
    BY <1>4
  <1> HIDE DEF f
  <1>6. f \in Field /\ FieldsUpTo(Framed(raw), b, Append(headers, f), FALSE)
    BY <1>1, <1>2, <1>4, <1>5, TakenLine
  <1>7. headers' \in Seq(Field)
    BY <1>1, <1>2, <1>6, AppendProperties
  <1> QED BY <1>1, <1>2, <1>3, <1>6, <1>7, LineKeeps

LEMMA SkipKeeps == CInv /\ SkipLine => CInv'
  <1> SUFFICES ASSUME CInv, SkipLine PROVE CInv'
    OBVIOUS
  <1>1. /\ Parsing /\ Advance /\ ~Continues(Head(lines)) /\ ~IsFieldLine(Head(lines))
        /\ headers' = headers /\ skipping' = TRUE
    BY DEF SkipLine
  <1>2. /\ headers \in Seq(Field) /\ skipping \in BOOLEAN
        /\ \E a, b : NextParsed(raw, lines, headers, body, skipping, a, b)
    BY <1>1, LineThere
  <1>3. PICK a, b : NextParsed(raw, lines, headers, body, skipping, a, b)
    BY <1>2
  <1>4. /\ AtLine(Framed(raw), Stop(raw), a, b)
        /\ Head(lines) = LineAt(Framed(raw), a)
        /\ FieldsUpTo(Framed(raw), a, headers, skipping)
    BY <1>3 DEF NextParsed
  <1>5. FieldsUpTo(Framed(raw), b, headers, TRUE)
    BY <1>1, <1>2, <1>4, SkippedLine
  <1> QED BY <1>1, <1>2, <1>3, <1>5, LineKeeps

LEMMA FinishKeeps == CInv /\ Finish => CInv'
  BY DEF CInv, Finish, parser
-------------------------------------------------------------------------------
(* Whatever intermediaries do, the message stays a text. *)

LEMMA EditKeeps ==
    ASSUME CInv, pc = "done", NEW text \in Text, NEW kind, Edit(text, kind)
    PROVE  CInv'
  BY DEF CInv, Edit, parser

LEMMA WireType == CInv => Wire \in Text
  BY NormalizedType DEF CInv, Wire

LEMMA ChainType ==
    ASSUME NEW s \in Text, NEW t \in Text
    PROVE  s \o t \in Text
  BY DEF Text

LEMMA OneType == ASSUME NEW ch \in Alphabet PROVE <<ch>> \in Text
  BY DEF Text

LEMMA StoredType ==
    ASSUME NEW s \in Text, NEW text \in Encodings(s)
    PROVE  text \in Text
  <1> DEFINE ends == { p \in DOMAIN s : s[p] = CRLF }
             with(f) == FlattenSeq([p \in DOMAIN s |-> IF p \in ends THEN f[p] ELSE <<s[p]>>])
  <1>1. Len(s) \in Nat /\ DOMAIN s = 1 .. Len(s) /\ \A p \in 1 .. Len(s) : s[p] \in Alphabet
    BY DEF Text
  <1> HIDE DEF ends
  <1>2. ASSUME NEW f \in [ends -> Text] PROVE with(f) \in Text
    <2> DEFINE pieces == [p \in DOMAIN s |-> IF p \in ends THEN f[p] ELSE <<s[p]>>]
    <2>1. ASSUME NEW p \in 1 .. Len(s)
          PROVE  (IF p \in ends THEN f[p] ELSE <<s[p]>>) \in Seq(Alphabet)
      <3>1. p \in ends => f[p] \in Seq(Alphabet)
        BY DEF Text
      <3>2. <<s[p]>> \in Seq(Alphabet)
        BY <1>1
      <3> QED BY <3>1, <3>2
    <2>2. pieces \in [1 .. Len(s) -> Seq(Alphabet)]
      BY <1>1, <2>1
    <2> HIDE DEF pieces
    <2>3. FlattenSeq(pieces) \in Seq(Alphabet)
      BY <1>1, <2>2, FlattenType
    <2> QED BY <2>3 DEF pieces, Text
  <1>3. <<"CR", "LF">> \in Text /\ <<"LF">> \in Text /\ <<"CR">> \in Text
    BY Letters DEF Text
  <1>4. \A f \in [ends -> {<<"CR", "LF">>, <<"LF">>}] : f \in [ends -> Text]
    BY <1>3
  <1>5. [p \in ends |-> <<"CR">>] \in [ends -> Text]
    BY <1>3
  <1>6. text \in { with(f) : f \in [ends -> {<<"CR", "LF">>, <<"LF">>}] }
                   \cup { with([p \in ends |-> <<"CR">>]) }
    BY DEF Encodings, ends
  <1> HIDE DEF with
  <1> QED BY <1>2, <1>4, <1>5, <1>6

LEMMA JoinType ==
    ASSUME NEW parts \in Seq(Text)
    PROVE  Join(parts, CRLF) \in Text
  <1> DEFINE pieces == [k \in DOMAIN parts |-> IF k = 1 THEN parts[k] ELSE <<CRLF>> \o parts[k]]
  <1>1. Len(parts) \in Nat /\ DOMAIN parts = 1 .. Len(parts)
        /\ \A k \in 1 .. Len(parts) : parts[k] \in Text
    OBVIOUS
  <1>2. ASSUME NEW k \in 1 .. Len(parts)
        PROVE  (IF k = 1 THEN parts[k] ELSE <<CRLF>> \o parts[k]) \in Text
    BY <1>1, Letters, OneType, ChainType
  <1>3. pieces \in [1 .. Len(parts) -> Seq(Alphabet)]
    BY <1>1, <1>2 DEF Text
  <1> HIDE DEF pieces
  <1>4. FlattenSeq(pieces) \in Seq(Alphabet)
    BY <1>1, <1>3, FlattenType
  <1> QED BY <1>4 DEF Join, pieces, Text

LEMMA InsertType ==
    ASSUME NEW s \in Text, NEW p \in 1 .. (Len(s) + 1), NEW ch \in Alphabet
    PROVE  InsertAt(s, p, ch) \in Text
  <1>1. /\ s \in Seq(Alphabet) /\ Len(s) \in Nat /\ p - 1 \in 0 .. Len(s)
        /\ p \in Nat \ {0} /\ 1 \in Nat \ {0} /\ Len(s) \in 0 .. Len(s)
    BY DEF Text
  <1>2. SubSeq(s, 1, p - 1) \in Text /\ SubSeq(s, p, Len(s)) \in Text
    BY <1>1, StretchType DEF Text
  <1>3. <<ch>> \in Text
    BY OneType
  <1> QED BY <1>2, <1>3, ChainType DEF InsertAt

(* The positions of the header block are positions of the text.            *)
HeaderEnd == Min({BodyStart - 1, Len(Wire)})

LEMMA HeaderEndIs == CInv => HeaderEnd \in Nat /\ HeaderEnd <= Len(Wire)
  <1> SUFFICES ASSUME CInv PROVE HeaderEnd \in Nat /\ HeaderEnd <= Len(Wire)
    OBVIOUS
  <1> DEFINE B == {BodyStart - 1, Len(Wire)}
  <1>1. Wire \in Text /\ Len(Wire) \in Nat
    BY WireType DEF Text
  <1>2. Gaps(Wire) # {} => Min(Gaps(Wire)) \in Nat
    BY <1>1, FirstGap
  <1>3. BodyStart - 1 \in Nat
    BY <1>1, <1>2 DEF BodyStart
  <1>4. B \in SUBSET Nat /\ B # {} /\ Len(Wire) \in B
    BY <1>1, <1>3
  <1> HIDE DEF B
  <1>5. Min(B) \in B /\ \A k \in B : Min(B) <= k
    BY <1>4, SmallestElement
  <1>6. Min(B) \in Nat /\ Min(B) <= Len(Wire)
    BY <1>4, <1>5
  <1> QED BY <1>6 DEF HeaderEnd, B

LEMMA EditsKeep == CInv /\ Edits => CInv'
  <1> SUFFICES ASSUME CInv, Edits PROVE CInv'
    OBVIOUS
  <1>1. pc = "done" /\ Parsed(raw, lines, headers, body, skipping)
    BY DEF CInv, Edits
  <1>2. Wire \in Text /\ headers \in Seq(Field) /\ body \in Text
    BY <1>1, WireType DEF Parsed
  <1>3. Len(Wire) \in Nat
    BY <1>2 DEF Text
  <1>4. CASE Store
    BY <1>1, <1>2, <1>4, StoredType, EditKeeps DEF Store
  <1>5. CASE Rewrite
    <2> DEFINE raws == [j \in DOMAIN headers |-> headers[j].raw]
    <2>1. raws \in Seq(Text)
      <3>1. /\ DOMAIN headers = 1 .. Len(headers) /\ Len(headers) \in Nat
            /\ \A j \in DOMAIN headers : headers[j] \in Field
        BY <1>2
      <3>2. \A j \in DOMAIN headers : headers[j].raw \in Text
        BY <3>1 DEF Field
      <3> QED BY <3>1, <3>2
    <2>2. << <<>>, body >> \in Seq(Text)
      BY <1>2 DEF Text
    <2> HIDE DEF raws
    <2>3. Join(raws \o << <<>>, body >>, CRLF) \in Text
      <3>1. raws \o << <<>>, body >> \in Seq(Text)
        BY <2>1, <2>2, ConcatProperties
      <3> QED BY <3>1, JoinType
    <2>4. <<CRLF>> \o body \in Text
      BY <1>2, Letters, OneType, ChainType
    <2> QED BY <1>1, <1>5, <2>3, <2>4, EditKeeps DEF Rewrite, raws
  <1>6. CASE Widen
    BY <1>1, <1>2, <1>6, Letters, InsertType, EditKeeps DEF Widen
  <1>7. CASE Refold
    <2>1. PICK p \in 2 .. HeaderEnd : Edit(InsertAt(Wire, p, CRLF), {"space"})
      BY <1>7 DEF Refold, HeaderEnd
    <2>2. p \in 1 .. (Len(Wire) + 1)
      BY <1>3, <2>1, HeaderEndIs
    <2>3. InsertAt(Wire, p, CRLF) \in Text
      BY <1>2, <2>2, Letters, InsertType
    <2> QED BY <1>1, <2>1, <2>3, EditKeeps
  <1>8. CASE Recase
    <2>1. PICK p \in 1 .. HeaderEnd :
             /\ Wire[p] \in DOMAIN LowerOf
             /\ Edit([Wire EXCEPT ![p] = LowerOf[@]], {"space"})
      BY <1>8 DEF Recase, HeaderEnd
    <2>2. [Wire EXCEPT ![p] = LowerOf[@]] \in Text
      <3>1. LowerOf[Wire[p]] \in Alphabet
        BY <2>1, Letters
      <3>2. p \in 1 .. Len(Wire)
        BY <1>3, <2>1, HeaderEndIs
      <3> QED BY <1>2, <3>1, <3>2 DEF Text
    <2> QED BY <1>1, <2>1, <2>2, EditKeeps
  <1>9. CASE AppendBlank
    <2>1. Append(Wire, CRLF) \in Text
      BY <1>2, Letters DEF Text
    <2> QED BY <1>1, <1>9, <2>1, EditKeeps DEF AppendBlank
  <1>10. CASE AppendText
    <2>1. << CRLF, "v" >> \in Text /\ << "v" >> \in Text
      BY Letters DEF Text
    <2>2. Wire \o << CRLF, "v" >> \in Text /\ Wire \o << "v" >> \in Text
      BY <1>2, <2>1, ChainType
    <2> QED BY <1>1, <1>10, <2>2, EditKeeps DEF AppendText
  <1> QED BY <1>4, <1>5, <1>6, <1>7, <1>8, <1>9, <1>10 DEF Edits
-------------------------------------------------------------------------------
(* THE INVARIANT AND WHAT IT SAYS *)

LEMMA CInvStep == CInv /\ [CanonNext]_canonVars => CInv'
  <1> SUFFICES ASSUME CInv, [CanonNext]_canonVars PROVE CInv'
    OBVIOUS
  <1>1. CASE SplitMessage
    BY <1>1, SplitKeeps
  <1>2. CASE DropContinuation
    BY <1>2, DropKeeps
  <1>3. CASE ContinueField
    BY <1>3, ContinueKeeps
  <1>4. CASE TakeField
    BY <1>4, TakeKeeps
  <1>5. CASE SkipLine
    BY <1>5, SkipKeeps
  <1>6. CASE Finish
    BY <1>6, FinishKeeps
  <1>7. CASE Edits
    BY <1>7, EditsKeep
  <1>8. CASE UNCHANGED canonVars
    BY <1>8 DEF CInv, canonVars, vars, parser
  <1> QED BY <1>1, <1>2, <1>3, <1>4, <1>5, <1>6, <1>7, <1>8 DEF CanonNext, Next

(* The invariant the proofs of this module rest on: the parser stands at a *)
(* line end of the header block, with the lines behind it still to parse   *)
(* and the fields of the lines in front of it made (canon.go:22-81).       *)
THEOREM CInvHolds == CanonSpec => []CInv
  <1> QED BY CInvInit, CInvStep, PTL DEF CanonSpec

LEMMA InvFull == CInv => NoLineEmpty
  <1> SUFFICES ASSUME CInv PROVE NoLineEmpty
    OBVIOUS
  <1>1. CASE pc # "parse"
    BY <1>1 DEF CInv, NoLineEmpty
  <1>2. CASE pc = "parse"
    <2> DEFINE s == Framed(raw)
               g == Stop(raw)
    <2>1. raw \in Text /\ Parsed(raw, lines, headers, body, skipping)
      BY <1>2 DEF CInv
    <2>2. HasGap(s, g)
      BY <2>1, FramedGap DEF Stop
    <2> HIDE DEF s, g
    <2>3. PICK a \in 1 .. g : ParsedUpTo(s, g, a, lines, headers, skipping)
      BY <2>1 DEF Parsed, s, g
    <2>4. s[a] = CRLF /\ lines = Rest(s, g, a)
      BY <2>3 DEF ParsedUpTo
    <2>5. FullLines(Rest(s, g, a))
      BY <2>2, <2>4, RestIsFull
    <2> QED BY <2>4, <2>5 DEF FullLines, NoLineEmpty
  <1> QED BY <1>1, <1>2

(* "No line is empty: the block ends at the first empty line": line[0] can *)
(* be read of every line without a check, of every message and however it  *)
(* was edited between two parses (canon.go:50-51).                         *)
THEOREM LinesFull == CanonSpec => []NoLineEmpty
  <1> QED BY CInvHolds, InvFull, PTL

(* A field's stretch, as FieldsAreWhole has it.                            *)
StretchOf(field, s, p, e) ==
    /\ field.raw = SubSeq(s, p + 1, e - 1)
    /\ field.name = NameOf(field.raw) /\ ValidFieldName(field.name)
    /\ field.value = ValueOf(field.raw)

EndOf(s, g, p) == Min({ q \in (p + 1) .. g : s[q] = CRLF /\ s[q + 1] \notin WSP })

Whole(s, g, hs, text) ==
    /\ Len(hs) = Cardinality(HeadsBefore(s, g))
    /\ \A p \in HeadsBefore(s, g) :
          StretchOf(hs[Cardinality({ q \in HeadsBefore(s, g) : q <= p })], s, p, EndOf(s, g, p))
    /\ text = BodyOf(s, g)

LEMMA WholeIs ==
    FieldsAreWhole <=> (pc = "done" => Whole(Framed(raw), Stop(raw), headers, body))
  BY DEF FieldsAreWhole, Whole, Framed, Stop, HeadsBefore, IsHead, LineAt, NextEnd, EndOf,
         StretchOf, BodyOf

(* The end of the header block is a break, and no rank counts beyond the   *)
(* field's own line.                                                       *)
LEMMA WholeFields ==
    ASSUME NEW s, NEW g, HasGap(s, g), NEW hs, NEW skip, FieldsUpTo(s, g, hs, skip)
    PROVE  Whole(s, g, hs, BodyOf(s, g))
  <1>1. g \in Nat \ {0} /\ IsBreak(s, g)
    BY Letters DEF HasGap, Text, IsBreak
  <1>2. ASSUME NEW p \in HeadsBefore(s, g)
        PROVE  StretchOf(hs[Cardinality({ q \in HeadsBefore(s, g) : q <= p })], s, p,
                         EndOf(s, g, p))
    <2>1. p \in Nat \ {0} /\ p < g
      BY <1>1, HeadsFinite
    <2>2. { q \in HeadsBefore(s, g) : q <= p } = { q \in 1 .. p : IsHead(s, q) }
      <3>1. \A q : q \in 1 .. (g - 1) /\ q <= p <=> q \in 1 .. p
        BY <1>1, <2>1
      <3> QED BY <3>1 DEF HeadsBefore
    <2>3. EndOf(s, g, p) = StopAt(s, p, g)
      <3>1. g \in (p + 1) .. g
        BY <1>1, <2>1
      <3>2. Breaks(s, p, g) \cup {g} = { q \in (p + 1) .. g : s[q] = CRLF /\ s[q + 1] \notin WSP }
        BY <1>1, <3>1 DEF Breaks, IsBreak
      <3> QED BY <3>2 DEF EndOf, StopAt
    <2>4. FieldUpTo(hs[Rank(s, p)], s, p, g)
      BY DEF FieldsUpTo
    <2> QED BY <2>2, <2>3, <2>4 DEF FieldUpTo, StretchOf, Rank
  <1> QED BY <1>2 DEF Whole, FieldsUpTo

LEMMA InvWhole == CInv => FieldsAreWhole
  <1> SUFFICES ASSUME CInv, pc = "done"
               PROVE  Whole(Framed(raw), Stop(raw), headers, body)
    BY WholeIs
  <1>1. raw \in Text /\ Parsed(raw, <<>>, headers, body, skipping)
    BY DEF CInv
  <1>2. FieldsUpTo(Framed(raw), Stop(raw), headers, skipping)
    BY <1>1, AllParsed
  <1>3. HasGap(Framed(raw), Stop(raw))
    BY <1>1, FramedGap DEF Stop
  <1>4. body = BodyOf(Framed(raw), Stop(raw))
    BY <1>1 DEF Parsed
  <1> QED BY <1>2, <1>3, <1>4, WholeFields

(* Each field of every message is a stretch of whole lines of it with all  *)
(* of its continuation lines and none of a skipped line's, in the order of *)
(* the message; its name and value are what stands on either side of the   *)
(* first colon of its Raw, and the body is the text behind the first empty *)
(* line (canon.go:38-42, verify.go:504-511).                               *)
THEOREM FieldsWhole == CanonSpec => []FieldsAreWhole
  <1> QED BY CInvHolds, InvWhole, PTL

-------------------------------------------------------------------------------
(* The relaxed forms, character by character: the whitespace loop. *)

Squeezes == [out : Text, inWSP : BOOLEAN]
Nothing  == [out |-> <<>>, inWSP |-> FALSE]

SqueezeEquation(s, leading, size, f) ==
    f = [p \in 0 .. size |-> IF p = 0 THEN Nothing ELSE SqueezeStep(f[p - 1], s[p], leading)]

LEMMA SqueezeExists ==
    ASSUME NEW s, NEW leading, NEW size \in Nat
    PROVE  \E f : SqueezeEquation(s, leading, size, f)
  <1> DEFINE S == { e \in Nat : \E f : SqueezeEquation(s, leading, e, f) }
  <1>1. 0 \in S
    <2>1. SqueezeEquation(s, leading, 0, [p \in 0 .. 0 |-> Nothing])
      BY DEF SqueezeEquation
    <2> QED BY <2>1
  <1>2. ASSUME NEW e \in Nat, e \in S PROVE e + 1 \in S
    <2>1. PICK g : SqueezeEquation(s, leading, e, g)
      BY <1>2
    <2> DEFINE last == SqueezeStep(g[e], s[e + 1], leading)
               h    == [p \in 0 .. (e + 1) |-> IF p = e + 1 THEN last ELSE g[p]]
    <2>2. ASSUME NEW p \in 0 .. (e + 1)
          PROVE  h[p] = IF p = 0 THEN Nothing ELSE SqueezeStep(h[p - 1], s[p], leading)
      <3>1. CASE p = e + 1
        <4>1. p # 0 /\ p - 1 = e /\ p - 1 \in 0 .. (e + 1) /\ p - 1 # e + 1
          BY <3>1
        <4>2. h[p - 1] = g[e] /\ h[p] = last
          BY <3>1, <4>1
        <4> HIDE DEF h
        <4> QED BY <3>1, <4>1, <4>2
      <3>2. CASE p # e + 1
        <4>1. p \in 0 .. e /\ h[p] = g[p] /\ (p # 0 => h[p - 1] = g[p - 1])
          BY <3>2
        <4>2. g[p] = IF p = 0 THEN Nothing ELSE SqueezeStep(g[p - 1], s[p], leading)
          BY <2>1, <4>1 DEF SqueezeEquation
        <4> HIDE DEF h
        <4> QED BY <4>1, <4>2
      <3> QED BY <3>1, <3>2
    <2>3. h = [p \in 0 .. (e + 1) |-> h[p]]
      OBVIOUS
    <2> HIDE DEF h
    <2>4. SqueezeEquation(s, leading, e + 1, h)
      BY <2>2, <2>3 DEF SqueezeEquation
    <2> QED BY <2>4
  <1> HIDE DEF S
  <1>3. size \in S
    BY <1>1, <1>2, NatInductionOnSet
  <1> QED BY <1>3 DEF S

LEMMA SqueezeUnfolds ==
    ASSUME NEW s, NEW leading, Len(s) \in Nat
    PROVE  SqueezeEquation(s, leading, Len(s), Squeezed(s, leading))
  <1>1. Squeezed(s, leading) = CHOOSE f : SqueezeEquation(s, leading, Len(s), f)
    BY DEF Squeezed, SqueezeEquation, Nothing
  <1>2. \E f : SqueezeEquation(s, leading, Len(s), f)
    BY SqueezeExists
  <1> QED BY <1>1, <1>2

LEMMA SqueezeAt ==
    ASSUME NEW s, NEW leading, NEW size \in Nat, NEW f, SqueezeEquation(s, leading, size, f)
    PROVE  /\ f[0] = Nothing
           /\ \A p \in 1 .. size : f[p] = SqueezeStep(f[p - 1], s[p], leading)
  <1>1. 0 \in 0 .. size
    OBVIOUS
  <1>2. f[0] = Nothing
    BY <1>1 DEF SqueezeEquation
  <1>3. ASSUME NEW p \in 1 .. size PROVE f[p] = SqueezeStep(f[p - 1], s[p], leading)
    <2>1. p \in 0 .. size /\ p # 0
      OBVIOUS
    <2>2. f[p] = IF p = 0 THEN Nothing ELSE SqueezeStep(f[p - 1], s[p], leading)
      BY <2>1 DEF SqueezeEquation
    <2> QED BY <2>1, <2>2
  <1> QED BY <1>2, <1>3

LEMMA SqueezeMore ==
    ASSUME NEW s \in Text, NEW c \in Alphabet, NEW leading
    PROVE  Squeezed(Append(s, c), leading)[Len(Append(s, c))]
             = SqueezeStep(Squeezed(s, leading)[Len(s)], c, leading)
  <1> DEFINE t == Append(s, c)
             f == Squeezed(s, leading)
             g == Squeezed(t, leading)
             n == Len(s)
  <1>1. /\ n \in Nat /\ Len(t) = n + 1 /\ t[n + 1] = c
        /\ \A j \in 1 .. n : t[j] = s[j]
    BY AppendProperties DEF Text
  <1>2. SqueezeEquation(s, leading, n, f) /\ SqueezeEquation(t, leading, n + 1, g)
    <2>1. SqueezeEquation(s, leading, Len(s), f)
      BY <1>1, SqueezeUnfolds
    <2>2. SqueezeEquation(t, leading, Len(t), g)
      <3>1. Len(t) \in Nat
        BY <1>1
      <3> HIDE DEF t
      <3> QED BY <3>1, SqueezeUnfolds
    <2>3. Len(t) = n + 1
      BY <1>1
    <2> HIDE DEF f, g, t
    <2> QED BY <2>1, <2>2, <2>3
  <1> HIDE DEF f, g, t, n
  <1>3. /\ f[0] = Nothing /\ g[0] = Nothing
        /\ \A p \in 1 .. n : f[p] = SqueezeStep(f[p - 1], s[p], leading)
        /\ \A p \in 1 .. (n + 1) : g[p] = SqueezeStep(g[p - 1], t[p], leading)
    <2>1. n + 1 \in Nat
      BY <1>1
    <2> QED BY <1>1, <1>2, <2>1, SqueezeAt
  <1> DEFINE P == { j \in Nat : j <= n => f[j] = g[j] }
  <1>4. 0 \in P
    BY <1>3
  <1>5. ASSUME NEW j \in Nat, j \in P PROVE j + 1 \in P
    <2> SUFFICES ASSUME j + 1 <= n PROVE f[j + 1] = g[j + 1]
      OBVIOUS
    <2>1. j + 1 \in 1 .. n /\ j + 1 \in 1 .. (n + 1) /\ j + 1 - 1 = j
      BY <1>1
    <2>2. f[j + 1] = SqueezeStep(f[j], s[j + 1], leading)
      BY <1>3, <2>1
    <2>3. g[j + 1] = SqueezeStep(g[j], t[j + 1], leading)
      BY <1>3, <2>1
    <2>4. t[j + 1] = s[j + 1] /\ f[j] = g[j]
      BY <1>1, <1>5, <2>1
    <2> QED BY <2>2, <2>3, <2>4
  <1> HIDE DEF P
  <1>6. n \in P
    BY <1>1, <1>4, <1>5, NatInductionOnSet
  <1>7. f[n] = g[n]
    BY <1>1, <1>6 DEF P
  <1>8. g[n + 1] = SqueezeStep(g[n], t[n + 1], leading)
    <2> DEFINE top == n + 1
    <2>1. top \in 1 .. (n + 1) /\ top - 1 = n
      BY <1>1
    <2> HIDE DEF top
    <2>2. g[top] = SqueezeStep(g[top - 1], t[top], leading)
      BY ONLY <1>3, <2>1
    <2> QED BY <2>1, <2>2 DEF top
  <1>9. g[Len(t)] = SqueezeStep(f[n], c, leading)
    BY <1>1, <1>7, <1>8
  <1> QED BY <1>9 DEF f, g, t, n

(* Whitespace is pending just when the text ends in it.                    *)
Spaced(s) == s # <<>> /\ Last(s) \in WSP

LEMMA SqueezeState ==
    \A s \in Text : \A leading \in BOOLEAN :
        /\ Squeezed(s, leading)[Len(s)] \in Squeezes
        /\ Squeezed(s, leading)[Len(s)].inWSP <=> Spaced(s)
  <1> DEFINE P == { s \in Text : \A leading \in BOOLEAN :
                      /\ Squeezed(s, leading)[Len(s)] \in Squeezes
                      /\ Squeezed(s, leading)[Len(s)].inWSP <=> Spaced(s) }
  <1>1. <<>> \in P
    <2>1. \A leading : Squeezed(<<>>, leading)[0] = Nothing
      <3> SUFFICES ASSUME NEW leading PROVE Squeezed(<<>>, leading)[0] = Nothing
        OBVIOUS
      <3>1. Len(<<>>) = 0
        OBVIOUS
      <3>2. SqueezeEquation(<<>>, leading, 0, Squeezed(<<>>, leading))
        BY <3>1, SqueezeUnfolds
      <3> QED BY <3>2 DEF SqueezeEquation
    <2>2. Nothing \in Squeezes /\ Nothing.inWSP = FALSE
      BY DEF Nothing, Squeezes, Text
    <2>3. Len(<<>>) = 0 /\ <<>> \in Text
      BY DEF Text
    <2> QED BY <2>1, <2>2, <2>3 DEF Spaced
  <1>2. ASSUME NEW s \in Seq(Alphabet), NEW c \in Alphabet, s \in P
        PROVE  Append(s, c) \in P
    <2> DEFINE t == Append(s, c)
    <2>1. t \in Text /\ t # <<>> /\ Last(t) = c
      BY AppendProperties DEF Text, Last
    <2> SUFFICES ASSUME NEW leading \in BOOLEAN
                 PROVE  /\ Squeezed(t, leading)[Len(t)] \in Squeezes
                        /\ Squeezed(t, leading)[Len(t)].inWSP <=> c \in WSP
      BY <2>1 DEF Spaced
    <2> DEFINE st == Squeezed(s, leading)[Len(s)]
    <2>2. Squeezed(t, leading)[Len(t)] = SqueezeStep(st, c, leading)
      BY SqueezeMore DEF Text
    <2>3. st \in Squeezes
      BY <1>2
    <2> HIDE DEF st, t
    <2>4. st.out \in Seq(Alphabet) /\ st.inWSP \in BOOLEAN
      BY <2>3 DEF Squeezes, Text
    <2>5. /\ Append(st.out, c) \in Text /\ st.out \o <<" ", c>> \in Text
      <3>1. " " \in Alphabet
        BY Letters DEF WSP
      <3>2. << " ", c >> \in Seq(Alphabet)
        <4> DEFINE space == " "
        <4>1. space \in Alphabet
          BY <3>1
        <4> HIDE DEF space
        <4>2. << space, c >> \in Seq(Alphabet)
          BY ONLY <4>1, c \in Alphabet
        <4> QED BY <4>2 DEF space
      <3> QED BY <2>4, <3>2, ConcatProperties, AppendProperties DEF Text
    <2> DEFINE next == SqueezeStep(st, c, leading)
    <2>6. next \in Squeezes /\ (next.inWSP <=> c \in WSP)
      <3>1. CASE c \in WSP
        <4>1. next = [st EXCEPT !.inWSP = TRUE]
          BY <3>1 DEF SqueezeStep
        <4> QED BY <2>3, <3>1, <4>1 DEF Squeezes
      <3>2. CASE c \notin WSP /\ st.inWSP /\ (leading \/ st.out # <<>>)
        <4>1. next = [out |-> st.out \o <<" ", c>>, inWSP |-> FALSE]
          BY <3>2 DEF SqueezeStep
        <4> HIDE DEF next
        <4> QED BY <2>5, <3>2, <4>1, Zenon DEF Squeezes
      <3>3. CASE c \notin WSP /\ ~(st.inWSP /\ (leading \/ st.out # <<>>))
        <4>1. next = [out |-> Append(st.out, c), inWSP |-> FALSE]
          BY <3>3 DEF SqueezeStep
        <4> HIDE DEF next
        <4> QED BY <2>5, <3>3, <4>1, Zenon DEF Squeezes
      <3> QED BY <3>1, <3>2, <3>3
    <2> QED BY <2>2, <2>6
  <1> HIDE DEF P
  <1>3. \A s \in Seq(Alphabet) : s \in P
    BY <1>1, <1>2, AppendInduction
  <1> QED BY <1>3 DEF P, Text

(* A character more of a line of the body.                                 *)
Extended(line, spaced, c) ==
    IF c \in WSP THEN line ELSE IF spaced THEN line \o << " ", c >> ELSE Append(line, c)

LEMMA OutOf == \A x : [out |-> x, inWSP |-> FALSE].out = x
  OBVIOUS

LEMMA RelaxedMore ==
    ASSUME NEW s \in Text, NEW c \in Alphabet
    PROVE  /\ relaxBodyLine(s) \in Text
           /\ relaxBodyLine(Append(s, c)) = Extended(relaxBodyLine(s), Spaced(s), c)
  <1> DEFINE st == Squeezed(s, TRUE)[Len(s)]
  <1>1. st \in Squeezes /\ (st.inWSP <=> Spaced(s))
    BY SqueezeState
  <1>2. relaxBodyLine(Append(s, c)) = SqueezeStep(st, c, TRUE).out
    BY SqueezeMore DEF relaxBodyLine, Squeeze
  <1>3. relaxBodyLine(s) = st.out
    BY DEF relaxBodyLine, Squeeze
  <1> HIDE DEF st
  <1>4. st.out \in Text
    BY <1>1 DEF Squeezes
  <1>5. SqueezeStep(st, c, TRUE).out = Extended(st.out, Spaced(s), c)
    <2>1. CASE c \in WSP
      <3>1. SqueezeStep(st, c, TRUE) = [st EXCEPT !.inWSP = TRUE]
        BY <2>1 DEF SqueezeStep
      <3>2. SqueezeStep(st, c, TRUE).out = st.out
        BY <1>1, <3>1 DEF Squeezes
      <3> QED BY <2>1, <3>2 DEF Extended
    <2>2. CASE c \notin WSP /\ st.inWSP
      <3>1. SqueezeStep(st, c, TRUE) = [out |-> st.out \o <<" ", c>>, inWSP |-> FALSE]
        BY <2>2 DEF SqueezeStep
      <3>2. SqueezeStep(st, c, TRUE).out = st.out \o <<" ", c>>
        BY <3>1, OutOf
      <3> QED BY <1>1, <2>2, <3>2 DEF Extended
    <2>3. CASE c \notin WSP /\ ~st.inWSP
      <3>1. SqueezeStep(st, c, TRUE) = [out |-> Append(st.out, c), inWSP |-> FALSE]
        BY <2>3 DEF SqueezeStep
      <3>2. SqueezeStep(st, c, TRUE).out = Append(st.out, c)
        BY <3>1, OutOf
      <3> QED BY <1>1, <2>3, <3>2 DEF Extended
    <2> QED BY <2>1, <2>2, <2>3
  <1> QED BY <1>2, <1>3, <1>4, <1>5

LEMMA RelaxedNothing == relaxBodyLine(<<>>) = <<>>
  <1>1. Len(<<>>) = 0
    OBVIOUS
  <1>2. SqueezeEquation(<<>>, TRUE, 0, Squeezed(<<>>, TRUE))
    BY <1>1, SqueezeUnfolds
  <1>3. Squeezed(<<>>, TRUE)[0] = Nothing
    BY <1>2 DEF SqueezeEquation
  <1>4. Squeezed(<<>>, TRUE)[Len(<<>>)].out = <<>>
    BY <1>1, <1>3, OutOf DEF Nothing
  <1> QED BY <1>4 DEF relaxBodyLine, Squeeze

-------------------------------------------------------------------------------
(* Splitting and joining, character by character. *)

(* A character more for the parts of a text: it ends the last part or      *)
(* belongs to it.                                                          *)
Grow(parts, c) ==
    IF c = CRLF THEN Append(parts, <<>>) ELSE [parts EXCEPT ![Len(parts)] = Append(@, c)]

Parts == Seq(Text) \ {<<>>}

LEMMA GrowFacts ==
    ASSUME NEW ps \in Parts, NEW c \in Alphabet
    PROVE  /\ Grow(ps, c) \in Parts /\ Len(ps) \in Nat \ {0}
           /\ \A j \in 1 .. (Len(ps) - 1) : Grow(ps, c)[j] = ps[j]
           /\ c = CRLF => /\ Len(Grow(ps, c)) = Len(ps) + 1
                          /\ Grow(ps, c)[Len(ps)] = ps[Len(ps)]
                          /\ Grow(ps, c)[Len(ps) + 1] = <<>>
           /\ c # CRLF => /\ Len(Grow(ps, c)) = Len(ps)
                          /\ Grow(ps, c)[Len(ps)] = Append(ps[Len(ps)], c)
  <1> DEFINE n == Len(ps)
  <1>1. ps \in Seq(Text) /\ n \in Nat \ {0} /\ DOMAIN ps = 1 .. n /\ ps[n] \in Text
    BY DEF Parts
  <1>2. <<>> \in Text /\ Append(ps[n], c) \in Text
    BY <1>1, AppendProperties DEF Text
  <1>3. CASE c = CRLF
    <2>1. /\ Append(ps, <<>>) \in Seq(Text) /\ Append(ps, <<>>) # <<>>
          /\ Len(Append(ps, <<>>)) = n + 1
          /\ \A j \in 1 .. n : Append(ps, <<>>)[j] = ps[j]
          /\ Append(ps, <<>>)[n + 1] = <<>>
      BY <1>1, <1>2, AppendProperties
    <2>2. Grow(ps, c) = Append(ps, <<>>)
      BY <1>3 DEF Grow
    <2>3. \A j \in 1 .. (n - 1) : j \in 1 .. n
      BY <1>1
    <2>4. n \in 1 .. n
      BY <1>1
    <2> QED BY <1>1, <1>3, <2>1, <2>2, <2>3, <2>4 DEF Parts
  <1>4. CASE c # CRLF
    <2> DEFINE new == [ps EXCEPT ![n] = Append(@, c)]
    <2>1. new = [j \in 1 .. n |-> IF j = n THEN Append(ps[n], c) ELSE ps[j]]
      BY <1>1
    <2>2. new \in Seq(Text) /\ Len(new) = n /\ new # <<>>
      <3>1. \A j \in 1 .. n : (IF j = n THEN Append(ps[n], c) ELSE ps[j]) \in Text
        <4>1. \A j \in 1 .. n : ps[j] \in Text
          BY <1>1
        <4> QED BY <1>2, <4>1
      <3>2. new \in [1 .. n -> Text]
        BY <2>1, <3>1
      <3> HIDE DEF new
      <3>3. new \in Seq(Text) /\ Len(new) = n
        BY <1>1, <3>2
      <3> QED BY <1>1, <3>3
    <2>3. n \in 1 .. n /\ \A j \in 1 .. (n - 1) : j \in 1 .. n /\ j # n
      <3>1. n \in Nat \ {0}
        BY <1>1
      <3> HIDE DEF n
      <3> QED BY ONLY <3>1
    <2>4. new[n] = Append(ps[n], c) /\ \A j \in 1 .. (n - 1) : new[j] = ps[j]
      BY <2>1, <2>3
    <2>5. Grow(ps, c) = new
      BY <1>4 DEF Grow
    <2> HIDE DEF new
    <2> QED BY <1>1, <1>4, <2>2, <2>4, <2>5 DEF Parts
  <1> QED BY <1>3, <1>4

LEMMA GrowBehind ==
    ASSUME NEW x \in Text, NEW ps \in Parts, NEW c \in Alphabet
    PROVE  /\ <<x>> \o ps \in Parts
           /\ Grow(<<x>> \o ps, c) = <<x>> \o Grow(ps, c)
  <1> DEFINE n  == Len(ps)
             xs == <<x>> \o ps
             l  == Grow(xs, c)
             g  == Grow(ps, c)
             r  == <<x>> \o g
  <1>1. ps \in Seq(Text) /\ n \in Nat \ {0} /\ <<x>> \in Seq(Text) /\ Len(<<x>>) = 1 /\ <<x>>[1] = x
    BY DEF Parts
  <1>2. /\ xs \in Seq(Text) /\ Len(xs) = n + 1 /\ xs[1] = x
        /\ \A j \in 1 .. n : xs[j + 1] = ps[j]
    <2>1. /\ xs \in Seq(Text) /\ Len(xs) = 1 + n
          /\ \A i \in 1 .. 1 + n : xs[i] = IF i <= 1 THEN <<x>>[i] ELSE ps[i - 1]
      BY <1>1, ConcatProperties
    <2> HIDE DEF xs
    <2>2. ASSUME NEW j \in 1 .. n PROVE xs[j + 1] = ps[j]
      <3>1. j + 1 \in 1 .. 1 + n /\ ~(j + 1 <= 1) /\ j + 1 - 1 = j
        BY <1>1
      <3> QED BY <2>1, <3>1
    <2>3. 1 \in 1 .. 1 + n /\ 1 <= 1 /\ 1 + n = n + 1
      BY <1>1
    <2> QED BY <1>1, <2>1, <2>2, <2>3
  <1> HIDE DEF xs
  <1>3. xs \in Parts
    BY <1>1, <1>2 DEF Parts
  <1>4. /\ g \in Seq(Text) /\ g # <<>>
        /\ \A j \in 1 .. (n - 1) : g[j] = ps[j]
        /\ c = CRLF => Len(g) = n + 1 /\ g[n] = ps[n] /\ g[n + 1] = <<>>
        /\ c # CRLF => Len(g) = n /\ g[n] = Append(ps[n], c)
    BY GrowFacts DEF Parts
  <1>5. /\ l \in Seq(Text)
        /\ \A j \in 1 .. n : l[j] = xs[j]
        /\ c = CRLF => Len(l) = n + 2 /\ l[n + 1] = xs[n + 1] /\ l[n + 2] = <<>>
        /\ c # CRLF => Len(l) = n + 1 /\ l[n + 1] = Append(xs[n + 1], c)
    <2>1. n + 1 - 1 = n /\ n + 1 + 1 = n + 2
      BY <1>1
    <2>2. /\ l \in Parts
          /\ \A j \in 1 .. (Len(xs) - 1) : l[j] = xs[j]
          /\ c = CRLF => /\ Len(l) = Len(xs) + 1 /\ l[Len(xs)] = xs[Len(xs)]
                         /\ l[Len(xs) + 1] = <<>>
          /\ c # CRLF => Len(l) = Len(xs) /\ l[Len(xs)] = Append(xs[Len(xs)], c)
      BY <1>3, GrowFacts
    <2>3. Len(xs) = n + 1
      BY <1>2
    <2> HIDE DEF l, n
    <2>4. \A j \in 1 .. n : l[j] = xs[j]
      <3>1. Len(xs) - 1 = n
        BY <1>1, <2>1, <2>3
      <3> QED BY <2>2, <3>1
    <2>5. l \in Seq(Text)
      BY <2>2 DEF Parts
    <2>6. c = CRLF => Len(l) = n + 2 /\ l[n + 1] = xs[n + 1] /\ l[n + 2] = <<>>
      BY <2>1, <2>2, <2>3, Zenon
    <2>7. c # CRLF => Len(l) = n + 1 /\ l[n + 1] = Append(xs[n + 1], c)
      BY <2>2, <2>3, Zenon
    <2> QED BY <2>4, <2>5, <2>6, <2>7
  <1> HIDE DEF g, l
  <1>6. /\ r \in Seq(Text) /\ Len(r) = 1 + Len(g) /\ Len(g) \in Nat
        /\ \A i \in 1 .. 1 + Len(g) : r[i] = IF i <= 1 THEN <<x>>[i] ELSE g[i - 1]
    BY <1>1, <1>4, ConcatProperties
  <1> HIDE DEF r, n
  <1>7. Len(l) = Len(r)
    BY <1>1, <1>4, <1>5, <1>6
  <1>8. ASSUME NEW i \in 1 .. Len(l) PROVE l[i] = r[i]
    <2>1. CASE i = 1
      <3>1. r[i] = x
        BY <1>1, <1>6, <1>7, <2>1
      <3>2. l[i] = x
        BY <1>1, <1>2, <1>5, <2>1
      <3> QED BY <3>1, <3>2
    <2>2. CASE i \in 2 .. n
      <3>1. i - 1 \in 1 .. (n - 1) /\ i - 1 \in 1 .. n /\ i - 1 + 1 = i /\ i \in 1 .. n
            /\ ~(i <= 1)
        BY <1>1, <2>2
      <3>2. r[i] = ps[i - 1]
        BY <1>4, <1>6, <1>7, <3>1
      <3>3. l[i] = ps[i - 1]
        BY <1>2, <1>5, <3>1
      <3> QED BY <3>2, <3>3
    <2>3. CASE i = n + 1
      <3>1. ~(i <= 1) /\ i - 1 = n /\ n \in 1 .. n
        BY <1>1, <2>3
      <3>2. r[i] = g[n]
        BY <1>6, <1>7, <3>1
      <3>3. xs[n + 1] = ps[n]
        BY <1>2, <3>1
      <3> QED BY <1>4, <1>5, <2>3, <3>2, <3>3
    <2>4. CASE i = n + 2
      <3>1. ~(i <= 1) /\ i - 1 = n + 1 /\ c = CRLF
        BY <1>1, <1>5, <2>4
      <3>2. r[i] = g[n + 1]
        BY <1>6, <1>7, <3>1
      <3> QED BY <1>4, <1>5, <2>4, <3>1, <3>2
    <2>5. i = 1 \/ i \in 2 .. n \/ i = n + 1 \/ i = n + 2
      BY <1>1, <1>5
    <2> QED BY <2>1, <2>2, <2>3, <2>4, <2>5
  <1>9. l = r
    BY <1>5, <1>6, <1>7, <1>8, SameSequence
  <1> QED BY <1>3, <1>9 DEF l, r, xs, g

(* The parts from every position grow with the text.                       *)
LEMMA PartsGrow ==
    ASSUME NEW s \in Text, NEW c \in Alphabet, NEW t, t = Append(s, c)
    PROVE  \A p \in 1 .. (Len(s) + 1) :
              /\ PartsFrom(s, CRLF)[p] \in Parts
              /\ PartsFrom(t, CRLF)[p] = Grow(PartsFrom(s, CRLF)[p], c)
  <1> DEFINE n == Len(s)
             F == PartsFrom(s, CRLF)
             G == PartsFrom(t, CRLF)
             Good(p) == F[p] \in Parts /\ G[p] = Grow(F[p], c)
             P == { k \in Nat : \A p \in 1 .. (n + 1) : n + 1 - p <= k => Good(p) }
  <1>1. /\ s \in Seq(Alphabet) /\ t \in Seq(Alphabet) /\ n \in Nat /\ Len(t) = n + 1
        /\ t[n + 1] = c /\ \A j \in 1 .. n : t[j] = s[j]
        /\ \A a \in Nat \ {0} : \A b \in 0 .. n : SubSeq(t, a, b) = SubSeq(s, a, b)
        /\ \A a \in 1 .. (n + 1) : SubSeq(t, a, n + 1) = Append(SubSeq(s, a, n), c)
    BY StretchAppend DEF Text
  <1>2. ASSUME NEW p \in 1 .. (n + 1)
        PROVE  /\ FirstAt(s, p, CRLF, IndexFrom(s, p, CRLF))
               /\ PartTo(s, CRLF, p, IndexFrom(s, p, CRLF))
    BY <1>1, IndexFacts, PartsUnfold
  <1>3. ASSUME NEW p \in 1 .. (n + 2), NEW e, FirstAt(t, p, CRLF, e)
        PROVE  PartTo(t, CRLF, p, e)
    <2>1. p \in 1 .. (Len(t) + 1)
      BY <1>1
    <2> QED BY <1>1, <1>3, <2>1, IndexIs, PartsUnfold
  <1>4. ASSUME NEW a \in 1 .. (n + 1), NEW b \in 0 .. n PROVE SubSeq(s, a, b) \in Text
    BY <1>1, StretchType DEF Text
  <1>5. ASSUME NEW p \in 1 .. (n + 1), NEW q, q = IndexFrom(s, p, CRLF), q <= n, Good(q + 1)
        PROVE  Good(p)
    <2>1. q \in p .. (n + 1) /\ s[q] = CRLF /\ \A j \in p .. (q - 1) : s[j] # CRLF
      BY <1>2, <1>5 DEF FirstAt
    <2>2. FirstAt(t, p, CRLF, q)
      <3>1. q \in p .. (Len(t) + 1) /\ q \in 1 .. n /\ \A j \in p .. (q - 1) : j \in 1 .. n
        BY <1>1, <1>5, <2>1
      <3> QED BY <1>1, <2>1, <3>1 DEF FirstAt
    <2>3. q \in Int /\ ~(q > Len(s)) /\ ~(q > Len(t)) /\ q - 1 \in 0 .. n /\ p \in Nat \ {0}
      BY <1>1, <1>5, <2>1
    <2> DEFINE x == SubSeq(s, p, q - 1)
    <2>4. F[p] = <<x>> \o F[q + 1]
      BY <1>2, <1>5, <2>3 DEF PartTo
    <2>5. G[p] = << SubSeq(t, p, q - 1) >> \o G[q + 1]
      <3>1. p \in 1 .. (n + 2)
        BY <1>1
      <3>2. PartTo(t, CRLF, p, q)
        BY <1>3, <2>2, <3>1
      <3> QED BY <2>3, <3>2 DEF PartTo
    <2>6. SubSeq(t, p, q - 1) = x /\ x \in Text
      BY <1>1, <1>4, <2>3
    <2> HIDE DEF F, G, x
    <2>7. /\ <<x>> \o F[q + 1] \in Parts
          /\ Grow(<<x>> \o F[q + 1], c) = <<x>> \o Grow(F[q + 1], c)
      BY <1>5, <2>6, GrowBehind
    <2> QED BY <1>5, <2>4, <2>5, <2>6, <2>7
  <1>6. ASSUME NEW p \in 1 .. (n + 1), IndexFrom(s, p, CRLF) > n PROVE Good(p)
    <2>1. IndexFrom(s, p, CRLF) = n + 1 /\ \A j \in p .. n : s[j] # CRLF
      <3>1. /\ IndexFrom(s, p, CRLF) \in p .. (n + 1)
            /\ \A j \in p .. (IndexFrom(s, p, CRLF) - 1) : s[j] # CRLF
        BY <1>2 DEF FirstAt
      <3>2. IndexFrom(s, p, CRLF) = n + 1 /\ n + 1 - 1 = n
        BY <1>1, <1>6, <3>1
      <3> QED BY <3>1, <3>2
    <2> DEFINE x == SubSeq(s, p, n)
    <2>2. x \in Text /\ n \in 0 .. n /\ p \in Nat \ {0} /\ n + 1 > n
      BY <1>1, <1>4
    <2>3. F[p] = <<x>>
      BY <1>2, <2>1, <2>2 DEF PartTo
    <2> HIDE DEF F, x
    <2>4. F[p] \in Parts /\ Len(F[p]) = 1 /\ F[p][1] = x
      BY <2>2, <2>3 DEF Parts
    <2>5. CASE c = CRLF
      <3>1. FirstAt(t, p, CRLF, n + 1) /\ FirstAt(t, n + 2, CRLF, n + 2)
        <4>1. /\ n + 1 \in p .. (Len(t) + 1) /\ \A j \in p .. (n + 1 - 1) : j \in p .. n /\ j \in 1 .. n
              /\ n + 2 \in (n + 2) .. (Len(t) + 1) /\ ~(n + 2 <= Len(t))
              /\ \A j \in (n + 2) .. (n + 2 - 1) : FALSE
          BY <1>1
        <4> QED BY <1>1, <2>1, <2>5, <4>1 DEF FirstAt
      <3>2. p \in 1 .. (n + 2) /\ n + 2 \in 1 .. (n + 2) /\ ~(n + 1 > Len(t)) /\ n + 2 > Len(t)
            /\ n + 1 - 1 = n /\ n + 1 + 1 = n + 2
        BY <1>1
      <3>3. G[n + 2] = << SubSeq(t, n + 2, Len(t)) >>
        BY <1>3, <3>1, <3>2 DEF PartTo
      <3>4. SubSeq(t, n + 2, Len(t)) = <<>>
        <4>1. n + 2 \in Nat \ {0} /\ Len(t) \in 0 .. Len(t) /\ ~(n + 2 <= Len(t))
          BY <1>1
        <4>2. SubSeq(t, n + 2, Len(t)) \in Seq(Alphabet) /\ Len(SubSeq(t, n + 2, Len(t))) = 0
          BY <1>1, <4>1, StretchType
        <4> QED BY <4>2
      <3>5. G[p] = << SubSeq(t, p, n) >> \o G[n + 2]
        <4>1. PartTo(t, CRLF, p, n + 1)
          BY <1>3, <3>1, <3>2
        <4> DEFINE e == n + 1
        <4>2. ~(e > Len(t)) /\ e - 1 = n /\ e + 1 = n + 2 /\ PartTo(t, CRLF, p, e)
          BY <3>2, <4>1
        <4> HIDE DEF e
        <4> QED BY <4>2 DEF PartTo
      <3>6. SubSeq(t, p, n) = x
        BY <1>1, <2>2 DEF x
      <3> HIDE DEF G
      <3>7. G[p] = <<x>> \o << <<>> >>
        BY <3>3, <3>4, <3>5, <3>6
      <3>8. Grow(F[p], c) = Append(<<x>>, <<>>)
        BY <2>3, <2>5 DEF Grow
      <3>9. Append(<<x>>, <<>>) = <<x>> \o << <<>> >>
        <4>1. x \in Text /\ <<>> \in Text
          BY <2>2 DEF Text
        <4> QED BY ONLY <4>1
      <3> QED BY <2>4, <3>7, <3>8, <3>9
    <2>6. CASE c # CRLF
      <3>1. FirstAt(t, p, CRLF, n + 2)
        <4>1. /\ n + 2 \in p .. (Len(t) + 1) /\ ~(n + 2 <= Len(t))
              /\ \A j \in p .. (n + 2 - 1) : j = n + 1 \/ (j \in p .. n /\ j \in 1 .. n)
          BY <1>1
        <4> QED BY <1>1, <2>1, <2>6, <4>1 DEF FirstAt
      <3>2. p \in 1 .. (n + 2) /\ n + 2 > Len(t)
        BY <1>1
      <3>3. G[p] = << SubSeq(t, p, n + 1) >>
        BY <1>1, <1>3, <3>1, <3>2 DEF PartTo
      <3>4. G[p] = << Append(x, c) >>
        BY <1>1, <3>3 DEF x
      <3>5. Grow(F[p], c) = [<<x>> EXCEPT ![1] = Append(x, c)]
        BY <2>3, <2>4, <2>6 DEF Grow
      <3> HIDE DEF G
      <3>6. [<<x>> EXCEPT ![1] = Append(x, c)] = << Append(x, c) >>
        OBVIOUS
      <3> QED BY <2>4, <3>4, <3>5, <3>6
    <2> QED BY <2>5, <2>6
  <1>7. ASSUME NEW p \in 1 .. (n + 1) PROVE IndexFrom(s, p, CRLF) \in p .. (n + 1)
    BY <1>2 DEF FirstAt
  <1> HIDE DEF Good
  <1>8. 0 \in P
    <2> SUFFICES ASSUME NEW p \in 1 .. (n + 1), n + 1 - p <= 0 PROVE Good(p)
      OBVIOUS
    <2>1. IndexFrom(s, p, CRLF) > n
      BY <1>1, <1>7
    <2> QED BY <1>6, <2>1
  <1>9. ASSUME NEW k \in Nat, k \in P PROVE k + 1 \in P
    <2> SUFFICES ASSUME NEW p \in 1 .. (n + 1), n + 1 - p <= k + 1 PROVE Good(p)
      OBVIOUS
    <2>1. CASE IndexFrom(s, p, CRLF) > n
      BY <1>6, <2>1
    <2>2. CASE ~(IndexFrom(s, p, CRLF) > n)
      <3> DEFINE q == IndexFrom(s, p, CRLF)
      <3>1. q \in p .. (n + 1)
        BY <1>7
      <3> HIDE DEF q
      <3>2. q <= n /\ q + 1 \in 1 .. (n + 1) /\ n + 1 - (q + 1) <= k
        BY <1>1, <2>2, <3>1 DEF q
      <3>3. Good(q + 1)
        BY <1>9, <3>2
      <3> QED BY <1>5, <3>2, <3>3 DEF q
    <2> QED BY <2>1, <2>2
  <1> HIDE DEF P
  <1>10. n \in P
    BY <1>1, <1>8, <1>9, NatInductionOnSet
  <1>11. ASSUME NEW p \in 1 .. (n + 1) PROVE Good(p)
    <2>1. n + 1 - p <= n
      BY <1>1
    <2> QED BY <1>10, <2>1 DEF P
  <1> QED BY <1>11 DEF Good

LEMMA SplitMore ==
    ASSUME NEW s \in Text, NEW c \in Alphabet
    PROVE  /\ Split(s, CRLF) \in Parts
           /\ Split(Append(s, c), CRLF) = Grow(Split(s, CRLF), c)
  <1>1. 1 \in 1 .. (Len(s) + 1)
    BY DEF Text
  <1> QED BY <1>1, PartsGrow DEF Split

-------------------------------------------------------------------------------
(* What stands up to the last character of a kind. *)

LEMMA BeforeFacts ==
    /\ \A s, t, u \in Text : Before(s, t) /\ Before(t, u) => Before(s, u)
    /\ \A s \in Text : Before(s, s) /\ Before(<<>>, s)
    /\ \A s, t \in Text : Before(s, s \o t)
    /\ \A s, t \in Text : Before(s, t) => IsPrefix(s, t)
  <1>0. <<>> \in Text
    BY DEF Text
  <1>1. ASSUME NEW s \in Text, NEW t \in Text, NEW u \in Text, Before(s, t), Before(t, u)
        PROVE  Before(s, u)
    <2>1. PICK v \in Text : t = s \o v
      BY <1>1 DEF Before
    <2>2. PICK w \in Text : u = t \o w
      BY <1>1 DEF Before
    <2>3. (s \o v) \o w = s \o (v \o w)
      BY ConcatAssociative, SMTT(20) DEF Text
    <2>4. v \o w \in Text
      BY ConcatProperties DEF Text
    <2>5. u = s \o (v \o w)
      BY <2>1, <2>2, <2>3
    <2> QED BY <2>4, <2>5 DEF Before
  <1>2. ASSUME NEW s \in Text PROVE Before(s, s) /\ Before(<<>>, s)
    <2>1. s = s \o <<>> /\ s = <<>> \o s
      BY ConcatEmptySeq DEF Text
    <2> QED BY <1>0, <2>1 DEF Before
  <1>3. ASSUME NEW s \in Text, NEW t \in Text, Before(s, t) PROVE IsPrefix(s, t)
    <2>1. PICK u \in Text : t = s \o u
      BY <1>3 DEF Before
    <2>2. Len(t) = Len(s) + Len(u) /\ Len(s) \in Nat /\ Len(u) \in Nat
      BY <2>1, ConcatProperties DEF Text
    <2>3. SubSeq(s \o u, 1, Len(s)) = SubSeq(s, 1, Len(s))
      <3>1. 1 \in Nat \ {0} /\ Len(s) \in 0 .. Len(s)
        BY <2>2
      <3> QED BY <3>1, FrontStretch DEF Text
    <2>4. Len(s) <= Len(t)
      BY <2>2
    <2> QED BY <2>1, <2>3, <2>4 DEF IsPrefix
  <1>4. \A s, t \in Text : Before(s, s \o t)
    BY DEF Before
  <1> QED BY <1>1, <1>2, <1>3, <1>4

(* A sequence without what equals bad at its end.                          *)
UpToLast(s, bad) == SubSeq(s, 1, Max({0} \cup { p \in DOMAIN s : s[p] # bad }))

(* A text up to its last character outside a set.                          *)
Dropped(s, S) == SubSeq(s, 1, Max({0} \cup { p \in DOMAIN s : s[p] \notin S }))

LEMMA DroppedMore ==
    ASSUME NEW A, NEW S, NEW s \in Seq(A), NEW c \in A
    PROVE  /\ c \in S => Dropped(Append(s, c), S) = Dropped(s, S)
           /\ c \notin S => Dropped(Append(s, c), S) = Append(s, c)
  <1> DEFINE n == Len(s)
             t == Append(s, c)
             K == {0} \cup { p \in DOMAIN s : s[p] \notin S }
             M == {0} \cup { p \in DOMAIN t : t[p] \notin S }
  <1>1. /\ t \in Seq(A) /\ Len(t) = n + 1 /\ t[n + 1] = c /\ n \in Nat
        /\ \A j \in 1 .. n : t[j] = s[j]
        /\ \A a \in Nat \ {0} : \A b \in 0 .. n : SubSeq(t, a, b) = SubSeq(s, a, b)
    BY StretchAppend
  <1>2. DOMAIN s = 1 .. n /\ DOMAIN t = 1 .. (n + 1)
    BY <1>1
  <1>3. K \in SUBSET (0 .. n) /\ K # {} /\ M \in SUBSET (0 .. (n + 1)) /\ M # {}
    BY <1>1, <1>2
  <1>4. Dropped(s, S) = SubSeq(s, 1, Max(K)) /\ Dropped(t, S) = SubSeq(t, 1, Max(M))
    BY DEF Dropped
  <1> HIDE DEF t
  <1>5. CASE c \in S
    <2>1. \A p \in 1 .. (n + 1) : t[p] \notin S => p \in 1 .. n /\ s[p] \notin S
      BY <1>1, <1>5
    <2>2. \A p \in 1 .. n : p \in 1 .. (n + 1) /\ t[p] = s[p]
      BY <1>1
    <2>3. M = K
      BY <1>2, <2>1, <2>2
    <2> HIDE DEF K, M
    <2>4. Max(K) \in 0 .. n /\ 1 \in Nat \ {0}
      <3>1. n \in Nat /\ K \in SUBSET (0 .. n) /\ K # {}
        BY <1>1, <1>3
      <3>2. Max(K) \in K
        BY ONLY <3>1, GreatestElement
      <3>3. Max(K) \in 0 .. n
        BY ONLY <3>1, <3>2, Zenon
      <3> QED BY <3>3
    <2> QED BY <1>1, <1>4, <1>5, <2>3, <2>4 DEF t
  <1>6. CASE c \notin S
    <2>1. n + 1 \in M
      BY <1>1, <1>2, <1>6
    <2> HIDE DEF K, M
    <2>2. Max(M) \in 0 .. (n + 1) /\ n + 1 <= Max(M)
      <3>1. n + 1 \in Nat
        BY <1>1
      <3>2. Max(M) \in M /\ \A m \in M : m <= Max(M)
        BY ONLY <1>3, <3>1, GreatestElement
      <3> QED BY <1>3, <2>1, <3>2
    <2>3. Max(M) = Len(t)
      BY <1>1, <2>2
    <2>4. SubSeq(t, 1, Len(t)) = t
      BY <1>1, WholeStretch
    <2> QED BY <1>4, <1>6, <2>3, <2>4 DEF t
  <1> QED BY <1>5, <1>6 DEF t

LEMMA UpToMore ==
    ASSUME NEW A, NEW bad, NEW s \in Seq(A), NEW c \in A
    PROVE  /\ c = bad => UpToLast(Append(s, c), bad) = UpToLast(s, bad)
           /\ c # bad => UpToLast(Append(s, c), bad) = Append(s, c)
  <1> DEFINE S == {bad}
  <1>1. \A t : UpToLast(t, bad) = Dropped(t, S)
    BY DEF UpToLast, Dropped
  <1>2. c = bad <=> c \in S
    OBVIOUS
  <1> HIDE DEF S
  <1> QED BY <1>1, <1>2, DroppedMore

LEMMA UpToSolid ==
    ASSUME NEW A, NEW bad, NEW s \in Seq(A), NEW c \in A, c # bad
    PROVE  UpToLast(Append(s, c), bad) = Append(s, c)
  BY UpToMore, ZenonT(30)

LEMMA UpToNothing == \A bad : UpToLast(<<>>, bad) = <<>>
  <1> SUFFICES ASSUME NEW bad PROVE UpToLast(<<>>, bad) = <<>>
    OBVIOUS
  <1> DEFINE K == {0} \cup { p \in DOMAIN <<>> : <<>>[p] # bad }
  <1>1. K = {0}
    OBVIOUS
  <1> HIDE DEF K
  <1>2. Max(K) \in K
    <2>1. 0 \in Nat /\ K \in SUBSET (0 .. 0) /\ K # {}
      BY <1>1
    <2> QED BY ONLY <2>1, GreatestElement
  <1>3. SubSeq(<<>>, 1, 0) = <<>>
    OBVIOUS
  <1>4. UpToLast(<<>>, bad) = SubSeq(<<>>, 1, Max(K))
    BY DEF UpToLast, K
  <1> QED BY <1>1, <1>2, <1>3, <1>4

(* What is left out equals bad throughout.                                 *)
LEMMA UpToRest ==
    ASSUME NEW A, NEW bad
    PROVE  \A s \in Seq(A) : /\ UpToLast(s, bad) \in Seq(A)
                             /\ \E z \in Seq(A \cap {bad}) : s = UpToLast(s, bad) \o z
  <1> DEFINE B == A \cap {bad}
             P == { s \in Seq(A) : /\ UpToLast(s, bad) \in Seq(A)
                                   /\ \E z \in Seq(B) : s = UpToLast(s, bad) \o z }
  <1>1. <<>> \in P
    <2>1. <<>> \in Seq(A) /\ <<>> \in Seq(B) /\ <<>> \o <<>> = <<>>
      OBVIOUS
    <2> HIDE DEF B
    <2> QED BY <2>1, UpToNothing
  <1>2. ASSUME NEW s \in Seq(A), NEW c \in A, s \in P PROVE Append(s, c) \in P
    <2> DEFINE t == Append(s, c)
    <2>1. t \in Seq(A) /\ t = s \o <<c>>
      BY AppendIs, AppendProperties
    <2>2. /\ c = bad => UpToLast(t, bad) = UpToLast(s, bad)
          /\ c # bad => UpToLast(t, bad) = t
      BY UpToMore, ZenonT(30)
    <2> HIDE DEF t
    <2>3. CASE c = bad
      <3> DEFINE f == UpToLast(s, bad)
      <3> HIDE DEF B
      <3>1. f \in Seq(A)
        BY <1>2
      <3>2. PICK z \in Seq(B) : s = f \o z
        BY <1>2
      <3> HIDE DEF f
      <3>3. c \in B /\ B \in SUBSET A
        BY <2>3 DEF B
      <3>4. z \o <<c>> \in Seq(B) /\ <<c>> \in Seq(A) /\ z \in Seq(A)
        <4>1. <<c>> \in Seq(B)
          BY <3>3, OneOf
        <4>2. z \o <<c>> \in Seq(B)
          BY <4>1, ConcatProperties
        <4>3. <<c>> \in Seq(A)
          BY OneOf
        <4>4. z \in Seq(A)
          BY <3>3, SeqMonotonic
        <4> QED BY <4>2, <4>3, <4>4
      <3>5. (f \o z) \o <<c>> = f \o (z \o <<c>>)
        BY ONLY <3>1, <3>4, ConcatAssociative
      <3>6. t = f \o (z \o <<c>>)
        BY <2>1, <3>2, <3>5
      <3>7. UpToLast(t, bad) = f
        BY <2>2, <2>3 DEF f
      <3>8. /\ UpToLast(t, bad) \in Seq(A)
            /\ \E y \in Seq(B) : t = UpToLast(t, bad) \o y
        BY <3>1, <3>4, <3>6, <3>7
      <3> QED BY <2>1, <3>8 DEF t
    <2>4. CASE c # bad
      <3>1. UpToLast(t, bad) = t /\ t \o <<>> = t /\ <<>> \in Seq(B)
        BY <2>1, <2>2, <2>4, ConcatEmptySeq
      <3> HIDE DEF B
      <3>2. /\ UpToLast(t, bad) \in Seq(A)
            /\ \E y \in Seq(B) : t = UpToLast(t, bad) \o y
        BY <2>1, <3>1
      <3> QED BY <2>1, <3>2 DEF t
    <2> QED BY <2>3, <2>4
  <1> HIDE DEF P
  <1>3. \A s \in Seq(A) : s \in P
    BY <1>1, <1>2, AppendInduction
  <1> QED BY <1>3 DEF P

-------------------------------------------------------------------------------
(* Joined lines when the last changes or one is added. *)

Pieces(ps) == [k \in DOMAIN ps |-> IF k = 1 THEN ps[k] ELSE <<CRLF>> \o ps[k]]

LEMMA PiecesType ==
    ASSUME NEW ps \in Seq(Text)
    PROVE  /\ Len(ps) \in Nat /\ Pieces(ps) \in [1 .. Len(ps) -> Seq(Alphabet)]
           /\ \A k \in 1 .. Len(ps) : Pieces(ps)[k] = IF k = 1 THEN ps[k] ELSE <<CRLF>> \o ps[k]
           /\ Join(ps, CRLF) = FlattenSeq(Pieces(ps))
  <1>1. Len(ps) \in Nat /\ DOMAIN ps = 1 .. Len(ps) /\ \A k \in 1 .. Len(ps) : ps[k] \in Text
    OBVIOUS
  <1>2. ASSUME NEW k \in 1 .. Len(ps)
        PROVE  (IF k = 1 THEN ps[k] ELSE <<CRLF>> \o ps[k]) \in Seq(Alphabet)
    <2>1. <<CRLF>> \o ps[k] \in Text /\ ps[k] \in Text
      BY <1>1, Letters, OneType, ChainType
    <2> QED BY <2>1 DEF Text
  <1>3. Pieces(ps) \in [1 .. Len(ps) -> Seq(Alphabet)]
    BY <1>1, <1>2 DEF Pieces
  <1>4. ASSUME NEW k \in 1 .. Len(ps)
        PROVE  Pieces(ps)[k] = IF k = 1 THEN ps[k] ELSE <<CRLF>> \o ps[k]
    BY <1>1 DEF Pieces
  <1>5. Join(ps, CRLF) = FlattenSeq(Pieces(ps))
    BY DEF Join, Pieces
  <1> QED BY <1>1, <1>3, <1>4, <1>5

(* All parts but the last, joined.                                         *)
Lead(ps) == FlattenSeq([k \in 1 .. (Len(ps) - 1) |-> Pieces(ps)[k]])

LEMMA JoinLast ==
    ASSUME NEW ps \in Parts
    PROVE  /\ Lead(ps) \in Text /\ ps[Len(ps)] \in Text /\ Len(ps) \in Nat \ {0}
           /\ Join(ps, CRLF) = Lead(ps) \o (IF Len(ps) = 1 THEN ps[1]
                                            ELSE <<CRLF>> \o ps[Len(ps)])
           /\ Len(ps) = 1 => Lead(ps) = <<>>
  <1> DEFINE n == Len(ps) - 1
             front == [k \in 1 .. n |-> Pieces(ps)[k]]
  <1>1. /\ n \in Nat /\ Len(ps) = n + 1 /\ Len(ps) \in Nat \ {0} /\ ps \in Seq(Text)
        /\ ps[Len(ps)] \in Text
    BY DEF Parts
  <1>2. /\ Pieces(ps) \in [1 .. (n + 1) -> Seq(Alphabet)]
        /\ Pieces(ps)[n + 1] = IF n + 1 = 1 THEN ps[1] ELSE <<CRLF>> \o ps[n + 1]
        /\ Join(ps, CRLF) = FlattenSeq(Pieces(ps))
    <2>1. n + 1 \in 1 .. Len(ps)
      BY <1>1
    <2>2. Len(ps) = n + 1
      BY <1>1
    <2> HIDE DEF n
    <2> QED BY <1>1, <2>1, <2>2, PiecesType
  <1>3. front \in [1 .. n -> Seq(Alphabet)] /\ Lead(ps) = FlattenSeq(front)
    <2>1. \A k \in 1 .. n : k \in 1 .. (n + 1)
      BY <1>1
    <2> QED BY <1>2, <2>1 DEF Lead
  <1> HIDE DEF n, front
  <1>4. FlattenSeq(Pieces(ps)) = FlattenSeq(front) \o Pieces(ps)[n + 1]
    <2>1. front = [k \in 1 .. n |-> Pieces(ps)[k]]
      BY DEF front
    <2> QED BY <1>1, <1>2, <2>1, FlattenStep
  <1>5. FlattenSeq(front) \in Text
    BY <1>1, <1>3, FlattenType DEF Text
  <1>6. Len(ps) = 1 => FlattenSeq(front) = <<>>
    <2> SUFFICES ASSUME Len(ps) = 1 PROVE FlattenSeq(front) = <<>>
      OBVIOUS
    <2>1. n = 0
      BY <1>1
    <2>2. front = <<>>
      BY <2>1 DEF front
    <2> QED BY <2>2, FlattenEmpty
  <1>7. Join(ps, CRLF) = Lead(ps) \o (IF Len(ps) = 1 THEN ps[1] ELSE <<CRLF>> \o ps[Len(ps)])
    BY <1>1, <1>2, <1>3, <1>4
  <1> QED BY <1>1, <1>3, <1>5, <1>6, <1>7

LEMMA LeadSame ==
    ASSUME NEW ps \in Parts, NEW qs \in Parts, NEW n \in Nat, n = Len(ps) - 1, n = Len(qs) - 1,
           \A k \in 1 .. n : ps[k] = qs[k]
    PROVE  Lead(ps) = Lead(qs)
  <1>1. ps \in Seq(Text) /\ qs \in Seq(Text)
    BY DEF Parts
  <1>2. ASSUME NEW k \in 1 .. n PROVE Pieces(ps)[k] = Pieces(qs)[k]
    <2>1. k \in 1 .. Len(ps) /\ k \in 1 .. Len(qs)
      BY <1>1
    <2>2. Pieces(ps)[k] = IF k = 1 THEN ps[k] ELSE <<CRLF>> \o ps[k]
      BY <1>1, <2>1, PiecesType
    <2>3. Pieces(qs)[k] = IF k = 1 THEN qs[k] ELSE <<CRLF>> \o qs[k]
      BY <1>1, <2>1, PiecesType
    <2> QED BY <2>2, <2>3
  <1>3. [k \in 1 .. n |-> Pieces(ps)[k]] = [k \in 1 .. n |-> Pieces(qs)[k]]
    BY <1>2
  <1> QED BY <1>3 DEF Lead

LEMMA ChainRegroup == \A a, b, d \in Text : (a \o b) \o d = a \o (b \o d)
  BY ConcatAssociative DEF Text

(* The last part changes, or there is one more.                            *)
LEMMA JoinChange ==
    ASSUME NEW ps \in Parts, NEW qs \in Parts, NEW n \in Nat, n = Len(ps) - 1, n = Len(qs) - 1,
           \A k \in 1 .. n : ps[k] = qs[k],
           NEW y \in Text, qs[n + 1] = ps[n + 1] \o y
    PROVE  Join(qs, CRLF) = Join(ps, CRLF) \o y
  <1>1. Lead(qs) = Lead(ps)
    BY LeadSame
  <1>2. /\ Lead(ps) \in Text /\ ps[n + 1] \in Text /\ Len(ps) = n + 1 /\ Len(qs) = n + 1
        /\ Join(ps, CRLF) = Lead(ps) \o (IF n + 1 = 1 THEN ps[1] ELSE <<CRLF>> \o ps[n + 1])
        /\ Join(qs, CRLF) = Lead(qs) \o (IF n + 1 = 1 THEN qs[1] ELSE <<CRLF>> \o qs[n + 1])
    <2>1. Len(ps) = n + 1 /\ Len(qs) = n + 1
      BY JoinLast
    <2> QED BY <2>1, JoinLast
  <1>3. <<CRLF>> \in Text
    BY Letters, OneType
  <1>4. ASSUME NEW a \in Text, NEW b \in Text, NEW c \in Text PROVE (a \o b) \o c = a \o (b \o c)
    BY ChainRegroup
  <1> DEFINE last == ps[n + 1]
             lead == Lead(ps)
  <1>5. last \in Text /\ lead \in Text
    BY <1>2
  <1>6. CASE n + 1 = 1
    <2>1. Join(ps, CRLF) = lead \o last /\ Join(qs, CRLF) = lead \o (last \o y)
      BY <1>1, <1>2, <1>6
    <2> HIDE DEF last, lead
    <2> QED BY <1>4, <1>5, <2>1, SMTT(20)
  <1>7. CASE n + 1 # 1
    <2>1. /\ Join(ps, CRLF) = lead \o (<<CRLF>> \o last)
          /\ Join(qs, CRLF) = lead \o (<<CRLF>> \o (last \o y))
      BY <1>1, <1>2, <1>7
    <2> HIDE DEF last, lead
    <2>2. <<CRLF>> \o (last \o y) = (<<CRLF>> \o last) \o y
      BY <1>3, <1>4, <1>5
    <2>3. <<CRLF>> \o last \in Text
      BY <1>3, <1>5, ChainType
    <2>4. (lead \o (<<CRLF>> \o last)) \o y = lead \o ((<<CRLF>> \o last) \o y)
      BY <1>4, <1>5, <2>3
    <2> QED BY <2>1, <2>2, <2>4
  <1> QED BY <1>6, <1>7

LEMMA JoinMore ==
    ASSUME NEW ps \in Parts, NEW x \in Text
    PROVE  Join(Append(ps, x), CRLF) = Join(ps, CRLF) \o (<<CRLF>> \o x)
  <1> DEFINE qs == Append(ps, x)
             n == Len(ps)
  <1>1. ps \in Seq(Text) /\ n \in Nat \ {0}
    BY DEF Parts
  <1>2. /\ qs \in Seq(Text) /\ qs # <<>> /\ Len(qs) = n + 1 /\ qs[n + 1] = x
        /\ \A k \in 1 .. n : qs[k] = ps[k]
    BY <1>1, AppendProperties
  <1> HIDE DEF qs
  <1>3. qs \in Parts /\ n + 1 # 1
    BY <1>1, <1>2 DEF Parts
  <1>4. Join(qs, CRLF) = Lead(qs) \o (<<CRLF>> \o x)
    BY <1>2, <1>3, JoinLast
  <1>5. Lead(qs) = Join(ps, CRLF)
    <2>1. ASSUME NEW k \in 1 .. n PROVE Pieces(qs)[k] = Pieces(ps)[k]
      <3>1. k \in 1 .. Len(qs) /\ k \in 1 .. Len(ps)
        BY <1>1, <1>2
      <3>2. Pieces(ps)[k] = IF k = 1 THEN ps[k] ELSE <<CRLF>> \o ps[k]
        BY <1>1, <3>1, PiecesType
      <3>3. Pieces(qs)[k] = IF k = 1 THEN qs[k] ELSE <<CRLF>> \o qs[k]
        BY <1>2, <3>1, PiecesType
      <3> QED BY <1>2, <3>2, <3>3
    <2>2. Pieces(ps) = [k \in 1 .. n |-> Pieces(ps)[k]]
      <3>1. Pieces(ps) \in [1 .. n -> Seq(Alphabet)]
        BY <1>1, PiecesType
      <3> QED BY <3>1
    <2>3. [k \in 1 .. n |-> Pieces(qs)[k]] = [k \in 1 .. n |-> Pieces(ps)[k]]
      BY <2>1
    <2>4. Len(qs) - 1 = n
      BY <1>1, <1>2
    <2>5. Lead(qs) = FlattenSeq(Pieces(ps))
      BY <2>2, <2>3, <2>4 DEF Lead
    <2> QED BY <1>1, <2>5, PiecesType
  <1> QED BY <1>4, <1>5 DEF qs

LEMMA JoinOne ==
    ASSUME NEW x \in Text
    PROVE  Join(<<x>>, CRLF) = x
  <1> DEFINE ps == <<x>>
  <1>1. ps \in Parts /\ Len(ps) = 1 /\ ps[1] = x
    BY DEF Parts
  <1> HIDE DEF ps
  <1>2. Join(ps, CRLF) = <<>> \o x
    BY <1>1, JoinLast
  <1>3. <<>> \o x = x
    BY ConcatEmptySeq DEF Text
  <1> QED BY <1>2, <1>3 DEF ps

LEMMA JoinNothing == Join(<<>>, CRLF) = <<>>
  <1>1. Pieces(<<>>) = <<>>
    BY DEF Pieces
  <1>2. <<>> \in Seq(Text)
    OBVIOUS
  <1> QED BY <1>1, <1>2, PiecesType, FlattenEmpty

-------------------------------------------------------------------------------
(* The relaxed body as a function of the text read so far. *)

(* The lines of a body, relaxed, and joined again: the relaxed body but    *)
(* for the empty lines at its end.                                         *)
BodyLines(t) ==
    LET parts == Split(t, CRLF) IN [j \in DOMAIN parts |-> relaxBodyLine(parts[j])]
Flow(t) == Join(BodyLines(t), CRLF)

(* What a character adds to a line, and to the joined lines.               *)
Added(spaced, c) ==
    IF c \in WSP THEN <<>> ELSE IF spaced THEN << " ", c >> ELSE << c >>
Piece(spaced, c) == IF c = CRLF THEN << CRLF >> ELSE Added(spaced, c)

LEMMA AddedFacts ==
    ASSUME NEW spaced \in BOOLEAN, NEW c \in Alphabet
    PROVE  /\ Added(spaced, c) \in Text /\ Piece(spaced, c) \in Text
           /\ \A x \in Text : Extended(x, spaced, c) = x \o Added(spaced, c)
           /\ c \notin WSP => \E z \in Text : Added(spaced, c) = Append(z, c)
  <1> DEFINE space == " "
             pair  == << space, c >>
  <1>1. space \in Alphabet /\ <<space>> \in Text /\ <<c>> \in Text /\ <<CRLF>> \in Text
        /\ <<>> \in Text
    <2>1. space \in Alphabet
      BY Letters DEF WSP
    <2> HIDE DEF space
    <2>2. <<>> \in Text
      BY DEF Text
    <2> QED BY <2>1, <2>2, Letters, OneType
  <1> HIDE DEF space
  <1>2. pair \in Text /\ pair = Append(<<space>>, c)
    <2>1. Append(<<space>>, c) = <<space>> \o <<c>>
      BY <1>1, AppendIs DEF Text
    <2>2. <<space>> \o <<c>> = << space, c >>
      BY <1>1, PairOf
    <2>3. Append(<<space>>, c) \in Text
      BY <1>1, AppendProperties DEF Text
    <2> QED BY <2>1, <2>2, <2>3
  <1>3. <<c>> = Append(<<>>, c)
    BY <1>1
  <1>4. Added(spaced, c) = IF c \in WSP THEN <<>> ELSE IF spaced THEN pair ELSE << c >>
    BY DEF Added, space
  <1>5. ASSUME NEW x
        PROVE  Extended(x, spaced, c) = IF c \in WSP THEN x ELSE IF spaced THEN x \o pair
                                        ELSE Append(x, c)
    BY DEF Extended, space
  <1> HIDE DEF pair
  <1>6. Added(spaced, c) \in Text
    BY <1>1, <1>2, <1>4
  <1>7. Piece(spaced, c) \in Text
    BY <1>1, <1>6 DEF Piece
  <1>8. ASSUME NEW x \in Text PROVE Extended(x, spaced, c) = x \o Added(spaced, c)
    <2>1. x \o <<>> = x /\ Append(x, c) = x \o <<c>>
      BY ConcatEmptySeq, AppendIs DEF Text
    <2> QED BY <1>4, <1>5, <2>1
  <1>9. c \notin WSP => \E z \in Text : Added(spaced, c) = Append(z, c)
    BY <1>1, <1>2, <1>3, <1>4
  <1> QED BY <1>6, <1>7, <1>8, <1>9

LEMMA LinesType ==
    ASSUME NEW t \in Text
    PROVE  /\ Split(t, CRLF) \in Parts /\ BodyLines(t) \in Parts
           /\ Len(BodyLines(t)) = Len(Split(t, CRLF)) /\ Len(Split(t, CRLF)) \in Nat \ {0}
           /\ \A j \in 1 .. Len(Split(t, CRLF)) :
                 BodyLines(t)[j] = relaxBodyLine(Split(t, CRLF)[j])
  <1> DEFINE ps == Split(t, CRLF)
             n == Len(ps)
  <1>1. ps \in Parts
    BY Letters, SplitMore
  <1>2. BodyLines(t) = [j \in DOMAIN ps |-> relaxBodyLine(ps[j])]
    BY DEF BodyLines
  <1> HIDE DEF ps
  <1>3. /\ n \in Nat \ {0} /\ DOMAIN ps = 1 .. n /\ \A j \in 1 .. n : ps[j] \in Text
    BY <1>1 DEF Parts
  <1>4. \A j \in 1 .. n : relaxBodyLine(ps[j]) \in Text
    BY <1>3, Letters, RelaxedMore
  <1>5. BodyLines(t) \in [1 .. n -> Text]
    BY <1>2, <1>3, <1>4
  <1>6. BodyLines(t) \in Seq(Text) /\ Len(BodyLines(t)) = n
    BY <1>3, <1>5
  <1>7. BodyLines(t) \in Parts
    BY <1>3, <1>6 DEF Parts
  <1>8. \A j \in 1 .. n : BodyLines(t)[j] = relaxBodyLine(ps[j])
    BY <1>2, <1>3
  <1> QED BY <1>1, <1>3, <1>6, <1>7, <1>8 DEF ps

LastPart(t) == Split(t, CRLF)[Len(Split(t, CRLF))]

(* One character more for the lines of a body.                             *)
LEMMA LinesMore ==
    ASSUME NEW s \in Text, NEW c \in Alphabet, NEW n, n = Len(BodyLines(s)) - 1
    PROVE  /\ n \in Nat
           /\ c = CRLF => BodyLines(Append(s, c)) = Append(BodyLines(s), <<>>)
           /\ c # CRLF =>
                /\ Len(BodyLines(Append(s, c))) = n + 1
                /\ \A j \in 1 .. n : BodyLines(Append(s, c))[j] = BodyLines(s)[j]
                /\ BodyLines(Append(s, c))[n + 1]
                     = BodyLines(s)[n + 1] \o Added(Spaced(LastPart(s)), c)
           /\ LastPart(Append(s, c)) = IF c = CRLF THEN <<>> ELSE Append(LastPart(s), c)
           /\ LastPart(s) \in Text
  <1> DEFINE t  == Append(s, c)
             ps == Split(s, CRLF)
             qs == Split(t, CRLF)
             L  == BodyLines(s)
             M  == BodyLines(t)
  <1>1. t \in Text
    BY AppendProperties DEF Text
  <1>2. /\ ps \in Parts /\ L \in Parts /\ Len(L) = Len(ps) /\ Len(ps) \in Nat \ {0}
        /\ \A j \in 1 .. Len(ps) : L[j] = relaxBodyLine(ps[j])
    BY LinesType
  <1>3. /\ qs \in Parts /\ M \in Parts /\ Len(M) = Len(qs)
        /\ \A j \in 1 .. Len(qs) : M[j] = relaxBodyLine(qs[j])
    BY <1>1, LinesType
  <1>4. qs = Grow(ps, c)
    BY SplitMore
  <1>5. LastPart(s) = ps[Len(ps)] /\ LastPart(t) = qs[Len(qs)]
    BY DEF LastPart
  <1> HIDE DEF t, ps, qs, L, M
  <1>6. n \in Nat /\ Len(ps) = n + 1 /\ Len(L) = n + 1 /\ n + 1 \in 1 .. (n + 1)
        /\ L = BodyLines(s) /\ Len(ps) - 1 = n /\ Len(ps) + 1 = n + 2
    BY <1>2 DEF L
  <1>7. ps[n + 1] \in Text /\ L[n + 1] \in Text /\ L \in Seq(Text) /\ M \in Seq(Text)
    BY <1>2, <1>3, <1>6 DEF Parts
  <1>8. /\ \A j \in 1 .. n : qs[j] = ps[j]
        /\ c = CRLF => Len(qs) = n + 2 /\ qs[n + 1] = ps[n + 1] /\ qs[n + 2] = <<>>
        /\ c # CRLF => Len(qs) = n + 1 /\ qs[n + 1] = Append(ps[n + 1], c)
    <2>1. /\ \A j \in 1 .. (Len(ps) - 1) : qs[j] = ps[j]
          /\ c = CRLF => /\ Len(qs) = Len(ps) + 1 /\ qs[Len(ps)] = ps[Len(ps)]
                         /\ qs[Len(ps) + 1] = <<>>
          /\ c # CRLF => Len(qs) = Len(ps) /\ qs[Len(ps)] = Append(ps[Len(ps)], c)
      BY <1>2, <1>4, GrowFacts
    <2>2. Len(ps) - 1 = n /\ Len(ps) + 1 = n + 2 /\ Len(ps) = n + 1
      BY <1>6
    <2>3. \A j \in 1 .. n : qs[j] = ps[j]
      BY <2>1, <2>2
    <2>4. c = CRLF => Len(qs) = n + 2 /\ qs[n + 1] = ps[n + 1] /\ qs[n + 2] = <<>>
      BY <2>1, <2>2, Zenon
    <2>5. c # CRLF => Len(qs) = n + 1 /\ qs[n + 1] = Append(ps[n + 1], c)
      BY <2>1, <2>2, Zenon
    <2> QED BY <2>3, <2>4, <2>5
  <1>9. LastPart(t) = IF c = CRLF THEN <<>> ELSE Append(LastPart(s), c)
    BY <1>5, <1>6, <1>8
  <1>10. ASSUME NEW j \in 1 .. n
         PROVE  M[j] = L[j]
    <2>1. j \in 1 .. Len(ps) /\ j \in 1 .. Len(qs)
      BY <1>6, <1>8
    <2> QED BY <1>2, <1>3, <1>8, <2>1
  <1>11. CASE c = CRLF
    <2>1. M[n + 1] = L[n + 1] /\ M[n + 2] = <<>> /\ Len(M) = n + 2
      <3>1. n + 1 \in 1 .. Len(ps) /\ n + 1 \in 1 .. Len(qs) /\ n + 2 \in 1 .. Len(qs)
        BY <1>6, <1>8, <1>11
      <3>2. M[n + 1] = L[n + 1]
        BY <1>2, <1>3, <1>8, <1>11, <3>1
      <3>3. M[n + 2] = relaxBodyLine(<<>>)
        BY <1>3, <1>8, <1>11, <3>1
      <3> QED BY <1>3, <1>8, <1>11, <3>2, <3>3, RelaxedNothing
    <2> DEFINE R == Append(L, <<>>)
    <2>2. <<>> \in Text
      BY DEF Text
    <2>3. /\ R \in Seq(Text) /\ Len(R) = Len(L) + 1 /\ R[Len(L) + 1] = <<>>
          /\ \A j \in 1 .. Len(L) : R[j] = L[j]
      BY <1>7, <2>2, AppendProperties
    <2> HIDE DEF R
    <2>4. Len(L) + 1 = n + 2
      BY <1>6
    <2>5. ASSUME NEW j \in 1 .. Len(M) PROVE M[j] = R[j]
      <3>1. CASE j = n + 2
        BY <2>1, <2>3, <2>4, <3>1
      <3>2. CASE j = n + 1
        BY <1>6, <2>1, <2>3, <3>2
      <3>3. CASE j \in 1 .. n
        <4>1. j \in 1 .. Len(L)
          BY <1>6, <3>3
        <4> QED BY <1>10, <2>3, <3>3, <4>1
      <3> QED BY <1>6, <2>1, <3>1, <3>2, <3>3
    <2>6. M = R
      BY <1>7, <2>1, <2>3, <2>4, <2>5, SameSequence
    <2> QED BY <1>5, <1>6, <1>7, <1>9, <1>11, <2>6 DEF R, M, L, t
  <1>12. CASE c # CRLF
    <2>1. M[n + 1] = relaxBodyLine(Append(ps[n + 1], c)) /\ Len(M) = n + 1
      <3>1. n + 1 \in 1 .. Len(qs)
        BY <1>6, <1>8, <1>12
      <3> QED BY <1>3, <1>8, <1>12, <3>1
    <2>2. relaxBodyLine(Append(ps[n + 1], c))
            = Extended(relaxBodyLine(ps[n + 1]), Spaced(ps[n + 1]), c)
      BY <1>7, RelaxedMore
    <2>3. relaxBodyLine(ps[n + 1]) = L[n + 1]
      BY <1>2, <1>6
    <2>4. Spaced(ps[n + 1]) \in BOOLEAN
      BY DEF Spaced
    <2>5. Extended(L[n + 1], Spaced(ps[n + 1]), c) = L[n + 1] \o Added(Spaced(ps[n + 1]), c)
      BY <1>7, <2>4, AddedFacts
    <2>6. LastPart(s) = ps[n + 1]
      BY <1>5, <1>6
    <2>7. M[n + 1] = L[n + 1] \o Added(Spaced(LastPart(s)), c)
      BY <2>1, <2>2, <2>3, <2>5, <2>6
    <2> QED BY <1>6, <1>7, <1>9, <1>10, <1>12, <2>1, <2>6, <2>7 DEF M, L, t
  <1> QED BY <1>11, <1>12

LEMMA SplitNone == Split(<<>>, CRLF) = << <<>> >>
  <1>1. <<>> \in Seq(Alphabet) /\ Len(<<>>) = 0
    OBVIOUS
  <1>2. 1 \in 1 .. (Len(<<>>) + 1)
    BY <1>1
  <1> DEFINE q == IndexFrom(<<>>, 1, CRLF)
  <1>3. PartTo(<<>>, CRLF, 1, q) /\ FirstAt(<<>>, 1, CRLF, q)
    BY <1>1, <1>2, PartsUnfold, IndexFacts
  <1> HIDE DEF q
  <1>4. q > Len(<<>>)
    BY <1>1, <1>3 DEF FirstAt
  <1>5. SubSeq(<<>>, 1, Len(<<>>)) = <<>>
    OBVIOUS
  <1> QED BY <1>3, <1>4, <1>5 DEF PartTo, Split

-------------------------------------------------------------------------------
LEMMA LastSpaced == \A s \in Text : Spaced(LastPart(s)) <=> Spaced(s)
  <1> DEFINE P == { s \in Text : Spaced(LastPart(s)) <=> Spaced(s) }
  <1>1. <<>> \in P
    <2>1. LastPart(<<>>) = <<>>
      BY SplitNone DEF LastPart
    <2> QED BY <2>1 DEF Text
  <1>2. ASSUME NEW s \in Seq(Alphabet), NEW c \in Alphabet, s \in P PROVE Append(s, c) \in P
    <2> DEFINE t == Append(s, c)
    <2>1. ASSUME NEW x \in Text PROVE Spaced(Append(x, c)) <=> c \in WSP
      <3>1. Append(x, c) # <<>> /\ Last(Append(x, c)) = c
        BY AppendProperties DEF Text, Last
      <3> QED BY <3>1 DEF Spaced
    <2>2. t \in Text /\ (Spaced(t) <=> c \in WSP)
      BY <2>1, AppendProperties DEF Text
    <2>3. LastPart(s) \in Text /\ LastPart(t) = IF c = CRLF THEN <<>> ELSE Append(LastPart(s), c)
      BY LinesMore DEF Text
    <2> HIDE DEF t
    <2>4. Spaced(LastPart(t)) <=> c \in WSP
      <3>1. CASE c = CRLF
        BY <2>3, <3>1, Letters DEF Spaced
      <3>2. CASE c # CRLF
        BY <2>1, <2>3, <3>2
      <3> QED BY <3>1, <3>2
    <2> QED BY <2>2, <2>4 DEF t
  <1> HIDE DEF P
  <1>3. \A s \in Seq(Alphabet) : s \in P
    BY <1>1, <1>2, AppendInduction
  <1> QED BY <1>3 DEF P, Text

(* One character more for the joined lines.                                *)
LEMMA FlowMore ==
    ASSUME NEW s \in Text, NEW c \in Alphabet
    PROVE  Flow(s) \in Text /\ Flow(Append(s, c)) = Flow(s) \o Piece(Spaced(s), c)
  <1> DEFINE t == Append(s, c)
             L == BodyLines(s)
             M == BodyLines(t)
             n == Len(L) - 1
  <1>1. t \in Text
    BY AppendProperties DEF Text
  <1>2. L \in Parts /\ M \in Parts
    BY <1>1, LinesType
  <1>3. /\ n \in Nat
        /\ c = CRLF => M = Append(L, <<>>)
        /\ c # CRLF => /\ Len(M) = n + 1
                       /\ \A j \in 1 .. n : M[j] = L[j]
                       /\ M[n + 1] = L[n + 1] \o Added(Spaced(LastPart(s)), c)
    BY LinesMore
  <1>4. Spaced(LastPart(s)) <=> Spaced(s)
    BY LastSpaced
  <1>5. Flow(s) = Join(L, CRLF) /\ Flow(t) = Join(M, CRLF)
    BY DEF Flow
  <1>6. Flow(s) \in Text
    BY <1>2, <1>5, JoinType DEF Parts
  <1> HIDE DEF t, L, M
  <1>7. Spaced(s) \in BOOLEAN /\ Spaced(LastPart(s)) \in BOOLEAN
    BY DEF Spaced
  <1>8. CASE c = CRLF
    <2>1. <<>> \in Text /\ <<CRLF>> \in Text
      BY Letters, OneType DEF Text
    <2>2. Join(Append(L, <<>>), CRLF) = Join(L, CRLF) \o (<<CRLF>> \o <<>>)
      BY <1>2, <2>1, JoinMore
    <2>3. <<CRLF>> \o <<>> = <<CRLF>>
      BY <2>1, ConcatEmptySeq DEF Text
    <2>4. Piece(Spaced(s), c) = <<CRLF>>
      BY <1>8 DEF Piece
    <2> QED BY <1>3, <1>5, <1>6, <1>8, <2>2, <2>3, <2>4 DEF t
  <1>9. CASE c # CRLF
    <2>1. Piece(Spaced(s), c) = Added(Spaced(s), c)
      BY <1>9 DEF Piece
    <2>2. Added(Spaced(LastPart(s)), c) = Added(Spaced(s), c)
      BY <1>4 DEF Added
    <2>3. Added(Spaced(s), c) \in Text
      BY <1>7, AddedFacts
    <2> DEFINE y == Added(Spaced(s), c)
    <2>4. /\ Len(M) = n + 1 /\ M[n + 1] = L[n + 1] \o y /\ \A j \in 1 .. n : L[j] = M[j]
          /\ n = Len(L) - 1
      BY <1>3, <1>9, <2>2
    <2> HIDE DEF y, n
    <2>5. n = Len(M) - 1
      BY <1>3, <2>4
    <2>6. Join(M, CRLF) = Join(L, CRLF) \o y
      BY <1>2, <1>3, <2>3, <2>4, <2>5, JoinChange DEF y
    <2> QED BY <1>5, <1>6, <2>1, <2>6 DEF t, y
  <1> QED BY <1>8, <1>9

LEMMA NothingFlows == BodyLines(<<>>) = << <<>> >> /\ Flow(<<>>) = <<>>
  <1>1. BodyLines(<<>>) = [j \in 1 .. 1 |-> <<>>]
    <2>1. Split(<<>>, CRLF) = << <<>> >> /\ DOMAIN << <<>> >> = 1 .. 1 /\ << <<>> >>[1] = <<>>
      BY SplitNone
    <2> QED BY <2>1, RelaxedNothing DEF BodyLines
  <1>2. BodyLines(<<>>) = << <<>> >>
    BY <1>1
  <1>3. Flow(<<>>) = <<>>
    <2>1. <<>> \in Text
      BY DEF Text
    <2>2. Join(<< <<>> >>, CRLF) = <<>>
      BY <2>1, JoinOne
    <2> QED BY <1>2, <2>2 DEF Flow
  <1> QED BY <1>2, <1>3

Kept(t) == DropEmpty(BodyLines(t))

(* The relaxed body is what flows, without the line ends at its end.       *)
LEMMA FlowIs ==
    \A t \in Text : /\ Join(Kept(t), CRLF) = UpToLast(Flow(t), CRLF)
                    /\ Kept(t) = <<>> <=> UpToLast(Flow(t), CRLF) = <<>>
  <1> DEFINE Good(t) == /\ Join(Kept(t), CRLF) = UpToLast(Flow(t), CRLF)
                        /\ Kept(t) = <<>> <=> UpToLast(Flow(t), CRLF) = <<>>
             P == { t \in Text : Good(t) }
  <1>0. \A ls : DropEmpty(ls) = UpToLast(ls, <<>>)
    BY DEF DropEmpty, UpToLast
  <1>1. Good(<<>>)
    <2>1. Kept(<<>>) = <<>>
      <3>1. << <<>> >> = Append(<<>>, <<>>)
        OBVIOUS
      <3>2. <<>> \in Seq(Text) /\ <<>> \in Text
        BY DEF Text
      <3>3. UpToLast(Append(<<>>, <<>>), <<>>) = UpToLast(<<>>, <<>>)
        BY <3>2, UpToMore
      <3> QED BY <1>0, <3>1, <3>3, UpToNothing, NothingFlows DEF Kept
    <2>2. UpToLast(Flow(<<>>), CRLF) = <<>>
      BY NothingFlows, UpToNothing
    <2> QED BY <2>1, <2>2, JoinNothing
  <1>2. ASSUME NEW s \in Seq(Alphabet), NEW c \in Alphabet, s \in P PROVE Append(s, c) \in P
    <2> DEFINE t == Append(s, c)
               L == BodyLines(s)
               M == BodyLines(t)
               n == Len(L) - 1
               sp == Spaced(s)
    <2>1. t \in Text /\ s \in Text
      BY AppendProperties DEF Text
    <2>2. L \in Parts /\ M \in Parts /\ L \in Seq(Text) /\ M \in Seq(Text)
      BY <2>1, LinesType DEF Parts
    <2>3. /\ n \in Nat
          /\ c = CRLF => M = Append(L, <<>>)
          /\ c # CRLF => /\ Len(M) = n + 1
                         /\ \A j \in 1 .. n : M[j] = L[j]
                         /\ M[n + 1] = L[n + 1] \o Added(Spaced(LastPart(s)), c)
      BY <2>1, LinesMore
    <2>4. Flow(s) \in Text /\ Flow(t) = Flow(s) \o Piece(sp, c)
      BY <2>1, FlowMore
    <2>5. Kept(s) = UpToLast(L, <<>>) /\ Kept(t) = UpToLast(M, <<>>)
      BY <1>0 DEF Kept
    <2>6. sp \in BOOLEAN /\ (Spaced(LastPart(s)) <=> sp)
      BY <2>1, LastSpaced DEF Spaced
    <2>7. Good(s)
      BY <1>2
    <2>8. Flow(t) = Join(M, CRLF)
      BY DEF Flow
    <2>9. Added(Spaced(LastPart(s)), c) = Added(sp, c)
      BY <2>6 DEF Added
    <2>10. <<>> \in Text
      BY DEF Text
    <2> HIDE DEF t, L, M, sp
    <2>11. CASE c = CRLF
      <3>1. Kept(t) = Kept(s)
        BY <2>2, <2>3, <2>5, <2>10, <2>11, UpToMore
      <3>2. Flow(t) = Append(Flow(s), c)
        BY <2>4, <2>11, AppendIs DEF Piece, Text
      <3>3. UpToLast(Flow(t), CRLF) = UpToLast(Flow(s), CRLF)
        BY <2>4, <2>11, <3>2, UpToMore DEF Text
      <3>4. Good(t)
        BY <2>7, <3>1, <3>3
      <3> QED BY <2>1, <3>4 DEF t
    <2>12. CASE c # CRLF /\ c \in WSP
      <3>1. Added(sp, c) = <<>> /\ Piece(sp, c) = <<>>
        BY <2>12 DEF Added, Piece
      <3>2. Flow(t) = Flow(s)
        BY <2>4, <3>1, ConcatEmptySeq DEF Text
      <3>3. M = L
        <4>1. /\ Len(M) = n + 1 /\ \A j \in 1 .. n : M[j] = L[j]
              /\ M[n + 1] = L[n + 1] \o <<>> /\ Len(L) = n + 1
          BY <2>2, <2>3, <2>9, <2>12, <3>1 DEF Parts
        <4>2. L[n + 1] \o <<>> = L[n + 1]
          <5>1. L[n + 1] \in Text
            <6>1. n + 1 \in 1 .. Len(L)
              BY <2>3, <4>1
            <6> QED BY <2>2, <6>1
          <5> QED BY <5>1, ConcatEmptySeq DEF Text
        <4> HIDE DEF n
        <4>3. ASSUME NEW j \in 1 .. Len(M) PROVE M[j] = L[j]
          <5>1. j \in 1 .. n \/ j = n + 1
            BY <2>3, <4>1
          <5> QED BY <4>1, <4>2, <5>1
        <4> QED BY <2>2, <4>1, <4>3, SameSequence
      <3>4. Good(t)
        BY <2>5, <2>7, <3>2, <3>3
      <3> QED BY <2>1, <3>4 DEF t
    <2>13. CASE c # CRLF /\ c \notin WSP
      <3>1. PICK z \in Text : Added(sp, c) = Append(z, c)
        BY <2>6, <2>13, AddedFacts
      <3>2. Piece(sp, c) = Append(z, c)
        BY <2>13, <3>1 DEF Piece
      <3>3. \A x \in Text : x \o Append(z, c) = Append(x \o z, c) /\ x \o z \in Text
        <4> SUFFICES ASSUME NEW x \in Text
                     PROVE  x \o Append(z, c) = Append(x \o z, c) /\ x \o z \in Text
          OBVIOUS
        <4>1. x \o z \in Text /\ <<c>> \in Text
          BY ChainType, OneType
        <4>2. (x \o z) \o <<c>> = x \o (z \o <<c>>)
          BY <4>1, ChainRegroup
        <4>3. Append(z, c) = z \o <<c>> /\ Append(x \o z, c) = (x \o z) \o <<c>>
          BY <4>1, AppendIs DEF Text
        <4> QED BY <4>1, <4>2, <4>3
      <3>4. UpToLast(Flow(t), CRLF) = Flow(t) /\ Flow(t) # <<>>
        <4> DEFINE f == Flow(s) \o z
        <4>1. f \in Seq(Alphabet) /\ Flow(t) = Append(f, c)
          BY <2>4, <3>2, <3>3 DEF Text
        <4> HIDE DEF f
        <4>2. UpToLast(Append(f, c), CRLF) = Append(f, c)
          BY ONLY <2>13, <4>1, c \in Alphabet, UpToSolid
        <4>3. Append(f, c) # <<>>
          BY ONLY <4>1, c \in Alphabet, AppendProperties
        <4> QED BY <4>1, <4>2, <4>3
      <3>5. Kept(t) = M /\ M # <<>>
        <4> DEFINE F == SubSeq(M, 1, n)
                   x == M[n + 1]
        <4>1. n + 1 \in 1 .. Len(M) /\ n \in 0 .. Len(M) /\ Len(M) = n + 1
          BY <2>3, <2>13
        <4>2. x \in Text /\ F \in Seq(Text) /\ Len(F) = n /\ \A j \in 1 .. n : F[j] = M[j]
          <5>0. 1 \in Nat \ {0} /\ n - 1 + 1 = n
            BY <2>3
          <5>1. x \in Text
            BY <2>2, <4>1
          <5>2. /\ F \in Seq(Text) /\ Len(F) = (IF 1 <= n THEN n - 1 + 1 ELSE 0)
                /\ \A j \in 1 .. (n - 1 + 1) : F[j] = M[1 + j - 1]
            BY ONLY <2>2, <4>1, <5>0, StretchType
          <5> HIDE DEF F, n
          <5>3. \A j \in 1 .. n : F[j] = M[j]
            BY <2>3, <5>0, <5>2
          <5>4. Len(F) = n
            BY <2>3, <5>2
          <5> QED BY <5>1, <5>2, <5>3, <5>4
        <4>3. x # <<>>
          <5>1. L[n + 1] \in Text
            <6>1. n + 1 \in 1 .. Len(L)
              BY <2>2, <2>3 DEF Parts
            <6> QED BY <2>2, <6>1
          <5>2. x = L[n + 1] \o Append(z, c)
            BY <2>3, <2>9, <2>13, <3>1
          <5>3. x = Append(L[n + 1] \o z, c) /\ L[n + 1] \o z \in Text
            BY <3>3, <5>1, <5>2
          <5> HIDE DEF x, n
          <5> QED BY <5>3, AppendProperties DEF Text
        <4> HIDE DEF F, x, n
        <4>4. M = Append(F, x)
          <5> DEFINE R == Append(F, x)
          <5>1. /\ R \in Seq(Text) /\ Len(R) = n + 1 /\ R[n + 1] = x
                /\ \A j \in 1 .. n : R[j] = F[j]
            BY <4>2, AppendProperties
          <5> HIDE DEF R
          <5>2. ASSUME NEW j \in 1 .. Len(M) PROVE M[j] = R[j]
            <6>1. j \in 1 .. n \/ j = n + 1
              BY <2>3, <4>1
            <6> QED BY <4>2, <5>1, <6>1 DEF x
          <5>3. M = R
            BY <2>2, <4>1, <5>1, <5>2, SameSequence
          <5> QED BY <5>3 DEF R
        <4>5. UpToLast(Append(F, x), <<>>) = Append(F, x)
          BY ONLY <4>2, <4>3, UpToSolid
        <4> QED BY <2>2, <2>5, <4>4, <4>5 DEF Parts
      <3>6. Good(t)
        BY <2>8, <3>4, <3>5
      <3> QED BY <2>1, <3>6 DEF t
    <2> QED BY <2>1, <2>11, <2>12, <2>13 DEF t
  <1> HIDE DEF Good
  <1>3. \A s \in Seq(Alphabet) : s \in P
    <2>1. <<>> \in P
      BY <1>1 DEF Text
    <2> HIDE DEF P
    <2> QED BY <1>2, <2>1, AppendInduction
  <1> QED BY <1>3 DEF P, Good, Text

Ended(x) == IF UpToLast(x, CRLF) = <<>> THEN <<>> ELSE Append(UpToLast(x, CRLF), CRLF)

LEMMA RelaxedIs == \A t \in Text : RelaxedBody(t) = Ended(Flow(t))
  <1> SUFFICES ASSUME NEW t \in Text PROVE RelaxedBody(t) = Ended(Flow(t))
    OBVIOUS
  <1>1. RelaxedBody(t) = IF Kept(t) = <<>> THEN <<>> ELSE Append(Join(Kept(t), CRLF), CRLF)
    BY DEF RelaxedBody, Kept, BodyLines
  <1> QED BY <1>1, FlowIs DEF Ended

LEMMA SimpleIs == \A t : SimpleBody(t) = Append(UpToLast(t, CRLF), CRLF)
  BY DEF SimpleBody, UpToLast

-------------------------------------------------------------------------------
(* What an edit of a body does to its canonical forms. *)

(* Texts to which the same characters add the same.                        *)
Alike(s, t) == Flow(s) = Flow(t) /\ (Spaced(s) <=> Spaced(t))

LEMMA ChainMore ==
    ASSUME NEW s \in Text, NEW r \in Text, NEW c \in Alphabet
    PROVE  /\ s \o Append(r, c) = Append(s \o r, c) /\ s \o r \in Text
           /\ Append(s, c) \in Text /\ Append(s, c) # <<>> /\ Last(Append(s, c)) = c
           /\ Append(s, c) = s \o <<c>> /\ <<c>> \in Text
  <1>1. s \o r \in Text /\ <<c>> \in Text
    BY ChainType, OneType
  <1>2. (s \o r) \o <<c>> = s \o (r \o <<c>>)
    BY <1>1, ChainRegroup
  <1>3. /\ Append(r, c) = r \o <<c>> /\ Append(s, c) = s \o <<c>>
        /\ Append(s \o r, c) = (s \o r) \o <<c>>
    BY <1>1, AppendIs DEF Text
  <1>4. Append(s, c) \in Text /\ Append(s, c) # <<>> /\ Last(Append(s, c)) = c
    BY AppendProperties DEF Text, Last
  <1> QED BY <1>1, <1>2, <1>3, <1>4

LEMMA SpacedMore ==
    ASSUME NEW s \in Text, NEW c \in Alphabet
    PROVE  Append(s, c) \in Text /\ (Spaced(Append(s, c)) <=> c \in WSP)
  <1> DEFINE t == Append(s, c)
  <1>1. t \in Text /\ t # <<>> /\ Last(t) = c
    BY ChainMore
  <1> HIDE DEF t
  <1>2. Spaced(t) <=> c \in WSP
    BY <1>1 DEF Spaced
  <1> QED BY <1>1, <1>2 DEF t

LEMMA AlikeMore ==
    ASSUME NEW s \in Text, NEW t \in Text, Alike(s, t)
    PROVE  \A r \in Text : Alike(s \o r, t \o r)
  <1> DEFINE P == { r \in Text : Alike(s \o r, t \o r) }
  <1>1. <<>> \in P
    <2>1. s \o <<>> = s /\ t \o <<>> = t
      BY ConcatEmptySeq DEF Text
    <2> QED BY <2>1 DEF Text
  <1>2. ASSUME NEW r \in Seq(Alphabet), NEW c \in Alphabet, r \in P PROVE Append(r, c) \in P
    <2>1. /\ s \o Append(r, c) = Append(s \o r, c) /\ s \o r \in Text
          /\ t \o Append(r, c) = Append(t \o r, c) /\ t \o r \in Text
          /\ Append(r, c) \in Text
      BY ChainMore DEF Text
    <2> DEFINE a == s \o r
               b == t \o r
    <2>2. a \in Text /\ b \in Text /\ Alike(a, b)
      BY <1>2, <2>1
    <2> HIDE DEF a, b
    <2>3. Flow(Append(a, c)) = Flow(a) \o Piece(Spaced(a), c)
          /\ Flow(Append(b, c)) = Flow(b) \o Piece(Spaced(b), c)
      BY <2>2, FlowMore
    <2>4. Piece(Spaced(a), c) = Piece(Spaced(b), c)
      BY <2>2 DEF Alike, Piece, Added
    <2>5. Spaced(Append(a, c)) <=> Spaced(Append(b, c))
      BY <2>2, SpacedMore
    <2>6. Alike(Append(a, c), Append(b, c))
      BY <2>2, <2>3, <2>4, <2>5 DEF Alike
    <2> QED BY <2>1, <2>6 DEF a, b
  <1> HIDE DEF P
  <1>3. \A r \in Seq(Alphabet) : r \in P
    BY <1>1, <1>2, AppendInduction
  <1> QED BY <1>3 DEF P, Text

(* Whitespace behind whitespace, or at the end of a line, changes nothing. *)
LEMMA SpaceInBody ==
    ASSUME NEW l \in Text, NEW r \in Text, NEW space \in WSP,
           Spaced(l) \/ r = <<>> \/ r[1] = CRLF
    PROVE  RelaxedBody((l \o <<space>>) \o r) = RelaxedBody(l \o r)
  <1> DEFINE w == l \o <<space>>
  <1>1. space \in Alphabet /\ space # CRLF /\ CRLF \in Alphabet
    BY Letters
  <1>2. w = Append(l, space) /\ w \in Text /\ Spaced(w)
    <2>1. Append(l, space) = l \o <<space>>
      BY <1>1, ChainMore
    <2>2. Append(l, space) \in Text /\ Spaced(Append(l, space))
      BY <1>1, SpacedMore
    <2> QED BY <2>1, <2>2
  <1>3. Flow(w) = Flow(l)
    <2>1. Flow(w) = Flow(l) \o Piece(Spaced(l), space) /\ Flow(l) \in Text
      BY <1>1, <1>2, FlowMore
    <2>2. Piece(Spaced(l), space) = <<>>
      BY <1>1 DEF Piece, Added
    <2> QED BY <2>1, <2>2, ConcatEmptySeq DEF Text
  <1> HIDE DEF w
  <1>4. w \o r \in Text /\ l \o r \in Text
    BY <1>2, ChainType
  <1>5. Flow(w \o r) = Flow(l \o r)
    <2>1. CASE Spaced(l)
      <3>1. Alike(w, l)
        BY <1>2, <1>3, <2>1 DEF Alike
      <3> QED BY <1>2, <3>1, AlikeMore DEF Alike
    <2>2. CASE r = <<>>
      <3>1. w \o r = w /\ l \o r = l
        BY <1>2, <2>2, ConcatEmptySeq DEF Text
      <3> QED BY <1>3, <3>1
    <2>3. CASE r # <<>> /\ r[1] = CRLF
      <3>1. PICK q \in Text : r = <<CRLF>> \o q
        <4> DEFINE one == SubSeq(r, 1, 1)
                   q   == SubSeq(r, 2, Len(r))
        <4>1. Len(r) \in Nat \ {0} /\ r \in Seq(Alphabet)
          BY <2>3 DEF Text
        <4>2. 1 \in Nat \ {0} /\ 2 \in Nat \ {0} /\ 1 \in 0 .. Len(r) /\ Len(r) \in 0 .. Len(r)
              /\ 1 <= 1 + 1 /\ 1 <= Len(r) /\ 1 + 1 = 2
          BY <4>1
        <4>3. one \o q = SubSeq(r, 1, Len(r))
          BY <4>1, <4>2, StretchJoin, ZenonT(30)
        <4>4. SubSeq(r, 1, Len(r)) = r
          BY <4>1, WholeStretch
        <4>5. q \in Text /\ one \in Seq(Alphabet) /\ Len(one) = 1 /\ one[1] = CRLF
          <5>1. q \in Seq(Alphabet)
            BY <4>1, <4>2, StretchType
          <5>2. /\ one \in Seq(Alphabet) /\ Len(one) = (IF 1 <= 1 THEN 1 - 1 + 1 ELSE 0)
                /\ \A j \in 1 .. (1 - 1 + 1) : one[j] = r[1 + j - 1]
            BY <4>1, <4>2, StretchType
          <5> HIDE DEF one, q
          <5> QED BY <2>3, <5>1, <5>2 DEF Text
        <4> HIDE DEF one, q
        <4>6. one = <<CRLF>>
          BY <4>5
        <4> QED BY <4>3, <4>4, <4>5, <4>6
      <3>2. /\ w \o r = (w \o <<CRLF>>) \o q /\ l \o r = (l \o <<CRLF>>) \o q
            /\ w \o <<CRLF>> = Append(w, CRLF) /\ l \o <<CRLF>> = Append(l, CRLF)
            /\ Append(w, CRLF) \in Text /\ Append(l, CRLF) \in Text
        <4>1. <<CRLF>> \in Text
          BY <1>1, OneType
        <4>2. ASSUME NEW a \in Text
              PROVE  a \o r = (a \o <<CRLF>>) \o q /\ a \o <<CRLF>> = Append(a, CRLF)
                     /\ Append(a, CRLF) \in Text
          <5>1. a \o (<<CRLF>> \o q) = (a \o <<CRLF>>) \o q
            BY <3>1, <4>1, ChainRegroup, ZenonT(30)
          <5>2. a \o <<CRLF>> = Append(a, CRLF) /\ Append(a, CRLF) \in Text
            BY <1>1, ChainMore
          <5> QED BY <3>1, <5>1, <5>2
        <4> QED BY <1>2, <4>2
      <3>3. Alike(Append(w, CRLF), Append(l, CRLF))
        <4>1. Flow(Append(w, CRLF)) = Flow(w) \o <<CRLF>>
              /\ Flow(Append(l, CRLF)) = Flow(l) \o <<CRLF>>
          BY <1>1, <1>2, FlowMore DEF Piece
        <4>2. ~Spaced(Append(w, CRLF)) /\ ~Spaced(Append(l, CRLF))
          BY <1>1, <1>2, SpacedMore, Letters
        <4> QED BY <1>3, <4>1, <4>2 DEF Alike
      <3>4. Alike(Append(w, CRLF) \o q, Append(l, CRLF) \o q)
        BY <3>1, <3>2, <3>3, AlikeMore
      <3> QED BY <3>2, <3>4 DEF Alike
    <2> QED BY <2>1, <2>2, <2>3
  <1> QED BY <1>4, <1>5, RelaxedIs DEF w

(* An empty line more at the end changes neither form.                     *)
LEMMA BlankInBody ==
    ASSUME NEW b \in Text
    PROVE  /\ RelaxedBody(Append(b, CRLF)) = RelaxedBody(b)
           /\ SimpleBody(Append(b, CRLF)) = SimpleBody(b)
  <1>1. CRLF \in Alphabet /\ Append(b, CRLF) \in Text /\ b \in Seq(Alphabet)
    BY Letters, ChainMore DEF Text
  <1>2. Flow(b) \in Text /\ Flow(Append(b, CRLF)) = Append(Flow(b), CRLF)
    <2>1. Flow(b) \in Text /\ Flow(Append(b, CRLF)) = Flow(b) \o <<CRLF>>
      BY <1>1, FlowMore DEF Piece
    <2>2. Append(Flow(b), CRLF) = Flow(b) \o <<CRLF>>
      BY <1>1, <2>1, ChainMore
    <2> QED BY <2>1, <2>2
  <1>3. UpToLast(Append(Flow(b), CRLF), CRLF) = UpToLast(Flow(b), CRLF)
    BY <1>1, <1>2, UpToMore DEF Text
  <1>4. UpToLast(Append(b, CRLF), CRLF) = UpToLast(b, CRLF)
    BY <1>1, UpToMore
  <1>5. RelaxedBody(Append(b, CRLF)) = RelaxedBody(b)
    BY <1>1, <1>2, <1>3, RelaxedIs DEF Ended
  <1> QED BY <1>4, <1>5, SimpleIs
-------------------------------------------------------------------------------
(* Text behind a line end. *)

WithLine(f) == Append(Append(f, CRLF), "v")

LEMMA WithLineFacts ==
    ASSUME NEW f \in Text
    PROVE  /\ UpToLast(WithLine(f), CRLF) = WithLine(f)
           /\ WithLine(f) # <<>> /\ WithLine(f) \in Text /\ UpToLast(f, CRLF) \in Text
           /\ Before(Append(UpToLast(f, CRLF), CRLF), Append(WithLine(f), CRLF))
  <1> DEFINE letter == "v"
             h == Append(f, CRLF)
             g == Append(h, letter)
             S == UpToLast(f, CRLF)
             B == Alphabet \cap {CRLF}
  <1>1. letter \in Alphabet /\ letter # CRLF /\ CRLF \in Alphabet
    BY Letters DEF CRLF
  <1> HIDE DEF letter
  <1>2. h \in Text /\ h = f \o <<CRLF>> /\ <<CRLF>> \in Text
    BY <1>1, ChainMore
  <1> HIDE DEF h
  <1>3. g \in Text /\ g = h \o <<letter>> /\ g # <<>> /\ <<letter>> \in Text
    BY <1>1, <1>2, ChainMore
  <1>4. UpToLast(g, CRLF) = g
    BY <1>1, <1>2, UpToSolid DEF Text
  <1> HIDE DEF g
  <1>5. S \in Text /\ \E z \in Seq(B) : f = S \o z
    <2>1. f \in Seq(Alphabet)
      BY DEF Text
    <2>2. \A s \in Seq(Alphabet) : /\ UpToLast(s, CRLF) \in Seq(Alphabet)
                                   /\ \E z \in Seq(B) : s = UpToLast(s, CRLF) \o z
      BY ONLY UpToRest, ZenonT(30)
    <2> QED BY <2>1, <2>2 DEF Text
  <1> HIDE DEF S, B
  <1>6. PICK z \in Seq(B) : f = S \o z
    BY <1>5
  <1>7. B \in SUBSET Alphabet /\ B \in SUBSET {CRLF} /\ CRLF \in B
    BY <1>1 DEF B
  <1>8. z \in Text /\ <<CRLF>> \in Seq(B)
    <2>1. z \in Text
      BY <1>7, SeqMonotonic DEF Text
    <2>2. <<CRLF>> \in Seq(B)
      BY <1>7, OneOf
    <2> QED BY <2>1, <2>2
  <1>9. z \o <<CRLF>> = <<CRLF>> \o z
    <2> DEFINE one == <<CRLF>>
               u == z \o one
               v == one \o z
    <2>1. one \in Seq(B) /\ Len(one) = 1 /\ Len(z) \in Nat
      BY <1>8
    <2> HIDE DEF one
    <2>2. u \in Seq(B) /\ Len(u) = Len(z) + Len(one)
      BY <2>1, ConcatProperties
    <2>3. v \in Seq(B) /\ Len(v) = Len(one) + Len(z)
      BY <2>1, ConcatProperties
    <2> HIDE DEF u, v
    <2>4. \A j \in 1 .. Len(u) : u[j] = v[j]
      <3>1. Len(u) = Len(v)
        BY <2>1, <2>2, <2>3
      <3>2. \A s \in Seq(B) : \A j \in 1 .. Len(s) : s[j] = CRLF
        BY <1>7
      <3> QED BY <2>2, <2>3, <3>1, <3>2
    <2>5. Len(u) = Len(v)
      BY <2>1, <2>2, <2>3
    <2>6. u = v
      BY <2>2, <2>3, <2>4, <2>5, SameSequence
    <2> QED BY <2>6 DEF u, v, one
  <1>10. h = Append(S, CRLF) \o z
    <2>1. h = (S \o z) \o <<CRLF>>
      BY <1>2, <1>6
    <2>2. (S \o z) \o <<CRLF>> = S \o (z \o <<CRLF>>)
      BY <1>2, <1>5, <1>8, ChainRegroup, SMTT(20)
    <2>3. S \o (<<CRLF>> \o z) = (S \o <<CRLF>>) \o z
      BY <1>2, <1>5, <1>8, ChainRegroup
    <2>4. S \o <<CRLF>> = Append(S, CRLF)
      BY <1>1, <1>5, ChainMore
    <2> QED BY <1>9, <2>1, <2>2, <2>3, <2>4
  <1>11. Append(S, CRLF) \in Text /\ Append(g, CRLF) = g \o <<CRLF>> /\ Append(g, CRLF) \in Text
    BY <1>1, <1>3, <1>5, ChainMore
  <1>12. Before(Append(S, CRLF), h)
    BY <1>8, <1>10, <1>11, BeforeFacts
  <1>13. Before(h, g) /\ Before(g, Append(g, CRLF))
    BY <1>2, <1>3, <1>11, BeforeFacts, ZenonT(30)
  <1>14. Before(Append(S, CRLF), Append(g, CRLF))
    BY <1>2, <1>3, <1>11, <1>12, <1>13, BeforeFacts
  <1> QED BY <1>3, <1>4, <1>5, <1>14 DEF WithLine, g, h, letter, S

(* The text an intermediary adds to a body.                                *)
More(b) == IF b # <<>> /\ Last(b) # CRLF THEN << CRLF, "v" >> ELSE << "v" >>

LEMMA TextInBody ==
    ASSUME NEW b \in Text
    PROVE  /\ b \o More(b) \in Text /\ b \o More(b) # <<>>
           /\ Before(RelaxedBody(b), RelaxedBody(b \o More(b)))
           /\ b # <<>> => Before(SimpleBody(b), SimpleBody(b \o More(b)))
  <1> DEFINE letter == "v"
  <1>1. letter \in Alphabet /\ letter # CRLF /\ CRLF \in Alphabet /\ letter \notin WSP
        /\ CRLF \notin WSP
    BY Letters DEF CRLF, WSP
  <1>2. ASSUME NEW f \in Text, UpToLast(b, CRLF) = UpToLast(f, CRLF),
               b \o More(b) = WithLine(f)
        PROVE  Before(SimpleBody(b), SimpleBody(b \o More(b)))
    BY <1>2, WithLineFacts, SimpleIs
  <1>3. ASSUME NEW f \in Text, NEW F, NEW H, Flow(b) = F, Flow(b \o More(b)) = H,
               UpToLast(F, CRLF) = UpToLast(f, CRLF), H = WithLine(f), b \o More(b) \in Text
        PROVE  Before(RelaxedBody(b), RelaxedBody(b \o More(b)))
    <2>1. RelaxedBody(b \o More(b)) = Append(WithLine(f), CRLF)
      BY <1>3, WithLineFacts, RelaxedIs DEF Ended
    <2>2. RelaxedBody(b) = <<>> \/ RelaxedBody(b) = Append(UpToLast(f, CRLF), CRLF)
      BY <1>3, RelaxedIs DEF Ended
    <2>3. Append(WithLine(f), CRLF) \in Text
      BY <1>1, WithLineFacts, ChainMore
    <2> QED BY <2>1, <2>2, <2>3, WithLineFacts, BeforeFacts
  <1>4. ASSUME NEW d \in Text
        PROVE  /\ Flow(Append(d, CRLF)) = Append(Flow(d), CRLF)
               /\ Flow(WithLine(d)) = WithLine(Flow(d)) /\ WithLine(d) \in Text /\ Flow(d) \in Text
    <2>1. Flow(d) \in Text /\ Flow(Append(d, CRLF)) = Flow(d) \o <<CRLF>>
      BY <1>1, FlowMore DEF Piece
    <2>2. Append(Flow(d), CRLF) = Flow(d) \o <<CRLF>>
      BY <1>1, <2>1, ChainMore
    <2> DEFINE e == Append(d, CRLF)
    <2>3. e \in Text /\ ~Spaced(e)
      BY <1>1, ChainMore DEF Spaced
    <2> HIDE DEF e
    <2>4. Flow(e) \in Text /\ Flow(Append(e, letter)) = Flow(e) \o Piece(Spaced(e), letter)
      BY <1>1, <2>3, FlowMore
    <2>5. Piece(Spaced(e), letter) = <<letter>>
      <3> HIDE DEF letter
      <3> QED BY <1>1, <2>3 DEF Piece, Added
    <2>6. Append(Flow(e), letter) = Flow(e) \o <<letter>> /\ Append(e, letter) \in Text
      <3> HIDE DEF letter
      <3> QED BY <1>1, <2>3, <2>4, ChainMore
    <2> QED BY <2>1, <2>2, <2>4, <2>5, <2>6 DEF WithLine, e
  <1>5. CASE b # <<>> /\ Last(b) # CRLF
    <2>1. b \o More(b) = WithLine(b)
      <3> HIDE DEF letter
      <3>1. More(b) = << CRLF, letter >>
        BY <1>5 DEF More, letter
      <3>2. << CRLF, letter >> = <<CRLF>> \o <<letter>>
        BY <1>1, PairOf
      <3>3. <<CRLF>> \in Text /\ <<letter>> \in Text
        BY <1>1, OneType
      <3>4. b \o (<<CRLF>> \o <<letter>>) = (b \o <<CRLF>>) \o <<letter>>
        BY <3>3, ChainRegroup
      <3>5. b \o <<CRLF>> = Append(b, CRLF) /\ Append(b, CRLF) \in Text
        BY <1>1, ChainMore
      <3>6. Append(b, CRLF) \o <<letter>> = Append(Append(b, CRLF), letter)
        BY <1>1, <3>5, ChainMore
      <3> QED BY <3>1, <3>2, <3>4, <3>5, <3>6 DEF WithLine, letter
    <2>2. b \o More(b) \in Text /\ b \o More(b) # <<>>
      BY <2>1, WithLineFacts
    <2>3. Flow(b \o More(b)) = WithLine(Flow(b)) /\ Flow(b) \in Text
      BY <1>4, <2>1
    <2> QED BY <1>2, <1>3, <2>1, <2>2, <2>3
  <1>6. CASE b # <<>> /\ Last(b) = CRLF
    <2>1. PICK d \in Text : b = Append(d, CRLF)
      BY <1>6, LastOff DEF Text
    <2>2. b \o More(b) = WithLine(d)
      <3> HIDE DEF letter
      <3>1. More(b) = << letter >>
        BY <1>6 DEF More, letter
      <3>2. b \o <<letter>> = Append(b, letter)
        BY <1>1, ChainMore
      <3> QED BY <2>1, <3>1, <3>2 DEF WithLine, letter
    <2>3. UpToLast(b, CRLF) = UpToLast(d, CRLF)
      BY <1>1, <2>1, UpToMore DEF Text
    <2>4. b \o More(b) \in Text /\ b \o More(b) # <<>>
      BY <2>1, <2>2, WithLineFacts
    <2>5. /\ Flow(b \o More(b)) = WithLine(Flow(d)) /\ Flow(d) \in Text
          /\ Flow(b) = Append(Flow(d), CRLF)
      BY <1>4, <2>1, <2>2
    <2>6. UpToLast(Flow(b), CRLF) = UpToLast(Flow(d), CRLF)
      BY <1>1, <2>5, UpToMore DEF Text
    <2> QED BY <1>2, <1>3, <2>1, <2>2, <2>3, <2>4, <2>5, <2>6
  <1>7. CASE b = <<>>
    <2>1. RelaxedBody(b) = <<>>
      BY <1>7, RelaxedIs, NothingFlows, UpToNothing DEF Ended
    <2>2. b \o More(b) = <<letter>> /\ <<letter>> \in Text
      BY <1>1, <1>7, OneType, ConcatEmptySeq DEF More, Text
    <2>3. RelaxedBody(<<letter>>) \in Text
      <3> HIDE DEF letter
      <3>1. Flow(<<letter>>) \in Text
        BY <1>1, <2>2, FlowMore
      <3>2. UpToLast(Flow(<<letter>>), CRLF) \in Text
        BY <3>1, UpToRest DEF Text
      <3>3. Ended(Flow(<<letter>>)) \in Text
        <4>1. <<>> \in Text
          BY DEF Text
        <4> QED BY <1>1, <3>2, <4>1, ChainMore DEF Ended
      <3> QED BY <2>2, <3>3, RelaxedIs
    <2> QED BY <1>7, <2>1, <2>2, <2>3, BeforeFacts
  <1> QED BY <1>5, <1>6, <1>7

-------------------------------------------------------------------------------
(* Normalizing, character by character, and what storing does. *)

(* The second half of a pair.                                              *)
Paired(x, c) == c = "LF" /\ x # <<>> /\ Last(x) = "CR"

Mapped(s) == ReplaceEach(ReplaceEach(s, "CR", "LF"), "LF", CRLF)

Left(s) ==
    LET paired == { p \in 2 .. Len(s) : s[p - 1] = "CR" /\ s[p] = "LF" }
    IN  [p \in DOMAIN s |-> IF p + 1 \in paired THEN <<>> ELSE <<s[p]>>]

LEMMA NormalizeIs == \A s : Normalize(s) = Mapped(FlattenSeq(Left(s)))
  BY DEF Normalize, Mapped, ReplacePair, Left

LEMMA ImageFacts == \A c \in Alphabet : Image(c) \in Clean /\ Image(c) \in Alphabet
  <1>1. CRLF \notin {"CR", "LF"} /\ CRLF \in Alphabet
    BY Letters DEF CRLF
  <1> QED BY <1>1 DEF Image, Clean

LEMMA MappedMore ==
    ASSUME NEW s \in Text, NEW c \in Alphabet
    PROVE  /\ Mapped(s) \in Text
           /\ Mapped(Append(s, c)) = Append(Mapped(s), Image(c))
  <1> DEFINE n == Len(s)
             t == Append(s, c)
  <1>1. /\ s \in Seq(Alphabet) /\ n \in Nat /\ t \in Seq(Alphabet) /\ Len(t) = n + 1
        /\ t[n + 1] = c /\ \A j \in 1 .. n : t[j] = s[j]
    BY AppendProperties DEF Text
  <1> HIDE DEF t
  <1>2. ASSUME NEW x \in Seq(Alphabet)
        PROVE  /\ Mapped(x) \in Text /\ Len(Mapped(x)) = Len(x)
               /\ \A j \in 1 .. Len(x) : Mapped(x)[j] = Image(x[j])
    <2>1. DOMAIN x = 1 .. Len(x) /\ Len(x) \in Nat
      OBVIOUS
    <2>2. Mapped(x) = [p \in 1 .. Len(x) |->
                         IF (IF x[p] = "CR" THEN "LF" ELSE x[p]) = "LF" THEN CRLF
                         ELSE IF x[p] = "CR" THEN "LF" ELSE x[p]]
      BY <2>1 DEF Mapped, ReplaceEach
    <2>3. ASSUME NEW j \in 1 .. Len(x) PROVE Mapped(x)[j] = Image(x[j])
      BY <2>2 DEF Image
    <2>4. ASSUME NEW j \in 1 .. Len(x) PROVE Mapped(x)[j] \in Alphabet
      <3>1. x[j] \in Alphabet
        BY <2>1
      <3> QED BY <2>3, <3>1, ImageFacts
    <2>5. Mapped(x) \in [1 .. Len(x) -> Alphabet]
      BY <2>2, <2>4
    <2> QED BY <2>1, <2>3, <2>5 DEF Text
  <1> DEFINE l == Mapped(t)
             r == Append(Mapped(s), Image(c))
  <1>3. Mapped(s) \in Seq(Alphabet) /\ Len(Mapped(s)) = n /\ Image(c) \in Alphabet
        /\ \A j \in 1 .. n : Mapped(s)[j] = Image(s[j])
    BY <1>1, <1>2, ImageFacts DEF Text
  <1>4. /\ r \in Seq(Alphabet) /\ Len(r) = n + 1 /\ r[n + 1] = Image(c)
        /\ \A j \in 1 .. n : r[j] = Mapped(s)[j]
    BY <1>3, AppendProperties
  <1>5. l \in Seq(Alphabet) /\ Len(l) = n + 1 /\ \A j \in 1 .. (n + 1) : l[j] = Image(t[j])
    BY <1>1, <1>2 DEF Text
  <1> HIDE DEF l, r, n
  <1>6. ASSUME NEW j \in 1 .. Len(l) PROVE l[j] = r[j]
    <2>1. j \in 1 .. n \/ j = n + 1
      BY <1>1, <1>5
    <2>2. j \in 1 .. (n + 1)
      BY <1>5
    <2> QED BY <1>1, <1>3, <1>4, <1>5, <2>1, <2>2
  <1>7. l = r
    BY <1>4, <1>5, <1>6, SameSequence
  <1> QED BY <1>2, <1>1, <1>7 DEF l, r, t

LEMMA LeftFacts ==
    ASSUME NEW s \in Text
    PROVE  /\ Left(s) \in [1 .. Len(s) -> Seq(Alphabet)] /\ Len(s) \in Nat
           /\ \A p \in 1 .. Len(s) :
                 Left(s)[p] = IF p < Len(s) /\ s[p] = "CR" /\ s[p + 1] = "LF" THEN <<>>
                              ELSE <<s[p]>>
  <1>1. DOMAIN s = 1 .. Len(s) /\ Len(s) \in Nat /\ \A p \in 1 .. Len(s) : s[p] \in Alphabet
    BY DEF Text
  <1> DEFINE paired == { p \in 2 .. Len(s) : s[p - 1] = "CR" /\ s[p] = "LF" }
  <1>2. Left(s) = [p \in 1 .. Len(s) |-> IF p + 1 \in paired THEN <<>> ELSE <<s[p]>>]
    BY <1>1 DEF Left
  <1>3. ASSUME NEW p \in 1 .. Len(s)
        PROVE  p + 1 \in paired <=> p < Len(s) /\ s[p] = "CR" /\ s[p + 1] = "LF"
    <2>1. p + 1 - 1 = p /\ (p + 1 \in 2 .. Len(s) <=> p < Len(s))
      BY <1>1
    <2> QED BY <2>1
  <1> HIDE DEF paired
  <1>4. ASSUME NEW p \in 1 .. Len(s)
        PROVE  Left(s)[p] = IF p < Len(s) /\ s[p] = "CR" /\ s[p + 1] = "LF" THEN <<>>
                            ELSE <<s[p]>>
    BY <1>2, <1>3
  <1>5. ASSUME NEW p \in 1 .. Len(s) PROVE Left(s)[p] \in Seq(Alphabet)
    <2>1. <<s[p]>> \in Seq(Alphabet) /\ <<>> \in Seq(Alphabet)
      BY <1>1
    <2> QED BY <1>4, <2>1
  <1>6. Left(s) \in [1 .. Len(s) -> Seq(Alphabet)]
    BY <1>2, <1>5
  <1> QED BY <1>1, <1>4, <1>6

(* One character more for Normalize.                                       *)
LEMMA NormalizeMore ==
    ASSUME NEW x \in Text, NEW c \in Alphabet
    PROVE  Normalize(Append(x, c)) = IF Paired(x, c) THEN Normalize(x)
                                     ELSE Append(Normalize(x), Image(c))
  <1> DEFINE n == Len(x)
             t == Append(x, c)
             front == [p \in 1 .. n |-> Left(t)[p]]
  <1>1. /\ x \in Seq(Alphabet) /\ n \in Nat /\ t \in Text /\ Len(t) = n + 1
        /\ t[n + 1] = c /\ \A j \in 1 .. n : t[j] = x[j]
    BY AppendProperties DEF Text
  <1> HIDE DEF t
  <1>2. /\ Left(t) \in [1 .. (n + 1) -> Seq(Alphabet)]
        /\ \A p \in 1 .. (n + 1) :
              Left(t)[p] = IF p < n + 1 /\ t[p] = "CR" /\ t[p + 1] = "LF" THEN <<>> ELSE <<t[p]>>
    BY <1>1, LeftFacts
  <1>3. /\ Left(x) \in [1 .. n -> Seq(Alphabet)]
        /\ \A p \in 1 .. n :
              Left(x)[p] = IF p < n /\ x[p] = "CR" /\ x[p + 1] = "LF" THEN <<>> ELSE <<x[p]>>
    BY LeftFacts
  <1> HIDE DEF n
  <1>4. Left(t)[n + 1] = <<c>> /\ <<c>> \in Text
    <2>1. n + 1 \in 1 .. (n + 1) /\ ~(n + 1 < n + 1)
      BY <1>1
    <2> QED BY <1>1, <1>2, <2>1, OneType
  <1>5. FlattenSeq(Left(t)) = FlattenSeq(front) \o <<c>>
    <2>1. front = [p \in 1 .. n |-> Left(t)[p]]
      OBVIOUS
    <2> HIDE DEF front
    <2> QED BY <1>1, <1>2, <1>4, <2>1, FlattenStep
  <1>6. front \in [1 .. n -> Seq(Alphabet)]
    <2>1. \A p \in 1 .. n : p \in 1 .. (n + 1)
      BY <1>1
    <2> QED BY <1>2, <2>1
  <1>7. ASSUME NEW p \in 1 .. n, p < n PROVE front[p] = Left(x)[p]
    <2>1. p \in 1 .. (n + 1) /\ p < n + 1 /\ p + 1 \in 1 .. n
      BY <1>1, <1>7
    <2> QED BY <1>1, <1>2, <1>3, <1>7, <2>1
  <1>8. n # 0 => /\ front[n] = IF x[n] = "CR" /\ c = "LF" THEN <<>> ELSE <<x[n]>>
                 /\ Left(x)[n] = <<x[n]>> /\ x[n] \in Alphabet /\ x # <<>> /\ Last(x) = x[n]
    <2> SUFFICES ASSUME n # 0
                 PROVE  /\ front[n] = IF x[n] = "CR" /\ c = "LF" THEN <<>> ELSE <<x[n]>>
                        /\ Left(x)[n] = <<x[n]>> /\ x[n] \in Alphabet
                        /\ x # <<>> /\ Last(x) = x[n]
      OBVIOUS
    <2>1. n \in 1 .. n /\ n \in 1 .. (n + 1) /\ n < n + 1 /\ ~(n < n)
      BY <1>1
    <2> QED BY <1>1, <1>2, <1>3, <2>1 DEF Last, n
  <1>9. FlattenSeq(front) \in Text /\ FlattenSeq(Left(x)) \in Text
    BY <1>1, <1>3, <1>6, FlattenType DEF Text
  <1>10. CASE Paired(x, c)
    <2>1. n # 0 /\ x[n] = "CR" /\ c = "LF"
      BY <1>1, <1>10 DEF Paired, Last, n
    <2> DEFINE m == n - 1
               most == [p \in 1 .. m |-> front[p]]
    <2>2. m \in Nat /\ m + 1 = n /\ \A p \in 1 .. m : p \in 1 .. n /\ p < n
      BY <1>1, <2>1
    <2>3. most = [p \in 1 .. m |-> Left(x)[p]] /\ most \in [1 .. m -> Seq(Alphabet)]
      BY <1>6, <1>7, <2>2
    <2>4. most = [p \in 1 .. m |-> front[p]]
      OBVIOUS
    <2> HIDE DEF m, most, front
    <2>5. FlattenSeq(front) = FlattenSeq(most) \o <<>>
      <3>1. front \in [1 .. (m + 1) -> Seq(Alphabet)] /\ front[m + 1] = <<>>
        BY <1>6, <1>8, <2>1, <2>2
      <3> QED BY <2>2, <2>4, <3>1, FlattenStep
    <2> DEFINE cr == "CR"
    <2>6. FlattenSeq(Left(x)) = FlattenSeq(most) \o <<cr>> /\ cr \in Alphabet
      <3>1. Left(x) \in [1 .. (m + 1) -> Seq(Alphabet)] /\ Left(x)[m + 1] = <<x[n]>>
        BY <1>3, <1>8, <2>1, <2>2
      <3>2. FlattenSeq(Left(x)) = FlattenSeq(most) \o Left(x)[m + 1]
        BY <2>2, <2>3, <3>1, FlattenStep
      <3> QED BY <2>1, <3>1, <3>2, Letters
    <2> HIDE DEF cr
    <2>7. FlattenSeq(most) \in Text
      BY <2>2, <2>3, FlattenType DEF Text
    <2> DEFINE y == FlattenSeq(most)
    <2>8. FlattenSeq(Left(t)) = Append(y, c) /\ FlattenSeq(Left(x)) = Append(y, cr) /\ y \in Text
      <3>1. y \o <<>> = y
        BY <2>7, ConcatEmptySeq DEF Text
      <3>2. Append(y, c) = y \o <<c>> /\ Append(y, cr) = y \o <<cr>>
        BY <2>6, <2>7, ChainMore
      <3> QED BY <1>5, <2>5, <2>6, <2>7, <3>1, <3>2
    <2> HIDE DEF y
    <2>9. Mapped(Append(y, c)) = Append(Mapped(y), Image(c))
          /\ Mapped(Append(y, cr)) = Append(Mapped(y), Image(cr))
      BY <2>6, <2>8, MappedMore
    <2>10. Image(c) = Image(cr)
      BY <2>1 DEF Image, cr
    <2> QED BY <1>10, <2>8, <2>9, <2>10, NormalizeIs DEF t
  <1>11. CASE ~Paired(x, c)
    <2>1. n # 0 => ~(x[n] = "CR" /\ c = "LF")
      BY <1>8, <1>11 DEF Paired
    <2>2. ASSUME NEW p \in 1 .. n PROVE front[p] = Left(x)[p]
      <3>1. p < n \/ p = n
        BY <1>1
      <3>2. n # 0
        BY <1>1
      <3> QED BY <1>7, <1>8, <2>1, <3>1, <3>2
    <2>3. front = Left(x)
      BY <1>3, <1>6, <2>2
    <2> DEFINE y == FlattenSeq(Left(x))
    <2>4. FlattenSeq(Left(t)) = Append(y, c) /\ y \in Text
      <3>1. Append(y, c) = y \o <<c>>
        BY <1>9, ChainMore
      <3> QED BY <1>5, <1>9, <2>3, <3>1
    <2> HIDE DEF y
    <2>5. Mapped(Append(y, c)) = Append(Mapped(y), Image(c))
      BY <2>4, MappedMore
    <2>6. Normalize(t) = Mapped(Append(y, c)) /\ Normalize(x) = Mapped(y)
      BY <2>4, NormalizeIs DEF y
    <2> QED BY <1>11, <2>5, <2>6 DEF t
  <1> QED BY <1>10, <1>11

LEMMA NormalizeNothing == Normalize(<<>>) = <<>>
  <1>1. Left(<<>>) = <<>>
    BY DEF Left
  <1>2. Mapped(<<>>) = <<>>
    BY DEF Mapped, ReplaceEach
  <1> QED BY <1>1, <1>2, FlattenEmpty, NormalizeIs

-------------------------------------------------------------------------------
LEMMA CleanText ==
    /\ \A w \in Seq(Clean) : w \in Text
    /\ Clean \in SUBSET Alphabet /\ CRLF \in Clean
    /\ \A c \in Clean : Image(c) = c /\ c # "CR" /\ c # "LF" /\ ~(\E x : Paired(x, c))
  <1>1. Clean \in SUBSET Alphabet
    BY DEF Clean
  <1>2. \A w \in Seq(Clean) : w \in Text
    BY <1>1, SeqMonotonic DEF Text
  <1>3. CRLF \in Clean
    BY Letters DEF Clean, CRLF
  <1>4. \A c \in Clean : Image(c) = c /\ c # "CR" /\ c # "LF" /\ ~(\E x : Paired(x, c))
    BY DEF Clean, Image, Paired
  <1> QED BY <1>1, <1>2, <1>3, <1>4

(* A normalized message has no single line end characters,                 *)
LEMMA NormalizeCleans == \A x \in Text : Normalize(x) \in Seq(Clean)
  <1> DEFINE P == { x \in Text : Normalize(x) \in Seq(Clean) }
  <1>1. <<>> \in P
    <2>1. <<>> \in Text /\ <<>> \in Seq(Clean)
      BY DEF Text
    <2> QED BY <2>1, NormalizeNothing
  <1>2. ASSUME NEW x \in Seq(Alphabet), NEW c \in Alphabet, x \in P PROVE Append(x, c) \in P
    <2>1. x \in Text /\ Append(x, c) \in Text /\ Normalize(x) \in Seq(Clean)
      BY <1>2, ChainMore
    <2>2. Image(c) \in Clean
      BY ImageFacts
    <2>3. Append(Normalize(x), Image(c)) \in Seq(Clean)
      BY <2>1, <2>2, AppendProperties
    <2>4. Normalize(Append(x, c)) \in Seq(Clean)
      BY <2>1, <2>3, NormalizeMore
    <2> QED BY <2>1, <2>4
  <1> HIDE DEF P
  <1>3. \A s \in Seq(Alphabet) : s \in P
    BY <1>1, <1>2, AppendInduction
  <1> QED BY <1>3 DEF P, Text

(* and what has none is normalized.                                        *)
LEMMA CleanStays == \A w \in Seq(Clean) : Normalize(w) = w
  <1> DEFINE P == { w \in Seq(Clean) : Normalize(w) = w }
  <1>1. <<>> \in P
    BY NormalizeNothing
  <1>2. ASSUME NEW w \in Seq(Clean), NEW c \in Clean, w \in P PROVE Append(w, c) \in P
    <2>1. w \in Text /\ c \in Alphabet /\ Image(c) = c /\ ~Paired(w, c) /\ Normalize(w) = w
      BY <1>2, CleanText
    <2>2. Normalize(Append(w, c)) = Append(w, c)
      BY <2>1, NormalizeMore
    <2>3. Append(w, c) \in Seq(Clean)
      BY AppendProperties
    <2> QED BY <2>2, <2>3
  <1> HIDE DEF P
  <1>3. \A s \in Seq(Clean) : s \in P
    BY <1>1, <1>2, AppendInduction
  <1> QED BY <1>3 DEF P

(* Line ends stored in one of the ways intermediaries have.                *)
Ends(s) == { p \in DOMAIN s : s[p] = CRLF }
With(s, f) == FlattenSeq([p \in DOMAIN s |-> IF p \in Ends(s) THEN f[p] ELSE <<s[p]>>])

Endings(lone) == IF lone THEN {<<"CR">>} ELSE {<<"CR", "LF">>, <<"LF">>}

LEMMA EndingIs ==
    ASSUME NEW x \in Text, NEW lone \in BOOLEAN, NEW e \in Endings(lone),
           lone \/ x = <<>> \/ Last(x) # "CR"
    PROVE  /\ x \o e \in Text /\ Normalize(x \o e) = Append(Normalize(x), CRLF)
           /\ lone \/ Last(x \o e) # "CR"
  <1> DEFINE cr == "CR"
             lf == "LF"
  <1>1. cr \in Alphabet /\ lf \in Alphabet /\ lf # cr /\ Image(cr) = CRLF /\ Image(lf) = CRLF
    BY Letters DEF Image
  <1>2. ~Paired(x, cr)
    BY DEF Paired
  <1>3. \A y : Paired(y, lf) <=> y # <<>> /\ Last(y) = cr
    BY DEF Paired
  <1>4. lone => e = <<cr>>
    BY DEF Endings
  <1>5. ~lone => (e = << cr, lf >> \/ e = << lf >>) /\ (x = <<>> \/ Last(x) # cr)
    BY DEF Endings
  <1>6. (Last(x \o e) # "CR") <=> (Last(x \o e) # cr)
    OBVIOUS
  <1> HIDE DEF cr, lf
  <1>7. x \o <<cr>> = Append(x, cr) /\ x \o <<lf>> = Append(x, lf)
        /\ Append(x, cr) \in Text /\ Append(x, lf) \in Text
    BY <1>1, ChainMore
  <1>8. Normalize(Append(x, cr)) = Append(Normalize(x), CRLF)
    BY <1>1, <1>2, NormalizeMore
  <1>9. CASE lone
    BY <1>4, <1>7, <1>8, <1>9
  <1>10. CASE ~lone /\ e = << lf >>
    <2>1. ~Paired(x, lf)
      BY <1>3, <1>5, <1>10
    <2>2. Normalize(Append(x, lf)) = Append(Normalize(x), CRLF)
      BY <1>1, <2>1, NormalizeMore
    <2>3. Last(Append(x, lf)) = lf
      BY <1>1, ChainMore
    <2> QED BY <1>1, <1>6, <1>7, <1>10, <2>2, <2>3
  <1>11. CASE ~lone /\ e = << cr, lf >>
    <2> DEFINE y == Append(x, cr)
    <2>1. y \in Text /\ y # <<>> /\ Last(y) = cr /\ y = x \o <<cr>>
      BY <1>1, ChainMore
    <2> HIDE DEF y
    <2>2. Paired(y, lf)
      BY <1>3, <2>1
    <2>3. Normalize(Append(y, lf)) = Normalize(y)
      BY <1>1, <2>1, <2>2, NormalizeMore
    <2>4. Append(y, lf) = y \o <<lf>> /\ Append(y, lf) \in Text /\ Last(Append(y, lf)) = lf
      BY <1>1, <2>1, ChainMore
    <2>5. x \o e = Append(y, lf)
      <3>1. e = <<cr>> \o <<lf>>
        BY <1>1, <1>11, PairOf
      <3>2. <<cr>> \in Text /\ <<lf>> \in Text
        BY <1>1, OneType
      <3>3. x \o (<<cr>> \o <<lf>>) = (x \o <<cr>>) \o <<lf>>
        BY <3>2, ChainRegroup
      <3> QED BY <2>1, <2>4, <3>1, <3>3
    <2> QED BY <1>1, <1>6, <1>8, <2>3, <2>4, <2>5 DEF y
  <1> QED BY <1>5, <1>9, <1>10, <1>11

LEMMA EndingType ==
    ASSUME NEW lone \in BOOLEAN, NEW e \in Endings(lone)
    PROVE  e \in Text
  <1>1. <<"CR", "LF">> \in Text /\ <<"LF">> \in Text /\ <<"CR">> \in Text
    BY Letters DEF Text
  <1> QED BY <1>1 DEF Endings

(* However the line ends are stored, they are normalized again.            *)
LEMMA WithIs ==
    ASSUME NEW lone \in BOOLEAN
    PROVE  \A w \in Seq(Clean) : \A f :
              (\A p \in Ends(w) : f[p] \in Endings(lone))
                 => /\ With(w, f) \in Text /\ Normalize(With(w, f)) = w
                    /\ lone \/ With(w, f) = <<>> \/ Last(With(w, f)) # "CR"
  <1> DEFINE Good(w, f) == /\ With(w, f) \in Text /\ Normalize(With(w, f)) = w
                           /\ lone \/ With(w, f) = <<>> \/ Last(With(w, f)) # "CR"
             Fits(w, f) == \A p \in Ends(w) : f[p] \in Endings(lone)
             P == { w \in Seq(Clean) : \A f : Fits(w, f) => Good(w, f) }
  <1>1. <<>> \in P
    <2>1. ASSUME NEW f PROVE With(<<>>, f) = <<>>
      <3>1. [p \in DOMAIN <<>> |-> IF p \in Ends(<<>>) THEN f[p] ELSE <<(<<>>)[p]>>] = <<>>
        OBVIOUS
      <3> QED BY <3>1, FlattenEmpty DEF With
    <2>2. <<>> \in Text
      BY DEF Text
    <2> QED BY <2>1, <2>2, NormalizeNothing
  <1>2. ASSUME NEW w \in Seq(Clean), NEW c \in Clean, w \in P PROVE Append(w, c) \in P
    <2> DEFINE v == Append(w, c)
               n == Len(w)
    <2>1. /\ v \in Seq(Clean) /\ Len(v) = n + 1 /\ v[n + 1] = c /\ n \in Nat
          /\ \A j \in 1 .. n : v[j] = w[j]
      BY AppendProperties
    <2>2. DOMAIN w = 1 .. n /\ DOMAIN v = 1 .. (n + 1) /\ w \in Text /\ v \in Text
      <3> HIDE DEF v
      <3>1. w \in Text /\ v \in Text
        BY <2>1, CleanText
      <3> QED BY <2>1, <3>1
    <2> HIDE DEF v
    <2> SUFFICES ASSUME NEW f, Fits(v, f) PROVE Good(v, f)
      BY <2>1 DEF v
    <2>3. /\ \A p \in 1 .. n : p \in 1 .. (n + 1) /\ (p \in Ends(v) <=> p \in Ends(w))
          /\ \A p \in Ends(w) : p \in 1 .. n
          /\ n + 1 \in Ends(v) <=> c = CRLF
      BY <2>1, <2>2 DEF Ends
    <2>4. Fits(w, f)
      BY <2>3
    <2> DEFINE e == IF c = CRLF THEN f[n + 1] ELSE <<c>>
               x == With(w, f)
               front == [p \in 1 .. n |-> IF p \in Ends(w) THEN f[p] ELSE <<w[p]>>]
               whole == [p \in 1 .. (n + 1) |-> IF p \in Ends(v) THEN f[p] ELSE <<v[p]>>]
    <2>5. x \in Text /\ Normalize(x) = w /\ (lone \/ x = <<>> \/ Last(x) # "CR")
      BY <1>2, <2>4
    <2>6. x = FlattenSeq(front) /\ With(v, f) = FlattenSeq(whole)
      BY <2>2 DEF With
    <2>7. whole \in [1 .. (n + 1) -> Seq(Alphabet)] /\ whole[n + 1] = e
      <3>1. ASSUME NEW p \in 1 .. (n + 1)
            PROVE  (IF p \in Ends(v) THEN f[p] ELSE <<v[p]>>) \in Seq(Alphabet)
        <4>1. p \in Ends(v) => f[p] \in Seq(Alphabet)
          BY EndingType DEF Text
        <4>2. v[p] \in Alphabet
          BY <2>1, <2>2 DEF Text
        <4>3. <<v[p]>> \in Seq(Alphabet)
          BY <4>2
        <4> QED BY <4>1, <4>3
      <3>2. n + 1 \in 1 .. (n + 1)
        BY <2>1
      <3> QED BY <2>1, <2>3, <3>1, <3>2
    <2>8. front = [p \in 1 .. n |-> whole[p]]
      BY <2>1, <2>3
    <2> HIDE DEF front, whole, x, e
    <2>9. With(v, f) = x \o e
      BY <2>1, <2>6, <2>7, <2>8, FlattenStep
    <2>10. CASE c = CRLF
      <3>1. e \in Endings(lone)
        BY <2>3, <2>10 DEF e
      <3>2. /\ x \o e \in Text /\ Normalize(x \o e) = Append(Normalize(x), CRLF)
            /\ lone \/ Last(x \o e) # "CR"
        BY <2>5, <3>1, EndingIs
      <3> QED BY <2>5, <2>9, <2>10, <3>2 DEF v
    <2>11. CASE c # CRLF
      <3>1. e = <<c>> /\ c \in Alphabet /\ ~Paired(x, c) /\ Image(c) = c /\ c # "CR"
        BY <2>11, CleanText DEF e
      <3>2. Append(x, c) = x \o <<c>> /\ Append(x, c) \in Text /\ Last(Append(x, c)) = c
        BY <2>5, <3>1, ChainMore
      <3>3. Normalize(Append(x, c)) = Append(Normalize(x), c)
        BY <2>5, <3>1, NormalizeMore
      <3> QED BY <2>5, <2>9, <3>1, <3>2, <3>3 DEF v
    <2> QED BY <2>10, <2>11
  <1> HIDE DEF P
  <1>3. \A s \in Seq(Clean) : s \in P
    BY <1>1, <1>2, AppendInduction
  <1> QED BY <1>3 DEF P

LEMMA StoredIs ==
    ASSUME NEW w \in Seq(Clean), NEW text \in Encodings(w)
    PROVE  text \in Text /\ Normalize(text) = w
  <1> DEFINE lf == <<"LF">>
             cr == <<"CR">>
             both == <<"CR", "LF">>
             all == [p \in Ends(w) |-> cr]
  <1>1. Endings(TRUE) = {cr} /\ Endings(FALSE) = {both, lf}
    BY DEF Endings
  <1>2. text \in { With(w, f) : f \in [Ends(w) -> {both, lf}] } \cup { With(w, all) }
    BY DEF Encodings, With, Ends
  <1> HIDE DEF lf, cr, both
  <1>3. CASE text = With(w, all)
    <2>1. \A p \in Ends(w) : all[p] \in Endings(TRUE)
      BY <1>1
    <2> HIDE DEF all
    <2> QED BY <1>3, <2>1, WithIs
  <1>4. CASE \E f \in [Ends(w) -> {both, lf}] : text = With(w, f)
    <2>1. PICK f \in [Ends(w) -> {both, lf}] : text = With(w, f)
      BY <1>4
    <2>2. \A p \in Ends(w) : f[p] \in Endings(FALSE)
      BY <1>1
    <2> QED BY <2>1, <2>2, WithIs
  <1> QED BY <1>2, <1>3, <1>4

-------------------------------------------------------------------------------
(* The first empty line and the body behind it. *)

LEMMA OpensBlank ==
    ASSUME NEW w \in Text
    PROVE  IsPrefix(<<CRLF>>, w) <=> w # <<>> /\ w[1] = CRLF
  <1>1. Len(w) \in Nat /\ (w # <<>> <=> Len(w) >= 1)
    BY DEF Text
  <1> QED BY <1>1, EndsWith

LEMMA StartIs ==
    ASSUME NEW w \in Text
    PROVE  /\ \A e : FirstBlank(w, e) => StartOf(w) = e + 1 /\ Cut(w) = SubSeq(w, e + 1, Len(w))
           /\ NoBlank(w) => StartOf(w) = Len(w) + 2 /\ Cut(w) = <<>>
           /\ NoBlank(w) \/ \E e : FirstBlank(w, e)
  <1>1. w \in Seq(Alphabet) /\ Len(w) \in Nat /\ (w # <<>> <=> 1 <= Len(w))
    BY DEF Text
  <1>2. IsPrefix(<<CRLF>>, w) <=> w # <<>> /\ w[1] = CRLF
    BY OpensBlank
  <1>3. CASE w # <<>> /\ w[1] = CRLF
    <2>1. StartOf(w) = 2 /\ Cut(w) = Tail(w)
      BY <1>2, <1>3 DEF StartOf, Cut
    <2>2. Tail(w) = SubSeq(w, 2, Len(w))
      BY <1>1, <1>3
    <2>3. FirstBlank(w, 1)
      BY <1>1, <1>3 DEF FirstBlank, Blank
    <2>4. \A e : FirstBlank(w, e) => e = 1
      <3> SUFFICES ASSUME NEW e, FirstBlank(w, e), e # 1 PROVE FALSE
        OBVIOUS
      <3>1. 1 \in 1 .. (e - 1)
        BY <1>1 DEF FirstBlank
      <3> QED BY <1>3, <3>1 DEF FirstBlank, Blank
    <2>5. ~NoBlank(w)
      BY <2>3 DEF NoBlank, FirstBlank
    <2> QED BY <2>1, <2>2, <2>3, <2>4, <2>5
  <1>4. CASE ~(w # <<>> /\ w[1] = CRLF) /\ Gaps(w) # {}
    <2> DEFINE g == Min(Gaps(w))
    <2>1. StartOf(w) = g + 2 /\ Cut(w) = SubSeq(w, g + 2, Len(w))
      BY <1>2, <1>4 DEF StartOf, Cut
    <2>2. g \in 1 .. (Len(w) - 1) /\ w[g] = CRLF /\ w[g + 1] = CRLF /\ NoGapBefore(w, g)
      BY <1>4, FirstGap
    <2> HIDE DEF g
    <2>3. FirstBlank(w, g + 1)
      <3>1. g + 1 \in 1 .. Len(w) /\ g + 1 - 1 = g
        BY <1>1, <2>2
      <3>2. ASSUME NEW d \in 1 .. g PROVE ~Blank(w, d)
        <4>1. CASE d = 1
          BY <1>1, <1>4, <2>2, <4>1 DEF Blank
        <4>2. CASE d # 1
          <5>1. d - 1 \in 1 .. (g - 1) /\ d - 1 + 1 = d
            BY <2>2, <4>2
          <5> QED BY <2>2, <4>2, <5>1 DEF NoGapBefore, Blank
        <4> QED BY <4>1, <4>2
      <3> QED BY <2>2, <3>1, <3>2 DEF FirstBlank, Blank
    <2>4. \A e : FirstBlank(w, e) => e = g + 1
      <3> SUFFICES ASSUME NEW e, FirstBlank(w, e), e # g + 1 PROVE FALSE
        OBVIOUS
      <3>1. e \in 1 .. Len(w) /\ Blank(w, e) /\ Blank(w, g + 1)
        BY <2>3 DEF FirstBlank
      <3>2. e \in 1 .. (g + 1 - 1) \/ g + 1 \in 1 .. (e - 1)
        BY <1>1, <2>2, <3>1
      <3> QED BY <2>3, <3>1, <3>2 DEF FirstBlank
    <2>5. ~NoBlank(w)
      BY <2>3 DEF NoBlank, FirstBlank
    <2>6. g + 1 + 1 = g + 2
      BY <2>2
    <2> QED BY <2>1, <2>3, <2>4, <2>5, <2>6
  <1>5. CASE ~(w # <<>> /\ w[1] = CRLF) /\ Gaps(w) = {}
    <2>1. StartOf(w) = Len(w) + 2 /\ Cut(w) = <<>>
      BY <1>2, <1>5 DEF StartOf, Cut
    <2>2. ASSUME NEW e \in 1 .. Len(w) PROVE ~Blank(w, e)
      <3>1. CASE e = 1
        BY <1>1, <1>5, <3>1 DEF Blank
      <3>2. CASE e # 1
        <4>1. e - 1 \in 1 .. (Len(w) - 1) /\ e - 1 + 1 = e
          BY <1>1, <3>2
        <4>2. ~(w[e - 1] = CRLF /\ w[e] = CRLF)
          BY <1>5, <4>1 DEF Gaps
        <4> QED BY <3>2, <4>2 DEF Blank
      <3> QED BY <3>1, <3>2
    <2> QED BY <2>1, <2>2 DEF NoBlank, FirstBlank
  <1> QED BY <1>3, <1>4, <1>5

(* A header block with the empty line behind it, and a body.               *)
LEMMA HeadCut ==
    ASSUME NEW u \in Text, NEW t \in Text, FirstBlank(u, Len(u))
    PROVE  u \o t \in Text /\ FirstBlank(u \o t, Len(u)) /\ Cut(u \o t) = t
           /\ StartOf(u \o t) = Len(u) + 1
  <1> DEFINE w == u \o t
             e == Len(u)
  <1>1. /\ u \in Seq(Alphabet) /\ t \in Seq(Alphabet) /\ w \in Seq(Alphabet)
        /\ e \in Nat \ {0} /\ Len(w) = e + Len(t) /\ Len(t) \in Nat
        /\ \A j \in 1 .. e : w[j] = u[j]
    <2>1. u \in Seq(Alphabet) /\ t \in Seq(Alphabet)
      BY DEF Text
    <2>2. /\ w \in Seq(Alphabet) /\ Len(w) = Len(u) + Len(t)
          /\ \A i \in 1 .. (Len(u) + Len(t)) : w[i] = IF i <= Len(u) THEN u[i] ELSE t[i - Len(u)]
      BY <2>1, ConcatProperties
    <2>3. Len(u) \in Nat \ {0} /\ Len(t) \in Nat
      BY <2>1 DEF FirstBlank
    <2> HIDE DEF w
    <2>4. \A j \in 1 .. e : j \in 1 .. (Len(u) + Len(t)) /\ j <= Len(u)
      BY <2>3
    <2> QED BY <2>1, <2>2, <2>3, <2>4
  <1>2. SubSeq(w, e + 1, Len(w)) = t
    BY <1>1, BackStretch
  <1> HIDE DEF w
  <1>3. ASSUME NEW d \in 1 .. e PROVE Blank(w, d) <=> Blank(u, d)
    <2>1. d # 1 => d - 1 \in 1 .. e
      BY <1>1
    <2> QED BY <1>1, <2>1 DEF Blank
  <1>4. FirstBlank(w, e)
    <2>1. e \in 1 .. Len(w) /\ e \in 1 .. e /\ \A d \in 1 .. (e - 1) : d \in 1 .. e
      BY <1>1
    <2> QED BY <1>3, <2>1 DEF FirstBlank
  <1>5. w \in Text
    BY <1>1 DEF Text
  <1>6. Cut(w) = t /\ StartOf(w) = e + 1
    BY <1>2, <1>4, <1>5, StartIs
  <1> QED BY <1>4, <1>5, <1>6 DEF w

LEMMA CutOff ==
    ASSUME NEW w \in Text, NEW e, FirstBlank(w, e)
    PROVE  /\ SubSeq(w, 1, e) \in Text /\ Len(SubSeq(w, 1, e)) = e
           /\ FirstBlank(SubSeq(w, 1, e), e) /\ Cut(w) \in Text
           /\ w = SubSeq(w, 1, e) \o Cut(w) /\ e \in Nat \ {0}
  <1> DEFINE u == SubSeq(w, 1, e)
             t == SubSeq(w, e + 1, Len(w))
  <1>1. /\ w \in Seq(Alphabet) /\ Len(w) \in Nat /\ e \in 1 .. Len(w) /\ e \in 0 .. Len(w)
        /\ 1 \in Nat \ {0} /\ e + 1 \in Nat \ {0} /\ Len(w) \in 0 .. Len(w) /\ e - 1 + 1 = e
        /\ 1 <= e + 1 /\ e <= Len(w)
    BY DEF Text, FirstBlank
  <1>2. u \in Seq(Alphabet) /\ Len(u) = e /\ \A j \in 1 .. e : u[j] = w[j]
    <2>1. /\ u \in Seq(Alphabet) /\ Len(u) = (IF 1 <= e THEN e - 1 + 1 ELSE 0)
          /\ \A j \in 1 .. (e - 1 + 1) : u[j] = w[1 + j - 1]
      BY <1>1, StretchType
    <2> HIDE DEF u
    <2> QED BY <1>1, <2>1
  <1>3. t \in Seq(Alphabet) /\ Cut(w) = t
    BY <1>1, StretchType, StartIs
  <1>4. u \o t = w
    <2>1. u \o t = SubSeq(w, 1, Len(w))
      BY <1>1, StretchJoin
    <2> QED BY <1>1, <2>1, WholeStretch
  <1> HIDE DEF u, t
  <1>5. ASSUME NEW d \in 1 .. e PROVE Blank(w, d) <=> Blank(u, d)
    <2>1. d # 1 => d - 1 \in 1 .. e
      BY <1>1
    <2> QED BY <1>2, <2>1 DEF Blank
  <1>6. FirstBlank(u, e)
    <2>1. e \in 1 .. Len(u) /\ e \in 1 .. e /\ \A d \in 1 .. (e - 1) : d \in 1 .. e
      BY <1>1, <1>2
    <2> QED BY <1>5, <2>1 DEF FirstBlank
  <1> QED BY <1>1, <1>2, <1>3, <1>4, <1>6 DEF u, Text

-------------------------------------------------------------------------------
LEMMA InsertFacts ==
    ASSUME NEW w \in Text, NEW p \in 1 .. (Len(w) + 1), NEW c \in Alphabet,
           NEW v, v = InsertAt(w, p, c)
    PROVE  /\ v \in Text /\ Len(v) = Len(w) + 1 /\ v[p] = c /\ Len(w) \in Nat
           /\ \A j \in 1 .. (p - 1) : v[j] = w[j]
           /\ \A j \in p .. Len(w) : v[j + 1] = w[j]
  BY InsertedAt DEF Text

LEMMA CutSame ==
    ASSUME NEW w \in Text, NEW v \in Text, NEW e, FirstBlank(w, e), NEW f, FirstBlank(v, f),
           Len(w) - e = Len(v) - f, \A j \in 1 .. (Len(w) - e) : w[e + j] = v[f + j]
    PROVE  Cut(w) = Cut(v)
  <1>1. /\ w \in Seq(Alphabet) /\ Len(w) \in Nat /\ e \in 1 .. Len(w)
        /\ e + 1 \in Nat \ {0} /\ Len(w) \in 0 .. Len(w)
        /\ v \in Seq(Alphabet) /\ Len(v) \in Nat /\ f \in 1 .. Len(v)
        /\ f + 1 \in Nat \ {0} /\ Len(v) \in 0 .. Len(v)
    BY DEF Text, FirstBlank
  <1> DEFINE x == SubSeq(w, e + 1, Len(w))
             y == SubSeq(v, f + 1, Len(v))
  <1>2. Cut(w) = x /\ Cut(v) = y
    BY StartIs
  <1>3. /\ x \in Seq(Alphabet) /\ Len(x) = IF e + 1 <= Len(w) THEN Len(w) - (e + 1) + 1 ELSE 0
        /\ \A j \in 1 .. (Len(w) - (e + 1) + 1) : x[j] = w[e + 1 + j - 1]
    BY <1>1, StretchType
  <1>4. /\ y \in Seq(Alphabet) /\ Len(y) = IF f + 1 <= Len(v) THEN Len(v) - (f + 1) + 1 ELSE 0
        /\ \A j \in 1 .. (Len(v) - (f + 1) + 1) : y[j] = v[f + 1 + j - 1]
    BY <1>1, StretchType
  <1> HIDE DEF x, y
  <1>5. Len(x) = Len(y) /\ Len(x) = Len(w) - e
    BY <1>1, <1>3, <1>4
  <1>6. ASSUME NEW j \in 1 .. Len(x) PROVE x[j] = y[j]
    <2>1. j \in 1 .. (Len(w) - e) /\ j \in 1 .. (Len(w) - (e + 1) + 1)
          /\ j \in 1 .. (Len(v) - (f + 1) + 1) /\ e + 1 + j - 1 = e + j /\ f + 1 + j - 1 = f + j
      BY <1>1, <1>5
    <2> QED BY <1>3, <1>4, <2>1
  <1>7. x = y
    BY <1>3, <1>4, <1>5, <1>6, SameSequence
  <1> QED BY <1>2, <1>7

(* A character put into the header block that makes no line empty.         *)
Harmless(w, p, c) ==
    p > 1 /\ w[p - 1] # CRLF /\ (c = CRLF => p <= Len(w) /\ w[p] # CRLF)

LEMMA InsertInHead ==
    ASSUME NEW w \in Text, NEW p \in 1 .. (Len(w) + 1), NEW c \in Alphabet, Harmless(w, p, c)
    PROVE  /\ NoBlank(w) => NoBlank(InsertAt(w, p, c))
           /\ \A e : FirstBlank(w, e) /\ p <= e =>
                 FirstBlank(InsertAt(w, p, c), e + 1) /\ Cut(InsertAt(w, p, c)) = Cut(w)
  <1> DEFINE v == InsertAt(w, p, c)
  <1>1. /\ v \in Text /\ Len(v) = Len(w) + 1 /\ v[p] = c /\ Len(w) \in Nat /\ p \in Nat
        /\ \A j \in 1 .. (p - 1) : v[j] = w[j]
        /\ \A j \in p .. Len(w) : v[j + 1] = w[j]
        /\ p > 1 /\ w[p - 1] # CRLF /\ (c = CRLF => p <= Len(w) /\ w[p] # CRLF)
    BY InsertFacts DEF Harmless
  <1> HIDE DEF v
  <1>2. ASSUME NEW d \in 1 .. (p - 1) PROVE Blank(v, d) <=> Blank(w, d)
    <2>1. d # 1 => d - 1 \in 1 .. (p - 1)
      BY <1>1
    <2> QED BY <1>1, <2>1 DEF Blank
  <1>3. ~Blank(v, p) /\ ~Blank(w, p)
    <2>1. p # 1 /\ p - 1 \in 1 .. (p - 1)
      BY <1>1
    <2> QED BY <1>1, <2>1 DEF Blank
  <1>4. ASSUME NEW d \in p .. Len(w) PROVE Blank(v, d + 1) <=> Blank(w, d)
    <2>1. d + 1 # 1 /\ d + 1 - 1 = d /\ v[d + 1] = w[d]
      BY <1>1
    <2>2. CASE d = p
      BY <1>1, <1>3, <2>1, <2>2 DEF Blank
    <2>3. CASE d # p
      <3>1. d - 1 \in p .. Len(w) /\ d - 1 + 1 = d /\ d # 1
        BY <1>1, <2>3
      <3>2. v[d - 1 + 1] = w[d - 1]
        BY <1>1, <3>1
      <3>3. v[d] = w[d - 1]
        BY ONLY <3>1, <3>2
      <3> QED BY ONLY <2>1, <3>1, <3>3 DEF Blank
    <2> QED BY <2>2, <2>3
  <1>5. ASSUME NoBlank(w) PROVE NoBlank(v)
    <2> SUFFICES ASSUME NEW d \in 1 .. Len(v) PROVE ~Blank(v, d)
      BY DEF NoBlank
    <2>1. CASE d < p
      <3>1. d \in 1 .. (p - 1) /\ d \in 1 .. Len(w)
        BY <1>1, <2>1
      <3> QED BY <1>2, <1>5, <3>1 DEF NoBlank
    <2>2. CASE d = p
      BY <1>3, <2>2
    <2>3. CASE d > p
      <3>1. d - 1 \in p .. Len(w) /\ d - 1 + 1 = d /\ d - 1 \in 1 .. Len(w)
        BY <1>1, <2>3
      <3> QED BY <1>4, <1>5, <3>1 DEF NoBlank
    <2> QED BY <1>1, <2>1, <2>2, <2>3
  <1>6. ASSUME NEW e, FirstBlank(w, e), p <= e PROVE FirstBlank(v, e + 1) /\ Cut(v) = Cut(w)
    <2>1. e \in 1 .. Len(w) /\ Blank(w, e) /\ \A d \in 1 .. (e - 1) : ~Blank(w, d)
      BY <1>6 DEF FirstBlank
    <2>2. e \in p .. Len(w) /\ e + 1 \in 1 .. Len(v) /\ p < e
      BY <1>1, <1>3, <1>6, <2>1
    <2>3. ASSUME NEW d \in 1 .. (e + 1 - 1) PROVE ~Blank(v, d)
      <3>1. CASE d < p
        <4>1. d \in 1 .. (p - 1) /\ d \in 1 .. (e - 1)
          BY <1>1, <2>2, <3>1
        <4> QED BY <1>2, <2>1, <4>1
      <3>2. CASE d = p
        BY <1>3, <3>2
      <3>3. CASE d > p
        <4>1. d - 1 \in p .. Len(w) /\ d - 1 + 1 = d /\ d - 1 \in 1 .. (e - 1)
          BY <1>1, <2>2, <3>3
        <4> QED BY <1>4, <2>1, <4>1
      <3> QED BY <1>1, <2>2, <3>1, <3>2, <3>3
    <2>4. FirstBlank(v, e + 1)
      BY <1>4, <2>1, <2>2, <2>3 DEF FirstBlank
    <2>5. Len(w) - e = Len(v) - (e + 1)
      BY <1>1, <2>1
    <2>6. ASSUME NEW j \in 1 .. (Len(w) - e) PROVE w[e + j] = v[e + 1 + j]
      <3>1. e + j \in p .. Len(w) /\ e + 1 + j = e + j + 1
        BY <1>1, <2>2
      <3> QED BY <1>1, <3>1
    <2>7. Cut(w) = Cut(v)
      BY ONLY <1>1, <1>6, <2>4, <2>5, <2>6, CutSame
    <2> QED BY <2>4, <2>7
  <1> QED BY <1>5, <1>6 DEF v

LEMMA Recased ==
    ASSUME NEW w \in Text, NEW p \in 1 .. Len(w), NEW c \in Alphabet, c # CRLF, w[p] # CRLF,
           NEW v, v = [w EXCEPT ![p] = c]
    PROVE  /\ v \in Text /\ (NoBlank(w) => NoBlank(v))
           /\ \A e : FirstBlank(w, e) /\ p <= e => FirstBlank(v, e) /\ Cut(v) = Cut(w)
  <1>1. /\ v \in Text /\ Len(v) = Len(w) /\ Len(w) \in Nat /\ v[p] = c
        /\ \A j \in 1 .. Len(w) : j # p => v[j] = w[j]
    BY DEF Text
  <1>2. ASSUME NEW d \in 1 .. Len(w) PROVE Blank(v, d) <=> Blank(w, d)
    <2>1. d # 1 => d - 1 \in 1 .. Len(w)
      BY <1>1
    <2>2. (v[d] = CRLF <=> w[d] = CRLF) /\ (d # 1 => (v[d - 1] = CRLF <=> w[d - 1] = CRLF))
      BY <1>1, <2>1
    <2> QED BY <2>2 DEF Blank
  <1>3. NoBlank(w) => NoBlank(v)
    BY <1>1, <1>2 DEF NoBlank
  <1>4. ASSUME NEW e, FirstBlank(w, e), p <= e PROVE FirstBlank(v, e) /\ Cut(v) = Cut(w)
    <2>1. e \in 1 .. Len(w) /\ \A d \in 1 .. (e - 1) : d \in 1 .. Len(w)
      BY <1>1, <1>4 DEF FirstBlank
    <2>2. FirstBlank(v, e)
      BY <1>1, <1>2, <1>4, <2>1 DEF FirstBlank
    <2>3. ASSUME NEW j \in 1 .. (Len(w) - e) PROVE w[e + j] = v[e + j]
      <3>1. e + j \in 1 .. Len(w) /\ e + j # p
        BY <1>1, <1>4, <2>1
      <3> QED BY <1>1, <3>1
    <2>4. Len(w) - e = Len(v) - e
      BY <1>1
    <2>5. Cut(w) = Cut(v)
      BY ONLY <1>1, <1>4, <2>2, <2>3, <2>4, CutSame
    <2> QED BY <2>2, <2>5
  <1> QED BY <1>1, <1>3, <1>4

LEMMA InsertInBody ==
    ASSUME NEW w \in Text, NEW e, FirstBlank(w, e), NEW p \in (e + 1) .. (Len(w) + 1),
           NEW c \in Alphabet
    PROVE  \E l, r \in Text :
              /\ Cut(w) = l \o r /\ Cut(InsertAt(w, p, c)) = (l \o <<c>>) \o r
              /\ l = SubSeq(w, e + 1, p - 1) /\ r = SubSeq(w, p, Len(w))
              /\ FirstBlank(InsertAt(w, p, c), e)
  <1> DEFINE u == SubSeq(w, 1, e)
             l == SubSeq(w, e + 1, p - 1)
             r == SubSeq(w, p, Len(w))
             one == <<c>>
             h == SubSeq(w, 1, p - 1)
  <1>1. /\ w \in Seq(Alphabet) /\ Len(w) \in Nat /\ e \in 1 .. Len(w) /\ p \in Nat \ {0}
        /\ 1 \in Nat \ {0} /\ e + 1 \in Nat \ {0} /\ p - 1 \in 0 .. Len(w)
        /\ Len(w) \in 0 .. Len(w) /\ e \in 0 .. Len(w) /\ p - 1 + 1 = p
        /\ 1 <= e + 1 /\ e <= p - 1 /\ e + 1 <= p - 1 + 1 /\ p - 1 <= Len(w)
    BY DEF Text, FirstBlank
  <1>2. u \in Text /\ Len(u) = e /\ FirstBlank(u, Len(u))
    BY CutOff
  <1>3. l \in Text /\ r \in Text /\ one \in Text /\ h \in Text
    BY <1>1, StretchType, OneOf DEF Text
  <1>4. h = u \o l
    BY <1>1, StretchJoin
  <1>5. Cut(w) = l \o r
    <2>1. Cut(w) = SubSeq(w, e + 1, Len(w))
      BY StartIs
    <2>2. SubSeq(w, e + 1, p - 1) \o SubSeq(w, p - 1 + 1, Len(w)) = SubSeq(w, e + 1, Len(w))
      BY ONLY <1>1, StretchJoin
    <2> QED BY <1>1, <2>1, <2>2
  <1>6. InsertAt(w, p, c) = (h \o one) \o r
    BY DEF InsertAt
  <1>7. (h \o one) \o r = u \o ((l \o one) \o r)
    <2> HIDE DEF u, l, r, one, h
    <2>1. l \o one \in Text /\ (u \o l) \o one = u \o (l \o one)
      <3>1. l \o one \in Text
        BY ONLY <1>3, ChainType
      <3>2. (u \o l) \o one = u \o (l \o one)
        BY ONLY <1>2, <1>3, ChainRegroup, SMTT(20)
      <3> QED BY <3>1, <3>2
    <2>2. (u \o (l \o one)) \o r = u \o ((l \o one) \o r)
      BY ONLY <1>2, <1>3, <2>1, ChainRegroup
    <2> QED BY <1>4, <2>1, <2>2
  <1>8. (l \o one) \o r \in Text
    BY <1>3, ChainType
  <1>9. Cut(InsertAt(w, p, c)) = (l \o one) \o r /\ FirstBlank(InsertAt(w, p, c), e)
    <2> HIDE DEF u, l, r, one, h
    <2>1. /\ FirstBlank(u \o ((l \o one) \o r), Len(u))
          /\ Cut(u \o ((l \o one) \o r)) = (l \o one) \o r
      BY ONLY <1>2, <1>8, HeadCut
    <2> QED BY <1>2, <1>6, <1>7, <2>1
  <1> QED BY <1>3, <1>5, <1>9

LEMMA AddedBehind ==
    ASSUME NEW w \in Text, NEW e, FirstBlank(w, e), NEW t \in Text
    PROVE  Cut(w \o t) = Cut(w) \o t
  <1> DEFINE u == SubSeq(w, 1, e)
  <1>1. u \in Text /\ Len(u) = e /\ FirstBlank(u, Len(u)) /\ Cut(w) \in Text /\ w = u \o Cut(w)
    BY CutOff
  <1> HIDE DEF u
  <1>2. w \o t = u \o (Cut(w) \o t) /\ Cut(w) \o t \in Text
    <2> DEFINE x == Cut(w)
    <2>1. x \in Text
      BY <1>1
    <2>2. w = u \o x
      BY <1>1
    <2> HIDE DEF x
    <2>3. x \o t \in Text
      BY ONLY <2>1, t \in Text, ChainType
    <2>4. (u \o x) \o t = u \o (x \o t)
      BY ONLY <1>1, <2>1, t \in Text, ChainRegroup
    <2>5. w \o t = u \o (x \o t)
      BY ONLY <2>2, <2>4
    <2> QED BY <2>3, <2>5 DEF x
  <1>3. Cut(u \o (Cut(w) \o t)) = Cut(w) \o t
    BY ONLY <1>1, <1>2, HeadCut
  <1> QED BY <1>2, <1>3

-------------------------------------------------------------------------------
(* Fields hold no empty line, so that writing them again keeps the body. *)

LEMMA SolidFacts ==
    \A x \in Solid : /\ x \in Seq(Clean) /\ x \in Text /\ Len(x) \in Nat \ {0}
                     /\ x[Len(x)] # CRLF /\ x[1] # CRLF /\ NoBlank(x)
  <1> SUFFICES ASSUME NEW x \in Solid
      PROVE  /\ x \in Seq(Clean) /\ x \in Text /\ Len(x) \in Nat \ {0}
             /\ x[Len(x)] # CRLF /\ x[1] # CRLF /\ NoBlank(x)
    OBVIOUS
  <1>1. x \in Seq(Clean) /\ x # <<>> /\ x[Len(x)] # CRLF /\ NoBlank(x)
    BY DEF Solid
  <1>2. x \in Text
    BY <1>1, CleanText
  <1>3. Len(x) \in Nat \ {0}
    BY <1>1
  <1>4. ~Blank(x, 1)
    BY <1>1, <1>3 DEF NoBlank
  <1> QED BY <1>1, <1>2, <1>3, <1>4 DEF Blank

LEMMA SolidJoin ==
    ASSUME NEW x \in Solid, NEW y \in Solid
    PROVE  x \o (<<CRLF>> \o y) \in Solid
  <1> DEFINE z == x \o (<<CRLF>> \o y)
             n == Len(x)
  <1>1. /\ x \in Seq(Clean) /\ n \in Nat \ {0} /\ x[n] # CRLF /\ NoBlank(x)
        /\ y \in Seq(Clean) /\ Len(y) \in Nat \ {0} /\ y[Len(y)] # CRLF /\ y[1] # CRLF /\ NoBlank(y)
    BY SolidFacts
  <1>2. /\ z \in Seq(Clean) /\ Len(z) = n + 1 + Len(y)
        /\ \A j \in 1 .. n : z[j] = x[j]
        /\ z[n + 1] = CRLF
        /\ \A j \in 1 .. Len(y) : z[n + 1 + j] = y[j]
    BY <1>1, CleanText, BetweenFacts
  <1> HIDE DEF z, n
  <1>3. z # <<>> /\ z[Len(z)] # CRLF
    <2>1. Len(y) \in 1 .. Len(y) /\ Len(z) # 0
      BY <1>1, <1>2
    <2>2. z[n + 1 + Len(y)] = y[Len(y)]
      BY <1>2, <2>1
    <2> QED BY <1>1, <1>2, <2>1, <2>2
  <1>4. ASSUME NEW d \in 1 .. Len(z) PROVE ~Blank(z, d)
    <2>1. CASE d <= n
      <3>1. d \in 1 .. n /\ (d # 1 => d - 1 \in 1 .. n)
        BY <1>1, <1>2, <2>1
      <3>2. ~Blank(x, d)
        BY <1>1, <3>1 DEF NoBlank, n
      <3> QED BY <1>2, <3>1, <3>2 DEF Blank
    <2>2. CASE d = n + 1
      <3>1. d # 1 /\ d - 1 = n /\ n \in 1 .. n
        BY <1>1, <2>2
      <3> QED BY <1>1, <1>2, <3>1 DEF Blank
    <2>3. CASE d > n + 1
      <3> DEFINE j == d - (n + 1)
      <3>1. j \in 1 .. Len(y) /\ n + 1 + j = d /\ d # 1
        BY <1>1, <1>2, <2>3
      <3>2. z[d] = y[j] /\ ~Blank(y, j)
        BY <1>1, <1>2, <3>1 DEF NoBlank
      <3>3. CASE j = 1
        BY <1>1, <3>2, <3>3 DEF Blank
      <3>4. CASE j # 1
        <4>1. j - 1 \in 1 .. Len(y) /\ n + 1 + (j - 1) = d - 1
          BY <1>1, <1>2, <3>1, <3>4
        <4>2. z[d - 1] = y[j - 1]
          BY <1>2, <4>1
        <4> HIDE DEF j
        <4> QED BY <3>1, <3>2, <3>4, <4>2 DEF Blank
      <3> QED BY <3>3, <3>4
    <2> QED BY <1>1, <1>2, <2>1, <2>2, <2>3
  <1>5. z \in Solid
    BY <1>2, <1>3, <1>4 DEF Solid, NoBlank
  <1> QED BY <1>5 DEF z

LEMMA SolidsJoined == \A ps \in Seq(Solid) : ps # <<>> => Join(ps, CRLF) \in Solid
  <1> DEFINE P == { ps \in Seq(Solid) : ps # <<>> => Join(ps, CRLF) \in Solid }
  <1>1. <<>> \in P
    OBVIOUS
  <1>2. ASSUME NEW ps \in Seq(Solid), NEW x \in Solid, ps \in P PROVE Append(ps, x) \in P
    <2>1. Append(ps, x) \in Seq(Solid)
      OBVIOUS
    <2>2. CASE ps = <<>>
      <3>1. Append(ps, x) = <<x>> /\ x \in Text
        BY <2>2, SolidFacts
      <3> QED BY <2>1, <3>1, JoinOne
    <2>3. CASE ps # <<>>
      <3>1. ps \in Parts /\ x \in Text
        <4>1. Solid \subseteq Text
          BY SolidFacts
        <4> QED BY <2>3, <4>1 DEF Parts
      <3>2. Join(Append(ps, x), CRLF) = Join(ps, CRLF) \o (<<CRLF>> \o x)
        BY <3>1, JoinMore
      <3>3. Join(ps, CRLF) \in Solid
        BY <1>2, <2>3
      <3> HIDE DEF P
      <3>4. Join(Append(ps, x), CRLF) \in Solid
        BY <3>2, <3>3, SolidJoin
      <3> QED BY <2>1, <3>4 DEF P
    <2> QED BY <2>2, <2>3
  <1> HIDE DEF P
  <1>3. \A ps \in Seq(Solid) : ps \in P
    BY <1>1, <1>2, AppendInduction
  <1> QED BY <1>3 DEF P

LEMMA SolidEnds ==
    ASSUME NEW x \in Solid, NEW u, u = Append(Append(x, CRLF), CRLF)
    PROVE  u \in Text /\ u \in Seq(Clean) /\ FirstBlank(u, Len(u))
  <1> DEFINE n == Len(x)
             m == Append(x, CRLF)
  <1>1. x \in Seq(Clean) /\ n \in Nat \ {0} /\ x[n] # CRLF /\ NoBlank(x) /\ CRLF \in Clean
    BY SolidFacts, CleanText
  <1>2. /\ m \in Seq(Clean) /\ Len(m) = n + 1 /\ m[n + 1] = CRLF
        /\ \A j \in 1 .. n : m[j] = x[j]
    BY <1>1, StretchAppend
  <1>3. u = Append(m, CRLF)
    OBVIOUS
  <1> HIDE DEF n, m
  <1>4. /\ u \in Seq(Clean) /\ Len(u) = Len(m) + 1 /\ u[Len(m) + 1] = CRLF
        /\ \A j \in 1 .. Len(m) : u[j] = m[j]
    BY ONLY <1>1, <1>2, <1>3, StretchAppend
  <1>5. Len(u) = n + 2 /\ u[n + 1] = CRLF /\ u[n + 2] = CRLF /\ \A j \in 1 .. n : u[j] = x[j]
    <2>1. n + 1 \in 1 .. Len(m) /\ n + 1 + 1 = n + 2 /\ \A j \in 1 .. n : j \in 1 .. Len(m)
      BY <1>1, <1>2
    <2> QED BY <1>2, <1>4, <2>1
  <1>6. ASSUME NEW d \in 1 .. (n + 2 - 1) PROVE ~Blank(u, d)
    <2>1. CASE d <= n
      <3>1. d \in 1 .. n /\ (d # 1 => d - 1 \in 1 .. n)
        BY <1>1, <2>1
      <3>2. ~Blank(x, d)
        BY <1>1, <3>1 DEF NoBlank, n
      <3> QED BY <1>5, <3>1, <3>2 DEF Blank
    <2>2. CASE d = n + 1
      <3>1. d # 1 /\ d - 1 = n /\ n \in 1 .. n
        BY <1>1, <2>2
      <3> QED BY <1>1, <1>5, <3>1 DEF Blank
    <2> QED BY <1>1, <2>1, <2>2
  <1>7. Blank(u, n + 2) /\ n + 2 \in 1 .. Len(u)
    <2>1. n + 2 - 1 = n + 1
      BY <1>1
    <2> QED BY <1>1, <1>5, <2>1 DEF Blank
  <1>8. FirstBlank(u, Len(u))
    <2>1. Len(u) = n + 2
      BY <1>5
    <2>2. FirstBlank(u, n + 2)
      <3> DEFINE e == n + 2
      <3>1. e \in 1 .. Len(u) /\ Blank(u, e) /\ \A d \in 1 .. (e - 1) : ~Blank(u, d)
        <4>1. e \in 1 .. Len(u) /\ Blank(u, e)
          BY <1>7
        <4>2. ASSUME NEW d \in 1 .. (e - 1) PROVE ~Blank(u, d)
          <5>1. d \in 1 .. (n + 2 - 1)
            BY <1>1
          <5> HIDE DEF e
          <5> QED BY <1>6, <5>1
        <4> QED BY <4>1, <4>2
      <3> HIDE DEF e
      <3>2. FirstBlank(u, e)
        BY ONLY <3>1 DEF FirstBlank
      <3> QED BY <3>2 DEF e
    <2> QED BY ONLY <2>1, <2>2
  <1> QED BY <1>4, <1>8, CleanText

(* What Rewrite makes of the fields and the body.                          *)
LEMMA Rewritten ==
    ASSUME NEW ps \in Seq(Solid), ps # <<>>, NEW b \in Seq(Clean),
           NEW x, x = Join(ps \o << <<>>, b >>, CRLF)
    PROVE  x \in Seq(Clean) /\ Cut(x) = b
  <1> DEFINE J == Join(ps, CRLF)
             none == <<>>
             u == Append(Append(J, CRLF), CRLF)
             one == <<CRLF>>
             qs == Append(ps, none)
  <1>1. J \in Solid /\ J \in Text
    BY SolidsJoined, SolidFacts
  <1>2. ps \in Parts /\ none \in Text /\ b \in Text
    <2>1. Solid \subseteq Text
      BY SolidFacts
    <2>2. b \in Text
      BY CleanText
    <2> QED BY <2>1, <2>2 DEF Parts, Text
  <1>3. ps \o << <<>>, b >> = Append(qs, b)
    BY <1>2 DEF Parts
  <1>4. qs \in Parts /\ Join(qs, CRLF) = J \o (one \o none)
    <2>1. qs \in Parts
      BY <1>2 DEF Parts
    <2>2. Join(Append(ps, none), CRLF) = Join(ps, CRLF) \o (<<CRLF>> \o none)
      <3> HIDE DEF none
      <3> QED BY ONLY <1>2, JoinMore
    <2> QED BY <2>1, <2>2
  <1>5. Join(Append(qs, b), CRLF) = Join(qs, CRLF) \o (one \o b)
    <2> HIDE DEF qs
    <2> QED BY <1>2, <1>4, JoinMore
  <1>6. one \o none = one /\ one \in Text
    BY CleanText DEF Text
  <1>7. u = (J \o one) \o one
    <2>1. J \in Seq(Alphabet) /\ CRLF \in Alphabet
      BY <1>1, Letters DEF Text
    <2>2. Append(J, CRLF) \in Seq(Alphabet) /\ Append(J, CRLF) = J \o one
      BY <2>1, AppendIs
    <2> DEFINE m == Append(J, CRLF)
    <2> HIDE DEF m
    <2>3. Append(m, CRLF) = m \o one
      BY <2>1, <2>2, AppendIs DEF m
    <2> QED BY <2>2, <2>3 DEF m
  <1>8. u \in Text /\ u \in Seq(Clean) /\ FirstBlank(u, Len(u))
    BY <1>1, SolidEnds
  <1> HIDE DEF J, none, one, qs, u
  <1>9. x = u \o b
    <2>1. x = (J \o one) \o (one \o b)
      BY <1>3, <1>4, <1>5, <1>6
    <2>2. J \o one \in Text
      BY ONLY <1>1, <1>6, ChainType
    <2>3. ((J \o one) \o one) \o b = (J \o one) \o (one \o b)
      BY ONLY <1>2, <1>6, <2>2, ChainRegroup
    <2> QED BY <1>7, <2>1, <2>3
  <1>10. Cut(u \o b) = b
    BY ONLY <1>2, <1>8, HeadCut
  <1>11. u \o b \in Seq(Clean)
    BY <1>8
  <1> QED BY <1>9, <1>10, <1>11

LEMMA BodyAlone ==
    ASSUME NEW b \in Seq(Clean)
    PROVE  <<CRLF>> \o b \in Seq(Clean) /\ Cut(<<CRLF>> \o b) = b
  <1> DEFINE u == <<CRLF>>
  <1>1. u \in Seq(Clean) /\ Len(u) = 1 /\ u[1] = CRLF
    BY CleanText
  <1> HIDE DEF u
  <1>2. FirstBlank(u, Len(u))
    BY <1>1 DEF FirstBlank, Blank
  <1>3. u \in Text /\ b \in Text
    BY <1>1, CleanText
  <1>4. Cut(u \o b) = b
    BY ONLY <1>2, <1>3, HeadCut
  <1>5. u \o b \in Seq(Clean)
    BY <1>1
  <1> QED BY <1>4, <1>5 DEF u

-------------------------------------------------------------------------------
(* The invariant of the body, and the two theorems. *)

LEMMA BodiesType ==
    \A t \in Text : RelaxedBody(t) \in Text /\ SimpleBody(t) \in Text
  <1> SUFFICES ASSUME NEW t \in Text PROVE RelaxedBody(t) \in Text /\ SimpleBody(t) \in Text
    OBVIOUS
  <1>1. \A s \in Text : UpToLast(s, CRLF) \in Text /\ Append(UpToLast(s, CRLF), CRLF) \in Text
    <2> SUFFICES ASSUME NEW s \in Text
        PROVE  UpToLast(s, CRLF) \in Text /\ Append(UpToLast(s, CRLF), CRLF) \in Text
      OBVIOUS
    <2> DEFINE x == UpToLast(s, CRLF)
    <2>1. x \in Seq(Alphabet) /\ CRLF \in Alphabet
      BY UpToRest, Letters DEF Text
    <2> HIDE DEF x
    <2>2. x \in Text /\ Append(x, CRLF) \in Text
      BY <2>1 DEF Text
    <2> QED BY <2>2 DEF x
  <1>2. Flow(t) \in Text
    <2>1. CRLF \in Alphabet
      BY Letters
    <2> QED BY <2>1, FlowMore
  <1>3. <<>> \in Text
    BY DEF Text
  <1> QED BY <1>1, <1>2, <1>3, RelaxedIs, SimpleIs DEF Ended

LEMMA CutType ==
    ASSUME NEW w \in Seq(Clean)
    PROVE  w \in Text /\ Cut(w) \in Seq(Clean) /\ Cut(w) \in Text
  <1>1. w \in Text
    BY CleanText
  <1>2. Cut(w) \in Seq(Clean)
    <2>1. CASE NoBlank(w)
      <3>1. <<>> \in Seq(Clean)
        OBVIOUS
      <3> QED BY <1>1, <2>1, <3>1, StartIs
    <2>2. ASSUME NEW e, FirstBlank(w, e) PROVE Cut(w) \in Seq(Clean)
      <3>1. Cut(w) = SubSeq(w, e + 1, Len(w))
        BY <1>1, <2>2, StartIs
      <3>2. e + 1 \in Nat \ {0} /\ Len(w) \in 0 .. Len(w)
        BY <2>2 DEF FirstBlank
      <3> QED BY <3>1, <3>2, StretchType
    <2> QED BY <1>1, <2>1, <2>2, StartIs
  <1> QED BY <1>1, <1>2, CleanText

LEMMA CoversFacts ==
    /\ \A t \in Text : \A es : Covers(t, t, es)
    /\ \A b, t, u \in Text : \A es, more : Covers(b, t, es) /\ Covers(t, u, more)
                                             => Covers(b, u, es \cup more)
    /\ \A t, u \in Text : \A es, more : Covers(t, u, more) => Covers(t, u, es \cup more)
  <1>1. ASSUME NEW t \in Text, NEW es PROVE Covers(t, t, es)
    BY BodiesType, BeforeFacts DEF Covers
  <1>2. ASSUME NEW b \in Text, NEW t \in Text, NEW u \in Text, NEW es, NEW more,
               Covers(b, t, es), Covers(t, u, more)
        PROVE  Covers(b, u, es \cup more)
    <2>1. Before(RelaxedBody(b), RelaxedBody(u))
      BY <1>2, BodiesType, BeforeFacts DEF Covers
    <2>2. b # <<>> => u # <<>>
      BY <1>2 DEF Covers
    <2>3. "space" \notin (es \cup more) /\ b # <<>> => Before(SimpleBody(b), SimpleBody(u))
      BY <1>2, BodiesType, BeforeFacts DEF Covers
    <2>4. "text" \notin (es \cup more) => RelaxedBody(u) = RelaxedBody(b)
      BY <1>2 DEF Covers
    <2>5. es \cup more \subseteq {"blank"} => SimpleBody(u) = SimpleBody(b)
      <3>1. es \cup more \subseteq {"blank"} => es \subseteq {"blank"} /\ more \subseteq {"blank"}
        OBVIOUS
      <3> QED BY <1>2, <3>1 DEF Covers
    <2>6. es \cup more = {} => u = b
      <3>1. es \cup more = {} => es = {} /\ more = {}
        OBVIOUS
      <3> QED BY <1>2, <3>1 DEF Covers
    <2> QED BY <2>1, <2>2, <2>3, <2>4, <2>5, <2>6 DEF Covers
  <1>3. ASSUME NEW t \in Text, NEW u \in Text, NEW es, NEW more, Covers(t, u, more)
        PROVE  Covers(t, u, es \cup more)
    <2>1. es \cup more \subseteq {"blank"} => more \subseteq {"blank"}
      OBVIOUS
    <2>2. es \cup more = {} => more = {}
      OBVIOUS
    <2>3. "space" \notin (es \cup more) => "space" \notin more
      OBVIOUS
    <2>4. "text" \notin (es \cup more) => "text" \notin more
      OBVIOUS
    <2> QED BY <1>3, <2>1, <2>2, <2>3, <2>4 DEF Covers
  <1> QED BY <1>1, <1>2, <1>3

LEMMA WireClean == CInv => Wire \in Seq(Clean)
  BY NormalizeCleans DEF CInv, Wire

LEMMA PInvInit == CanonInit => PInv
  BY CInvInit DEF CanonInit, Init, PInv

LEMMA LineSolid ==
    ASSUME CInv, NEW a, NEW b, NextParsed(raw, lines, headers, body, skipping, a, b)
    PROVE  Head(lines) \in Solid
  <1> DEFINE s == Framed(raw)
             g == Stop(raw)
             x == LineAt(s, a)
  <1>1. /\ HasGap(s, g) /\ a \in 1 .. (g - 1) /\ Head(lines) = x
        /\ b \in (a + 2) .. g /\ \A q \in (a + 1) .. (b - 1) : s[q] # CRLF
        /\ x = SubSeq(s, a + 1, b - 1)
    BY DEF NextParsed, AtLine, LineTo
  <1>2. s \in Seq(Clean)
    BY NormalizeCleans, CleanText DEF CInv, Framed
  <1> HIDE DEF s, g, x
  <1>3. /\ a + 1 \in Nat \ {0} /\ b - 1 \in 0 .. Len(s) /\ a \in Nat /\ b \in Nat
        /\ a + 1 <= b - 1
    BY <1>1 DEF HasGap, Text
  <1>4. x \in Seq(Clean) /\ Len(x) = b - 1 - (a + 1) + 1
        /\ \A j \in 1 .. (b - 1 - (a + 1) + 1) : x[j] = s[a + 1 + j - 1]
    BY <1>1, <1>2, <1>3, StretchType
  <1>5. Len(x) \in Nat \ {0}
    BY <1>3, <1>4
  <1>6. ASSUME NEW j \in 1 .. Len(x) PROVE x[j] # CRLF
    <2>1. j \in 1 .. (b - 1 - (a + 1) + 1) /\ a + 1 + j - 1 \in (a + 1) .. (b - 1)
      BY <1>3, <1>4
    <2> QED BY <1>1, <1>4, <2>1
  <1>7. x # <<>> /\ x[Len(x)] # CRLF /\ NoBlank(x)
    BY <1>4, <1>5, <1>6 DEF NoBlank, Blank
  <1> QED BY <1>1, <1>4, <1>7 DEF Solid

LEMMA HeadSolid == CInv /\ Parsing => Head(lines) \in Solid /\ headers \in Seq(Field)
  BY LineThere, LineSolid

LEMMA SplitCovers == PInv /\ SplitMessage /\ UNCHANGED <<first, edits, count>> => PInv'
  <1> SUFFICES ASSUME PInv, SplitMessage, UNCHANGED <<first, edits, count>> PROVE PInv'
    OBVIOUS
  <1>1. CInv'
    BY SplitKeeps DEF PInv
  <1>2. raw' = raw /\ headers' = <<>> /\ Wire' = Wire
    BY DEF SplitMessage, Wire
  <1>3. body' = Cut(Wire)
    BY DEF SplitMessage, Wire, Cut
  <1>4. SolidFields'
    BY <1>2 DEF SolidFields
  <1> QED BY <1>1, <1>2, <1>3, <1>4 DEF PInv

(* A parsing step that only changes the fields.                            *)
LEMMA FieldsCover ==
    ASSUME PInv, CInv', pc # "split", UNCHANGED <<raw, body, first, edits>>, SolidFields'
    PROVE  PInv'
  <1>1. Wire' = Wire
    BY DEF Wire
  <1> QED BY <1>1 DEF PInv

LEMMA ParseCovers ==
    ASSUME PInv, UNCHANGED <<first, edits, count>>,
           DropContinuation \/ ContinueField \/ TakeField \/ SkipLine \/ Finish
    PROVE  PInv'
  <1>1. CInv'
    BY DropKeeps, ContinueKeeps, TakeKeeps, SkipKeeps, FinishKeeps DEF PInv
  <1>2. CInv /\ SolidFields /\ pc # "split" /\ UNCHANGED <<raw, body>>
    BY DEF PInv, DropContinuation, ContinueField, TakeField, SkipLine, Finish, Advance, Parsing, parser
  <1>3. CASE DropContinuation \/ SkipLine \/ Finish
    <2>1. headers' = headers
      BY <1>3 DEF DropContinuation, SkipLine, Finish, parser
    <2>2. SolidFields'
      BY <1>2, <2>1 DEF SolidFields
    <2> QED BY <1>1, <1>2, <2>2, FieldsCover
  <1>4. CASE TakeField
    <2> DEFINE f == [name |-> NameOf(Head(lines)), value |-> ValueOf(Head(lines)),
                     raw |-> Head(lines)]
    <2>1. headers' = Append(headers, f) /\ Parsing /\ f.raw = Head(lines)
      BY <1>4 DEF TakeField
    <2> HIDE DEF f
    <2>2. headers \in Seq(Field) /\ f.raw \in Solid
      BY <1>2, <2>1, HeadSolid
    <2>3. ASSUME NEW j \in DOMAIN headers' PROVE headers'[j].raw \in Solid
      <3>1. j \in 1 .. (Len(headers) + 1) /\ Len(headers) \in Nat
        BY <2>1, <2>2
      <3>2. CASE j = Len(headers) + 1
        <4>1. headers'[j] = f
          BY <2>1, <2>2, <3>2
        <4> QED BY <2>2, <4>1
      <3>3. CASE j # Len(headers) + 1
        <4>1. j \in DOMAIN headers /\ headers'[j] = headers[j]
          BY <2>1, <2>2, <3>1, <3>3
        <4> QED BY <1>2, <4>1 DEF SolidFields
      <3> QED BY <3>2, <3>3
    <2> QED BY <1>1, <1>2, <2>3, FieldsCover DEF SolidFields
  <1>5. CASE ContinueField
    <2> DEFINE n == Len(headers)
               f == headers[n]
               line == Head(lines)
    <2>1. headers' = [headers EXCEPT ![n] = Grown(headers[n], line)] /\ Parsing /\ headers # <<>>
      BY <1>5 DEF ContinueField
    <2>2. headers \in Seq(Field) /\ line \in Solid
      BY <1>2, <2>1, HeadSolid
    <2>3. n \in DOMAIN headers /\ f \in Field /\ f.raw \in Solid
      BY <1>2, <2>1, <2>2 DEF SolidFields
    <2>4. Grown(f, line).raw = (f.raw \o <<CRLF>>) \o line
      BY <2>3 DEF Grown, Field
    <2>5. Grown(f, line).raw \in Solid
      <3> DEFINE r == f.raw
                 one == <<CRLF>>
      <3>1. r \in Text /\ line \in Text /\ one \in Text /\ r \in Solid
        BY <2>2, <2>3, SolidFacts, OneType, Letters
      <3> HIDE DEF r, line, f, one
      <3>2. (r \o one) \o line = r \o (one \o line)
        BY ONLY <3>1, ChainRegroup
      <3>3. r \o (<<CRLF>> \o line) \in Solid
        BY <2>2, <3>1, SolidJoin
      <3> QED BY <2>4, <3>2, <3>3 DEF r, one
    <2> HIDE DEF n, f, line
    <2>6. ASSUME NEW j \in DOMAIN headers' PROVE headers'[j].raw \in Solid
      <3>1. j \in DOMAIN headers /\ headers'[j] = IF j = n THEN Grown(headers[n], line) ELSE headers[j]
        BY <2>1, <2>2
      <3>2. f = headers[n]
        BY DEF f
      <3> QED BY <1>2, <2>5, <3>1, <3>2 DEF SolidFields
    <2> QED BY <1>1, <1>2, <2>6, FieldsCover DEF SolidFields
  <1> QED BY <1>3, <1>4, <1>5

-------------------------------------------------------------------------------
LEMMA CleanWhole ==
    ASSUME NEW x \in Text, \A j \in 1 .. Len(x) : x[j] \in Clean
    PROVE  x \in Seq(Clean)
  <1>1. x \in [1 .. Len(x) -> Clean] /\ Len(x) \in Nat
    BY DEF Text
  <1> QED BY <1>1

LEMMA CleanInsert ==
    ASSUME NEW w \in Seq(Clean), NEW p \in 1 .. (Len(w) + 1), NEW c \in Clean
    PROVE  InsertAt(w, p, c) \in Seq(Clean)
  <1>1. /\ 1 \in Nat \ {0} /\ p - 1 \in 0 .. Len(w) /\ p \in Nat \ {0} /\ Len(w) \in 0 .. Len(w)
    OBVIOUS
  <1> DEFINE l == SubSeq(w, 1, p - 1)
             r == SubSeq(w, p, Len(w))
             one == <<c>>
  <1>2. l \in Seq(Clean) /\ r \in Seq(Clean) /\ one \in Seq(Clean)
    BY <1>1, StretchType, OneOf
  <1> HIDE DEF l, r, one
  <1>3. (l \o one) \o r \in Seq(Clean)
    BY <1>2
  <1> QED BY <1>3 DEF InsertAt, l, r, one

LEMMA Places ==
    ASSUME CInv
    PROVE  /\ Wire \in Seq(Clean) /\ Wire \in Text /\ Len(Wire) \in Nat /\ Cut(Wire) \in Seq(Clean)
           /\ Cut(Wire) \in Text
           /\ HeaderEnd \in Nat /\ HeaderEnd <= Len(Wire)
           /\ \A e : FirstBlank(Wire, e) =>
                 e \in 1 .. Len(Wire) /\ BodyStart = e + 1 /\ HeaderEnd <= e
           /\ NoBlank(Wire) => BodyStart = Len(Wire) + 2 /\ Cut(Wire) = <<>>
           /\ NoBlank(Wire) \/ \E e : FirstBlank(Wire, e)
  <1>1. Wire \in Seq(Clean) /\ Wire \in Text /\ Len(Wire) \in Nat /\ Cut(Wire) \in Seq(Clean)
        /\ Cut(Wire) \in Text
    BY WireClean, CutType DEF Text
  <1>2. HeaderEnd \in Nat /\ HeaderEnd <= Len(Wire)
    BY HeaderEndIs
  <1>3. BodyStart = StartOf(Wire)
    BY DEF BodyStart, StartOf
  <1>4. ASSUME NEW e, FirstBlank(Wire, e)
        PROVE  e \in 1 .. Len(Wire) /\ BodyStart = e + 1 /\ HeaderEnd <= e
    <2>1. e \in 1 .. Len(Wire)
      BY <1>4 DEF FirstBlank
    <2>2. BodyStart = e + 1
      BY <1>1, <1>3, <1>4, StartIs
    <2> DEFINE B == {BodyStart - 1, Len(Wire)}
    <2>3. B \in SUBSET Nat /\ B # {} /\ e \in B
      BY <1>1, <2>1, <2>2
    <2> HIDE DEF B
    <2>4. Min(B) <= e
      BY <2>3, SmallestElement
    <2> QED BY <2>1, <2>2, <2>4 DEF HeaderEnd, B
  <1> QED BY <1>1, <1>2, <1>3, <1>4, StartIs

LEMMA LineBeforeFacts ==
    ASSUME CInv, NEW p \in 1 .. (Len(Wire) + 1), LineBefore(p) # <<>>
    PROVE  p > 1 /\ Wire[p - 1] # CRLF /\ Last(LineBefore(p)) = Wire[p - 1]
  <1> DEFINE w == Wire
             B == {0} \cup { q \in 1 .. (p - 1) : w[q] = CRLF }
             m == Max(B)
             x == SubSeq(w, m + 1, p - 1)
  <1>1. LineBefore(p) = x
    BY DEF LineBefore
  <1>2. w \in Seq(Alphabet) /\ Len(w) \in Nat /\ p \in Nat /\ p \in 1 .. (Len(w) + 1)
    BY Places DEF Text
  <1> HIDE DEF w
  <1>3. B \in SUBSET (0 .. (p - 1)) /\ B # {} /\ p - 1 \in Nat
    BY <1>2
  <1>4. m \in B /\ \A q \in B : q <= m
    <2> HIDE DEF B
    <2> QED BY <1>3, GreatestElement
  <1>5. m \in 0 .. (p - 1)
    <2> HIDE DEF m, B
    <2> QED BY <1>3, <1>4
  <1>6. m + 1 \in Nat \ {0} /\ p - 1 \in 0 .. Len(w)
    <2> HIDE DEF m, B
    <2> QED BY <1>2, <1>5
  <1>7. /\ x \in Seq(Alphabet)
        /\ Len(x) = IF m + 1 <= p - 1 THEN p - 1 - (m + 1) + 1 ELSE 0
        /\ \A j \in 1 .. (p - 1 - (m + 1) + 1) : x[j] = w[m + 1 + j - 1]
    <2> HIDE DEF m, B
    <2> QED BY ONLY <1>2, <1>6, StretchType DEF x
  <1>8. m < p - 1
    <2> HIDE DEF m, B, x
    <2>1. Len(x) # 0
      BY <1>1, <1>7
    <2> QED BY <1>2, <1>5, <1>7, <2>1
  <1>9. w[p - 1] # CRLF
    <2>1. ASSUME w[p - 1] = CRLF PROVE p - 1 \in B
      <3> HIDE DEF m, x
      <3>1. p - 1 \in 1 .. (p - 1)
        BY <1>2, <1>5, <1>8
      <3> QED BY <2>1, <3>1
    <2> HIDE DEF m, B
    <2> QED BY <1>2, <1>4, <1>5, <1>8, <2>1
  <1> HIDE DEF m, B, x
  <1>10. Last(x) = w[p - 1]
    <2>1. Len(x) = p - 1 - m /\ Len(x) \in 1 .. (p - 1 - (m + 1) + 1) /\ m + 1 + Len(x) - 1 = p - 1
      BY <1>2, <1>5, <1>7, <1>8
    <2>2. x[Len(x)] = w[m + 1 + Len(x) - 1]
      BY <1>7, <2>1
    <2> QED BY <2>1, <2>2 DEF Last
  <1> QED BY <1>1, <1>2, <1>5, <1>8, <1>9, <1>10 DEF w

(* The body of the text a change leaves.                                   *)
LEMMA EditCovers ==
    ASSUME PInv, pc = "done", NEW text \in Text, NEW kind, Edit(text, kind),
           Cut(Normalize(text)) \in Text, Covers(Cut(Wire), Cut(Normalize(text)), kind)
    PROVE  PInv'
  <1> DEFINE t == Cut(Wire)
             u == Cut(Normalize(text))
  <1>1. CInv'
    BY EditKeeps DEF PInv
  <1>2. pc' = "split" /\ Wire' = Normalize(text) /\ edits' = edits \cup kind
        /\ first' = IF first = Absent THEN [headers |-> headers, body |-> body] ELSE first
    BY DEF Edit, Wire
  <1>3. body = t /\ t \in Text /\ u \in Text /\ Covers(t, u, kind)
    BY Places DEF PInv
  <1>4. first = Absent => first'.body = t
    BY <1>2, <1>3
  <1>5. first # Absent => first' = first /\ first.body \in Text /\ Covers(first.body, t, edits)
    BY <1>2 DEF PInv
  <1> HIDE DEF t, u
  <1>6. first'.body \in Text /\ Covers(first'.body, u, edits')
    <2>1. CASE first = Absent
      <3>1. Covers(t, u, edits \cup kind)
        BY ONLY <1>3, CoversFacts
      <3> QED BY <1>2, <1>3, <1>4, <2>1, <3>1
    <2>2. CASE first # Absent
      <3>1. Covers(first.body, u, edits \cup kind)
        BY ONLY <1>3, <1>5, <2>2, CoversFacts
      <3> QED BY <1>2, <1>5, <2>2, <3>1
    <2> QED BY <2>1, <2>2
  <1>7. Cut(Wire)' = u
    BY <1>2 DEF u
  <1>8. (first' # Absent => first'.body \in Text /\ Covers(first'.body, Cut(Wire'), edits'))
    BY <1>6, <1>7
  <1> QED BY <1>1, <1>2, <1>8 DEF PInv

LEMMA CleanEdit ==
    ASSUME PInv, pc = "done", NEW text \in Seq(Clean), NEW kind, Edit(text, kind),
           Covers(Cut(Wire), Cut(text), kind)
    PROVE  PInv'
  <1>1. text \in Text /\ Cut(text) \in Text /\ Normalize(text) = text
    BY CutType, CleanStays
  <1> QED BY <1>1, EditCovers

LEMMA SameCut ==
    ASSUME PInv, pc = "done", NEW text \in Seq(Clean), NEW kind, Edit(text, kind),
           Cut(text) = Cut(Wire)
    PROVE  PInv'
  <1>1. Cut(text) \in Text
    BY CutType
  <1>2. Covers(Cut(Wire), Cut(text), kind)
    BY <1>1, CoversFacts
  <1> QED BY <1>2, CleanEdit

LEMMA StoreCovers == PInv /\ pc = "done" /\ Store => PInv'
  <1> SUFFICES ASSUME PInv, pc = "done", Store PROVE PInv'
    OBVIOUS
  <1>1. Wire \in Seq(Clean) /\ Cut(Wire) \in Text
    BY Places DEF PInv
  <1>2. PICK text \in Encodings(Wire) : Edit(text, {})
    BY DEF Store
  <1>3. text \in Text /\ Normalize(text) = Wire
    BY <1>1, StoredIs
  <1>4. Covers(Cut(Wire), Cut(Normalize(text)), {})
    BY <1>1, <1>3, CoversFacts
  <1> QED BY <1>1, <1>2, <1>3, <1>4, EditCovers

LEMMA RewriteCovers == PInv /\ pc = "done" /\ Rewrite => PInv'
  <1> SUFFICES ASSUME PInv, pc = "done", Rewrite PROVE PInv'
    OBVIOUS
  <1>1. body = Cut(Wire) /\ SolidFields /\ headers \in Seq(Field) /\ body \in Seq(Clean)
    BY Places DEF PInv, CInv, Parsed
  <1>2. CASE headers = <<>>
    <2>1. Edit(<<CRLF>> \o body, {})
      BY <1>2 DEF Rewrite
    <2>2. <<CRLF>> \o body \in Seq(Clean) /\ Cut(<<CRLF>> \o body) = body
      BY <1>1, BodyAlone
    <2> QED BY <1>1, <2>1, <2>2, SameCut
  <1>3. CASE headers # <<>>
    <2> DEFINE raws == [j \in DOMAIN headers |-> headers[j].raw]
               text == Join(raws \o << <<>>, body >>, CRLF)
    <2>1. Edit(text, {})
      BY <1>3 DEF Rewrite
    <2>2. raws \in Seq(Solid) /\ raws # <<>>
      <3>1. DOMAIN headers = 1 .. Len(headers) /\ Len(headers) \in Nat \ {0}
        BY <1>1, <1>3
      <3>2. raws \in Seq(Solid) /\ Len(raws) = Len(headers)
        BY <1>1, <3>1 DEF SolidFields
      <3> HIDE DEF raws
      <3> QED BY <3>1, <3>2
    <2> HIDE DEF raws
    <2>3. text \in Seq(Clean) /\ Cut(text) = body
      BY <1>1, <2>2, Rewritten
    <2> HIDE DEF text
    <2> QED BY <1>1, <2>1, <2>3, SameCut
  <1> QED BY <1>2, <1>3

(* A character put into the header block.                                  *)
LEMMA HeadInsertCovers ==
    ASSUME PInv, pc = "done", NEW p \in 1 .. (Len(Wire) + 1), p < BodyStart, NEW c \in Clean,
           Harmless(Wire, p, c), NEW kind, Edit(InsertAt(Wire, p, c), kind)
    PROVE  PInv'
  <1> DEFINE w == Wire
             v == InsertAt(w, p, c)
  <1>1. /\ w \in Seq(Clean) /\ w \in Text /\ c \in Alphabet
        /\ NoBlank(w) => Cut(w) = <<>>
        /\ \A e : FirstBlank(w, e) => e \in 1 .. Len(w) /\ BodyStart = e + 1
        /\ NoBlank(w) \/ \E e : FirstBlank(w, e)
    BY Places, CleanText DEF PInv
  <1>2. v \in Seq(Clean) /\ v \in Text
    BY <1>1, CleanInsert, CleanText
  <1>3. /\ NoBlank(w) => NoBlank(v)
        /\ \A e : FirstBlank(w, e) /\ p <= e => Cut(v) = Cut(w)
    BY <1>1, InsertInHead
  <1> HIDE DEF w, v
  <1>4. Cut(v) = Cut(w)
    <2>1. CASE NoBlank(w)
      <3>1. Cut(v) = <<>>
        BY <1>2, <1>3, <2>1, StartIs
      <3> QED BY <1>1, <2>1, <3>1
    <2>2. ASSUME NEW e, FirstBlank(w, e) PROVE Cut(v) = Cut(w)
      <3>1. e \in 1 .. Len(w) /\ BodyStart = e + 1
        BY <1>1, <2>2
      <3>2. p <= e
        BY <3>1
      <3> QED BY <1>3, <2>2, <3>2
    <2> QED BY <1>1, <2>1, <2>2
  <1> QED BY <1>2, <1>4, SameCut DEF w, v

LEMMA WidenCovers == PInv /\ pc = "done" /\ Widen => PInv'
  <1> SUFFICES ASSUME PInv, pc = "done", Widen PROVE PInv'
    OBVIOUS
  <1>1. PICK p \in 1 .. (Len(Wire) + 1), space \in WSP :
          /\ \/ LineBefore(p) # <<>> /\ Last(LineBefore(p)) \in WSP
             \/ LineEnd(p) /\ (p >= BodyStart \/ LineBefore(p) # <<>>)
          /\ Edit(InsertAt(Wire, p, space), {"space"})
    BY DEF Widen
  <1>2. CInv /\ space \in Clean /\ space # CRLF /\ space \in Alphabet
    BY Letters DEF PInv, Clean, WSP, CRLF
  <1>3. /\ Wire \in Seq(Clean) /\ Wire \in Text /\ Len(Wire) \in Nat
        /\ \A e : FirstBlank(Wire, e) => e \in 1 .. Len(Wire) /\ BodyStart = e + 1
        /\ NoBlank(Wire) => BodyStart = Len(Wire) + 2
        /\ NoBlank(Wire) \/ \E e : FirstBlank(Wire, e)
    BY <1>2, Places
  <1>4. BodyStart \in Nat
    BY <1>3
  <1>5. CASE p < BodyStart
    <2>1. LineBefore(p) # <<>>
      BY <1>1, <1>3, <1>4, <1>5
    <2>2. Harmless(Wire, p, space)
      BY <1>2, <2>1, LineBeforeFacts DEF Harmless
    <2> QED BY <1>1, <1>2, <1>5, <2>2, HeadInsertCovers
  <1>6. CASE p >= BodyStart
    <2>1. PICK e : FirstBlank(Wire, e)
      BY <1>3, <1>6
    <2>2. e \in 1 .. Len(Wire) /\ BodyStart = e + 1 /\ p \in (e + 1) .. (Len(Wire) + 1)
      BY <1>3, <1>6, <2>1
    <2>3. PICK l \in Text, r \in Text :
             /\ Cut(Wire) = l \o r /\ Cut(InsertAt(Wire, p, space)) = (l \o <<space>>) \o r
             /\ l = SubSeq(Wire, e + 1, p - 1) /\ r = SubSeq(Wire, p, Len(Wire))
      BY <1>2, <1>3, <2>1, <2>2, InsertInBody
    <2>4. Spaced(l) \/ r = <<>> \/ r[1] = CRLF
      <3>0. Wire \in Seq(Alphabet)
        BY <1>3 DEF Text
      <3>1. CASE LineBefore(p) # <<>> /\ Last(LineBefore(p)) \in WSP
        <4>1. p > 1 /\ Wire[p - 1] # CRLF /\ Wire[p - 1] \in WSP
          BY <1>2, <3>1, LineBeforeFacts
        <4>2. Wire[e] = CRLF
          BY <2>1 DEF FirstBlank, Blank
        <4>3. e + 1 <= p - 1
          BY <2>2, <4>1, <4>2
        <4>4. e + 1 \in Nat \ {0} /\ p - 1 \in 0 .. Len(Wire)
          BY <2>2
        <4>5. /\ Len(l) = IF e + 1 <= p - 1 THEN p - 1 - (e + 1) + 1 ELSE 0
              /\ \A j \in 1 .. (p - 1 - (e + 1) + 1) : l[j] = Wire[e + 1 + j - 1]
          BY <2>3, <3>0, <4>4, StretchType
        <4>6. Len(l) = p - 1 - (e + 1) + 1 /\ Len(l) \in 1 .. (p - 1 - (e + 1) + 1)
              /\ e + 1 + Len(l) - 1 = p - 1
          BY <2>2, <4>3, <4>5
        <4>7. l[Len(l)] = Wire[p - 1] /\ l # <<>>
          BY <4>5, <4>6
        <4> QED BY <4>1, <4>7 DEF Spaced, Last
      <3>2. CASE LineEnd(p)
        <4>1. p \in Nat \ {0} /\ Len(Wire) \in 0 .. Len(Wire)
          BY <1>3
        <4>2. /\ Len(r) = IF p <= Len(Wire) THEN Len(Wire) - p + 1 ELSE 0
              /\ \A j \in 1 .. (Len(Wire) - p + 1) : r[j] = Wire[p + j - 1]
          BY <2>3, <3>0, <4>1, StretchType
        <4>3. CASE p <= Len(Wire)
          <5>1. Wire[p] = CRLF
            BY <1>3, <3>0, <3>2, <4>3 DEF LineEnd
          <5>2. 1 \in 1 .. (Len(Wire) - p + 1) /\ p + 1 - 1 = p
            BY <1>3, <4>3
          <5> QED BY <4>2, <5>1, <5>2
        <4>4. CASE p > Len(Wire)
          <5>1. Len(r) = 0
            BY <1>3, <4>2, <4>4
          <5> QED BY <2>3, <5>1 DEF Text
        <4> QED BY <1>3, <4>3, <4>4
      <3> QED BY <1>1, <3>1, <3>2
    <2>5. RelaxedBody((l \o <<space>>) \o r) = RelaxedBody(l \o r)
      BY <2>3, <2>4, SpaceInBody
    <2>6. (l \o <<space>>) \o r # <<>>
      <3> DEFINE one == <<space>>
      <3>1. one \in Seq(Alphabet) /\ Len(one) = 1 /\ l \in Seq(Alphabet) /\ r \in Seq(Alphabet)
        BY <1>2, <2>3, OneOf DEF Text
      <3> HIDE DEF one
      <3>2. Len((l \o one) \o r) = Len(l) + 1 + Len(r) /\ Len(l) \in Nat /\ Len(r) \in Nat
        <4> DEFINE m == l \o one
        <4>1. m \in Seq(Alphabet) /\ Len(m) = Len(l) + 1
          <5>1. m \in Seq(Alphabet) /\ Len(m) = Len(l) + Len(one)
            BY ONLY <3>1, ConcatProperties
          <5> QED BY <3>1, <5>1
        <4> HIDE DEF m
        <4>2. Len(m \o r) = Len(m) + Len(r)
          BY <3>1, <4>1
        <4>3. Len(l) \in Nat /\ Len(r) \in Nat
          BY <3>1
        <4> QED BY <4>1, <4>2, <4>3 DEF m
      <3>3. Len((l \o one) \o r) # 0
        BY <3>2
      <3> QED BY <3>3 DEF one
    <2>7. InsertAt(Wire, p, space) \in Seq(Clean)
      BY <1>2, <1>3, CleanInsert
    <2>8. Covers(Cut(Wire), Cut(InsertAt(Wire, p, space)), {"space"})
      <3>1. RelaxedBody(Cut(Wire)) \in Text
        BY <1>2, Places, BodiesType
      <3>2. Before(RelaxedBody(Cut(Wire)), RelaxedBody(Cut(InsertAt(Wire, p, space))))
        BY <2>3, <2>5, <3>1, BeforeFacts
      <3>3. ~({"space"} \subseteq {"blank"}) /\ {"space"} # {} /\ "space" \in {"space"}
        OBVIOUS
      <3> QED BY <2>3, <2>5, <2>6, <3>2, <3>3 DEF Covers
    <2> QED BY <1>1, <2>7, <2>8, CleanEdit
  <1> QED BY <1>3, <1>4, <1>5, <1>6

LEMMA RefoldCovers == PInv /\ pc = "done" /\ Refold => PInv'
  <1> SUFFICES ASSUME PInv, pc = "done", Refold PROVE PInv'
    OBVIOUS
  <1>1. PICK p \in 2 .. HeaderEnd :
          Wire[p] \in WSP /\ LineBefore(p) # <<>> /\ Edit(InsertAt(Wire, p, CRLF), {"space"})
    BY DEF Refold, HeaderEnd
  <1>2. /\ CInv /\ CRLF \in Clean /\ Wire[p] # CRLF
    BY <1>1, CleanText, Letters DEF PInv
  <1>3. /\ Len(Wire) \in Nat /\ HeaderEnd \in Nat /\ HeaderEnd <= Len(Wire)
        /\ \A e : FirstBlank(Wire, e) => e \in 1 .. Len(Wire) /\ BodyStart = e + 1 /\ HeaderEnd <= e
        /\ NoBlank(Wire) => BodyStart = Len(Wire) + 2
        /\ NoBlank(Wire) \/ \E e : FirstBlank(Wire, e)
    BY <1>2, Places
  <1>4. p \in 1 .. (Len(Wire) + 1) /\ p <= Len(Wire)
    BY <1>3
  <1>5. p < BodyStart
    <2>1. CASE NoBlank(Wire)
      BY <1>3, <1>4, <2>1
    <2>2. ASSUME NEW e, FirstBlank(Wire, e) PROVE p < BodyStart
      <3>1. e \in 1 .. Len(Wire) /\ BodyStart = e + 1 /\ HeaderEnd <= e
        BY <1>3, <2>2
      <3> QED BY <1>3, <3>1
    <2> QED BY <1>3, <2>1, <2>2
  <1>6. Harmless(Wire, p, CRLF)
    BY <1>1, <1>2, <1>4, LineBeforeFacts DEF Harmless
  <1> QED BY <1>1, <1>2, <1>4, <1>5, <1>6, HeadInsertCovers

LEMMA RecaseCovers == PInv /\ pc = "done" /\ Recase => PInv'
  <1> SUFFICES ASSUME PInv, pc = "done", Recase PROVE PInv'
    OBVIOUS
  <1>1. PICK p \in 1 .. HeaderEnd :
          Wire[p] \in DOMAIN LowerOf /\ Edit([Wire EXCEPT ![p] = LowerOf[@]], {"space"})
    BY DEF Recase, HeaderEnd
  <1> DEFINE w == Wire
             c == LowerOf[w[p]]
             v == [w EXCEPT ![p] = c]
  <1>2. CInv /\ Edit(v, {"space"})
    BY <1>1 DEF PInv
  <1>3. /\ w \in Seq(Clean) /\ w \in Text /\ Len(w) \in Nat /\ HeaderEnd \in Nat /\ HeaderEnd <= Len(w)
        /\ \A e : FirstBlank(w, e) => HeaderEnd <= e /\ e \in 1 .. Len(w)
        /\ NoBlank(w) => Cut(w) = <<>>
        /\ NoBlank(w) \/ \E e : FirstBlank(w, e)
    BY <1>2, Places
  <1>4. w[p] # CRLF /\ c # CRLF /\ c \in Clean /\ c \in Alphabet
    <2>1. w[p] \in NameChars /\ LowerOf[w[p]] \in NameChars
      BY <1>1, CaseAssumption
    <2>2. c \in Alphabet
      BY <1>1, Letters
    <2>3. CRLF \in FWS
      BY DEF FWS
    <2>4. \A ch \in NameChars : ch # CRLF /\ ch # "CR" /\ ch # "LF"
      BY <2>3, NamesArePrintable
    <2> QED BY <2>1, <2>2, <2>4 DEF Clean
  <1>5. p \in 1 .. Len(w)
    BY <1>3
  <1> HIDE DEF w, c
  <1>6. v \in Seq(Clean)
    BY <1>3, <1>4, <1>5
  <1>7. /\ v \in Text /\ (NoBlank(w) => NoBlank(v))
        /\ \A e : FirstBlank(w, e) /\ p <= e => Cut(v) = Cut(w)
    BY <1>3, <1>4, <1>5, Recased
  <1> HIDE DEF v
  <1>8. Cut(v) = Cut(w)
    <2>1. CASE NoBlank(w)
      <3>1. Cut(v) = <<>>
        BY <1>7, <2>1, StartIs
      <3> QED BY <1>3, <2>1, <3>1
    <2>2. ASSUME NEW e, FirstBlank(w, e) PROVE Cut(v) = Cut(w)
      <3>1. e \in 1 .. Len(w) /\ HeaderEnd <= e
        BY <1>3, <2>2
      <3>2. p <= e
        BY <1>3, <3>1
      <3> QED BY <1>7, <2>2, <3>2
    <2> QED BY <1>3, <2>1, <2>2
  <1>9. Cut(v) = Cut(Wire)
    BY <1>8 DEF w
  <1> QED BY <1>2, <1>6, <1>9, SameCut

(* Text behind the message.                                                *)
LEMMA AddedCovers ==
    ASSUME PInv, pc = "done", BodyStart <= Len(Wire) + 1, NEW t \in Seq(Clean), NEW kind,
           Edit(Wire \o t, kind), Covers(Cut(Wire), Cut(Wire) \o t, kind)
    PROVE  PInv'
  <1>1. /\ Wire \in Seq(Clean) /\ Wire \in Text /\ Len(Wire) \in Nat
        /\ NoBlank(Wire) => BodyStart = Len(Wire) + 2
        /\ NoBlank(Wire) \/ \E e : FirstBlank(Wire, e)
    BY Places DEF PInv
  <1>2. PICK e : FirstBlank(Wire, e)
    BY <1>1
  <1>3. Wire \o t \in Seq(Clean) /\ t \in Text
    BY <1>1, CleanText
  <1>4. Cut(Wire \o t) = Cut(Wire) \o t
    BY <1>1, <1>2, <1>3, AddedBehind
  <1> QED BY <1>3, <1>4, CleanEdit

LEMMA BlankCovers == PInv /\ pc = "done" /\ AppendBlank => PInv'
  <1> SUFFICES ASSUME PInv, pc = "done", AppendBlank PROVE PInv'
    OBVIOUS
  <1> DEFINE t == <<CRLF>>
             b == Cut(Wire)
  <1>1. /\ Wire \in Seq(Clean) /\ Wire \in Seq(Alphabet) /\ b \in Text /\ b \in Seq(Alphabet)
        /\ CRLF \in Clean /\ CRLF \in Alphabet
    BY Places, CleanText, Letters DEF PInv, Text
  <1>2. Append(Wire, CRLF) = Wire \o t /\ Append(b, CRLF) = b \o t /\ t \in Seq(Clean)
    BY <1>1, AppendIs
  <1>3. BodyStart <= Len(Wire) + 1 /\ Edit(Wire \o t, {"blank"})
    BY <1>2 DEF AppendBlank
  <1>4. RelaxedBody(Append(b, CRLF)) = RelaxedBody(b) /\ SimpleBody(Append(b, CRLF)) = SimpleBody(b)
    BY <1>1, BlankInBody
  <1>5. Append(b, CRLF) # <<>>
    BY <1>1, ChainMore
  <1>6. Before(RelaxedBody(b), RelaxedBody(b)) /\ Before(SimpleBody(b), SimpleBody(b))
    BY <1>1, BodiesType, BeforeFacts
  <1> HIDE DEF t, b
  <1>7. Covers(b, b \o t, {"blank"})
    <2>1. {"blank"} # {}
      OBVIOUS
    <2> QED BY <1>2, <1>4, <1>5, <1>6, <2>1 DEF Covers
  <1> QED BY <1>2, <1>3, <1>7, AddedCovers DEF b

LEMMA TextCovers == PInv /\ pc = "done" /\ AppendText => PInv'
  <1> SUFFICES ASSUME PInv, pc = "done", AppendText PROVE PInv'
    OBVIOUS
  <1> DEFINE b == Cut(Wire)
             t == More(b)
  <1>1. b \in Text /\ body = b
    BY Places DEF PInv
  <1>2. BodyStart <= Len(Wire) + 1 /\ Edit(Wire \o t, {"text"})
    BY <1>1 DEF AppendText, More
  <1>3. t \in Seq(Clean)
    <2>1. "v" \in Clean /\ CRLF \in Clean
      BY Letters, CleanText DEF Clean
    <2>2. << CRLF, "v" >> \in Seq(Clean) /\ << "v" >> \in Seq(Clean)
      BY <2>1
    <2> QED BY <2>2 DEF More
  <1>4. /\ b \o t # <<>> /\ Before(RelaxedBody(b), RelaxedBody(b \o t))
        /\ b # <<>> => Before(SimpleBody(b), SimpleBody(b \o t))
    BY <1>1, TextInBody
  <1> HIDE DEF t, b
  <1>5. Covers(b, b \o t, {"text"})
    <2>1. ~({"text"} \subseteq {"blank"}) /\ {"text"} # {} /\ "text" \in {"text"}
      OBVIOUS
    <2> QED BY <1>4, <2>1 DEF Covers
  <1> QED BY <1>2, <1>3, <1>5, AddedCovers DEF b

LEMMA PInvStep == PInv /\ [CanonNext]_canonVars => PInv'
  <1> SUFFICES ASSUME PInv, [CanonNext]_canonVars PROVE PInv'
    OBVIOUS
  <1>1. CASE Next /\ UNCHANGED <<first, edits, count>>
    BY <1>1, SplitCovers, ParseCovers DEF Next
  <1>2. CASE Edits
    BY <1>2, StoreCovers, RewriteCovers, WidenCovers, RefoldCovers, RecaseCovers, BlankCovers,
       TextCovers DEF Edits
  <1>3. CASE UNCHANGED canonVars
    <2>1. CInv'
      BY <1>3, CInvStep DEF PInv
    <2> QED BY <1>3, <2>1 DEF canonVars, vars, parser, PInv, SolidFields, Wire
  <1> QED BY <1>1, <1>2, <1>3 DEF CanonNext

(* In any message and through any number of edits, what was signed of the  *)
(* body stays in front: the relaxed body of the signer is a prefix of the  *)
(* relaxed body that arrives, so that a signature over its first l= octets *)
(* holds, and so is the simple one where no whitespace came in, unless the *)
(* body was empty (canon.go:110-132, verify.go:370-382).                   *)
THEOREM PrefixKept == CanonSpec => []SignedPrefixKept
  <1>1. PInv => SignedPrefixKept
    <2> SUFFICES ASSUME PInv, pc = "done", first # Absent
        PROVE  /\ IsPrefix(RelaxedBody(first.body), RelaxedBody(body))
               /\ "space" \notin edits /\ first.body # <<>> =>
                    IsPrefix(SimpleBody(first.body), SimpleBody(body))
      BY DEF SignedPrefixKept
    <2>1. body = Cut(Wire) /\ first.body \in Text /\ Covers(first.body, body, edits) /\ body \in Text
      BY Places DEF PInv
    <2> QED BY <2>1, BodiesType, BeforeFacts DEF Covers
  <1> QED BY <1>1, PInvInit, PInvStep, PTL DEF CanonSpec

(* What the modes of canonicalization hide in a body: relaxed all but text *)
(* added, simple all but text and whitespace, and without an edit of       *)
(* either the body arrives as it was, whatever line ends it was stored     *)
(* with and whether or not its fields were written again (canon.go:106).   *)
THEOREM BodyStays == CanonSpec => []BodyUnchanged
  <1>1. PInv => BodyUnchanged
    <2> SUFFICES ASSUME PInv, pc = "done", first # Absent
        PROVE  /\ "text" \notin edits =>
                    CanonicalizeBody(body, "relaxed") = CanonicalizeBody(first.body, "relaxed")
               /\ edits \subseteq {"blank"} =>
                    CanonicalizeBody(body, "simple") = CanonicalizeBody(first.body, "simple")
               /\ edits = {} => body = first.body
      BY DEF BodyUnchanged
    <2>1. body = Cut(Wire) /\ Covers(first.body, body, edits)
      BY DEF PInv
    <2>2. \A t : /\ CanonicalizeBody(t, "relaxed") = RelaxedBody(t)
                 /\ CanonicalizeBody(t, "simple") = SimpleBody(t)
      BY DEF CanonicalizeBody
    <2> QED BY <2>1, <2>2 DEF Covers
  <1> QED BY <1>1, PInvInit, PInvStep, PTL DEF CanonSpec
-------------------------------------------------------------------------------
(* Reading a header block, character by character. *)

LEMMA HeadIs ==
    ASSUME NEW w \in Text
    PROVE  /\ HeadText(w) \in Text
           /\ \A e : FirstBlank(w, e) => HeadText(w) = SubSeq(w, 1, e)
           /\ NoBlank(w) => HeadText(w) = Append(w, CRLF)
  <1> DEFINE t == Append(w, CRLF)
             n == Len(w)
  <1>1. w \in Seq(Alphabet) /\ CRLF \in Alphabet /\ n \in Nat
    BY Letters DEF Text
  <1>2. /\ t \in Seq(Alphabet) /\ Len(t) = n + 1
        /\ \A a \in Nat \ {0} : \A b \in 0 .. n : SubSeq(t, a, b) = SubSeq(w, a, b)
    BY <1>1, StretchAppend
  <1>3. HeadText(w) = SubSeq(t, 1, StartOf(w) - 1)
    BY DEF HeadText
  <1> HIDE DEF t
  <1>4. ASSUME NEW e, FirstBlank(w, e) PROVE HeadText(w) = SubSeq(w, 1, e) /\ HeadText(w) \in Text
    <2>1. e \in 0 .. n /\ StartOf(w) = e + 1 /\ 1 \in Nat \ {0} /\ e + 1 - 1 = e
      BY <1>1, <1>4, StartIs DEF FirstBlank
    <2>2. HeadText(w) = SubSeq(w, 1, e)
      BY <1>2, <1>3, <2>1
    <2> QED BY <1>1, <2>1, <2>2, StretchType DEF Text
  <1>5. ASSUME NoBlank(w) PROVE HeadText(w) = t
    <2>1. StartOf(w) - 1 = n + 1
      BY <1>1, <1>5, StartIs
    <2> QED BY <1>2, <1>3, <2>1, WholeStretch
  <1>6. t \in Text
    BY <1>2 DEF Text
  <1> QED BY <1>4, <1>5, <1>6, StartIs DEF t

LEMMA HeadOf ==
    ASSUME NEW u \in Text, NEW t \in Text, FirstBlank(u, Len(u))
    PROVE  HeadText(u \o t) = u /\ HeadText(u) = u
  <1> DEFINE w == u \o t
             n == Len(u)
  <1>1. w \in Text /\ FirstBlank(w, n)
    BY HeadCut
  <1>2. u \in Seq(Alphabet) /\ t \in Seq(Alphabet) /\ n \in Nat /\ 1 \in Nat \ {0} /\ n \in 0 .. n
    BY DEF Text
  <1>3. SubSeq(w, 1, n) = SubSeq(u, 1, n) /\ SubSeq(u, 1, n) = u
    BY <1>2, FrontStretch, WholeStretch
  <1> HIDE DEF w
  <1>4. HeadText(w) = u /\ HeadText(u) = u
    BY <1>1, <1>3, HeadIs
  <1> QED BY <1>4 DEF w
-------------------------------------------------------------------------------
(* The parser, a character at a time. *)

ReadEquation(x, size, f) ==
    f = [p \in 0 .. size |-> IF p = 0 THEN Fresh ELSE Eat(f[p - 1], x[p])]

LEMMA ReadExists ==
    ASSUME NEW x, NEW size \in Nat
    PROVE  \E f : ReadEquation(x, size, f)
  <1> DEFINE S == { e \in Nat : \E f : ReadEquation(x, e, f) }
  <1>1. 0 \in S
    <2>1. ReadEquation(x, 0, [p \in 0 .. 0 |-> Fresh])
      BY DEF ReadEquation
    <2> QED BY <2>1
  <1>2. ASSUME NEW e \in Nat, e \in S PROVE e + 1 \in S
    <2>1. PICK g : ReadEquation(x, e, g)
      BY <1>2
    <2> DEFINE last == Eat(g[e], x[e + 1])
               h    == [p \in 0 .. (e + 1) |-> IF p = e + 1 THEN last ELSE g[p]]
    <2>2. ASSUME NEW p \in 0 .. (e + 1)
          PROVE  h[p] = IF p = 0 THEN Fresh ELSE Eat(h[p - 1], x[p])
      <3>1. CASE p = e + 1
        <4>1. p # 0 /\ p - 1 = e /\ p - 1 \in 0 .. (e + 1) /\ p - 1 # e + 1
          BY <3>1
        <4>2. h[p - 1] = g[e] /\ h[p] = last
          BY <3>1, <4>1
        <4> HIDE DEF h
        <4> QED BY <3>1, <4>1, <4>2
      <3>2. CASE p # e + 1
        <4>1. p \in 0 .. e /\ h[p] = g[p] /\ (p # 0 => h[p - 1] = g[p - 1])
          BY <3>2
        <4>2. g[p] = IF p = 0 THEN Fresh ELSE Eat(g[p - 1], x[p])
          BY <2>1, <4>1 DEF ReadEquation
        <4> HIDE DEF h
        <4> QED BY <4>1, <4>2
      <3> QED BY <3>1, <3>2
    <2>3. h = [p \in 0 .. (e + 1) |-> h[p]]
      OBVIOUS
    <2> HIDE DEF h
    <2>4. ReadEquation(x, e + 1, h)
      BY <2>2, <2>3 DEF ReadEquation
    <2> QED BY <2>4
  <1> HIDE DEF S
  <1>3. size \in S
    BY <1>1, <1>2, NatInductionOnSet
  <1> QED BY <1>3 DEF S

LEMMA ReadUnfolds ==
    ASSUME NEW x, Len(x) \in Nat
    PROVE  ReadEquation(x, Len(x), Reading(x))
  <1>1. Reading(x) = CHOOSE f : ReadEquation(x, Len(x), f)
    BY DEF Reading, ReadEquation
  <1>2. \E f : ReadEquation(x, Len(x), f)
    BY ReadExists
  <1> QED BY <1>1, <1>2

LEMMA ReadAt ==
    ASSUME NEW x, NEW size \in Nat, NEW f, ReadEquation(x, size, f)
    PROVE  f[0] = Fresh /\ \A p \in 1 .. size : f[p] = Eat(f[p - 1], x[p])
  <1>1. 0 \in 0 .. size
    OBVIOUS
  <1>2. f[0] = Fresh
    BY <1>1 DEF ReadEquation
  <1>3. ASSUME NEW p \in 1 .. size PROVE f[p] = Eat(f[p - 1], x[p])
    <2>1. p \in 0 .. size /\ p # 0
      OBVIOUS
    <2>2. f[p] = IF p = 0 THEN Fresh ELSE Eat(f[p - 1], x[p])
      BY <2>1 DEF ReadEquation
    <2> QED BY <2>1, <2>2
  <1> QED BY <1>2, <1>3

LEMMA ReadMore ==
    /\ Read(<<>>) = Fresh
    /\ \A x \in Text, c \in Alphabet : Read(Append(x, c)) = Eat(Read(x), c)
  <1>1. Read(<<>>) = Fresh
    <2>1. ReadEquation(<<>>, Len(<<>>), Reading(<<>>)) /\ Len(<<>>) = 0
      BY ReadUnfolds
    <2> QED BY <2>1, ReadAt DEF Read
  <1>2. ASSUME NEW x \in Text, NEW c \in Alphabet PROVE Read(Append(x, c)) = Eat(Read(x), c)
    <2> DEFINE t == Append(x, c)
               f == Reading(x)
               g == Reading(t)
               n == Len(x)
    <2>1. /\ n \in Nat /\ Len(t) = n + 1 /\ t[n + 1] = c
          /\ \A j \in 1 .. n : t[j] = x[j]
      BY AppendProperties DEF Text
    <2>2. ReadEquation(x, n, f) /\ ReadEquation(t, n + 1, g)
      <3>1. ReadEquation(x, Len(x), f)
        BY <2>1, ReadUnfolds
      <3>2. ReadEquation(t, Len(t), g)
        <4>1. Len(t) \in Nat
          BY <2>1
        <4> HIDE DEF t
        <4> QED BY <4>1, ReadUnfolds
      <3>3. Len(t) = n + 1
        BY <2>1
      <3> HIDE DEF f, g, t
      <3> QED BY <3>1, <3>2, <3>3
    <2>3. Read(x) = f[n] /\ Read(t) = g[n + 1]
      BY <2>1 DEF Read
    <2> HIDE DEF f, g, t, n
    <2>4. /\ f[0] = Fresh /\ g[0] = Fresh
          /\ \A p \in 1 .. n : f[p] = Eat(f[p - 1], x[p])
          /\ \A p \in 1 .. (n + 1) : g[p] = Eat(g[p - 1], t[p])
      <3>1. n + 1 \in Nat
        BY <2>1
      <3> QED BY <2>1, <2>2, <3>1, ReadAt
    <2> DEFINE P == { j \in Nat : j <= n => f[j] = g[j] }
    <2>5. 0 \in P
      BY <2>4
    <2>6. ASSUME NEW j \in Nat, j \in P PROVE j + 1 \in P
      <3> SUFFICES ASSUME j + 1 <= n PROVE f[j + 1] = g[j + 1]
        OBVIOUS
      <3>1. j + 1 \in 1 .. n /\ j + 1 \in 1 .. (n + 1) /\ j + 1 - 1 = j
        BY <2>1
      <3>2. f[j + 1] = Eat(f[j], x[j + 1])
        BY <2>4, <3>1
      <3>3. g[j + 1] = Eat(g[j], t[j + 1])
        BY <2>4, <3>1
      <3>4. t[j + 1] = x[j + 1] /\ f[j] = g[j]
        BY <2>1, <2>6, <3>1
      <3> QED BY <3>2, <3>3, <3>4
    <2> HIDE DEF P
    <2>7. n \in P
      BY <2>1, <2>5, <2>6, NatInductionOnSet
    <2>8. f[n] = g[n]
      BY <2>1, <2>7 DEF P
    <2>9. g[n + 1] = Eat(g[n], t[n + 1])
      <3> DEFINE top == n + 1
      <3>1. top \in 1 .. (n + 1) /\ top - 1 = n
        BY <2>1
      <3> HIDE DEF top
      <3>2. g[top] = Eat(g[top - 1], t[top])
        BY ONLY <2>4, <3>1
      <3> QED BY <3>1, <3>2 DEF top
    <2>10. Read(t) = Eat(Read(x), c)
      BY <2>1, <2>3, <2>8, <2>9
    <2> QED BY <2>10 DEF t
  <1> QED BY <1>1, <1>2

LEMMA StateIs ==
    \A hs, skip, last : /\ State(hs, skip, last).hs = hs /\ State(hs, skip, last).skip = skip
                        /\ State(hs, skip, last).last = last
  BY DEF State

LEMMA StatesAre ==
    /\ \A st \in States : /\ st.hs \in Seq(Field) /\ st.skip \in BOOLEAN /\ st.last \in Text
                          /\ st = State(st.hs, st.skip, st.last)
    /\ \A hs \in Seq(Field), skip \in BOOLEAN, last \in Text : State(hs, skip, last) \in States
  BY DEF State, States

LEMMA FieldFacts ==
    /\ \A f \in Field : f.name \in Text /\ f.value \in Text /\ f.raw \in Text
    /\ \A f \in Field, line \in Text :
          /\ Grown(f, line) \in Field /\ Grown(f, line).name = f.name
          /\ Grown(f, line).value = (f.value \o <<CRLF>>) \o line
          /\ Grown(f, line).raw = (f.raw \o <<CRLF>>) \o line
    /\ \A line \in Text : Contains(line, ":") => TakenFrom(line) \in Field
  <1>1. \A f \in Field : f.name \in Text /\ f.value \in Text /\ f.raw \in Text
    BY DEF Field
  <1>2. ASSUME NEW f \in Field, NEW line \in Text
        PROVE  /\ Grown(f, line) \in Field /\ Grown(f, line).name = f.name
               /\ Grown(f, line).value = (f.value \o <<CRLF>>) \o line
               /\ Grown(f, line).raw = (f.raw \o <<CRLF>>) \o line
    <2> DEFINE one == <<CRLF>>
               v == (f.value \o one) \o line
               r == (f.raw \o one) \o line
    <2>1. one \in Text
      BY Letters, OneType
    <2>2. v \in Text /\ r \in Text
      <3>1. f.value \o one \in Text /\ f.raw \o one \in Text
        BY <1>1, <2>1, ChainType
      <3> QED BY <3>1, ChainType
    <2>3. Grown(f, line) = [f EXCEPT !.raw = r, !.value = v]
      BY DEF Grown, Field
    <2> HIDE DEF v, r
    <2>4. Grown(f, line) = [name |-> f.name, value |-> v, raw |-> r]
      BY <2>3 DEF Field
    <2> QED BY <1>1, <2>2, <2>4 DEF v, r, Field
  <1>3. ASSUME NEW line \in Text, Contains(line, ":") PROVE TakenFrom(line) \in Field
    BY <1>3, PartsOfLine DEF TakenFrom, Field
  <1> QED BY <1>1, <1>2, <1>3

LEMMA LastGrows ==
    ASSUME NEW hs \in Seq(Field), hs # <<>>, NEW line \in Text
    PROVE  /\ GrownLast(hs, line) \in Seq(Field) /\ Len(GrownLast(hs, line)) = Len(hs)
           /\ Len(hs) \in Nat \ {0} /\ hs[Len(hs)] \in Field
           /\ GrownLast(hs, line)[Len(hs)] = Grown(hs[Len(hs)], line)
           /\ \A j \in 1 .. Len(hs) : j # Len(hs) => GrownLast(hs, line)[j] = hs[j]
  <1>1. Len(hs) \in Nat \ {0} /\ Len(hs) \in 1 .. Len(hs) /\ hs[Len(hs)] \in Field
    OBVIOUS
  <1> DEFINE f == Grown(hs[Len(hs)], line)
  <1>2. f \in Field
    BY <1>1, FieldFacts
  <1>3. GrownLast(hs, line) = [hs EXCEPT ![Len(hs)] = f]
    BY DEF GrownLast
  <1> HIDE DEF f
  <1>4. QED BY <1>1, <1>2, <1>3 DEF f

LEMMA FieldsType ==
    ASSUME NEW hs \in Seq(Field), NEW skip \in BOOLEAN, NEW line \in Text
    PROVE  FieldsAfter(hs, skip, line) \in Seq(Field) /\ SkipAfter(skip, line) \in BOOLEAN
  <1>1. hs # <<>> => GrownLast(hs, line) \in Seq(Field)
    BY LastGrows
  <1>2. IsFieldLine(line) => Append(hs, TakenFrom(line)) \in Seq(Field)
    BY FieldFacts DEF IsFieldLine
  <1> QED BY <1>1, <1>2 DEF FieldsAfter, SkipAfter

LEMMA EatType == \A st \in States, c \in Alphabet : Eat(st, c) \in States
  <1> SUFFICES ASSUME NEW st \in States, NEW c \in Alphabet PROVE Eat(st, c) \in States
    OBVIOUS
  <1>1. st.hs \in Seq(Field) /\ st.skip \in BOOLEAN /\ st.last \in Text
    BY StatesAre
  <1>2. Append(st.last, c) \in Text /\ <<>> \in Text
    BY <1>1 DEF Text
  <1> QED BY <1>1, <1>2, FieldsType, StatesAre DEF Eat, Finished

LEMMA ReadType == \A x \in Text : Read(x) \in States
  <1> DEFINE P == { x \in Text : Read(x) \in States }
  <1>1. <<>> \in P
    <2>1. Fresh \in States /\ <<>> \in Text
      BY DEF Fresh, State, States, Text
    <2> QED BY <2>1, ReadMore
  <1>2. ASSUME NEW x \in Seq(Alphabet), NEW c \in Alphabet, x \in P PROVE Append(x, c) \in P
    <2>1. Append(x, c) \in Text /\ x \in Text
      BY DEF Text
    <2>2. Read(Append(x, c)) \in States
      BY <1>2, <2>1, ReadMore, EatType
    <2> QED BY <2>1, <2>2
  <1> HIDE DEF P
  <1>3. \A x \in Seq(Alphabet) : x \in P
    BY <1>1, <1>2, AppendInduction
  <1> QED BY <1>3 DEF P, Text

LEMMA ReadAhead ==
    ASSUME NEW x \in Text, Read(x).last = <<>>
    PROVE  \A l \in Text : (\A j \in 1 .. Len(l) : l[j] # CRLF)
              => x \o l \in Text /\ Read(x \o l) = State(Read(x).hs, Read(x).skip, l)
  <1> DEFINE Q(l) == x \o l \in Text /\ Read(x \o l) = State(Read(x).hs, Read(x).skip, l)
             P == { l \in Text : (\A j \in 1 .. Len(l) : l[j] # CRLF) => Q(l) }
  <1>1. <<>> \in P
    <2>1. x \o <<>> = x /\ <<>> \in Text
      BY DEF Text
    <2>2. Read(x) = State(Read(x).hs, Read(x).skip, <<>>)
      BY ReadType, StatesAre
    <2> QED BY <2>1, <2>2
  <1>2. ASSUME NEW l \in Seq(Alphabet), NEW c \in Alphabet, l \in P PROVE Append(l, c) \in P
    <2>1. /\ l \in Text /\ x \o Append(l, c) = Append(x \o l, c) /\ x \o l \in Text
          /\ Append(l, c) \in Text /\ Append(x \o l, c) \in Text
      BY ChainMore DEF Text
    <2> SUFFICES ASSUME \A j \in 1 .. Len(Append(l, c)) : Append(l, c)[j] # CRLF
        PROVE Q(Append(l, c))
      BY <2>1
    <2>2. /\ Len(Append(l, c)) = Len(l) + 1 /\ Len(l) \in Nat /\ Append(l, c)[Len(l) + 1] = c
          /\ \A j \in 1 .. Len(l) : Append(l, c)[j] = l[j]
      BY AppendProperties
    <2>3. c # CRLF /\ \A j \in 1 .. Len(l) : l[j] # CRLF
      <3>1. Len(l) + 1 \in 1 .. Len(Append(l, c)) /\ \A j \in 1 .. Len(l) : j \in 1 .. Len(Append(l, c))
        BY <2>2
      <3> QED BY <2>2, <3>1
    <2>4. Read(x \o l) = State(Read(x).hs, Read(x).skip, l)
      BY <1>2, <2>3
    <2> DEFINE m == x \o l
    <2>5. Read(Append(m, c)) = Eat(Read(m), c)
      <3> HIDE DEF m
      <3>1. m \in Text
        BY <2>1 DEF m
      <3> QED BY <3>1, ReadMore
    <2>6. Eat(Read(m), c) = State(Read(x).hs, Read(x).skip, Append(l, c))
      BY <2>3, <2>4, StateIs DEF Eat
    <2> QED BY <2>1, <2>5, <2>6
  <1> HIDE DEF P
  <1>3. \A l \in Seq(Alphabet) : l \in P
    BY <1>1, <1>2, AppendInduction
  <1> QED BY <1>3 DEF P, Text

(* A whole line more.                                                      *)
LEMMA ReadLine ==
    ASSUME NEW x \in Text, Read(x).last = <<>>, NEW l \in Text, l # <<>>,
           \A j \in 1 .. Len(l) : l[j] # CRLF
    PROVE  /\ Append(x \o l, CRLF) \in Text
           /\ Read(Append(x \o l, CRLF)) = State(FieldsAfter(Read(x).hs, Read(x).skip, l),
                                                 SkipAfter(Read(x).skip, l), <<>>)
  <1> DEFINE m == x \o l
  <1>1. m \in Text /\ Read(m) = State(Read(x).hs, Read(x).skip, l) /\ CRLF \in Alphabet
    BY ReadAhead, Letters
  <1> HIDE DEF m
  <1>2. Append(m, CRLF) \in Text /\ Read(Append(m, CRLF)) = Eat(Read(m), CRLF)
    BY <1>1, ReadMore DEF Text
  <1>3. Eat(Read(m), CRLF) = State(FieldsAfter(Read(x).hs, Read(x).skip, l),
                                   SkipAfter(Read(x).skip, l), <<>>)
    BY <1>1, StateIs DEF Eat, Finished
  <1> QED BY <1>2, <1>3 DEF m

(* An empty line changes nothing.                                          *)
LEMMA ReadEmpty ==
    ASSUME NEW x \in Text, Read(x).last = <<>>
    PROVE  Append(x, CRLF) \in Text /\ Read(Append(x, CRLF)) = Read(x)
  <1>1. Append(x, CRLF) \in Text /\ Read(Append(x, CRLF)) = Eat(Read(x), CRLF)
    BY Letters, ReadMore DEF Text
  <1> QED BY <1>1 DEF Eat, Finished

LEMMA ReadEnd ==
    ASSUME NEW x \in Text
    PROVE  Read(Append(x, CRLF)).last = <<>>
  <1>1. Read(Append(x, CRLF)) = Finished(Read(x))
    BY Letters, ReadMore DEF Eat
  <1> QED BY <1>1, StateIs DEF Finished

(* The line a text ends in.                                                *)
Tip(x) == SubSeq(x, Max({0} \cup { q \in 1 .. Len(x) : x[q] = CRLF }) + 1, Len(x))

LEMMA TipMore ==
    /\ Tip(<<>>) = <<>>
    /\ \A x \in Text, c \in Alphabet :
          Tip(Append(x, c)) = IF c = CRLF THEN <<>> ELSE Append(Tip(x), c)
  <1> DEFINE B(x) == {0} \cup { q \in 1 .. Len(x) : x[q] = CRLF }
  <1>1. Tip(<<>>) = <<>>
    <2>1. Len(<<>>) = 0 /\ 1 .. 0 = {}
      OBVIOUS
    <2>2. B(<<>>) = {0}
      BY <2>1
    <2>3. {0} \in SUBSET (0 .. 0) /\ {0} # {} /\ 0 \in Nat
      OBVIOUS
    <2>4. Max({0}) = 0
      <3>1. Max({0}) \in {0}
        BY ONLY <2>3, GreatestElement
      <3> QED BY <3>1
    <2> QED BY <2>1, <2>2, <2>4 DEF Tip
  <1>2. ASSUME NEW x \in Text, NEW c \in Alphabet
        PROVE  Tip(Append(x, c)) = IF c = CRLF THEN <<>> ELSE Append(Tip(x), c)
    <2> DEFINE t == Append(x, c)
               n == Len(x)
               m == Max(B(x))
               k == Max(B(t))
    <2>1. /\ x \in Seq(Alphabet) /\ n \in Nat /\ t \in Seq(Alphabet) /\ Len(t) = n + 1
          /\ t[n + 1] = c /\ \A j \in 1 .. n : t[j] = x[j]
          /\ \A a \in 1 .. (n + 1) : SubSeq(t, a, n + 1) = Append(SubSeq(x, a, n), c)
      BY StretchAppend DEF Text
    <2>2. Tip(x) = SubSeq(x, m + 1, n) /\ Tip(t) = SubSeq(t, k + 1, n + 1)
      BY <2>1 DEF Tip
    <2>3. B(x) \in SUBSET (0 .. n) /\ B(x) # {}
      BY <2>1
    <2>4. m \in B(x) /\ \A q \in B(x) : q <= m
      <3> DEFINE S == B(x)
      <3>1. S \in SUBSET (0 .. n) /\ S # {}
        BY <2>3
      <3> HIDE DEF S
      <3>2. Max(S) \in S /\ \A q \in S : q <= Max(S)
        BY ONLY <2>1, <3>1, GreatestElement
      <3> QED BY <3>2 DEF S
    <2>5. B(t) \in SUBSET (0 .. (n + 1)) /\ B(t) # {} /\ n + 1 \in Nat
      <3> HIDE DEF t
      <3> QED BY <2>1
    <2>6. k \in B(t) /\ \A q \in B(t) : q <= k
      <3> DEFINE S == B(t)
      <3>1. S \in SUBSET (0 .. (n + 1)) /\ S # {}
        BY <2>5
      <3> HIDE DEF S
      <3>2. Max(S) \in S /\ \A q \in S : q <= Max(S)
        BY ONLY <2>5, <3>1, GreatestElement
      <3> QED BY <3>2 DEF S
    <2>7. B(t) = IF c = CRLF THEN B(x) \cup {n + 1} ELSE B(x)
      <3>1. \A q : q \in 1 .. (n + 1) <=> q \in 1 .. n \/ q = n + 1
        BY <2>1
      <3>2. Len(t) = n + 1
        BY <2>1
      <3> HIDE DEF t
      <3>3. \A q : q \in B(t) <=> q = 0 \/ (q \in 1 .. (n + 1) /\ t[q] = CRLF)
        BY <3>2
      <3>4. \A q : q \in B(x) <=> q = 0 \/ (q \in 1 .. n /\ x[q] = CRLF)
        OBVIOUS
      <3> HIDE DEF B, n
      <3> QED BY <2>1, <3>1, <3>3, <3>4
    <2> HIDE DEF t, n, m, k
    <2>8. CASE c = CRLF
      <3>1. n + 1 \in B(t)
        BY <2>7, <2>8
      <3> HIDE DEF B
      <3>2. k = n + 1
        BY <2>1, <2>5, <2>6, <3>1
      <3>3. SubSeq(t, n + 1 + 1, n + 1) = <<>>
        BY <2>1
      <3> QED BY <2>2, <2>8, <3>2, <3>3 DEF t
    <2>9. CASE c # CRLF
      <3> HIDE DEF B
      <3>1. k = m
        <4>1. B(t) = B(x)
          BY <2>7, <2>9
        <4> QED BY <4>1 DEF k, m
      <3>2. m \in 0 .. n /\ m + 1 \in 1 .. (n + 1)
        BY <2>1, <2>3, <2>4
      <3>3. SubSeq(t, m + 1, n + 1) = Append(SubSeq(x, m + 1, n), c)
        BY <2>1, <3>2
      <3> QED BY <2>2, <2>9, <3>1, <3>3 DEF t
    <2> QED BY <2>8, <2>9
  <1> QED BY <1>1, <1>2

LEMMA TipRead == \A x \in Text : Read(x).last = Tip(x)
  <1> DEFINE P == { x \in Text : Read(x).last = Tip(x) }
  <1>1. <<>> \in P
    <2>1. Read(<<>>) = Fresh
      BY ReadMore
    <2>2. Fresh.last = <<>> /\ Fresh.hs = <<>> /\ Fresh.skip = FALSE
      BY DEF Fresh, State
    <2>3. Read(<<>>).last = Tip(<<>>)
      BY <2>1, <2>2, TipMore
    <2>4. <<>> \in Text
      BY DEF Text
    <2> QED BY <2>3, <2>4
  <1>2. ASSUME NEW x \in Seq(Alphabet), NEW c \in Alphabet, x \in P PROVE Append(x, c) \in P
    <2>1. x \in Text /\ Append(x, c) \in Text /\ Read(x).last = Tip(x)
      BY <1>2 DEF Text
    <2>2. Read(Append(x, c)) = Eat(Read(x), c)
      BY <2>1, ReadMore
    <2>3. Tip(Append(x, c)) = IF c = CRLF THEN <<>> ELSE Append(Tip(x), c)
      BY <2>1, TipMore
    <2>4. Eat(Read(x), c).last = IF c = CRLF THEN <<>> ELSE Append(Read(x).last, c)
      BY StateIs DEF Eat, Finished
    <2>5. Read(Append(x, c)).last = Tip(Append(x, c))
      BY <2>1, <2>2, <2>3, <2>4
    <2> QED BY <2>1, <2>5
  <1> HIDE DEF P
  <1>3. \A x \in Seq(Alphabet) : x \in P
    BY <1>1, <1>2, AppendInduction
  <1> QED BY <1>3 DEF P, Text
-------------------------------------------------------------------------------
(* The relaxed form of a value, character by character. *)

Shown(x) == [p \in DOMAIN x |-> IF x[p] = CRLF THEN <<>> ELSE <<x[p]>>]

LEMMA UnfoldMore ==
    ASSUME NEW x \in Text, NEW c \in Alphabet
    PROVE  /\ Unfold(x) \in Text
           /\ Unfold(Append(x, c)) = IF c = CRLF THEN Unfold(x) ELSE Append(Unfold(x), c)
  <1> DEFINE t == Append(x, c)
             n == Len(x)
             e == IF c = CRLF THEN <<>> ELSE <<c>>
  <1>1. /\ x \in Seq(Alphabet) /\ n \in Nat /\ t \in Seq(Alphabet) /\ Len(t) = n + 1
        /\ t[n + 1] = c /\ \A j \in 1 .. n : t[j] = x[j]
    BY AppendProperties DEF Text
  <1>2. e \in Seq(Alphabet)
    <2>1. <<c>> \in Seq(Alphabet)
      BY OneOf
    <2> QED BY <2>1
  <1> HIDE DEF t, e
  <1>3. ASSUME NEW y \in Seq(Alphabet)
        PROVE  /\ Shown(y) \in Seq(Seq(Alphabet)) /\ Len(Shown(y)) = Len(y)
               /\ \A j \in 1 .. Len(y) : Shown(y)[j] = IF y[j] = CRLF THEN <<>> ELSE <<y[j]>>
    <2>1. DOMAIN y = 1 .. Len(y) /\ Len(y) \in Nat
      OBVIOUS
    <2>2. Shown(y) = [p \in 1 .. Len(y) |-> IF y[p] = CRLF THEN <<>> ELSE <<y[p]>>]
      BY <2>1 DEF Shown
    <2>3. ASSUME NEW j \in 1 .. Len(y)
          PROVE  (IF y[j] = CRLF THEN <<>> ELSE <<y[j]>>) \in Seq(Alphabet)
      <3>1. y[j] \in Alphabet
        BY <2>1
      <3>2. <<y[j]>> \in Seq(Alphabet)
        BY <3>1, OneOf
      <3> QED BY <3>2
    <2>4. Shown(y) \in [1 .. Len(y) -> Seq(Alphabet)]
      BY <2>2, <2>3
    <2> QED BY <2>1, <2>2, <2>4
  <1> DEFINE l == Shown(t)
             r == Append(Shown(x), e)
  <1>4. /\ r \in Seq(Seq(Alphabet)) /\ Len(r) = n + 1 /\ r[n + 1] = e
        /\ \A j \in 1 .. n : r[j] = Shown(x)[j]
    BY <1>1, <1>2, <1>3, AppendProperties
  <1>5. /\ l \in Seq(Seq(Alphabet)) /\ Len(l) = n + 1
        /\ \A j \in 1 .. (n + 1) : l[j] = IF t[j] = CRLF THEN <<>> ELSE <<t[j]>>
    BY <1>1, <1>3
  <1>6. \A j \in 1 .. n : Shown(x)[j] = IF x[j] = CRLF THEN <<>> ELSE <<x[j]>>
    BY <1>1, <1>3
  <1> HIDE DEF l, r, n
  <1>7. ASSUME NEW j \in 1 .. Len(l) PROVE l[j] = r[j]
    <2>1. j \in 1 .. n \/ j = n + 1
      BY <1>1, <1>5
    <2>2. j \in 1 .. (n + 1)
      BY <1>5
    <2>3. CASE j = n + 1
      BY <1>1, <1>4, <1>5, <2>2, <2>3 DEF e
    <2>4. CASE j \in 1 .. n
      BY <1>1, <1>4, <1>5, <1>6, <2>2, <2>4
    <2> QED BY <2>1, <2>3, <2>4
  <1>8. l = r
    BY <1>4, <1>5, <1>7, SameSequence
  <1>9. Shown(x) \in Seq(Seq(Alphabet))
    BY <1>1, <1>3
  <1>10. FlattenSeq(r) = FlattenSeq(Shown(x)) \o e /\ FlattenSeq(Shown(x)) \in Seq(Alphabet)
    BY <1>2, <1>9, FlattenAppend DEF r
  <1>11. Unfold(x) = FlattenSeq(Shown(x)) /\ Unfold(t) = FlattenSeq(l)
    BY DEF Unfold, Shown, l
  <1>12. Unfold(x) \in Seq(Alphabet) /\ Unfold(t) = Unfold(x) \o e
    BY <1>8, <1>10, <1>11
  <1>13. c = CRLF => Unfold(x) \o e = Unfold(x)
    BY <1>12 DEF e
  <1>14. c # CRLF => Unfold(x) \o e = Append(Unfold(x), c)
    BY <1>12, AppendIs DEF e
  <1> QED BY <1>12, <1>13, <1>14 DEF t, Text

LEMMA LoopMore ==
    ASSUME NEW x \in Text, NEW c \in Alphabet
    PROVE  Loop(Append(x, c)) = IF c = CRLF THEN Loop(x) ELSE SqueezeStep(Loop(x), c, FALSE)
  <1>1. /\ Unfold(x) \in Text
        /\ Unfold(Append(x, c)) = IF c = CRLF THEN Unfold(x) ELSE Append(Unfold(x), c)
    BY UnfoldMore
  <1>2. Squeezed(Append(Unfold(x), c), FALSE)[Len(Append(Unfold(x), c))]
          = SqueezeStep(Squeezed(Unfold(x), FALSE)[Len(Unfold(x))], c, FALSE)
    BY <1>1, SqueezeMore
  <1> QED BY <1>1, <1>2 DEF Loop

LEMMA LoopType ==
    \A x \in Text : /\ Loop(x) \in Squeezes /\ relaxHeaderValue(x) = Loop(x).out
                    /\ Loop(x) = [out |-> Loop(x).out, inWSP |-> Loop(x).inWSP]
  <1> SUFFICES ASSUME NEW x \in Text
      PROVE  /\ Loop(x) \in Squeezes /\ relaxHeaderValue(x) = Loop(x).out
             /\ Loop(x) = [out |-> Loop(x).out, inWSP |-> Loop(x).inWSP]
    OBVIOUS
  <1>1. Unfold(x) \in Text
    BY Letters, UnfoldMore
  <1>2. Loop(x) \in Squeezes
    BY <1>1, SqueezeState DEF Loop
  <1> QED BY <1>2 DEF Squeezes, relaxHeaderValue, Squeeze, Loop

(* The same characters turn the same states alike.                         *)
LEMMA LoopOn ==
    ASSUME NEW x \in Text, NEW y \in Text, Loop(x) = Loop(y)
    PROVE  \A r \in Text : Loop(x \o r) = Loop(y \o r)
  <1> DEFINE P == { r \in Text : Loop(x \o r) = Loop(y \o r) }
  <1>1. <<>> \in P
    <2>1. x \o <<>> = x /\ y \o <<>> = y
      BY ConcatEmptySeq DEF Text
    <2> QED BY <2>1 DEF Text
  <1>2. ASSUME NEW r \in Seq(Alphabet), NEW c \in Alphabet, r \in P PROVE Append(r, c) \in P
    <2>1. /\ x \o Append(r, c) = Append(x \o r, c) /\ x \o r \in Text
          /\ y \o Append(r, c) = Append(y \o r, c) /\ y \o r \in Text
          /\ Append(r, c) \in Text
      BY ChainMore DEF Text
    <2> DEFINE a == x \o r
               b == y \o r
    <2>2. a \in Text /\ b \in Text /\ Loop(a) = Loop(b)
      BY <1>2, <2>1
    <2> HIDE DEF a, b
    <2>3. Loop(Append(a, c)) = Loop(Append(b, c))
      BY <2>2, LoopMore
    <2> QED BY <2>1, <2>3 DEF a, b
  <1> HIDE DEF P
  <1>3. \A r \in Seq(Alphabet) : r \in P
    BY <1>1, <1>2, AppendInduction
  <1> QED BY <1>3 DEF P, Text

LEMMA LoopFacts ==
    /\ \A x \in Text : Append(x, CRLF) \in Text /\ Loop(Append(x, CRLF)) = Loop(x)
    /\ \A x \in Text, c \in WSP : Append(x, c) \in Text
                                  /\ Loop(Append(x, c)) = [out |-> Loop(x).out, inWSP |-> TRUE]
  <1>1. ASSUME NEW x \in Text PROVE Append(x, CRLF) \in Text /\ Loop(Append(x, CRLF)) = Loop(x)
    <2>1. CRLF \in Alphabet
      BY Letters
    <2>2. Append(x, CRLF) \in Text
      BY <2>1 DEF Text
    <2>3. Loop(Append(x, CRLF)) = Loop(x)
      BY <2>1, LoopMore
    <2> QED BY <2>2, <2>3
  <1>2. ASSUME NEW x \in Text, NEW c \in WSP
        PROVE  Append(x, c) \in Text /\ Loop(Append(x, c)) = [out |-> Loop(x).out, inWSP |-> TRUE]
    <2>1. c \in Alphabet /\ c # CRLF
      BY Letters
    <2>2. Loop(Append(x, c)) = SqueezeStep(Loop(x), c, FALSE)
      BY <2>1, LoopMore
    <2>3. SqueezeStep(Loop(x), c, FALSE) = [Loop(x) EXCEPT !.inWSP = TRUE]
      BY DEF SqueezeStep
    <2>4. [Loop(x) EXCEPT !.inWSP = TRUE] = [out |-> Loop(x).out, inWSP |-> TRUE]
      <3> DEFINE st == Loop(x)
                 o == st.out
                 w == st.inWSP
                 yes == TRUE
      <3>1. st = [out |-> o, inWSP |-> w]
        BY LoopType
      <3> HIDE DEF st, o, w, yes
      <3>2. [[out |-> o, inWSP |-> w] EXCEPT !.inWSP = yes] = [out |-> o, inWSP |-> yes]
        OBVIOUS
      <3>3. [st EXCEPT !.inWSP = yes] = [out |-> o, inWSP |-> yes]
        BY <3>1, <3>2
      <3> QED BY <3>3 DEF st, o, yes
    <2>5. Append(x, c) \in Text
      BY <2>1 DEF Text
    <2> QED BY <2>2, <2>3, <2>4, <2>5
  <1> QED BY <1>1, <1>2

(* A value that goes on with whitespace forgets whether it ended in some.  *)
LEMMA LoopSpaced ==
    ASSUME NEW x \in Text, NEW y \in Text, Loop(x).out = Loop(y).out,
           NEW r \in Text, r # <<>>, r[1] \in WSP
    PROVE  Loop(x \o r) = Loop(y \o r)
  <1> DEFINE c == r[1]
             q == Tail(r)
             one == <<c>>
  <1>1. c \in WSP /\ c \in Alphabet /\ q \in Text /\ r = one \o q /\ one \in Text
    BY Letters DEF Text
  <1> HIDE DEF one, q
  <1>2. x \o one = Append(x, c) /\ y \o one = Append(y, c)
    BY <1>1, AppendIs DEF one, Text
  <1> HIDE DEF c
  <1>3. /\ Append(x, c) \in Text /\ Append(y, c) \in Text /\ Loop(Append(x, c)) = Loop(Append(y, c))
    <2>1. Append(x, c) \in Text /\ Loop(Append(x, c)) = [out |-> Loop(x).out, inWSP |-> TRUE]
      BY <1>1, LoopFacts
    <2>2. Append(y, c) \in Text /\ Loop(Append(y, c)) = [out |-> Loop(y).out, inWSP |-> TRUE]
      BY <1>1, LoopFacts
    <2> QED BY <2>1, <2>2
  <1> DEFINE s == Append(x, c)
             t == Append(y, c)
  <1>4. s \in Text /\ t \in Text /\ Loop(s) = Loop(t)
    BY <1>3
  <1> HIDE DEF s, t
  <1>5. Loop(s \o q) = Loop(t \o q)
    BY <1>1, <1>4, LoopOn
  <1>6. x \o (one \o q) = (x \o one) \o q /\ y \o (one \o q) = (y \o one) \o q
    <2>1. x \in Text /\ y \in Text /\ one \in Text /\ q \in Text
      BY <1>1
    <2>2. (x \o one) \o q = x \o (one \o q)
      BY ONLY <2>1, ChainRegroup
    <2>3. (y \o one) \o q = y \o (one \o q)
      BY ONLY <2>1, ChainRegroup
    <2> QED BY ONLY <2>2, <2>3
  <1>7. x \o r = s \o q
    BY <1>1, <1>2, <1>6 DEF s
  <1>8. y \o r = t \o q
    BY <1>1, <1>2, <1>6 DEF t
  <1> QED BY ONLY <1>5, <1>7, <1>8

(* Whitespace behind whitespace, or at the end, is not seen.               *)
LEMMA LoopWidened ==
    ASSUME NEW z \in Text, NEW c \in WSP, NEW b \in Text, Spaced(z) \/ b = <<>>
    PROVE  Loop(Append(z, c) \o b).out = Loop(z \o b).out
  <1>1. /\ Append(z, c) \in Text
        /\ Loop(Append(z, c)) = [out |-> Loop(z).out, inWSP |-> TRUE]
    BY LoopFacts
  <1>2. CASE b = <<>>
    <2>1. Append(z, c) \o <<>> = Append(z, c) /\ z \o <<>> = z
      BY <1>1 DEF Text
    <2>2. [out |-> Loop(z).out, inWSP |-> TRUE].out = Loop(z).out
      OBVIOUS
    <2> QED BY <1>1, <1>2, <2>1, <2>2
  <1>3. CASE Spaced(z)
    <2>1. PICK d \in Seq(Alphabet) : z = Append(d, Last(z))
      BY <1>3, LastOff DEF Spaced, Text
    <2>2. Loop(z) = [out |-> Loop(d).out, inWSP |-> TRUE]
      BY <1>3, <2>1, LoopFacts DEF Spaced, Text
    <2>3. Loop(Append(z, c)) = Loop(z)
      BY <1>1, <2>2
    <2> DEFINE t == Append(z, c)
    <2>4. t \in Text /\ Loop(t) = Loop(z)
      BY <1>1, <2>3
    <2> HIDE DEF t
    <2>5. Loop(t \o b) = Loop(z \o b)
      BY <2>4, LoopOn
    <2> QED BY <2>5 DEF t
  <1> QED BY <1>2, <1>3
-------------------------------------------------------------------------------
(* Fields of the same relaxed form, and texts that read alike. *)

LEMMA FormsAre ==
    ASSUME NEW hs \in Seq(Field), NEW gs \in Seq(Field), Forms(hs, gs)
    PROVE  RelaxedFields(hs) = RelaxedFields(gs)
  <1>1. DOMAIN hs = 1 .. Len(hs) /\ DOMAIN gs = 1 .. Len(hs)
    BY DEF Forms
  <1>2. ASSUME NEW j \in 1 .. Len(hs)
        PROVE  CanonicalizeHeader(hs[j], "relaxed") = CanonicalizeHeader(gs[j], "relaxed")
    <2>1. hs[j].value \in Text /\ gs[j].value \in Text
      <3>1. hs[j] \in Field /\ gs[j] \in Field
        BY <1>1
      <3> QED BY <3>1, FieldFacts
    <2>2. relaxHeaderValue(hs[j].value) = relaxHeaderValue(gs[j].value)
      BY <2>1, LoopType DEF Forms, SameForm
    <2> QED BY <2>2 DEF Forms, SameForm, CanonicalizeHeader
  <1> QED BY <1>1, <1>2 DEF RelaxedFields

LEMMA GrownForm ==
    ASSUME NEW f \in Field, NEW h \in Field, SameForm(f, h), NEW l \in Text, l # <<>>, l[1] \in WSP
    PROVE  SameForm(Grown(f, l), Grown(h, l))
  <1>1. /\ f.value \in Text /\ h.value \in Text
        /\ Grown(f, l).name = f.name /\ Grown(f, l).value = (f.value \o <<CRLF>>) \o l
        /\ Grown(h, l).name = h.name /\ Grown(h, l).value = (h.value \o <<CRLF>>) \o l
    BY FieldFacts
  <1> DEFINE v == f.value
             u == h.value
  <1>2. v \in Text /\ u \in Text /\ Loop(v).out = Loop(u).out
    BY <1>1 DEF SameForm
  <1> HIDE DEF v, u
  <1>3. /\ v \o <<CRLF>> = Append(v, CRLF) /\ u \o <<CRLF>> = Append(u, CRLF)
    BY <1>2, Letters, AppendIs DEF Text
  <1>4. /\ Append(v, CRLF) \in Text /\ Loop(Append(v, CRLF)) = Loop(v)
        /\ Append(u, CRLF) \in Text /\ Loop(Append(u, CRLF)) = Loop(u)
    BY <1>2, LoopFacts
  <1> DEFINE s == Append(v, CRLF)
             t == Append(u, CRLF)
  <1>5. s \in Text /\ t \in Text /\ Loop(s).out = Loop(t).out
    BY <1>2, <1>4
  <1> HIDE DEF s, t
  <1>6. Loop(s \o l) = Loop(t \o l)
    BY <1>5, LoopSpaced
  <1> QED BY <1>1, <1>3, <1>6 DEF SameForm, s, t, v, u

LEMMA FormsMore ==
    ASSUME NEW hs \in Seq(Field), NEW gs \in Seq(Field), Forms(hs, gs), NEW skip \in BOOLEAN,
           NEW l \in Text, l # <<>>
    PROVE  Forms(FieldsAfter(hs, skip, l), FieldsAfter(gs, skip, l))
  <1> DEFINE n == Len(hs)
  <1>1. n \in Nat /\ Len(gs) = n /\ (hs = <<>> <=> n = 0) /\ (gs = <<>> <=> n = 0)
    BY DEF Forms
  <1>2. CASE Continues(l) /\ hs # <<>> /\ ~skip
    <2>1. FieldsAfter(hs, skip, l) = GrownLast(hs, l) /\ FieldsAfter(gs, skip, l) = GrownLast(gs, l)
      BY <1>1, <1>2 DEF FieldsAfter
    <2>2. /\ Len(GrownLast(hs, l)) = n /\ n \in Nat \ {0} /\ hs[n] \in Field
          /\ GrownLast(hs, l)[n] = Grown(hs[n], l)
          /\ \A j \in 1 .. n : j # n => GrownLast(hs, l)[j] = hs[j]
      BY <1>2, LastGrows
    <2>3. /\ Len(GrownLast(gs, l)) = n /\ gs[n] \in Field
          /\ GrownLast(gs, l)[n] = Grown(gs[n], l)
          /\ \A j \in 1 .. n : j # n => GrownLast(gs, l)[j] = gs[j]
      <3>1. gs # <<>>
        BY <1>1, <1>2
      <3> QED BY <1>1, <3>1, LastGrows
    <2>4. SameForm(Grown(hs[n], l), Grown(gs[n], l))
      <3>1. SameForm(hs[n], gs[n])
        BY <2>2 DEF Forms
      <3> QED BY <1>2, <2>2, <2>3, <3>1, GrownForm DEF Continues
    <2>5. \A j \in 1 .. n : SameForm(GrownLast(hs, l)[j], GrownLast(gs, l)[j])
      BY <2>2, <2>3, <2>4 DEF Forms
    <2> QED BY <2>1, <2>2, <2>3, <2>5 DEF Forms
  <1>3. CASE Continues(l) /\ (hs = <<>> \/ skip)
    BY <1>1, <1>3 DEF FieldsAfter
  <1>4. CASE ~Continues(l) /\ IsFieldLine(l)
    <2> DEFINE f == TakenFrom(l)
    <2>1. f \in Field
      BY <1>4, FieldFacts DEF IsFieldLine
    <2>2. FieldsAfter(hs, skip, l) = Append(hs, f) /\ FieldsAfter(gs, skip, l) = Append(gs, f)
      BY <1>4 DEF FieldsAfter
    <2> HIDE DEF f
    <2>3. /\ Len(Append(hs, f)) = n + 1 /\ Append(hs, f)[n + 1] = f
          /\ \A j \in 1 .. n : Append(hs, f)[j] = hs[j]
          /\ Len(Append(gs, f)) = n + 1 /\ Append(gs, f)[n + 1] = f
          /\ \A j \in 1 .. n : Append(gs, f)[j] = gs[j]
      BY <1>1, <2>1, AppendProperties
    <2>4. SameForm(f, f)
      BY DEF SameForm
    <2>5. ASSUME NEW j \in 1 .. (n + 1) PROVE SameForm(Append(hs, f)[j], Append(gs, f)[j])
      <3>1. j \in 1 .. n \/ j = n + 1
        BY <1>1
      <3> QED BY <2>3, <2>4, <3>1 DEF Forms
    <2> QED BY <2>2, <2>3, <2>5 DEF Forms
  <1>5. CASE ~Continues(l) /\ ~IsFieldLine(l)
    BY <1>5 DEF FieldsAfter
  <1> QED BY <1>2, <1>3, <1>4, <1>5

LEMMA FormsSelf == \A hs \in Seq(Field) : Forms(hs, hs)
  BY DEF Forms, SameForm

(* Parsers that stand alike stay alike.                                    *)
Sim(st, tt) == st.skip = tt.skip /\ st.last = tt.last /\ Forms(st.hs, tt.hs)

LEMMA SimEat ==
    ASSUME NEW st \in States, NEW tt \in States, Sim(st, tt), NEW c \in Alphabet
    PROVE  Sim(Eat(st, c), Eat(tt, c))
  <1>1. /\ st.hs \in Seq(Field) /\ st.skip \in BOOLEAN /\ st.last \in Text
        /\ tt.hs \in Seq(Field) /\ tt.skip = st.skip /\ tt.last = st.last
        /\ Forms(st.hs, tt.hs)
    BY StatesAre DEF Sim
  <1>2. CASE c # CRLF
    BY <1>1, <1>2, StateIs DEF Eat, Sim
  <1>3. CASE c = CRLF /\ st.last = <<>>
    BY <1>1, <1>3 DEF Eat, Finished, Sim
  <1>4. CASE c = CRLF /\ st.last # <<>>
    <2>1. Forms(FieldsAfter(st.hs, st.skip, st.last), FieldsAfter(tt.hs, st.skip, st.last))
      BY <1>1, <1>4, FormsMore
    <2> QED BY <1>1, <1>4, <2>1, StateIs DEF Eat, Finished, Sim
  <1> QED BY <1>2, <1>3, <1>4

LEMMA SimOn ==
    ASSUME NEW x \in Text, NEW y \in Text, Sim(Read(x), Read(y))
    PROVE  \A r \in Text : Sim(Read(x \o r), Read(y \o r))
  <1> DEFINE P == { r \in Text : Sim(Read(x \o r), Read(y \o r)) }
  <1>1. <<>> \in P
    <2>1. x \o <<>> = x /\ y \o <<>> = y
      BY ConcatEmptySeq DEF Text
    <2> QED BY <2>1 DEF Text
  <1>2. ASSUME NEW r \in Seq(Alphabet), NEW c \in Alphabet, r \in P PROVE Append(r, c) \in P
    <2>1. /\ x \o Append(r, c) = Append(x \o r, c) /\ x \o r \in Text
          /\ y \o Append(r, c) = Append(y \o r, c) /\ y \o r \in Text
          /\ Append(r, c) \in Text
      BY ChainMore DEF Text
    <2> DEFINE a == x \o r
               b == y \o r
    <2>2. a \in Text /\ b \in Text /\ Sim(Read(a), Read(b))
      BY <1>2, <2>1
    <2> HIDE DEF a, b
    <2>3. Sim(Eat(Read(a), c), Eat(Read(b), c))
      BY <2>2, ReadType, SimEat
    <2>4. Sim(Read(Append(a, c)), Read(Append(b, c)))
      BY <2>2, <2>3, ReadMore
    <2> QED BY <2>1, <2>4 DEF a, b
  <1> HIDE DEF P
  <1>3. \A r \in Seq(Alphabet) : r \in P
    BY <1>1, <1>2, AppendInduction
  <1> QED BY <1>3 DEF P, Text

(* The rest of a line is put to what was read of it.                       *)
LEMMA ReadOn ==
    ASSUME NEW x \in Text
    PROVE  \A l \in Text : (\A j \in 1 .. Len(l) : l[j] # CRLF)
              => x \o l \in Text
                 /\ Read(x \o l) = State(Read(x).hs, Read(x).skip, Read(x).last \o l)
  <1> DEFINE k == Read(x).last
             Q(l) == x \o l \in Text /\ Read(x \o l) = State(Read(x).hs, Read(x).skip, k \o l)
             P == { l \in Text : (\A j \in 1 .. Len(l) : l[j] # CRLF) => Q(l) }
  <1>0. k \in Text
    BY ReadType, StatesAre
  <1>1. <<>> \in P
    <2>1. x \o <<>> = x /\ <<>> \in Text /\ k \o <<>> = k
      BY <1>0 DEF Text
    <2>2. Read(x) = State(Read(x).hs, Read(x).skip, k)
      BY ReadType, StatesAre
    <2> QED BY <2>1, <2>2
  <1> HIDE DEF k
  <1>2. ASSUME NEW l \in Seq(Alphabet), NEW c \in Alphabet, l \in P PROVE Append(l, c) \in P
    <2>1. /\ l \in Text /\ x \o Append(l, c) = Append(x \o l, c) /\ x \o l \in Text
          /\ Append(l, c) \in Text /\ Append(x \o l, c) \in Text
          /\ k \o Append(l, c) = Append(k \o l, c)
      BY <1>0, ChainMore DEF Text
    <2> SUFFICES ASSUME \A j \in 1 .. Len(Append(l, c)) : Append(l, c)[j] # CRLF
        PROVE Q(Append(l, c))
      BY <2>1
    <2>2. /\ Len(Append(l, c)) = Len(l) + 1 /\ Len(l) \in Nat /\ Append(l, c)[Len(l) + 1] = c
          /\ \A j \in 1 .. Len(l) : Append(l, c)[j] = l[j]
      BY AppendProperties
    <2>3. c # CRLF /\ \A j \in 1 .. Len(l) : l[j] # CRLF
      <3>1. Len(l) + 1 \in 1 .. Len(Append(l, c)) /\ \A j \in 1 .. Len(l) : j \in 1 .. Len(Append(l, c))
        BY <2>2
      <3> QED BY <2>2, <3>1
    <2>4. Read(x \o l) = State(Read(x).hs, Read(x).skip, k \o l)
      BY <1>2, <2>3
    <2> DEFINE m == x \o l
    <2>5. Read(Append(m, c)) = Eat(Read(m), c)
      <3> HIDE DEF m
      <3>1. m \in Text
        BY <2>1 DEF m
      <3> QED BY <3>1, ReadMore
    <2>6. Eat(Read(m), c) = State(Read(x).hs, Read(x).skip, Append(k \o l, c))
      BY <2>3, <2>4, StateIs DEF Eat
    <2> QED BY <2>1, <2>5, <2>6
  <1> HIDE DEF P
  <1>3. \A l \in Seq(Alphabet) : l \in P
    BY <1>1, <1>2, AppendInduction
  <1> QED BY <1>3 DEF P, Text, k
-------------------------------------------------------------------------------
(* Names and values of a line and of a longer one. *)

LEMMA TrimMore ==
    /\ TrimRightWSP(<<>>) = <<>>
    /\ \A s \in Text, c \in Alphabet :
          TrimRightWSP(Append(s, c)) = IF c \in WSP THEN TrimRightWSP(s) ELSE Append(s, c)
  <1>1. \A t : TrimRightWSP(t) = Dropped(t, WSP)
    BY DEF TrimRightWSP, Dropped
  <1>2. ASSUME NEW s \in Text, NEW c \in Alphabet
        PROVE  TrimRightWSP(Append(s, c)) = IF c \in WSP THEN TrimRightWSP(s) ELSE Append(s, c)
    BY <1>1, DroppedMore DEF Text
  <1>3. TrimRightWSP(<<>>) = <<>>
    <2>1. \A t : DOMAIN t = {} => TrimRightWSP(t) = SubSeq(t, 1, Max({0}))
      BY DEF TrimRightWSP
    <2>2. Max({0}) = 0
      <3>1. {0} \in SUBSET (0 .. 0) /\ {0} # {} /\ 0 \in Nat
        OBVIOUS
      <3>2. Max({0}) \in {0}
        BY ONLY <3>1, GreatestElement
      <3> QED BY <3>2
    <2>3. DOMAIN <<>> = {} /\ SubSeq(<<>>, 1, 0) = <<>>
      OBVIOUS
    <2> QED BY <2>1, <2>2, <2>3
  <1> QED BY <1>2, <1>3

Named(s) == ToSet(s) \subseteq NameChars

LEMMA NamedFacts ==
    /\ \A s \in Text : Named(s) <=> \A j \in 1 .. Len(s) : s[j] \in NameChars
    /\ \A s \in Text, c \in Alphabet : Named(Append(s, c)) <=> Named(s) /\ c \in NameChars
    /\ \A c \in WSP \cup {CRLF, ":"} : c \notin NameChars
    /\ Named(<<>>)
  <1>1. ASSUME NEW s \in Text PROVE Named(s) <=> \A j \in 1 .. Len(s) : s[j] \in NameChars
    <2>1. DOMAIN s = 1 .. Len(s)
      BY DEF Text
    <2> QED BY <2>1 DEF Named, ToSet
  <1>2. ASSUME NEW s \in Text, NEW c \in Alphabet
        PROVE  Named(Append(s, c)) <=> Named(s) /\ c \in NameChars
    <2> DEFINE t == Append(s, c)
    <2>1. /\ t \in Text /\ Len(t) = Len(s) + 1 /\ Len(s) \in Nat /\ t[Len(s) + 1] = c
          /\ \A j \in 1 .. Len(s) : t[j] = s[j]
      BY AppendProperties DEF Text
    <2> HIDE DEF t
    <2>2. \A j : j \in 1 .. Len(t) <=> j \in 1 .. Len(s) \/ j = Len(s) + 1
      BY <2>1
    <2>3. Named(t) <=> \A j \in 1 .. Len(t) : t[j] \in NameChars
      BY <1>1, <2>1
    <2>4. Named(s) <=> \A j \in 1 .. Len(s) : s[j] \in NameChars
      BY <1>1
    <2>5. (\A j \in 1 .. Len(t) : t[j] \in NameChars)
            <=> (\A j \in 1 .. Len(s) : s[j] \in NameChars) /\ c \in NameChars
      BY <2>1, <2>2
    <2> QED BY <2>3, <2>4, <2>5 DEF t
  <1>3. \A c \in WSP \cup {CRLF, ":"} : c \notin NameChars
    BY NamesArePrintable DEF FWS
  <1>4. Named(<<>>)
    BY DEF Named, ToSet
  <1> QED BY <1>1, <1>2, <1>3, <1>4

(* What is trimmed off a name is not there.                                *)
LEMMA TrimNamed ==
    ASSUME NEW n \in Text, Named(n)
    PROVE  Trim(n, WSP) = n
  <1> DEFINE solid == { p \in DOMAIN n : n[p] \notin WSP }
             size == Len(n)
  <1>1. n \in Seq(Alphabet) /\ size \in Nat /\ DOMAIN n = 1 .. size
    BY DEF Text
  <1>2. solid = 1 .. size
    <2>1. \A j \in 1 .. size : n[j] \in NameChars
      BY NamedFacts
    <2>2. \A j \in 1 .. size : n[j] \notin WSP
      BY <2>1, NamedFacts
    <2>3. \A j : j \in DOMAIN n <=> j \in 1 .. size
      BY <1>1
    <2> HIDE DEF size
    <2> QED BY <2>2, <2>3
  <1>3. Trim(n, WSP) = IF solid = {} THEN <<>> ELSE SubSeq(n, Min(solid), Max(solid))
    BY DEF Trim
  <1> HIDE DEF solid, size
  <1>4. CASE size = 0
    BY <1>1, <1>2, <1>3, <1>4
  <1>5. CASE size # 0
    <2>1. /\ solid \in SUBSET Nat /\ solid \in SUBSET (0 .. size) /\ 1 \in solid /\ size \in solid
          /\ solid # {}
      <3>1. size \in Nat
        BY <1>1
      <3>2. \A i : i \in 1 .. size => i \in Nat /\ i \in 0 .. size
        BY <3>1
      <3>3. 1 \in 1 .. size /\ size \in 1 .. size
        BY <3>1, <1>5
      <3> QED BY <1>2, <3>2, <3>3
    <2>2. Min(solid) \in solid /\ \A m \in solid : Min(solid) <= m
      BY ONLY <2>1, SmallestElement
    <2>3. Max(solid) \in solid /\ \A m \in solid : m <= Max(solid)
      BY ONLY <1>1, <2>1, GreatestElement
    <2>4. Min(solid) = 1 /\ Max(solid) = size
      <3> DEFINE i == Min(solid)
                 k == Max(solid)
      <3>1. i \in 1 .. size /\ k \in 1 .. size /\ i <= 1 /\ size <= k
        BY <1>2, <2>1, <2>2, <2>3
      <3> HIDE DEF i, k
      <3>2. i = 1 /\ k = size
        BY <1>1, <3>1
      <3> QED BY <3>2 DEF i, k
    <2>5. SubSeq(n, 1, size) = n
      BY <1>1, WholeStretch DEF size
    <2> QED BY <1>3, <2>1, <2>4, <2>5
  <1> QED BY <1>4, <1>5

(* A line whose colon stands behind a part of it.                          *)
LEMMA ColonLater ==
    ASSUME NEW a \in Text, ~Contains(a, ":"), NEW b \in Text, Contains(b, ":")
    PROVE  /\ a \o b \in Text /\ Contains(a \o b, ":")
           /\ SubSeq(b, 1, ColonIn(b) - 1) \in Text
           /\ NameOf(a \o b) = TrimRightWSP(a \o SubSeq(b, 1, ColonIn(b) - 1))
           /\ ValueOf(a \o b) = ValueOf(b)
  <1> DEFINE k == ColonIn(b)
             j == a \o b
             m == Len(a)
             n == Len(b)
  <1>1. /\ a \in Seq(Alphabet) /\ b \in Seq(Alphabet) /\ m \in Nat /\ n \in Nat
        /\ k \in 1 .. n /\ FirstAt(b, 1, ":", k)
    BY ColonFacts DEF Text
  <1>2. /\ j \in Seq(Alphabet) /\ Len(j) = m + n
        /\ \A i \in 1 .. (m + n) : j[i] = IF i <= m THEN a[i] ELSE b[i - m]
    BY <1>1, ConcatProperties
  <1>3. \A c \in Nat \ {0} : \A d \in 0 .. n : SubSeq(j, m + c, m + d) = SubSeq(b, c, d)
    BY <1>1, BackPart
  <1>4. SubSeq(j, 1, m) = a
    <2>1. SubSeq(j, 1, m) = SubSeq(a, 1, m)
      BY <1>1, FrontStretch
    <2> QED BY <1>1, <2>1, WholeStretch
  <1> HIDE DEF k, j, m, n
  <1>5. m + k \in 1 .. Len(j) /\ j[m + k] = ":"
    <2> DEFINE e == m + k
    <2>1. e \in 1 .. (m + n) /\ ~(e <= m) /\ e - m = k
      BY <1>1
    <2>2. b[k] = ":"
      BY <1>1 DEF FirstAt, n
    <2> HIDE DEF e
    <2>3. j[e] = b[e - m] /\ e \in 1 .. Len(j)
      BY <1>2, <2>1
    <2>4. e \in 1 .. Len(j) /\ j[e] = ":"
      BY ONLY <2>1, <2>2, <2>3
    <2> QED BY <2>4 DEF e
  <1>6. IndexFrom(j, 1, ":") = m + k
    <2> DEFINE e == m + k
    <2>0. e = m + k
      OBVIOUS
    <2> HIDE DEF e
    <2>1. ASSUME NEW p \in 1 .. (e - 1) PROVE j[p] # ":"
      <3>1. CASE p <= m
        <4>1. p \in 1 .. m /\ p \in 1 .. (m + n)
          BY <1>1, <2>0, <3>1
        <4> QED BY <1>2, <3>1, <4>1 DEF Contains, m
      <3>2. CASE ~(p <= m)
        <4>1. p - m \in 1 .. (k - 1) /\ p \in 1 .. (m + n)
          BY <1>1, <2>0, <3>2
        <4>2. b[p - m] # ":"
          BY <1>1, <4>1 DEF FirstAt
        <4> QED BY <1>2, <3>2, <4>1, <4>2
      <3> QED BY <3>1, <3>2
    <2>2. e \in 1 .. (Len(j) + 1) /\ 1 \in 1 .. (Len(j) + 1) /\ j[e] = ":"
      BY <1>1, <1>2, <1>5, <2>0
    <2>3. \A p \in 1 .. (e - 1) : j[p] # ":"
      BY <2>1
    <2>4. FirstAt(j, 1, ":", e)
      BY <2>2, <2>3 DEF FirstAt
    <2>5. IndexFrom(j, 1, ":") = e
      BY <1>2, <2>2, <2>4, IndexIs
    <2> QED BY <2>0, <2>5
  <1>7. SubSeq(j, 1, (m + k) - 1) = a \o SubSeq(b, 1, k - 1)
    <2>1. /\ 1 \in Nat \ {0} /\ m \in 0 .. Len(j) /\ m + (k - 1) \in 0 .. Len(j) /\ 1 <= m + 1
          /\ m <= m + (k - 1) /\ k - 1 \in 0 .. n /\ m + (k - 1) = (m + k) - 1
      BY <1>1, <1>2
    <2>2. SubSeq(j, 1, m) \o SubSeq(j, m + 1, m + (k - 1)) = SubSeq(j, 1, m + (k - 1))
      BY ONLY <1>2, <2>1, StretchJoin
    <2>3. SubSeq(j, m + 1, m + (k - 1)) = SubSeq(b, 1, k - 1)
      BY <1>3, <2>1
    <2> QED BY <1>4, <2>1, <2>2, <2>3
  <1>8. SubSeq(j, m + k + 1, Len(j)) = SubSeq(b, k + 1, n)
    <2>1. k + 1 \in Nat \ {0} /\ n \in 0 .. n /\ m + (k + 1) = m + k + 1
      BY <1>1
    <2>2. SubSeq(j, m + (k + 1), m + n) = SubSeq(b, k + 1, n)
      BY <1>3, <2>1
    <2> QED BY <1>2, <2>1, <2>2
  <1>9. SubSeq(b, 1, k - 1) \in Seq(Alphabet)
    <2>1. k - 1 \in 0 .. Len(b) /\ 1 \in Nat \ {0}
      BY <1>1 DEF n
    <2> QED BY <1>1, <2>1, StretchType
  <1>10. IndexFrom(b, 1, ":") = k
    BY DEF ColonIn, k
  <1>11. /\ NameOf(j) = TrimRightWSP(a \o SubSeq(b, 1, k - 1))
         /\ ValueOf(j) = SubSeq(b, k + 1, n)
    <2> DEFINE e == m + k
    <2>1. /\ IndexFrom(j, 1, ":") = e /\ SubSeq(j, 1, e - 1) = a \o SubSeq(b, 1, k - 1)
          /\ SubSeq(j, e + 1, Len(j)) = SubSeq(b, k + 1, n)
      <3>1. IndexFrom(j, 1, ":") = e
        BY <1>6
      <3>2. SubSeq(j, 1, e - 1) = a \o SubSeq(b, 1, k - 1)
        BY <1>7
      <3>3. SubSeq(j, e + 1, Len(j)) = SubSeq(b, k + 1, n)
        BY <1>8
      <3> QED BY <3>1, <3>2, <3>3
    <2> HIDE DEF e
    <2>2. /\ NameOf(j) = TrimRightWSP(SubSeq(j, 1, IndexFrom(j, 1, ":") - 1))
          /\ ValueOf(j) = SubSeq(j, IndexFrom(j, 1, ":") + 1, Len(j))
      BY DEF NameOf, ValueOf
    <2>3. /\ NameOf(j) = TrimRightWSP(SubSeq(j, 1, e - 1))
          /\ ValueOf(j) = SubSeq(j, e + 1, Len(j))
      BY ONLY <2>1, <2>2
    <2> QED BY ONLY <2>1, <2>3
  <1>12. ValueOf(b) = SubSeq(b, k + 1, n)
    BY <1>10 DEF ValueOf, n
  <1> QED BY <1>2, <1>5, <1>9, <1>11, <1>12 DEF Contains, Text, j, k

LEMMA NoColon ==
    ASSUME NEW a \in Text, NEW b \in Text, ~Contains(a, ":"), ~Contains(b, ":")
    PROVE  ~Contains(a \o b, ":")
  <1> DEFINE j == a \o b
             m == Len(a)
             n == Len(b)
  <1>1. /\ Len(j) = m + n /\ m \in Nat /\ n \in Nat
        /\ \A i \in 1 .. (m + n) : j[i] = IF i <= m THEN a[i] ELSE b[i - m]
    BY ConcatProperties DEF Text
  <1> HIDE DEF j
  <1>2. ASSUME NEW i \in 1 .. (m + n) PROVE j[i] # ":"
    <2>1. CASE i <= m
      <3>1. i \in 1 .. m
        BY <1>1, <2>1
      <3> QED BY <1>1, <2>1, <3>1 DEF Contains
    <2>2. CASE ~(i <= m)
      <3>1. i - m \in 1 .. n
        BY <1>1, <2>2
      <3> QED BY <1>1, <2>2, <3>1 DEF Contains
    <2> QED BY <2>1, <2>2
  <1> QED BY <1>1, <1>2 DEF Contains, j

LEMMA FirstStays ==
    ASSUME NEW a \in Text, a # <<>>, NEW b \in Text
    PROVE  a \o b \in Text /\ a \o b # <<>> /\ (a \o b)[1] = a[1]
  <1> DEFINE j == a \o b
             m == Len(a)
             n == Len(b)
  <1>1. /\ j \in Seq(Alphabet) /\ Len(j) = m + n /\ m \in Nat \ {0} /\ n \in Nat
        /\ \A i \in 1 .. (m + n) : j[i] = IF i <= m THEN a[i] ELSE b[i - m]
    BY ConcatProperties DEF Text
  <1> HIDE DEF j, m, n
  <1>2. 1 \in 1 .. (m + n) /\ 1 <= m /\ Len(j) # 0
    BY <1>1
  <1> QED BY <1>1, <1>2 DEF Text, j
-------------------------------------------------------------------------------
(* Whitespace put into a line. *)

(* Lines that leave the fields in the same forms.                          *)
Matches(hs, skip, a, b) ==
    /\ Forms(FieldsAfter(hs, skip, a), FieldsAfter(hs, skip, b))
    /\ SkipAfter(skip, a) = SkipAfter(skip, b)

LEMMA FormsPut ==
    ASSUME NEW hs \in Seq(Field), NEW f \in Field, NEW h \in Field, SameForm(f, h)
    PROVE  Forms(Append(hs, f), Append(hs, h))
  <1> DEFINE n == Len(hs)
  <1>1. /\ Len(Append(hs, f)) = n + 1 /\ Append(hs, f)[n + 1] = f /\ n \in Nat
        /\ \A j \in 1 .. n : Append(hs, f)[j] = hs[j]
        /\ Len(Append(hs, h)) = n + 1 /\ Append(hs, h)[n + 1] = h
        /\ \A j \in 1 .. n : Append(hs, h)[j] = hs[j]
    BY AppendProperties
  <1>2. ASSUME NEW j \in 1 .. (n + 1) PROVE SameForm(Append(hs, f)[j], Append(hs, h)[j])
    <2>1. j \in 1 .. n \/ j = n + 1
      BY <1>1
    <2>2. \A k \in 1 .. n : SameForm(hs[k], hs[k])
      BY DEF SameForm
    <2> QED BY <1>1, <2>1, <2>2
  <1> QED BY <1>1, <1>2 DEF Forms

LEMMA FormsGrow ==
    ASSUME NEW hs \in Seq(Field), hs # <<>>, NEW k \in Text, NEW gs \in Seq(Field), gs # <<>>,
           NEW l \in Text, Len(hs) = Len(gs),
           \A j \in 1 .. Len(hs) : j # Len(hs) => hs[j] = gs[j],
           SameForm(Grown(hs[Len(hs)], k), Grown(gs[Len(gs)], l))
    PROVE  Forms(GrownLast(hs, k), GrownLast(gs, l))
  <1> DEFINE n == Len(hs)
  <1>1. /\ Len(GrownLast(hs, k)) = n /\ n \in Nat \ {0}
        /\ GrownLast(hs, k)[n] = Grown(hs[n], k)
        /\ \A j \in 1 .. n : j # n => GrownLast(hs, k)[j] = hs[j]
    BY LastGrows
  <1>2. /\ Len(GrownLast(gs, l)) = n
        /\ GrownLast(gs, l)[n] = Grown(gs[n], l)
        /\ \A j \in 1 .. n : j # n => GrownLast(gs, l)[j] = gs[j]
    BY LastGrows
  <1>3. ASSUME NEW j \in 1 .. n PROVE SameForm(GrownLast(hs, k)[j], GrownLast(gs, l)[j])
    <2>1. SameForm(hs[j], hs[j])
      BY DEF SameForm
    <2> QED BY <1>1, <1>2, <2>1
  <1> QED BY <1>1, <1>2, <1>3 DEF Forms

LEMMA LineMatches ==
    ASSUME NEW hs \in Seq(Field), NEW skip \in BOOLEAN, NEW a \in Text, NEW b \in Text,
           Continues(a) <=> Continues(b),
           Continues(a) => \A f \in Field : SameForm(Grown(f, a), Grown(f, b)),
           ~Continues(a) => /\ IsFieldLine(a) <=> IsFieldLine(b)
                            /\ IsFieldLine(a) => SameForm(TakenFrom(a), TakenFrom(b))
    PROVE  Matches(hs, skip, a, b)
  <1>1. CASE Continues(a) /\ hs # <<>> /\ ~skip
    <2>1. SameForm(Grown(hs[Len(hs)], a), Grown(hs[Len(hs)], b))
      BY <1>1, LastGrows
    <2>2. Forms(GrownLast(hs, a), GrownLast(hs, b))
      BY <1>1, <2>1, FormsGrow
    <2> QED BY <1>1, <2>2 DEF Matches, FieldsAfter, SkipAfter
  <1>2. CASE Continues(a) /\ (hs = <<>> \/ skip)
    BY <1>2, FormsSelf DEF Matches, FieldsAfter, SkipAfter
  <1>3. CASE ~Continues(a) /\ IsFieldLine(a)
    <2>1. TakenFrom(a) \in Field /\ TakenFrom(b) \in Field
      BY <1>3, FieldFacts DEF IsFieldLine
    <2>2. Forms(Append(hs, TakenFrom(a)), Append(hs, TakenFrom(b)))
      BY <1>3, <2>1, FormsPut
    <2> QED BY <1>3, <2>2 DEF Matches, FieldsAfter, SkipAfter
  <1>4. CASE ~Continues(a) /\ ~IsFieldLine(a)
    BY <1>4, FormsSelf DEF Matches, FieldsAfter, SkipAfter
  <1> QED BY <1>1, <1>2, <1>3, <1>4

(* Names of fields with the same form, or both none.                       *)
NameAlike(n, m) ==
    /\ ValidFieldName(n) <=> ValidFieldName(m)
    /\ ValidFieldName(n) => ToLower(n) = ToLower(m)

LEMMA TakenAlike ==
    ASSUME NEW a \in Text, Contains(a, ":"), NEW b \in Text, Contains(b, ":"),
           NameAlike(NameOf(a), NameOf(b)), Loop(ValueOf(a)).out = Loop(ValueOf(b)).out
    PROVE  /\ IsFieldLine(a) <=> IsFieldLine(b)
           /\ IsFieldLine(a) => SameForm(TakenFrom(a), TakenFrom(b))
  <1> DEFINE n == NameOf(a)
             m == NameOf(b)
  <1>1. n \in Text /\ m \in Text
    BY PartsOfLine
  <1>2. \A line : /\ TakenFrom(line).name = NameOf(line) /\ TakenFrom(line).value = ValueOf(line)
    BY DEF TakenFrom
  <1>3. NameAlike(n, m)
    OBVIOUS
  <1>4. IsFieldLine(a) <=> IsFieldLine(b)
    BY <1>3 DEF IsFieldLine, NameAlike
  <1>5. IsFieldLine(a) => ValidFieldName(n)
    BY DEF IsFieldLine
  <1> HIDE DEF n, m
  <1>6. ValidFieldName(n) => ToLower(Trim(n, WSP)) = ToLower(Trim(m, WSP))
    <2> SUFFICES ASSUME ValidFieldName(n) PROVE ToLower(Trim(n, WSP)) = ToLower(Trim(m, WSP))
      OBVIOUS
    <2>1. ValidFieldName(m) /\ ToLower(n) = ToLower(m)
      BY <1>3 DEF NameAlike
    <2>2. Named(n) /\ Named(m)
      BY <2>1 DEF ValidFieldName, Named
    <2>3. Trim(n, WSP) = n /\ Trim(m, WSP) = m
      BY <1>1, <2>2, TrimNamed
    <2> QED BY <2>1, <2>3
  <1>7. IsFieldLine(a) => SameForm(TakenFrom(a), TakenFrom(b))
    BY <1>2, <1>5, <1>6 DEF SameForm, n, m
  <1> QED BY <1>4, <1>7

LEMMA NameWidened ==
    ASSUME NEW a \in Text, Spaced(a), NEW c \in WSP
    PROVE  \A r \in Text : NameAlike(TrimRightWSP(a \o r), TrimRightWSP(Append(a, c) \o r))
  <1> DEFINE w == Append(a, c)
             Same(n, m) == n = m \/ (~Named(n) /\ ~Named(m))
             Q(r) == /\ ~Named(a \o r) /\ ~Named(w \o r)
                     /\ Same(TrimRightWSP(a \o r), TrimRightWSP(w \o r))
             P == { r \in Text : Q(r) }
  <1>1. c \in Alphabet /\ w \in Text
    BY Letters DEF Text
  <1>2. ~Named(a)
    <2>1. PICK d \in Seq(Alphabet) : a = Append(d, Last(a))
      BY LastOff DEF Spaced, Text
    <2>2. Last(a) \in WSP /\ Last(a) \in Alphabet /\ Last(a) \notin NameChars
      BY Letters, NamedFacts DEF Spaced
    <2> QED BY <2>1, <2>2, NamedFacts DEF Text
  <1>3. ~Named(w)
    BY <1>1, <1>2, NamedFacts
  <1>4. TrimRightWSP(w) = TrimRightWSP(a)
    BY <1>1, TrimMore
  <1> HIDE DEF w
  <1>5. <<>> \in P
    <2>1. a \o <<>> = a /\ w \o <<>> = w /\ <<>> \in Text
      BY <1>1 DEF Text
    <2> QED BY <1>2, <1>3, <1>4, <2>1
  <1>6. ASSUME NEW r \in Seq(Alphabet), NEW d \in Alphabet, r \in P PROVE Append(r, d) \in P
    <2>1. /\ a \o Append(r, d) = Append(a \o r, d) /\ a \o r \in Text
          /\ w \o Append(r, d) = Append(w \o r, d) /\ w \o r \in Text
          /\ Append(r, d) \in Text
      BY <1>1, ChainMore DEF Text
    <2> DEFINE x == a \o r
               y == w \o r
    <2>2. /\ x \in Text /\ y \in Text /\ ~Named(x) /\ ~Named(y)
          /\ Same(TrimRightWSP(x), TrimRightWSP(y))
      BY <1>6, <2>1
    <2> HIDE DEF x, y
    <2>3. ~Named(Append(x, d)) /\ ~Named(Append(y, d))
      BY <2>2, NamedFacts
    <2>4. Same(TrimRightWSP(Append(x, d)), TrimRightWSP(Append(y, d)))
      BY <2>2, <2>3, TrimMore
    <2> QED BY <2>1, <2>3, <2>4 DEF x, y
  <1> HIDE DEF P
  <1>7. \A r \in Seq(Alphabet) : r \in P
    BY <1>5, <1>6, AppendInduction
  <1> QED BY <1>7 DEF P, Text, w, NameAlike, ValidFieldName, Named

LEMMA SpacedValue ==
    ASSUME NEW a \in Text, Spaced(a), Contains(a, ":")
    PROVE  Spaced(ValueOf(a))
  <1> DEFINE k == ColonIn(a)
             n == Len(a)
             v == ValueOf(a)
  <1>1. /\ a \in Seq(Alphabet) /\ n \in Nat /\ k \in 1 .. n /\ a[k] = ":" /\ a[n] \in WSP
    BY ColonFacts DEF FirstAt, Spaced, Last, Text
  <1>2. ":" \notin WSP
    BY DEF WSP
  <1>3. v = SubSeq(a, k + 1, n)
    BY DEF ValueOf, ColonIn
  <1> HIDE DEF k, v
  <1>4. k < n
    BY <1>1, <1>2
  <1>5. Len(v) = n - k /\ v[n - k] = a[n] /\ v # <<>>
    <2>1. k + 1 \in 1 .. n + 1 /\ k + 1 \in Nat \ {0} /\ n \in 0 .. n
      BY <1>1
    <2>2. Len(v) = n - k
      BY <1>1, <1>3, <1>4
    <2>3. n - k \in 1 .. (n - k) /\ n - k # 0
      BY <1>1, <1>4
    <2>4. v[n - k] = a[n]
      BY <1>1, <1>3, <1>4
    <2> QED BY <2>2, <2>3, <2>4
  <1> QED BY <1>1, <1>5 DEF Spaced, Last, v

LEMMA WidenLine ==
    ASSUME NEW hs \in Seq(Field), NEW skip \in BOOLEAN, NEW a \in Text, a # <<>>, NEW c \in WSP,
           NEW b \in Text, Spaced(a) \/ b = <<>>
    PROVE  /\ a \o b \in Text /\ Append(a, c) \o b \in Text
           /\ Matches(hs, skip, a \o b, Append(a, c) \o b)
  <1> DEFINE w == Append(a, c)
  <1>1. c \in Alphabet /\ w \in Text /\ w # <<>> /\ w[1] = a[1] /\ w = a \o <<c>> /\ <<c>> \in Text
    <2>1. c \in Alphabet
      BY Letters
    <2>2. w = a \o <<c>> /\ <<c>> \in Text /\ w \in Text
      BY <2>1, ChainMore
    <2> QED BY <2>1, <2>2, FirstStays
  <1> HIDE DEF w
  <1>2. /\ a \o b \in Text /\ (a \o b)[1] = a[1] /\ w \o b \in Text /\ (w \o b)[1] = a[1]
    BY <1>1, FirstStays
  <1>3. Continues(a \o b) <=> Continues(w \o b)
    BY <1>2 DEF Continues
  <1>4. ASSUME NEW f \in Field PROVE SameForm(Grown(f, a \o b), Grown(f, w \o b))
    <2> DEFINE u == f.value \o <<CRLF>>
               z == u \o a
    <2>1. u \in Text
      BY FieldFacts, Letters, OneType, ChainType
    <2>2. /\ Grown(f, a \o b).value = u \o (a \o b) /\ Grown(f, a \o b).name = f.name
          /\ Grown(f, w \o b).value = u \o (w \o b) /\ Grown(f, w \o b).name = f.name
      BY <1>2, FieldFacts
    <2> HIDE DEF u
    <2>3. z \in Text /\ u \o (a \o b) = z \o b /\ u \o (w \o b) = (u \o w) \o b
      <3>1. z \in Text
        BY <2>1, ChainType
      <3>2. (u \o a) \o b = u \o (a \o b) /\ (u \o w) \o b = u \o (w \o b)
        BY <1>1, <2>1, ChainRegroup
      <3> QED BY <3>1, <3>2
    <2>4. u \o w = Append(z, c)
      BY <1>1, <2>1, ChainMore DEF w
    <2>5. Spaced(z) \/ b = <<>>
      <3> SUFFICES ASSUME Spaced(a) PROVE Spaced(z)
        OBVIOUS
      <3>1. PICK d \in Seq(Alphabet) : a = Append(d, Last(a)) /\ Last(a) \in Alphabet
        BY LastOff DEF Text
      <3> DEFINE e == Last(a)
      <3>2. a = Append(d, e) /\ e \in Alphabet /\ e \in WSP /\ d \in Text
        BY <3>1 DEF Spaced, Text
      <3> HIDE DEF e
      <3>3. u \o Append(d, e) = Append(u \o d, e) /\ u \o d \in Text
        BY <2>1, <3>2, ChainMore
      <3>4. Spaced(Append(u \o d, e))
        BY <3>2, <3>3, SpacedMore
      <3> QED BY <3>2, <3>3, <3>4
    <2> HIDE DEF z
    <2>6. Loop(Append(z, c) \o b).out = Loop(z \o b).out
      BY <2>3, <2>5, LoopWidened
    <2> QED BY <2>2, <2>3, <2>4, <2>6 DEF SameForm
  <1>5. /\ IsFieldLine(a \o b) <=> IsFieldLine(w \o b)
        /\ IsFieldLine(a \o b) => SameForm(TakenFrom(a \o b), TakenFrom(w \o b))
    <2>1. CASE Contains(a, ":")
      <3> DEFINE v == ValueOf(a)
      <3>1. v \in Text
        BY <2>1, PartsOfLine
      <3>2. Contains(a \o b, ":") /\ NameOf(a \o b) = NameOf(a) /\ ValueOf(a \o b) = v \o b
        BY <2>1, LongerLine
      <3>3. /\ Contains(w, ":") /\ NameOf(w) = NameOf(a) /\ ValueOf(w) = v \o <<c>>
        BY <1>1, <2>1, LongerLine
      <3>4. /\ Contains(w \o b, ":") /\ NameOf(w \o b) = NameOf(w) /\ ValueOf(w \o b) = ValueOf(w) \o b
        BY <1>1, <3>3, LongerLine
      <3>5. Spaced(v) \/ b = <<>>
        BY <2>1, SpacedValue
      <3> HIDE DEF v
      <3>6. v \o <<c>> = Append(v, c)
        BY <1>1, <3>1, ChainMore
      <3>7. Loop(Append(v, c) \o b).out = Loop(v \o b).out
        BY <3>1, <3>5, LoopWidened
      <3>8. NameAlike(NameOf(a \o b), NameOf(w \o b))
        BY <3>2, <3>3, <3>4 DEF NameAlike
      <3>9. Loop(ValueOf(a \o b)).out = Loop(ValueOf(w \o b)).out
        BY <3>2, <3>3, <3>4, <3>6, <3>7
      <3> QED BY <1>2, <3>2, <3>4, <3>8, <3>9, TakenAlike
    <2>2. ~Contains(a, ":") => ~Contains(w, ":")
      <3>1. ~Contains(<<c>>, ":")
        <4>1. c # ":"
          BY DEF WSP
        <4> DEFINE one == <<c>>
        <4>2. Len(one) = 1 /\ one[1] = c
          OBVIOUS
        <4> HIDE DEF one
        <4>3. \A i \in 1 .. Len(one) : one[i] # ":"
          BY <4>1, <4>2
        <4> QED BY <4>3 DEF Contains, one
      <3> QED BY <1>1, <3>1, NoColon
    <2>3. CASE ~Contains(a, ":") /\ Contains(b, ":")
      <3> DEFINE r == SubSeq(b, 1, ColonIn(b) - 1)
      <3>1. Spaced(a)
        BY <2>3 DEF Contains
      <3>2. /\ Contains(a \o b, ":") /\ r \in Text
            /\ NameOf(a \o b) = TrimRightWSP(a \o r) /\ ValueOf(a \o b) = ValueOf(b)
        BY <2>3, ColonLater
      <3>3. /\ Contains(w \o b, ":")
            /\ NameOf(w \o b) = TrimRightWSP(w \o r) /\ ValueOf(w \o b) = ValueOf(b)
        BY <1>1, <2>2, <2>3, ColonLater
      <3> HIDE DEF r
      <3>4. NameAlike(TrimRightWSP(a \o r), TrimRightWSP(w \o r))
        BY <3>1, <3>2, NameWidened DEF w
      <3>5. NameAlike(NameOf(a \o b), NameOf(w \o b))
        BY <3>2, <3>3, <3>4
      <3> QED BY <1>2, <3>2, <3>3, <3>5, TakenAlike
    <2>4. CASE ~Contains(a, ":") /\ ~Contains(b, ":")
      <3>1. ~Contains(a \o b, ":") /\ ~Contains(w \o b, ":")
        BY <1>1, <2>2, <2>4, NoColon
      <3> QED BY <3>1 DEF IsFieldLine
    <2> QED BY <2>1, <2>3, <2>4
  <1> DEFINE x == a \o b
             y == w \o b
  <1>6. /\ x \in Text /\ y \in Text /\ (Continues(x) <=> Continues(y))
        /\ \A f \in Field : SameForm(Grown(f, x), Grown(f, y))
        /\ IsFieldLine(x) <=> IsFieldLine(y)
        /\ IsFieldLine(x) => SameForm(TakenFrom(x), TakenFrom(y))
    BY <1>2, <1>3, <1>4, <1>5
  <1> HIDE DEF x, y
  <1>7. Matches(hs, skip, x, y)
    BY <1>6, LineMatches
  <1> QED BY <1>6, <1>7 DEF x, y, w
-------------------------------------------------------------------------------
(* A capital of a name made small, and a line folded. *)

Low(ch) == IF ch \in DOMAIN LowerOf THEN LowerOf[ch] ELSE ch

(* Texts the same but for the case of letters.                             *)
Kin(x, y) ==
    /\ Len(x) = Len(y)
    /\ \A j \in 1 .. Len(x) : /\ Low(x[j]) = Low(y[j])
                              /\ x[j] \in NameChars <=> y[j] \in NameChars
                              /\ x[j] \in WSP <=> y[j] \in WSP

LEMMA KinFacts ==
    ASSUME NEW x \in Text, NEW y \in Text, Kin(x, y)
    PROVE  /\ ToLower(x) = ToLower(y) /\ (ValidFieldName(x) <=> ValidFieldName(y))
           /\ TrimRightWSP(x) \in Text /\ TrimRightWSP(y) \in Text
           /\ Kin(TrimRightWSP(x), TrimRightWSP(y))
  <1> DEFINE n == Len(x)
             S == {0} \cup { p \in DOMAIN x : x[p] \notin WSP }
             R == {0} \cup { p \in DOMAIN y : y[p] \notin WSP }
             m == Max(S)
  <1>1. /\ x \in Seq(Alphabet) /\ y \in Seq(Alphabet) /\ n \in Nat /\ Len(y) = n
        /\ DOMAIN x = 1 .. n /\ DOMAIN y = 1 .. n
    BY DEF Text, Kin
  <1>2. ToLower(x) = ToLower(y)
    <2>1. /\ ToLower(x) = [p \in 1 .. n |-> Low(x[p])] /\ ToLower(y) = [p \in 1 .. n |-> Low(y[p])]
      BY <1>1 DEF ToLower, Low
    <2> QED BY <1>1, <2>1 DEF Kin
  <1>3. Named(x) <=> Named(y)
    BY <1>1, NamedFacts DEF Kin
  <1>4. x = <<>> <=> y = <<>>
    BY <1>1
  <1>5. S = R
    BY <1>1 DEF Kin
  <1>6. TrimRightWSP(x) = SubSeq(x, 1, m) /\ TrimRightWSP(y) = SubSeq(y, 1, m)
    <2>1. TrimRightWSP(y) = SubSeq(y, 1, Max(R)) /\ TrimRightWSP(x) = SubSeq(x, 1, Max(S))
      BY DEF TrimRightWSP
    <2> QED BY <1>5, <2>1
  <1>7. m \in 0 .. n
    <2>1. S \in SUBSET (0 .. n) /\ S # {}
      BY <1>1
    <2> HIDE DEF S
    <2>2. Max(S) \in S
      BY ONLY <1>1, <2>1, GreatestElement
    <2> QED BY <2>1, <2>2
  <1> HIDE DEF m, S, R, n
  <1>8. SubSeq(x, 1, m) \in Seq(Alphabet) /\ SubSeq(y, 1, m) \in Seq(Alphabet)
    <2>1. 1 \in Nat \ {0} /\ m \in 0 .. Len(x) /\ m \in 0 .. Len(y)
      BY <1>1, <1>7 DEF n
    <2> QED BY <1>1, <2>1, StretchType
  <1>9. /\ Len(SubSeq(x, 1, m)) = m /\ Len(SubSeq(y, 1, m)) = m
        /\ \A j \in 1 .. m : SubSeq(x, 1, m)[j] = x[j] /\ SubSeq(y, 1, m)[j] = y[j]
    BY <1>1, <1>7 DEF n
  <1>10. Kin(SubSeq(x, 1, m), SubSeq(y, 1, m))
    <2>1. \A j \in 1 .. m : j \in 1 .. n
      BY <1>1, <1>7
    <2> QED BY <1>9, <2>1 DEF Kin, n
  <1> QED BY <1>2, <1>3, <1>4, <1>6, <1>8, <1>10 DEF ValidFieldName, Named, Text

LEMMA RecaseLine ==
    ASSUME NEW hs \in Seq(Field), NEW skip \in BOOLEAN, NEW x \in Text, NEW y \in Text,
           Len(x) = Len(y), NEW p \in 1 .. Len(x), x[p] \in DOMAIN LowerOf, y[p] = LowerOf[x[p]],
           \A j \in 1 .. Len(x) : j # p => y[j] = x[j],
           \A j \in 1 .. (p - 1) : x[j] \in NameChars
    PROVE  Matches(hs, skip, x, y)
  <1> DEFINE n == Len(x)
  <1>1. x \in Seq(Alphabet) /\ y \in Seq(Alphabet) /\ n \in Nat /\ Len(y) = n
    BY DEF Text
  <1>2. /\ x[p] \in NameChars /\ y[p] \in NameChars /\ y[p] \notin DOMAIN LowerOf
        /\ Low(x[p]) = y[p] /\ Low(y[p]) = y[p]
    BY CaseAssumption DEF Low
  <1>3. \A c \in NameChars : c \notin WSP /\ c # ":"
    BY NamedFacts
  <1>4. ASSUME NEW j \in 1 .. n
        PROVE  /\ Low(x[j]) = Low(y[j]) /\ (x[j] \in NameChars <=> y[j] \in NameChars)
               /\ (x[j] \in WSP <=> y[j] \in WSP) /\ (x[j] = ":" <=> y[j] = ":")
    BY <1>2, <1>3
  <1>5. ~Continues(x) /\ ~Continues(y)
    <2>1. x[1] \in NameChars
      BY <1>1, <1>2
    <2>2. 1 \in 1 .. n
      BY <1>1
    <2> QED BY <1>3, <1>4, <2>1, <2>2 DEF Continues
  <1>6. Contains(x, ":") <=> Contains(y, ":")
    BY <1>1, <1>4 DEF Contains
  <1>7. CASE Contains(x, ":")
    <2> DEFINE k == ColonIn(x)
    <2>1. k \in 1 .. n /\ FirstAt(x, 1, ":", k)
      BY <1>7, ColonFacts
    <2>2. ColonIn(y) = k
      <3>1. ColonIn(x) = Min({ q \in 1 .. n : x[q] = ":" } \cup {n + 1})
        BY DEF ColonIn, IndexFrom
      <3>2. ColonIn(y) = Min({ q \in 1 .. n : y[q] = ":" } \cup {n + 1})
        BY <1>1 DEF ColonIn, IndexFrom
      <3>3. { q \in 1 .. n : x[q] = ":" } = { q \in 1 .. n : y[q] = ":" }
        BY <1>4
      <3> QED BY <3>1, <3>2, <3>3
    <2>3. /\ NameOf(x) = TrimRightWSP(SubSeq(x, 1, k - 1)) /\ ValueOf(x) = SubSeq(x, k + 1, n)
          /\ NameOf(y) = TrimRightWSP(SubSeq(y, 1, k - 1)) /\ ValueOf(y) = SubSeq(y, k + 1, n)
      BY <1>1, <2>2 DEF NameOf, ValueOf, ColonIn
    <2> HIDE DEF k, n
    <2>4. p < k
      <3>1. x[k] = ":"
        BY <2>1 DEF FirstAt, n
      <3>2. k \notin 1 .. (p - 1) /\ k # p
        BY <1>2, <1>3, <3>1
      <3> QED BY <1>1, <2>1, <3>2
    <2>5. SubSeq(x, k + 1, n) = SubSeq(y, k + 1, n)
      <3>1. \A j \in (k + 1) .. n : j \in 1 .. n /\ j # p
        BY <1>1, <2>1, <2>4
      <3>2. \A j \in (k + 1) .. n : x[j] = y[j]
        BY <3>1 DEF n
      <3>3. k + 1 \in Nat \ {0} /\ n \in 0 .. Len(x) /\ n \in 0 .. Len(y)
        BY <1>1, <2>1 DEF n
      <3>4. /\ SubSeq(x, k + 1, n) = [i \in 1 .. (n - (k + 1) + 1) |-> x[i + (k + 1) - 1]]
            /\ SubSeq(y, k + 1, n) = [i \in 1 .. (n - (k + 1) + 1) |-> y[i + (k + 1) - 1]]
        BY <1>1, <2>1 DEF n
      <3>5. \A i \in 1 .. (n - (k + 1) + 1) : i + (k + 1) - 1 \in (k + 1) .. n
        BY <1>1, <2>1
      <3> QED BY <3>2, <3>4, <3>5
    <2> DEFINE s == SubSeq(x, 1, k - 1)
               t == SubSeq(y, 1, k - 1)
    <2>6. s \in Text /\ t \in Text
      <3>1. 1 \in Nat \ {0} /\ k - 1 \in 0 .. Len(x) /\ k - 1 \in 0 .. Len(y)
        BY <1>1, <2>1 DEF n
      <3> QED BY <1>1, <3>1, StretchType DEF Text
    <2>7. /\ Len(s) = k - 1 /\ Len(t) = k - 1
          /\ \A j \in 1 .. (k - 1) : s[j] = x[j] /\ t[j] = y[j] /\ j \in 1 .. n
      BY <1>1, <2>1 DEF n
    <2> HIDE DEF s, t
    <2>8. Kin(s, t)
      BY <1>4, <2>7 DEF Kin
    <2>9. Kin(TrimRightWSP(s), TrimRightWSP(t)) /\ TrimRightWSP(s) \in Text /\ TrimRightWSP(t) \in Text
      BY <2>6, <2>8, KinFacts
    <2>10. NameAlike(TrimRightWSP(s), TrimRightWSP(t))
      BY <2>9, KinFacts DEF NameAlike
    <2>11. NameAlike(NameOf(x), NameOf(y)) /\ Loop(ValueOf(x)).out = Loop(ValueOf(y)).out
      BY <2>3, <2>5, <2>10 DEF s, t
    <2>12. /\ IsFieldLine(x) <=> IsFieldLine(y)
           /\ IsFieldLine(x) => SameForm(TakenFrom(x), TakenFrom(y))
      BY <1>6, <1>7, <2>11, TakenAlike
    <2> QED BY <1>5, <2>12, LineMatches
  <1>8. CASE ~Contains(x, ":")
    <2>1. ~IsFieldLine(x) /\ ~IsFieldLine(y)
      BY <1>6, <1>8 DEF IsFieldLine
    <2> QED BY <1>5, <2>1, LineMatches
  <1> QED BY <1>7, <1>8

LEMMA RefoldLine ==
    ASSUME NEW hs \in Seq(Field), NEW skip \in BOOLEAN, NEW a \in Text, a # <<>>,
           NEW b \in Text, b # <<>>, b[1] \in WSP, Continues(a) \/ Contains(a, ":")
    PROVE  LET gs == FieldsAfter(hs, skip, a)
               on == SkipAfter(skip, a)
           IN  /\ Forms(FieldsAfter(hs, skip, a \o b), FieldsAfter(gs, on, b))
               /\ SkipAfter(skip, a \o b) = SkipAfter(on, b)
  <1> DEFINE j == a \o b
  <1>1. j \in Text /\ j # <<>> /\ j[1] = a[1]
    BY FirstStays
  <1>2. (Continues(j) <=> Continues(a)) /\ Continues(b)
    BY <1>1 DEF Continues
  <1> HIDE DEF j
  <1>3. ASSUME NEW u \in Text
        PROVE  LET v == (u \o <<CRLF>>) \o b
               IN  Loop(v) = Loop(u \o b) /\ v \in Text
    <2>1. u \o <<CRLF>> = Append(u, CRLF)
      BY Letters, AppendIs DEF Text
    <2> DEFINE t == Append(u, CRLF)
    <2>2. t \in Text /\ Loop(t) = Loop(u)
      BY LoopFacts
    <2> HIDE DEF t
    <2>3. Loop(t \o b) = Loop(u \o b) /\ t \o b \in Text
      BY <2>2, LoopOn, ChainType
    <2> QED BY <2>1, <2>3 DEF t
  <1>4. CASE Continues(a) /\ (hs = <<>> \/ skip)
    <2>1. FieldsAfter(hs, skip, a) = hs /\ SkipAfter(skip, a) = skip
      BY <1>4 DEF FieldsAfter, SkipAfter
    <2>2. FieldsAfter(hs, skip, b) = hs /\ SkipAfter(skip, b) = skip
      BY <1>2, <1>4 DEF FieldsAfter, SkipAfter
    <2>3. FieldsAfter(hs, skip, j) = hs /\ SkipAfter(skip, j) = skip
      BY <1>2, <1>4 DEF FieldsAfter, SkipAfter
    <2> QED BY <2>1, <2>2, <2>3, FormsSelf DEF j
  <1>5. CASE Continues(a) /\ hs # <<>> /\ ~skip
    <2> DEFINE gs == GrownLast(hs, a)
               n == Len(hs)
               f == hs[n]
    <2>1. FieldsAfter(hs, skip, a) = gs /\ SkipAfter(skip, a) = skip
      BY <1>5 DEF FieldsAfter, SkipAfter
    <2>2. /\ gs \in Seq(Field) /\ Len(gs) = n /\ n \in Nat \ {0} /\ f \in Field
          /\ gs[n] = Grown(f, a) /\ \A i \in 1 .. n : i # n => gs[i] = hs[i]
      BY <1>5, LastGrows
    <2>3. gs # <<>>
      BY <2>2
    <2>4. FieldsAfter(gs, skip, b) = GrownLast(gs, b) /\ SkipAfter(skip, b) = skip
      BY <1>2, <1>5, <2>3 DEF FieldsAfter, SkipAfter
    <2>5. FieldsAfter(hs, skip, j) = GrownLast(hs, j) /\ SkipAfter(skip, j) = skip
      BY <1>2, <1>5 DEF FieldsAfter, SkipAfter
    <2> HIDE DEF gs, n, f
    <2>6. SameForm(Grown(f, j), Grown(gs[n], b))
      <3> DEFINE w == f.value \o <<CRLF>>
                 h == Grown(f, a)
      <3>1. w \in Text
        BY <2>2, FieldFacts, Letters, OneType, ChainType
      <3>2. /\ Grown(f, j).name = f.name /\ Grown(f, j).value = w \o j
            /\ h \in Field /\ h.name = f.name /\ h.value = w \o a
        BY <1>1, <2>2, FieldFacts
      <3>3. Grown(h, b).name = h.name /\ Grown(h, b).value = (h.value \o <<CRLF>>) \o b
        BY <3>2, FieldFacts
      <3> HIDE DEF w, h
      <3>4. w \o a \in Text /\ (w \o a) \o b = w \o j
        <4>1. w \o a \in Text
          BY <3>1, ChainType
        <4>2. (w \o a) \o b = w \o (a \o b)
          BY <3>1, ChainRegroup
        <4> QED BY <4>1, <4>2 DEF j
      <3>5. Loop(((w \o a) \o <<CRLF>>) \o b) = Loop((w \o a) \o b)
        BY <1>3, <3>4
      <3> QED BY <2>2, <3>2, <3>3, <3>4, <3>5 DEF SameForm, h
    <2>7. Forms(GrownLast(hs, j), GrownLast(gs, b))
      BY <1>1, <1>5, <2>2, <2>3, <2>6, FormsGrow DEF n, f
    <2> QED BY <2>1, <2>4, <2>5, <2>7 DEF j
  <1>6. CASE ~Continues(a) /\ Contains(a, ":")
    <2>1. Contains(j, ":") /\ NameOf(j) = NameOf(a) /\ ValueOf(j) = ValueOf(a) \o b
      BY <1>6, LongerLine DEF j
    <2>2. IsFieldLine(j) <=> IsFieldLine(a)
      BY <1>6, <2>1 DEF IsFieldLine
    <2>3. CASE ~IsFieldLine(a)
      <3>1. FieldsAfter(hs, skip, a) = hs /\ SkipAfter(skip, a) = TRUE
        BY <1>6, <2>3 DEF FieldsAfter, SkipAfter
      <3>2. FieldsAfter(hs, TRUE, b) = hs /\ SkipAfter(TRUE, b) = TRUE
        BY <1>2 DEF FieldsAfter, SkipAfter
      <3>3. FieldsAfter(hs, skip, j) = hs /\ SkipAfter(skip, j) = TRUE
        BY <1>2, <1>6, <2>2, <2>3 DEF FieldsAfter, SkipAfter
      <3> QED BY <3>1, <3>2, <3>3, FormsSelf DEF j
    <2>4. CASE IsFieldLine(a)
      <3> DEFINE f == TakenFrom(a)
                 g == TakenFrom(j)
                 gs == Append(hs, f)
                 ks == Append(hs, g)
                 n == Len(hs) + 1
      <3>1. f \in Field /\ g \in Field
        BY <1>1, <1>6, <2>1, FieldFacts
      <3>2. /\ f.name = NameOf(a) /\ f.value = ValueOf(a) /\ g.name = NameOf(a)
            /\ g.value = ValueOf(a) \o b
        BY <2>1 DEF TakenFrom
      <3>3. FieldsAfter(hs, skip, a) = gs /\ SkipAfter(skip, a) = FALSE
        BY <1>6, <2>4 DEF FieldsAfter, SkipAfter
      <3>4. FieldsAfter(hs, skip, j) = ks /\ SkipAfter(skip, j) = FALSE
        BY <1>2, <1>6, <2>2, <2>4 DEF FieldsAfter, SkipAfter
      <3> HIDE DEF f, g
      <3>5. /\ gs \in Seq(Field) /\ Len(gs) = n /\ gs[n] = f /\ n \in Nat \ {0} /\ gs # <<>>
            /\ \A i \in 1 .. n : i # n => gs[i] = hs[i]
            /\ ks \in Seq(Field) /\ Len(ks) = n /\ ks[n] = g
            /\ \A i \in 1 .. n : i # n => ks[i] = hs[i]
        BY <3>1, AppendProperties
      <3> HIDE DEF gs, ks, n
      <3>6. FieldsAfter(gs, FALSE, b) = GrownLast(gs, b) /\ SkipAfter(FALSE, b) = FALSE
        BY <1>2, <3>5 DEF FieldsAfter, SkipAfter
      <3>7. SameForm(g, Grown(f, b))
        <4>1. Grown(f, b).name = f.name /\ Grown(f, b).value = (f.value \o <<CRLF>>) \o b
          BY <3>1, FieldFacts
        <4>2. f.value \in Text
          BY <3>1, FieldFacts
        <4>3. Loop((f.value \o <<CRLF>>) \o b) = Loop(f.value \o b)
          BY <1>3, <4>2
        <4> QED BY <3>2, <4>1, <4>3 DEF SameForm
      <3>8. /\ Len(GrownLast(gs, b)) = n /\ GrownLast(gs, b)[n] = Grown(f, b)
            /\ \A i \in 1 .. n : i # n => GrownLast(gs, b)[i] = gs[i]
        BY <3>5, LastGrows
      <3>9. Forms(ks, GrownLast(gs, b))
        <4>1. ASSUME NEW i \in 1 .. n PROVE SameForm(ks[i], GrownLast(gs, b)[i])
          <5>1. SameForm(hs[i], hs[i])
            BY DEF SameForm
          <5> QED BY <3>5, <3>7, <3>8, <5>1
        <4> QED BY <3>5, <3>8, <4>1 DEF Forms
      <3> QED BY <3>3, <3>4, <3>6, <3>9 DEF j
    <2> QED BY <2>3, <2>4
  <1> QED BY <1>4, <1>5, <1>6
-------------------------------------------------------------------------------
(* The header block before and behind a position. *)

(* The header block of a text, character for character.                    *)
LEMMA HeadShape ==
    ASSUME NEW w \in Text, NEW t, t = HeadText(w)
    PROVE  /\ t \in Text /\ StartOf(w) \in Nat /\ StartOf(w) >= 2 /\ Len(t) = StartOf(w) - 1
           /\ Len(t) \in Nat \ {0} /\ Len(t) <= Len(w) + 1 /\ t[Len(t)] = CRLF
           /\ \A j \in 1 .. Len(t) : t[j] = IF j <= Len(w) THEN w[j] ELSE CRLF
  <1> DEFINE n == Len(w)
  <1>1. w \in Seq(Alphabet) /\ n \in Nat /\ t \in Text
    BY HeadIs DEF Text
  <1>2. CASE NoBlank(w)
    <2>1. t = Append(w, CRLF) /\ StartOf(w) = n + 2
      BY <1>2, HeadIs, StartIs
    <2> DEFINE u == Append(w, CRLF)
    <2>2. Len(u) = n + 1 /\ u[n + 1] = CRLF /\ \A j \in 1 .. n : u[j] = w[j]
      BY <1>1, Letters, AppendProperties
    <2>3. t = u
      BY <2>1
    <2> HIDE DEF u, n
    <2>4. Len(t) = n + 1 /\ t[n + 1] = CRLF /\ \A j \in 1 .. n : t[j] = w[j]
      BY ONLY <2>2, <2>3
    <2>5. \A j \in 1 .. (n + 1) : t[j] = IF j <= n THEN w[j] ELSE CRLF
      <3>1. \A j \in 1 .. (n + 1) : (j <= n /\ j \in 1 .. n) \/ (~(j <= n) /\ j = n + 1)
        BY <1>1
      <3> QED BY <2>4, <3>1
    <2> QED BY <1>1, <2>1, <2>4, <2>5 DEF n
  <1>3. ASSUME NEW e, FirstBlank(w, e)
        PROVE  /\ StartOf(w) \in Nat /\ StartOf(w) >= 2 /\ Len(t) = StartOf(w) - 1
               /\ Len(t) \in Nat \ {0} /\ Len(t) <= n + 1 /\ t[Len(t)] = CRLF
               /\ \A j \in 1 .. Len(t) : t[j] = IF j <= n THEN w[j] ELSE CRLF
    <2>1. /\ e \in 1 .. n /\ w[e] = CRLF /\ StartOf(w) = e + 1 /\ t = SubSeq(w, 1, e)
      BY <1>3, HeadIs, StartIs DEF FirstBlank, Blank
    <2> HIDE DEF n
    <2>2. 1 \in Nat \ {0} /\ e \in 0 .. Len(w) /\ 1 <= e /\ e - 1 + 1 = e /\ e \in 1 .. e
      BY <1>1, <2>1 DEF n
    <2>3. Len(t) = e /\ \A j \in 1 .. e : t[j] = w[1 + j - 1]
      BY <1>1, <2>1, <2>2, StretchType
    <2>4. \A j \in 1 .. e : t[j] = w[j] /\ j <= n
      <3>1. \A j \in 1 .. e : 1 + j - 1 = j /\ j <= n
        BY <1>1, <2>1
      <3> QED BY <2>3, <3>1
    <2> QED BY <1>1, <2>1, <2>2, <2>3, <2>4
  <1> QED BY <1>1, <1>2, <1>3, StartIs

(* What stands before a position, and from it to the end of the block.     *)
HeadTo(w, p)   == SubSeq(w, 1, p - 1)
HeadFrom(w, p) == SubSeq(HeadText(w), p, Len(HeadText(w)))

Around(w, p, t, x, y) ==
    /\ x \in Text /\ y \in Text /\ t = x \o y /\ p <= Len(t) /\ x = SubSeq(t, 1, p - 1)
    /\ Len(x) = p - 1 /\ \A j \in 1 .. (p - 1) : x[j] = w[j]
    /\ y # <<>> /\ y[Len(y)] = CRLF
    /\ y[1] = IF p <= Len(w) THEN w[p] ELSE CRLF

LEMMA HeadFront ==
    ASSUME NEW w \in Text, NEW p \in 1 .. (Len(w) + 1), p < StartOf(w)
    PROVE  Around(w, p, HeadText(w), HeadTo(w, p), HeadFrom(w, p))
  <1> DEFINE n == Len(w)
             t == HeadText(w)
             m == Len(t)
             x == HeadTo(w, p)
             y == HeadFrom(w, p)
  <1>0. x = SubSeq(w, 1, p - 1) /\ y = SubSeq(t, p, m)
    BY DEF HeadTo, HeadFrom
  <1>1. /\ t \in Seq(Alphabet) /\ m \in Nat /\ m <= n + 1 /\ m = StartOf(w) - 1
        /\ t[m] = CRLF /\ StartOf(w) \in Nat
        /\ \A j \in 1 .. m : t[j] = IF j <= n THEN w[j] ELSE CRLF
    BY HeadShape DEF Text
  <1>2. w \in Seq(Alphabet) /\ n \in Nat /\ p \in Nat
    BY DEF Text
  <1> HIDE DEF n, m, t, x, y
  <1>3. p \in 1 .. m /\ p - 1 \in 0 .. n /\ p - 1 \in 0 .. m /\ 1 \in Nat \ {0} /\ p \in Nat \ {0}
    BY <1>1, <1>2
  <1>4. /\ x \in Seq(Alphabet) /\ Len(x) = p - 1 /\ \A j \in 1 .. (p - 1) : x[j] = w[j]
    <2>1. /\ x \in Seq(Alphabet) /\ Len(x) = (IF 1 <= p - 1 THEN p - 1 - 1 + 1 ELSE 0)
          /\ \A j \in 1 .. (p - 1 - 1 + 1) : x[j] = w[1 + j - 1]
      BY <1>0, <1>2, <1>3, StretchType DEF n
    <2>2. \A j \in 1 .. (p - 1) : 1 + j - 1 = j /\ j \in 1 .. (p - 1 - 1 + 1)
      BY <1>2
    <2>3. Len(x) = p - 1
      BY <1>2, <2>1
    <2> QED BY <2>1, <2>2, <2>3
  <1>5. x = SubSeq(t, 1, p - 1)
    <2> DEFINE z == SubSeq(t, 1, p - 1)
    <2>1. /\ z \in Seq(Alphabet) /\ Len(z) = (IF 1 <= p - 1 THEN p - 1 - 1 + 1 ELSE 0)
          /\ \A j \in 1 .. (p - 1 - 1 + 1) : z[j] = t[1 + j - 1]
      BY <1>1, <1>3, StretchType DEF m
    <2> HIDE DEF z
    <2>2. \A j \in 1 .. (p - 1) : 1 + j - 1 = j /\ j \in 1 .. (p - 1 - 1 + 1) /\ j \in 1 .. m /\ j <= n
      BY <1>2, <1>3, <1>1
    <2>3. Len(z) = p - 1
      BY <1>2, <2>1
    <2>4. \A j \in 1 .. (p - 1) : z[j] = w[j]
      BY <1>1, <2>1, <2>2
    <2>5. z = x
      BY <1>4, <2>1, <2>3, <2>4, SameSequence
    <2> QED BY <2>5 DEF z
  <1>6. /\ y \in Seq(Alphabet) /\ Len(y) = m - p + 1
        /\ \A j \in 1 .. (m - p + 1) : y[j] = t[p + j - 1]
    <2>1. m \in 0 .. Len(t) /\ p <= m
      BY <1>1, <1>3 DEF m
    <2> QED BY <1>0, <1>1, <1>3, <2>1, StretchType DEF m
  <1>7. SubSeq(t, 1, p - 1) \o SubSeq(t, (p - 1) + 1, m) = SubSeq(t, 1, m)
    <2>1. m \in 0 .. Len(t) /\ p - 1 \in 0 .. Len(t) /\ 1 <= (p - 1) + 1 /\ p - 1 <= m
      BY <1>1, <1>3 DEF m
    <2> QED BY <1>1, <1>3, <2>1, StretchJoin
  <1>8. (p - 1) + 1 = p
    BY <1>2
  <1>9. x \o y = t
    BY <1>0, <1>1, <1>5, <1>7, <1>8, WholeStretch DEF m
  <1>10. y[Len(y)] = CRLF /\ y # <<>> /\ y[1] = IF p <= n THEN w[p] ELSE CRLF
    <2>1. /\ m - p + 1 \in 1 .. (m - p + 1) /\ p + (m - p + 1) - 1 = m /\ 1 \in 1 .. (m - p + 1)
          /\ p + 1 - 1 = p
      BY <1>1, <1>3
    <2>2. y[m - p + 1] = t[p + (m - p + 1) - 1]
      BY <1>6, <2>1
    <2>3. y[1] = t[p + 1 - 1]
      BY <1>6, <2>1
    <2>4. Len(y) # 0
      BY <1>6, <2>1
    <2> QED BY <1>1, <1>3, <1>6, <2>1, <2>2, <2>3, <2>4
  <1>11. p <= m
    BY <1>1, <1>3
  <1>12. x \in Text /\ y \in Text
    BY <1>4, <1>6 DEF Text
  <1>13. Around(w, p, t, x, y)
    BY <1>4, <1>5, <1>9, <1>10, <1>11, <1>12 DEF n, m, Around
  <1> QED BY <1>13 DEF t, x, y

LEMMA HeadInserted ==
    ASSUME NEW w \in Text, NEW p \in 1 .. (Len(w) + 1), p < StartOf(w), NEW c \in Alphabet,
           Harmless(w, p, c)
    PROVE  HeadText(InsertAt(w, p, c)) = Append(HeadTo(w, p), c) \o HeadFrom(w, p)
  <1> DEFINE t == HeadText(w)
             x == HeadTo(w, p)
             y == HeadFrom(w, p)
             v == InsertAt(w, p, c)
             u == HeadText(v)
             z == InsertAt(t, p, c)
             n == Len(w)
             m == Len(t)
  <1>1. /\ t \in Text /\ m \in Nat /\ m <= n + 1 /\ m = StartOf(w) - 1 /\ n \in Nat
        /\ StartOf(w) \in Nat
        /\ \A j \in 1 .. m : t[j] = IF j <= n THEN w[j] ELSE CRLF
    BY HeadShape DEF Text
  <1>2. /\ v \in Text /\ Len(v) = n + 1 /\ v[p] = c
        /\ \A j \in 1 .. (p - 1) : v[j] = w[j]
        /\ \A i \in p .. n : v[i + 1] = w[i]
    BY InsertFacts
  <1>3. p \in 1 .. m /\ p \in 1 .. (m + 1) /\ x = SubSeq(t, 1, p - 1) /\ x \in Text
    <2>0. Around(w, p, t, x, y)
      BY HeadFront
    <2> HIDE DEF t, x, y
    <2>1. p <= m /\ x = SubSeq(t, 1, p - 1) /\ x \in Text
      BY <2>0 DEF Around
    <2> HIDE DEF m
    <2> QED BY <1>1, <2>1
  <1>4. StartOf(v) = StartOf(w) + 1
    <2>1. CASE NoBlank(w)
      <3>1. NoBlank(v)
        BY <2>1, InsertInHead
      <3>2. StartOf(v) = Len(v) + 2 /\ StartOf(w) = n + 2
        <4> HIDE DEF v, t, u, z
        <4> QED BY <1>2, <2>1, <3>1, StartIs
      <3> HIDE DEF v, n
      <3> QED BY <1>1, <1>2, <3>2
    <2>2. ASSUME NEW e, FirstBlank(w, e) PROVE StartOf(v) = StartOf(w) + 1
      <3>1. StartOf(w) = e + 1 /\ e \in Nat
        BY <2>2, StartIs DEF FirstBlank
      <3>2. p <= e
        BY <3>1
      <3>3. FirstBlank(v, e + 1)
        BY <2>2, <3>2, InsertInHead
      <3> HIDE DEF v
      <3>4. StartOf(v) = e + 1 + 1
        BY <1>2, <3>3, StartIs
      <3> QED BY <3>1, <3>4
    <2> QED BY <2>1, <2>2, StartIs
  <1> HIDE DEF v
  <1>5. /\ u \in Text /\ Len(u) = StartOf(v) - 1
        /\ \A j \in 1 .. Len(u) : u[j] = IF j <= n + 1 THEN v[j] ELSE CRLF
    BY <1>2, HeadShape
  <1> HIDE DEF t, u, x, y
  <1>6. /\ z \in Text /\ Len(z) = m + 1 /\ z[p] = c
        /\ \A j \in 1 .. (p - 1) : z[j] = t[j]
        /\ \A j \in p .. m : z[j + 1] = t[j]
    <2>1. t \in Text /\ p \in 1 .. (Len(t) + 1) /\ c \in Alphabet /\ z = InsertAt(t, p, c)
      BY <1>1, <1>3
    <2> HIDE DEF z
    <2>2. /\ z \in Text /\ Len(z) = Len(t) + 1 /\ z[p] = c
          /\ \A j \in 1 .. (p - 1) : z[j] = t[j]
          /\ \A j \in p .. Len(t) : z[j + 1] = t[j]
      BY ONLY <2>1, InsertFacts
    <2> QED BY <2>2
  <1>7. z = Append(x, c) \o y
    <2>1. x \o <<c>> = Append(x, c)
      BY <1>3, AppendIs DEF Text
    <2>2. y = SubSeq(t, p, Len(t))
      BY DEF HeadFrom, t, y
    <2>3. z = (SubSeq(t, 1, p - 1) \o <<c>>) \o SubSeq(t, p, Len(t))
      BY DEF InsertAt
    <2> HIDE DEF z, x, y
    <2> QED BY <1>3, <2>1, <2>2, <2>3
  <1> HIDE DEF z, n, m
  <1>8. Len(u) = m + 1 /\ Len(u) \in Nat
    BY <1>1, <1>4, <1>5, <1>3
  <1>9. ASSUME NEW j \in 1 .. (m + 1) PROVE u[j] = z[j]
    <2>1. u[j] = IF j <= n + 1 THEN v[j] ELSE CRLF
      BY <1>5, <1>8
    <2>2. CASE j < p
      <3>1. j \in 1 .. (p - 1) /\ j \in 1 .. m /\ j <= n /\ j <= n + 1
        BY <1>1, <1>3, <2>2
      <3> QED BY <1>1, <1>2, <1>6, <2>1, <3>1
    <2>3. CASE j = p
      <3>1. j <= n + 1
        BY <1>1, <1>3, <2>3
      <3> QED BY <1>2, <1>6, <2>1, <2>3, <3>1
    <2>4. CASE j > p
      <3> DEFINE i == j - 1
      <3>1. i \in p .. m /\ i \in 1 .. m /\ j = i + 1 /\ (i <= n => i \in p .. n) /\ (j <= n + 1 <=> i <= n)
        BY <1>1, <1>3, <2>4
      <3> HIDE DEF i
      <3>2. z[i + 1] = t[i]
        BY <1>6, <3>1
      <3>3. t[i] = IF i <= n THEN w[i] ELSE CRLF
        BY <1>1, <3>1
      <3>4. i <= n => v[i + 1] = w[i]
        BY <1>2, <3>1
      <3> QED BY <2>1, <3>1, <3>2, <3>3, <3>4
    <2> QED BY <1>3, <2>2, <2>3, <2>4
  <1>10. u = z
    BY <1>5, <1>6, <1>8, <1>9, SameSequence DEF Text
  <1> QED BY <1>7, <1>10 DEF u, v, x, y

(* What a text becomes when one character of it is replaced.               *)
RecaseAt(w, p, c) == [w EXCEPT ![p] = c]

OneReplaced(w, p, c, v) ==
    /\ v \in Text /\ p \in 1 .. (Len(v) + 1) /\ p < StartOf(v)
    /\ Len(HeadText(v)) = Len(HeadText(w))
    /\ HeadText(v)[p] = c /\ HeadText(w)[p] = w[p]
    /\ \A j \in 1 .. Len(HeadText(w)) : j # p => HeadText(v)[j] = HeadText(w)[j]
    /\ HeadTo(v, p) = HeadTo(w, p)

LEMMA HeadRecased ==
    ASSUME NEW w \in Text, NEW p \in 1 .. Len(w), p < StartOf(w), w[p] # CRLF,
           NEW c \in Alphabet, c # CRLF
    PROVE  OneReplaced(w, p, c, RecaseAt(w, p, c))
  <1> DEFINE v == RecaseAt(w, p, c)
  <1>0. v = [w EXCEPT ![p] = c]
    BY DEF RecaseAt
  <1> HIDE DEF v
  <1> DEFINE t == HeadText(w)
             u == HeadText(v)
             n == Len(w)
             m == Len(t)
  <1>1. /\ t \in Text /\ m \in Nat /\ m = StartOf(w) - 1 /\ n \in Nat /\ StartOf(w) \in Nat
        /\ \A j \in 1 .. m : t[j] = IF j <= n THEN w[j] ELSE CRLF
    BY HeadShape DEF Text
  <1>2. v \in Text /\ (NoBlank(w) => NoBlank(v))
        /\ \A e : FirstBlank(w, e) /\ p <= e => FirstBlank(v, e)
    BY <1>0, Recased
  <1>3. Len(v) = n /\ v[p] = c /\ \A j \in 1 .. n : j # p => v[j] = w[j]
    BY <1>0 DEF Text
  <1>4. StartOf(v) = StartOf(w)
    <2>1. CASE NoBlank(w)
      BY <1>2, <1>3, <2>1, StartIs
    <2>2. ASSUME NEW e, FirstBlank(w, e) PROVE StartOf(v) = StartOf(w)
      <3>1. StartOf(w) = e + 1 /\ e \in Nat
        BY <2>2, StartIs DEF FirstBlank
      <3>2. p <= e
        BY <3>1
      <3>3. FirstBlank(v, e)
        BY <1>2, <2>2, <3>2
      <3> QED BY <1>2, <3>1, <3>3, StartIs
    <2> QED BY <2>1, <2>2, StartIs
  <1>5. /\ u \in Text /\ Len(u) = StartOf(v) - 1
        /\ \A j \in 1 .. Len(u) : u[j] = IF j <= n THEN v[j] ELSE CRLF
    BY <1>2, <1>3, HeadShape
  <1>6. HeadTo(v, p) = HeadTo(w, p)
    <2> DEFINE x == SubSeq(w, 1, p - 1)
               y == SubSeq(v, 1, p - 1)
    <2>1. /\ w \in Seq(Alphabet) /\ v \in Seq(Alphabet) /\ p - 1 \in 0 .. Len(w) /\ 1 \in Nat \ {0}
          /\ p - 1 \in 0 .. Len(v) /\ p \in Nat
      BY <1>1, <1>2, <1>3 DEF Text
    <2>2. /\ x \in Seq(Alphabet) /\ y \in Seq(Alphabet) /\ Len(x) = Len(y)
          /\ \A j \in 1 .. (p - 1 - 1 + 1) : x[j] = w[1 + j - 1] /\ y[j] = v[1 + j - 1]
          /\ Len(x) = IF 1 <= p - 1 THEN p - 1 - 1 + 1 ELSE 0
      BY <2>1, StretchType
    <2> HIDE DEF x, y
    <2>3. ASSUME NEW j \in 1 .. Len(x) PROVE x[j] = y[j]
      <3>1. j \in 1 .. (p - 1 - 1 + 1) /\ 1 + j - 1 = j /\ j \in 1 .. n /\ j # p
        BY <1>1, <2>1, <2>2
      <3> QED BY <1>3, <2>2, <3>1
    <2>4. x = y
      BY <2>2, <2>3, SameSequence
    <2> QED BY <2>4 DEF x, y, HeadTo
  <1> HIDE DEF t, u, m, n
  <1>7. Len(u) = m /\ p \in 1 .. m /\ p <= n
    BY <1>1, <1>4, <1>5 DEF n
  <1>8. u[p] = c /\ t[p] = w[p]
    BY <1>1, <1>3, <1>5, <1>7
  <1>9. ASSUME NEW j \in 1 .. m, j # p PROVE u[j] = t[j]
    <2>1. (j <= n => j \in 1 .. n)
      BY <1>1
    <2> QED BY <1>1, <1>3, <1>5, <1>7, <1>9, <2>1
  <1>10. p \in 1 .. (Len(v) + 1) /\ p < StartOf(v)
    BY <1>1, <1>3, <1>4, <1>7
  <1>11. OneReplaced(w, p, c, v)
    BY <1>2, <1>6, <1>7, <1>8, <1>9, <1>10 DEF OneReplaced, t, u, m
  <1> QED BY <1>11 DEF v

(* The first line end of a text, and what stands around it.                *)
Broken(b, r) == Append(b, CRLF) \o r

LEMMA FirstLine ==
    ASSUME NEW y \in Text, y # <<>>, y[Len(y)] = CRLF
    PROVE  \E b, r \in Text : /\ y = Broken(b, r) /\ \A j \in 1 .. Len(b) : b[j] # CRLF
                              /\ b = <<>> <=> y[1] = CRLF
                              /\ b # <<>> => b[1] = y[1]
  <1> DEFINE n == Len(y)
             e == IndexFrom(y, 1, CRLF)
             b == SubSeq(y, 1, e - 1)
             r == SubSeq(y, e + 1, n)
  <1>1. y \in Seq(Alphabet) /\ n \in Nat \ {0} /\ y[n] = CRLF /\ 1 \in 1 .. (n + 1)
    BY DEF Text
  <1>2. FirstAt(y, 1, CRLF, e)
    BY <1>1, IndexFacts
  <1> HIDE DEF n, e
  <1>3. e \in 1 .. (n + 1) /\ (e <= n => y[e] = CRLF) /\ \A p \in 1 .. (e - 1) : y[p] # CRLF
    BY <1>2 DEF FirstAt, n
  <1>4. e \in 1 .. n /\ y[e] = CRLF
    <2>1. e # n + 1
      <3>1. n \in 1 .. (n + 1 - 1)
        BY <1>1
      <3> QED BY <1>1, <1>3, <3>1
    <2> QED BY <1>1, <1>3, <2>1
  <1>5. /\ 1 \in Nat \ {0} /\ e - 1 \in 0 .. Len(y) /\ e \in 0 .. Len(y) /\ n \in 0 .. Len(y)
        /\ e + 1 \in Nat \ {0} /\ e \in Nat
    BY <1>1, <1>4 DEF n
  <1>6. /\ b \in Seq(Alphabet) /\ Len(b) = e - 1 /\ \A j \in 1 .. (e - 1) : b[j] = y[j]
    <2>1. /\ b \in Seq(Alphabet) /\ Len(b) = (IF 1 <= e - 1 THEN e - 1 - 1 + 1 ELSE 0)
          /\ \A j \in 1 .. (e - 1 - 1 + 1) : b[j] = y[1 + j - 1]
      BY <1>1, <1>5, StretchType
    <2> HIDE DEF b
    <2>2. \A j \in 1 .. (e - 1) : 1 + j - 1 = j /\ j \in 1 .. (e - 1 - 1 + 1)
      BY <1>5
    <2>3. Len(b) = e - 1
      BY <1>4, <1>5, <2>1
    <2> QED BY <2>1, <2>2, <2>3
  <1>7. r \in Seq(Alphabet)
    BY <1>1, <1>5, StretchType
  <1>8. b \o SubSeq(y, e, e) = SubSeq(y, 1, e)
    <2>1. 1 <= (e - 1) + 1 /\ e - 1 <= e /\ (e - 1) + 1 = e
      BY <1>5
    <2>2. SubSeq(y, 1, e - 1) \o SubSeq(y, (e - 1) + 1, e) = SubSeq(y, 1, e)
      BY <1>1, <1>5, <2>1, StretchJoin
    <2> QED BY <2>1, <2>2
  <1>9. SubSeq(y, e, e) = <<CRLF>>
    <2> DEFINE z == SubSeq(y, e, e)
               one == <<CRLF>>
    <2>1. e - e + 1 = 1 /\ e <= e /\ e + 1 - 1 = e /\ 1 \in 1 .. 1 /\ e \in Nat \ {0}
      BY <1>4, <1>5
    <2>2. z \in Seq(Alphabet) /\ Len(z) = 1 /\ z[1] = y[e]
      <3>1. /\ z \in Seq(Alphabet) /\ Len(z) = (IF e <= e THEN e - e + 1 ELSE 0)
            /\ \A j \in 1 .. (e - e + 1) : z[j] = y[e + j - 1]
        BY <1>1, <1>5, <2>1, StretchType
      <3> HIDE DEF z
      <3> QED BY <2>1, <3>1
    <2>3. one \in Seq(Alphabet) /\ Len(one) = 1 /\ one[1] = CRLF
      BY Letters, OneOf
    <2> HIDE DEF z, one
    <2>4. \A j \in 1 .. Len(z) : z[j] = one[j]
      BY <1>4, <2>2, <2>3
    <2>5. z = one
      BY <2>2, <2>3, <2>4, SameSequence
    <2> QED BY <2>5 DEF z, one
  <1>10. SubSeq(y, 1, e) \o r = y
    <2>1. 1 <= e + 1 /\ e <= n
      BY <1>1, <1>4
    <2>2. SubSeq(y, 1, e) \o SubSeq(y, e + 1, n) = SubSeq(y, 1, n)
      BY <1>1, <1>5, <2>1, StretchJoin
    <2> QED BY <1>1, <2>2, WholeStretch DEF n
  <1>11. b \o <<CRLF>> = Append(b, CRLF)
    BY <1>6, Letters, AppendIs
  <1> HIDE DEF b, r
  <1>12. y = Broken(b, r)
    BY <1>8, <1>9, <1>10, <1>11 DEF Broken
  <1>13. b = <<>> <=> y[1] = CRLF
    <2>1. CASE e = 1
      BY <1>4, <1>6, <2>1
    <2>2. CASE e # 1
      <3>1. 1 \in 1 .. (e - 1) /\ Len(b) # 0
        BY <1>4, <1>6, <2>2
      <3> QED BY <1>3, <1>6, <3>1
    <2> QED BY <2>1, <2>2
  <1>14. b # <<>> => b[1] = y[1]
    <2>1. b # <<>> => 1 \in 1 .. (e - 1)
      BY <1>4, <1>6
    <2> QED BY <1>6, <2>1
  <1>15. \A j \in 1 .. Len(b) : b[j] # CRLF
    BY <1>3, <1>6
  <1> QED BY <1>6, <1>7, <1>12, <1>13, <1>14, <1>15 DEF Text

(* A position's line, and what the parser has read of it.                  *)
LEMMA LineIs ==
    ASSUME CInv, NEW p \in 1 .. (Len(Wire) + 1)
    PROVE  /\ HeadTo(Wire, p) \in Text /\ LineBefore(p) = Read(HeadTo(Wire, p)).last
           /\ LineBefore(p) \in Text
  <1> DEFINE w == Wire
             x == HeadTo(w, p)
             B == {0} \cup { q \in 1 .. (p - 1) : w[q] = CRLF }
             m == Max(B)
  <1>1. w \in Seq(Alphabet) /\ Len(w) \in Nat /\ p \in Nat \ {0} /\ p \in 1 .. (Len(w) + 1)
    BY Places DEF Text
  <1>2. LineBefore(p) = SubSeq(w, m + 1, p - 1)
    BY DEF LineBefore
  <1> HIDE DEF w
  <1>3. 1 \in Nat \ {0} /\ p - 1 \in 0 .. Len(w) /\ p - 1 \in Nat /\ 1 <= (p - 1) + 1
    BY <1>1
  <1>4. x = SubSeq(w, 1, p - 1)
    BY DEF HeadTo
  <1>5. /\ x \in Seq(Alphabet) /\ Len(x) = p - 1 /\ \A j \in 1 .. (p - 1) : x[j] = w[j]
    <2>1. /\ x \in Seq(Alphabet) /\ Len(x) = (IF 1 <= p - 1 THEN p - 1 - 1 + 1 ELSE 0)
          /\ \A j \in 1 .. (p - 1 - 1 + 1) : x[j] = w[1 + j - 1]
      BY <1>1, <1>3, <1>4, StretchType
    <2> HIDE DEF x
    <2>2. \A j \in 1 .. (p - 1) : 1 + j - 1 = j /\ j \in 1 .. (p - 1 - 1 + 1)
      BY <1>1
    <2>3. Len(x) = p - 1
      BY <1>1, <2>1
    <2> QED BY <2>1, <2>2, <2>3
  <1> HIDE DEF x
  <1>6. m \in 0 .. (p - 1)
    <2>1. B \in SUBSET (0 .. (p - 1)) /\ B # {}
      BY <1>3
    <2> HIDE DEF B
    <2>2. m \in B
      BY <1>3, <2>1, GreatestElement
    <2> QED BY <2>1, <2>2
  <1>7. B = {0} \cup { q \in 1 .. Len(x) : x[q] = CRLF }
    BY <1>5
  <1>8. Tip(x) = SubSeq(x, m + 1, Len(x))
    <2>1. Tip(x) = SubSeq(x, Max({0} \cup { q \in 1 .. Len(x) : x[q] = CRLF }) + 1, Len(x))
      BY DEF Tip
    <2> QED BY <1>7, <2>1
  <1> HIDE DEF m, B
  <1>9. SubSeq(SubSeq(w, 1, p - 1), m + 1, p - 1) = SubSeq(w, 1 + (m + 1) - 1, 1 + (p - 1) - 1)
    <2>1. m + 1 \in Nat \ {0} /\ p - 1 \in 0 .. ((p - 1) - 1 + 1)
      BY <1>3, <1>6
    <2> QED BY ONLY <1>1, <1>3, <2>1, StretchWithin
  <1>10. 1 + (m + 1) - 1 = m + 1 /\ 1 + (p - 1) - 1 = p - 1
    BY <1>3, <1>6
  <1>11. LineBefore(p) = Tip(x)
    BY <1>2, <1>4, <1>5, <1>8, <1>9, <1>10
  <1>12. x \in Text
    BY <1>5 DEF Text
  <1> QED BY <1>11, <1>12, TipRead, ReadType, StatesAre DEF x, w
-------------------------------------------------------------------------------
(* What an edit of the header block does to its fields. *)

(* A line read to its end.                                                 *)
LineDone(st, line) ==
    State(FieldsAfter(st.hs, st.skip, line), SkipAfter(st.skip, line), <<>>)

LEMMA ReadBroken ==
    ASSUME NEW x \in Text, NEW b \in Text, \A j \in 1 .. Len(b) : b[j] # CRLF,
           Read(x).last \o b # <<>>
    PROVE  \E m \in Text : /\ Read(m) = LineDone(Read(x), Read(x).last \o b)
                           /\ \A r \in Text : x \o Broken(b, r) = m \o r
  <1> DEFINE z == x \o b
             m == Append(z, CRLF)
             k == Read(x).last \o b
             st == Read(x)
  <1>0. CRLF \in Alphabet
    BY Letters
  <1>1. z \in Text /\ Read(z) = State(st.hs, st.skip, k)
    BY ReadOn
  <1>2. x \o Append(b, CRLF) = m /\ Append(b, CRLF) \in Text
    BY <1>0, ChainMore
  <1>3. k # <<>>
    OBVIOUS
  <1> HIDE DEF z, k, st
  <1>4. m \in Text
    BY <1>0, <1>1 DEF Text
  <1>5. Read(m) = Eat(Read(z), CRLF)
    BY <1>0, <1>1, ReadMore
  <1>6. Read(m) = LineDone(st, k)
    <2>1. Eat(Read(z), CRLF) = Finished(State(st.hs, st.skip, k))
      BY <1>1 DEF Eat
    <2>2. Finished(State(st.hs, st.skip, k)) = LineDone(st, k)
      <3> DEFINE tt == State(st.hs, st.skip, k)
      <3>1. tt.hs = st.hs /\ tt.skip = st.skip /\ tt.last = k
        BY StateIs
      <3> HIDE DEF tt
      <3> QED BY <1>3, <3>1 DEF Finished, LineDone, tt
    <2> QED BY <1>5, <2>1, <2>2
  <1> HIDE DEF m
  <1>7. ASSUME NEW r \in Text PROVE x \o Broken(b, r) = m \o r
    <2>1. (x \o Append(b, CRLF)) \o r = x \o (Append(b, CRLF) \o r)
      BY <1>2, ChainRegroup
    <2> QED BY <1>2, <2>1 DEF Broken
  <1> QED BY <1>4, <1>6, <1>7 DEF k, st

(* Lines that match, and the same text behind them.                        *)
LEMMA SameEnds ==
    ASSUME NEW x \in Text, NEW y \in Text, NEW b \in Text, NEW r \in Text,
           \A j \in 1 .. Len(b) : b[j] # CRLF,
           Read(x).last \o b # <<>>, Read(y).last \o b # <<>>,
           Read(x).hs = Read(y).hs, Read(x).skip = Read(y).skip,
           Matches(Read(x).hs, Read(x).skip, Read(x).last \o b, Read(y).last \o b)
    PROVE  Forms(Read(x \o Broken(b, r)).hs, Read(y \o Broken(b, r)).hs)
  <1>1. PICK m \in Text : /\ Read(m) = LineDone(Read(x), Read(x).last \o b)
                          /\ \A q \in Text : x \o Broken(b, q) = m \o q
    BY ReadBroken
  <1>2. PICK n \in Text : /\ Read(n) = LineDone(Read(y), Read(y).last \o b)
                          /\ \A q \in Text : y \o Broken(b, q) = n \o q
    BY ReadBroken
  <1> DEFINE k == Read(x).last \o b
             l == Read(y).last \o b
  <1>3. /\ Matches(Read(x).hs, Read(x).skip, k, l)
        /\ Read(m) = LineDone(Read(x), k) /\ Read(n) = LineDone(Read(y), l)
    BY <1>1, <1>2
  <1> HIDE DEF k, l
  <1>4. Sim(Read(m), Read(n))
    BY <1>3, StateIs DEF Sim, Matches, LineDone
  <1>5. Sim(Read(m \o r), Read(n \o r))
    BY <1>4, SimOn
  <1> QED BY <1>1, <1>2, <1>5 DEF Sim

LEMMA ReadCharacter ==
    ASSUME NEW x \in Text, NEW c \in Alphabet, c # CRLF
    PROVE  /\ Append(x, c) \in Text /\ Read(Append(x, c)).hs = Read(x).hs
           /\ Read(Append(x, c)).skip = Read(x).skip
           /\ Read(Append(x, c)).last = Append(Read(x).last, c)
           /\ Read(x).hs \in Seq(Field) /\ Read(x).skip \in BOOLEAN /\ Read(x).last \in Text
  <1> DEFINE st == Read(x)
             t == Append(x, c)
             l == Append(st.last, c)
  <1>1. t \in Text
    BY DEF Text
  <1>2. st.hs \in Seq(Field) /\ st.skip \in BOOLEAN /\ st.last \in Text
    BY ReadType, StatesAre
  <1>3. Read(t) = State(st.hs, st.skip, l)
    BY ReadMore DEF Eat
  <1> HIDE DEF st, t, l
  <1>4. Read(t).hs = st.hs /\ Read(t).skip = st.skip /\ Read(t).last = l
    BY <1>3, StateIs
  <1> QED BY <1>1, <1>2, <1>4 DEF st, t, l

LEMMA StartHere == BodyStart = StartOf(Wire)
  BY DEF BodyStart, StartOf

LEMMA WidenHead ==
    ASSUME CInv, NEW p \in 1 .. (Len(Wire) + 1), p < BodyStart, LineBefore(p) # <<>>,
           NEW c \in WSP, Last(LineBefore(p)) \in WSP \/ LineEnd(p)
    PROVE  Forms(Fields(Wire), Fields(InsertAt(Wire, p, c)))
  <1> DEFINE w == Wire
             x == HeadTo(w, p)
             y == HeadFrom(w, p)
             a == LineBefore(p)
             t == Append(x, c)
  <1>1. w \in Text /\ c \in Alphabet /\ c # CRLF /\ p < StartOf(w) /\ Len(w) \in Nat
    BY Places, Letters, StartHere
  <1>2. Harmless(w, p, c)
    BY <1>1, LineBeforeFacts DEF Harmless
  <1>3. x \in Text /\ a = Read(x).last /\ a \in Text /\ a # <<>>
    BY LineIs
  <1> HIDE DEF a
  <1>4. Spaced(a) \/ LineEnd(p)
    BY <1>3 DEF Spaced, a
  <1> HIDE DEF w
  <1>5. Around(w, p, HeadText(w), x, y)
    <2>1. p \in 1 .. (Len(w) + 1)
      BY DEF w
    <2> HIDE DEF x, y
    <2> QED BY <1>1, <2>1, HeadFront DEF x, y
  <1>6. HeadText(InsertAt(w, p, c)) = t \o y
    <2>1. p \in 1 .. (Len(w) + 1)
      BY DEF w
    <2>2. HeadText(InsertAt(w, p, c)) = Append(HeadTo(w, p), c) \o HeadFrom(w, p)
      BY <1>1, <1>2, <2>1, HeadInserted
    <2> QED BY <2>2
  <1> HIDE DEF x, y
  <1>7. HeadText(w) = x \o y /\ y \in Text /\ y # <<>> /\ y[Len(y)] = CRLF
        /\ y[1] = IF p <= Len(w) THEN w[p] ELSE CRLF
    BY <1>5 DEF Around
  <1>8. PICK b \in Text, r \in Text :
             /\ y = Broken(b, r) /\ \A j \in 1 .. Len(b) : b[j] # CRLF
             /\ b = <<>> <=> y[1] = CRLF
    BY <1>7, FirstLine
  <1>9. Spaced(a) \/ b = <<>>
    <2>1. LineEnd(p) => y[1] = CRLF
      <3>1. p \in 1 .. Len(w) => p \in DOMAIN w
        BY <1>1 DEF Text
      <3>2. p <= Len(w) => p \in 1 .. Len(w)
        BY <1>1
      <3> QED BY <1>7, <3>1, <3>2 DEF LineEnd, w
    <2> QED BY <1>4, <1>8, <2>1
  <1>10. /\ t \in Text /\ Read(t).hs = Read(x).hs /\ Read(t).skip = Read(x).skip
         /\ Read(t).last = Append(a, c) /\ Read(x).hs \in Seq(Field) /\ Read(x).skip \in BOOLEAN
    BY <1>1, <1>3, ReadCharacter
  <1> HIDE DEF t
  <1>11. Matches(Read(x).hs, Read(x).skip, a \o b, Append(a, c) \o b)
    BY <1>3, <1>9, <1>10, WidenLine
  <1>12. a \o b # <<>> /\ Append(a, c) \o b # <<>>
    <2>1. Append(a, c) # <<>> /\ Append(a, c) \in Text
      BY <1>1, <1>3, ChainMore
    <2> QED BY <1>3, <2>1, FirstStays
  <1>13. Forms(Read(x \o y).hs, Read(t \o y).hs)
    BY <1>3, <1>8, <1>10, <1>11, <1>12, SameEnds
  <1> QED BY <1>6, <1>7, <1>13 DEF Fields, w

LEMMA RefoldHead ==
    ASSUME CInv, NEW p \in 1 .. Len(Wire), p < BodyStart, Wire[p] \in WSP, LineBefore(p) # <<>>,
           Continues(LineBefore(p)) \/ Contains(LineBefore(p), ":")
    PROVE  Forms(Fields(Wire), Fields(InsertAt(Wire, p, CRLF)))
  <1> DEFINE w == Wire
             x == HeadTo(w, p)
             y == HeadFrom(w, p)
             a == LineBefore(p)
             t == Append(x, CRLF)
  <1>0. p \in 1 .. (Len(w) + 1) /\ p <= Len(w) /\ Len(w) \in Nat
    BY Places
  <1>1. w \in Text /\ CRLF \in Alphabet /\ p < StartOf(w) /\ w[p] \in WSP /\ w[p] # CRLF
    BY Places, Letters, StartHere
  <1>2. Harmless(w, p, CRLF)
    BY <1>0, <1>1, LineBeforeFacts DEF Harmless
  <1>3. /\ x \in Text /\ a = Read(x).last /\ a \in Text /\ a # <<>>
        /\ Continues(a) \/ Contains(a, ":")
    BY <1>0, LineIs
  <1> HIDE DEF a, w
  <1>5. Around(w, p, HeadText(w), x, y)
    BY <1>0, <1>1, HeadFront
  <1>6. HeadText(InsertAt(w, p, CRLF)) = t \o y
    BY <1>0, <1>1, <1>2, HeadInserted
  <1> HIDE DEF x, y
  <1>7. HeadText(w) = x \o y /\ y \in Text /\ y # <<>> /\ y[Len(y)] = CRLF /\ y[1] = w[p]
    BY <1>0, <1>5 DEF Around
  <1>8. PICK b \in Text, r \in Text :
             /\ y = Broken(b, r) /\ \A j \in 1 .. Len(b) : b[j] # CRLF
             /\ b = <<>> <=> y[1] = CRLF
             /\ b # <<>> => b[1] = y[1]
    BY <1>7, FirstLine
  <1>9. b # <<>> /\ b[1] \in WSP
    BY <1>1, <1>7, <1>8
  <1> DEFINE hs == Read(x).hs
             skip == Read(x).skip
             gs == FieldsAfter(hs, skip, a)
             on == SkipAfter(skip, a)
             k == a \o b
             st == Read(x)
             done == State(gs, on, <<>>)
  <1>10. st.hs = hs /\ st.skip = skip /\ st.last = a
         /\ hs \in Seq(Field) /\ skip \in BOOLEAN
    BY <1>3, ReadType, StatesAre
  <1> HIDE DEF hs, skip
  <1>11. t \in Text /\ Read(t) = done
    <2>1. t \in Text
      BY <1>1, <1>3 DEF Text
    <2>2. Read(t) = Eat(st, CRLF)
      BY <1>1, <1>3, ReadMore
    <2> HIDE DEF st, t
    <2>3. Eat(st, CRLF) = State(FieldsAfter(st.hs, st.skip, st.last), SkipAfter(st.skip, st.last), <<>>)
      BY <1>3, <1>10 DEF Eat, Finished
    <2> QED BY <1>10, <2>1, <2>2, <2>3
  <1> HIDE DEF t
  <1>12. /\ Forms(FieldsAfter(hs, skip, k), FieldsAfter(gs, on, b))
         /\ SkipAfter(skip, k) = SkipAfter(on, b)
    <2>1. /\ a \in Text /\ a # <<>> /\ (Continues(a) \/ Contains(a, ":")) /\ b # <<>> /\ b[1] \in WSP
          /\ hs \in Seq(Field) /\ skip \in BOOLEAN /\ b \in Text
      BY <1>3, <1>8, <1>9, <1>10
    <2> QED BY ONLY <2>1, RefoldLine
  <1>13. k # <<>> /\ k = Read(x).last \o b
    BY <1>3, <1>10, FirstStays
  <1>14. b = Read(t).last \o b /\ Read(t).hs = gs /\ Read(t).skip = on
    <2>1. <<>> \o b = b
      BY DEF Text
    <2> HIDE DEF gs, on
    <2>2. done.hs = gs /\ done.skip = on /\ done.last = <<>>
      BY StateIs
    <2> HIDE DEF done
    <2> QED BY <1>11, <2>1, <2>2
  <1> HIDE DEF k, gs, on, st, done
  <1>15. PICK m \in Text : /\ Read(m) = LineDone(st, k)
                           /\ \A q \in Text : x \o Broken(b, q) = m \o q
    <2>1. Read(x).last \o b # <<>>
      BY <1>13
    <2>2. \E m \in Text : /\ Read(m) = LineDone(Read(x), Read(x).last \o b)
                          /\ \A q \in Text : x \o Broken(b, q) = m \o q
      BY <1>3, <1>8, <2>1, ReadBroken
    <2> QED BY <1>13, <2>2 DEF st
  <1>16. PICK n \in Text : /\ Read(n) = LineDone(Read(t), b)
                           /\ \A q \in Text : t \o Broken(b, q) = n \o q
    <2>1. Read(t).last \o b # <<>>
      BY <1>9, <1>14
    <2>2. \E n \in Text : /\ Read(n) = LineDone(Read(t), Read(t).last \o b)
                          /\ \A q \in Text : t \o Broken(b, q) = n \o q
      BY <1>8, <1>11, <2>1, ReadBroken
    <2> QED BY <1>14, <2>2
  <1>17. Sim(Read(m), Read(n))
    BY <1>10, <1>12, <1>14, <1>15, <1>16, StateIs DEF Sim, LineDone
  <1>18. Sim(Read(m \o r), Read(n \o r))
    BY <1>17, SimOn
  <1> QED BY <1>6, <1>7, <1>8, <1>15, <1>16, <1>18 DEF Fields, Sim, w

LEMMA FirstOff ==
    ASSUME NEW y \in Text, y # <<>>
    PROVE  /\ y = <<y[1]>> \o Tail(y) /\ Tail(y) \in Text /\ y[1] \in Alphabet
           /\ Len(Tail(y)) = Len(y) - 1 /\ Len(y) \in Nat \ {0}
           /\ \A j \in 1 .. (Len(y) - 1) : Tail(y)[j] = y[j + 1]
  BY DEF Text

(* What stands at and behind a position of the two texts.                  *)
LEMMA TailsAgree ==
    ASSUME NEW x \in Text, NEW y \in Text, y # <<>>, NEW z \in Text, z # <<>>,
           Len(x \o y) = Len(x \o z),
           \A j \in 1 .. Len(x \o y) : j # Len(x) + 1 => (x \o z)[j] = (x \o y)[j]
    PROVE  Tail(y) = Tail(z)
  <1> DEFINE m == Len(x)
             n == Len(y)
             k == Len(z)
             t == x \o y
             u == x \o z
  <1>1. /\ m \in Nat /\ n \in Nat \ {0} /\ k \in Nat \ {0}
        /\ Len(t) = m + n /\ Len(u) = m + k
        /\ \A i \in 1 .. (m + n) : t[i] = IF i <= m THEN x[i] ELSE y[i - m]
        /\ \A i \in 1 .. (m + k) : u[i] = IF i <= m THEN x[i] ELSE z[i - m]
    BY ConcatProperties DEF Text
  <1>2. /\ Tail(y) \in Seq(Alphabet) /\ Len(Tail(y)) = n - 1
        /\ \A j \in 1 .. (n - 1) : Tail(y)[j] = y[j + 1]
        /\ Tail(z) \in Seq(Alphabet) /\ Len(Tail(z)) = k - 1
        /\ \A j \in 1 .. (k - 1) : Tail(z)[j] = z[j + 1]
    BY FirstOff DEF Text
  <1> DEFINE a == Tail(y)
             b == Tail(z)
  <1> HIDE DEF m, n, k, a, b, t, u
  <1>3. n = k
    <2>1. m + n = m + k
      BY <1>1 DEF t, u
    <2> QED BY <1>1, <2>1
  <1>4. ASSUME NEW j \in 1 .. (n - 1) PROVE a[j] = b[j]
    <2> DEFINE i == m + (j + 1)
    <2>1. i \in 1 .. (m + n) /\ i \in 1 .. (m + k) /\ ~(i <= m) /\ i - m = j + 1 /\ i # m + 1
      BY <1>1, <1>3
    <2> HIDE DEF i
    <2>2. t[i] = y[i - m] /\ u[i] = z[i - m]
      BY <1>1, <2>1
    <2>3. u[i] = t[i]
      BY <1>1, <2>1 DEF m, t, u
    <2>4. a[j] = y[j + 1] /\ b[j] = z[j + 1]
      BY <1>2, <1>3 DEF a, b
    <2> QED BY <2>1, <2>2, <2>3, <2>4
  <1>5. a = b
    <2>1. /\ a \in Seq(Alphabet) /\ b \in Seq(Alphabet) /\ Len(a) = n - 1 /\ Len(b) = n - 1
      BY <1>2, <1>3 DEF a, b
    <2> QED BY <1>4, <2>1, SameSequence
  <1> QED BY <1>5 DEF a, b

LEMMA RecaseHead ==
    ASSUME CInv, NEW p \in 1 .. Len(Wire), p < BodyStart, Wire[p] \in DOMAIN LowerOf,
           ToSet(LineBefore(p)) \subseteq NameChars
    PROVE  Forms(Fields(Wire), Fields(RecaseAt(Wire, p, LowerOf[Wire[p]])))
  <1> DEFINE w == Wire
             C == w[p]
             c == LowerOf[C]
             v == RecaseAt(w, p, c)
             x == HeadTo(w, p)
             y == HeadFrom(w, p)
             z == HeadFrom(v, p)
             t == HeadText(w)
             u == HeadText(v)
             a == LineBefore(p)
  <1>0. p \in 1 .. (Len(w) + 1) /\ p \in 1 .. Len(w) /\ p <= Len(w) /\ Len(w) \in Nat /\ p \in Nat
    BY Places
  <1>1. w \in Text /\ p < StartOf(w)
    BY Places, StartHere
  <1>2. /\ C \in DOMAIN LowerOf /\ c \in NameChars /\ C \in NameChars /\ c # CRLF /\ C # CRLF
        /\ c \in Alphabet /\ C \in Alphabet
    <2>1. c \in NameChars /\ C \in NameChars
      BY CaseAssumption
    <2>2. c # CRLF /\ C # CRLF
      BY <2>1, NamedFacts
    <2>3. C \in Alphabet
      BY <1>0, <1>1 DEF Text
    <2> QED BY <2>1, <2>2, <2>3, Letters
  <1>3. x \in Text /\ a = Read(x).last /\ a \in Text /\ Named(a)
    BY <1>0, LineIs DEF Named
  <1> HIDE DEF a, w, c, v
  <1>5. /\ v \in Text /\ p \in 1 .. (Len(v) + 1) /\ p < StartOf(v) /\ Len(u) = Len(t)
        /\ u[p] = c /\ t[p] = C
        /\ \A j \in 1 .. Len(t) : j # p => u[j] = t[j]
        /\ HeadTo(v, p) = x
    <2>1. OneReplaced(w, p, c, v)
      BY <1>0, <1>1, <1>2, HeadRecased DEF v
    <2> QED BY <2>1 DEF OneReplaced
  <1>6. Around(w, p, t, x, y)
    BY <1>0, <1>1, HeadFront
  <1>7. Around(v, p, u, HeadTo(v, p), z)
    BY <1>5, HeadFront
  <1> HIDE DEF x, y, z, t, u
  <1>8. /\ t = x \o y /\ y \in Text /\ y # <<>> /\ y[Len(y)] = CRLF /\ p <= Len(t)
        /\ u = x \o z /\ z \in Text /\ z # <<>> /\ Len(x) = p - 1
    BY <1>5, <1>6, <1>7 DEF Around
  <1>9. y[1] = C
    BY <1>0, <1>6 DEF Around
  <1>10. z[1] = c
    <2>1. /\ \A i \in 1 .. (Len(x) + Len(z)) : u[i] = IF i <= Len(x) THEN x[i] ELSE z[i - Len(x)]
          /\ Len(z) \in Nat \ {0} /\ Len(x) \in Nat
      BY <1>3, <1>8, ConcatProperties DEF Text
    <2>2. p \in 1 .. (Len(x) + Len(z)) /\ ~(p <= Len(x)) /\ p - Len(x) = 1
      BY <1>0, <1>8, <2>1
    <2>3. u[p] = z[1]
      BY <2>1, <2>2
    <2> QED BY <1>5, <2>3
  <1> DEFINE q == Tail(y)
  <1>11. Tail(z) = q
    <2>1. Len(x) + 1 = p
      BY <1>0, <1>8
    <2>2. \A j \in 1 .. Len(t) : j # Len(x) + 1 => u[j] = t[j]
      BY <1>5, <2>1
    <2>3. /\ x \in Text /\ y \in Text /\ y # <<>> /\ z \in Text /\ z # <<>> /\ t = x \o y
          /\ u = x \o z /\ Len(t) = Len(u)
      BY <1>3, <1>5, <1>8
    <2>4. /\ Len(x \o y) = Len(x \o z)
          /\ \A j \in 1 .. Len(x \o y) : j # Len(x) + 1 => (x \o z)[j] = (x \o y)[j]
      BY <2>2, <2>3
    <2> HIDE DEF q
    <2>5. Tail(y) = Tail(z)
      BY <2>3, <2>4, TailsAgree
    <2> QED BY <2>5 DEF q
  <1>12. q \in Text /\ q # <<>> /\ q[Len(q)] = CRLF /\ y = <<C>> \o q /\ z = <<c>> \o q
    <2>1. /\ y = <<y[1]>> \o q /\ q \in Text /\ Len(q) = Len(y) - 1 /\ Len(y) \in Nat \ {0}
          /\ \A j \in 1 .. (Len(y) - 1) : q[j] = y[j + 1]
      BY <1>8, FirstOff
    <2>2. z = <<z[1]>> \o Tail(z)
      BY <1>8, FirstOff
    <2>3. Len(y) # 1
      BY <1>2, <1>8, <1>9
    <2> HIDE DEF q
    <2>4. /\ Len(q) \in 1 .. (Len(y) - 1) /\ Len(q) + 1 = Len(y) /\ Len(q) # 0
      BY <2>1, <2>3
    <2>5. q[Len(q)] = CRLF /\ q # <<>>
      BY <1>8, <2>1, <2>4
    <2> QED BY <1>9, <1>10, <1>11, <2>1, <2>2, <2>5
  <1> HIDE DEF q
  <1> DEFINE X == Append(x, C)
             Y == Append(x, c)
  <1>13. t = X \o q /\ u = Y \o q
    <2>1. X = x \o <<C>> /\ Y = x \o <<c>> /\ <<C>> \in Text /\ <<c>> \in Text
      BY <1>2, <1>3, ChainMore
    <2>2. (x \o <<C>>) \o q = x \o (<<C>> \o q) /\ (x \o <<c>>) \o q = x \o (<<c>> \o q)
      BY <1>3, <1>12, <2>1, ChainRegroup
    <2> QED BY <1>8, <1>12, <2>1, <2>2
  <1>14. PICK b \in Text, r \in Text :
              q = Broken(b, r) /\ \A j \in 1 .. Len(b) : b[j] # CRLF
    BY <1>12, FirstLine
  <1>15. /\ X \in Text /\ Read(X).hs = Read(x).hs /\ Read(X).skip = Read(x).skip
         /\ Read(X).last = Append(a, C)
         /\ Read(x).hs \in Seq(Field) /\ Read(x).skip \in BOOLEAN
    BY <1>2, <1>3, ReadCharacter
  <1>16. /\ Y \in Text /\ Read(Y).hs = Read(x).hs /\ Read(Y).skip = Read(x).skip
         /\ Read(Y).last = Append(a, c)
    BY <1>2, <1>3, ReadCharacter
  <1> HIDE DEF X, Y
  <1> DEFINE k == Append(a, C) \o b
             l == Append(a, c) \o b
             e == Len(a) + 1
  <1>17. /\ k \in Text /\ l \in Text /\ k # <<>> /\ l # <<>>
    <2>1. /\ Append(a, C) # <<>> /\ Append(a, C) \in Text
          /\ Append(a, c) # <<>> /\ Append(a, c) \in Text
      BY <1>2, <1>3, ChainMore
    <2> QED BY <2>1, FirstStays
  <1>18. /\ Len(k) = Len(l) /\ e \in 1 .. Len(k) /\ k[e] = C /\ l[e] = c
         /\ \A j \in 1 .. Len(k) : j # e => l[j] = k[j]
         /\ \A j \in 1 .. (e - 1) : k[j] \in NameChars
    <2> DEFINE f == Append(a, C)
               g == Append(a, c)
               n == Len(a)
    <2>1. /\ f \in Seq(Alphabet) /\ Len(f) = n + 1 /\ f[n + 1] = C /\ \A j \in 1 .. n : f[j] = a[j]
          /\ g \in Seq(Alphabet) /\ Len(g) = n + 1 /\ g[n + 1] = c /\ \A j \in 1 .. n : g[j] = a[j]
          /\ n \in Nat
      BY <1>2, <1>3, AppendProperties DEF Text
    <2>2. b \in Seq(Alphabet) /\ Len(b) \in Nat
      BY DEF Text
    <2>3. \A j \in 1 .. n : a[j] \in NameChars
      BY <1>3, NamedFacts
    <2> HIDE DEF f, g, n
    <2> HIDE DEF k, l, e
    <2>4. /\ Len(f \o b) = n + 1 + Len(b)
          /\ \A i \in 1 .. (n + 1 + Len(b)) : (f \o b)[i] = IF i <= n + 1 THEN f[i] ELSE b[i - (n + 1)]
          /\ Len(g \o b) = n + 1 + Len(b)
          /\ \A i \in 1 .. (n + 1 + Len(b)) : (g \o b)[i] = IF i <= n + 1 THEN g[i] ELSE b[i - (n + 1)]
      <3>1. /\ Len(f \o b) = Len(f) + Len(b)
            /\ \A i \in 1 .. (Len(f) + Len(b)) : (f \o b)[i] = IF i <= Len(f) THEN f[i] ELSE b[i - Len(f)]
            /\ Len(g \o b) = Len(g) + Len(b)
            /\ \A i \in 1 .. (Len(g) + Len(b)) : (g \o b)[i] = IF i <= Len(g) THEN g[i] ELSE b[i - Len(g)]
        BY <2>1, <2>2, ConcatProperties
      <3>2. Len(f) = n + 1 /\ Len(g) = n + 1
        BY <2>1
      <3> QED BY ONLY <3>1, <3>2
    <2>5. k = f \o b /\ l = g \o b /\ e = n + 1
      BY DEF f, g, n, k, l, e
    <2>6. /\ Len(k) = Len(l) /\ e \in 1 .. Len(k) /\ k[e] = C /\ l[e] = c
      <3>1. n + 1 \in 1 .. (n + 1 + Len(b)) /\ n + 1 <= n + 1
        BY <2>1, <2>2
      <3> QED BY <2>1, <2>4, <2>5, <3>1
    <2>7. ASSUME NEW j \in 1 .. Len(k), j # e PROVE l[j] = k[j]
      <3>1. j \in 1 .. (n + 1 + Len(b)) /\ (j <= n + 1 => j \in 1 .. n)
        BY <2>1, <2>2, <2>4, <2>5, <2>7
      <3> QED BY <2>1, <2>4, <2>5, <3>1
    <2>8. ASSUME NEW j \in 1 .. (e - 1) PROVE k[j] \in NameChars
      <3>1. j \in 1 .. n /\ j \in 1 .. (n + 1 + Len(b)) /\ j <= n + 1
        BY <2>1, <2>2, <2>5
      <3> QED BY <2>1, <2>3, <2>4, <2>5, <3>1
    <2> QED BY <2>6, <2>7, <2>8
  <1> HIDE DEF k, l, e
  <1>19. Matches(Read(x).hs, Read(x).skip, k, l)
    <2>1. /\ k[e] \in DOMAIN LowerOf /\ l[e] = LowerOf[k[e]]
      BY <1>2, <1>18 DEF c
    <2> QED BY <1>15, <1>17, <1>18, <2>1, RecaseLine
  <1>20. Forms(Read(X \o q).hs, Read(Y \o q).hs)
    <2>1. Read(X).last \o b = k /\ Read(Y).last \o b = l
      BY <1>15, <1>16 DEF k, l
    <2> QED BY <1>14, <1>15, <1>16, <1>17, <1>19, <2>1, SameEnds
  <1> QED BY <1>13, <1>20 DEF Fields, t, u, v, w, c
-------------------------------------------------------------------------------
(* The parser reads the header block line by line. *)

(* A stretch and the line behind it, line end included.                    *)
LEMMA StretchOn ==
    ASSUME NEW s \in Text, NEW a \in Nat \ {0}, NEW b \in Nat, a < b, b <= Len(s), s[b] = CRLF
    PROVE  /\ SubSeq(s, 2, a) \in Text /\ SubSeq(s, a + 1, b - 1) \in Text
           /\ SubSeq(s, 2, b) = Append(SubSeq(s, 2, a) \o SubSeq(s, a + 1, b - 1), CRLF)
  <1> DEFINE x == SubSeq(s, 2, a)
             l == SubSeq(s, a + 1, b - 1)
             z == x \o l
             t == Append(z, CRLF)
             y == SubSeq(s, 2, b)
  <1>1. /\ s \in Seq(Alphabet) /\ Len(s) \in Nat /\ 2 \in Nat \ {0} /\ a \in 0 .. Len(s)
        /\ b \in 0 .. Len(s) /\ a + 1 \in Nat \ {0} /\ b - 1 \in 0 .. Len(s) /\ CRLF \in Alphabet
    BY Letters DEF Text
  <1>2. /\ x \in Seq(Alphabet) /\ Len(x) = (IF 2 <= a THEN a - 2 + 1 ELSE 0)
        /\ \A j \in 1 .. (a - 2 + 1) : x[j] = s[2 + j - 1]
    BY <1>1, StretchType
  <1>3. /\ l \in Seq(Alphabet) /\ Len(l) = (IF a + 1 <= b - 1 THEN b - 1 - (a + 1) + 1 ELSE 0)
        /\ \A j \in 1 .. (b - 1 - (a + 1) + 1) : l[j] = s[a + 1 + j - 1]
    BY <1>1, StretchType
  <1>4. /\ y \in Seq(Alphabet) /\ Len(y) = (IF 2 <= b THEN b - 2 + 1 ELSE 0)
        /\ \A j \in 1 .. (b - 2 + 1) : y[j] = s[2 + j - 1]
    BY <1>1, StretchType
  <1> HIDE DEF x, l, y
  <1>5. /\ z \in Seq(Alphabet) /\ Len(z) = Len(x) + Len(l)
        /\ \A i \in 1 .. (Len(x) + Len(l)) : z[i] = IF i <= Len(x) THEN x[i] ELSE l[i - Len(x)]
    BY <1>2, <1>3, ConcatProperties
  <1> HIDE DEF z
  <1>6. /\ t \in Seq(Alphabet) /\ Len(t) = Len(z) + 1 /\ t[Len(z) + 1] = CRLF
        /\ \A i \in 1 .. Len(z) : t[i] = z[i]
    <2>1. z \in Seq(Alphabet) /\ CRLF \in Alphabet
      BY <1>1, <1>5
    <2> QED BY ONLY <2>1, AppendProperties
  <1> HIDE DEF t
  <1>7. /\ Len(x) = a - 1 /\ Len(l) = b - a - 1 /\ Len(z) = b - 2 /\ Len(t) = b - 1 /\ Len(y) = b - 1
        /\ Len(x) \in Nat /\ Len(l) \in Nat
    <2>1. /\ Len(x) = (IF 2 <= a THEN a - 2 + 1 ELSE 0)
          /\ Len(l) = (IF a + 1 <= b - 1 THEN b - 1 - (a + 1) + 1 ELSE 0)
          /\ Len(z) = Len(x) + Len(l) /\ Len(t) = Len(z) + 1
          /\ Len(y) = (IF 2 <= b THEN b - 2 + 1 ELSE 0)
      BY ONLY <1>2, <1>3, <1>4, <1>5, <1>6
    <2>2. a \in Nat /\ b \in Nat /\ a >= 1 /\ a < b
      OBVIOUS
    <2>3. Len(x) = a - 1 /\ Len(l) = b - a - 1 /\ Len(y) = b - 1
      BY ONLY <2>1, <2>2
    <2>4. Len(z) = b - 2 /\ Len(t) = b - 1
      BY ONLY <2>1, <2>2, <2>3
    <2> QED BY ONLY <2>2, <2>3, <2>4
  <1>8. ASSUME NEW j \in 1 .. Len(y) PROVE y[j] = t[j]
    <2>1. j \in 1 .. (b - 2 + 1) /\ 2 + j - 1 = j + 1
      BY <1>7
    <2>2. y[j] = s[j + 1]
      BY <1>4, <2>1
    <2>3. CASE j = b - 1
      <3>1. j = Len(z) + 1 /\ j + 1 = b
        BY <1>1, <1>7, <2>3
      <3> QED BY <1>6, <2>2, <3>1
    <2>4. CASE j < a
      <3>1. /\ j \in 1 .. Len(z) /\ j \in 1 .. (Len(x) + Len(l)) /\ j <= Len(x)
            /\ j \in 1 .. (a - 2 + 1)
        BY <1>7, <2>4
      <3>2. t[j] = x[j]
        BY <1>5, <1>6, <3>1
      <3> QED BY <1>2, <2>1, <2>2, <3>1, <3>2
    <2>5. CASE j >= a /\ j # b - 1
      <3> DEFINE i == j - Len(x)
      <3>1. /\ j \in 1 .. Len(z) /\ j \in 1 .. (Len(x) + Len(l)) /\ ~(j <= Len(x))
            /\ i \in 1 .. (b - 1 - (a + 1) + 1) /\ a + 1 + i - 1 = j + 1
        BY <1>7, <2>1, <2>5
      <3>2. t[j] = l[i]
        BY <1>5, <1>6, <3>1
      <3> HIDE DEF i
      <3>3. l[i] = s[j + 1]
        BY <1>3, <3>1
      <3> QED BY <2>2, <3>2, <3>3
    <2> QED BY <1>1, <2>1, <2>3, <2>4, <2>5
  <1>9. y = t
    BY <1>4, <1>6, <1>7, <1>8, SameSequence
  <1> QED BY <1>2, <1>3, <1>9 DEF x, l, y, t, z, Text

(* One line further, the fields are those read so far and the line.        *)
LineReadTo(s, g, a, l, b) ==
    /\ l \in Text /\ l # <<>> /\ \A j \in 1 .. Len(l) : l[j] # CRLF
    /\ b \in 1 .. g /\ s[b] = CRLF
    /\ Head(Rest(s, g, a)) = l /\ Tail(Rest(s, g, a)) = Rest(s, g, b)
    /\ Read(SubSeq(s, 2, b)) = LineDone(Read(SubSeq(s, 2, a)), l)

LEMMA LineRead ==
    ASSUME NEW s, NEW g, HasGap(s, g), NEW a \in 1 .. g, s[a] = CRLF, Rest(s, g, a) # <<>>,
           Read(SubSeq(s, 2, a)).last = <<>>
    PROVE  LineReadTo(s, g, a, LineAt(s, a), NextEnd(s, a))
  <1> DEFINE b == NextEnd(s, a)
             l == LineAt(s, a)
             x == SubSeq(s, 2, a)
  <1>1. /\ a \in 1 .. (g - 1) /\ LineTo(s, g, a, b)
        /\ Head(Rest(s, g, a)) = l /\ Tail(Rest(s, g, a)) = Rest(s, g, b)
    BY NextLine
  <1>2. s \in Text /\ Len(s) \in Nat /\ g \in 1 .. (Len(s) - 1)
    BY DEF HasGap, Text
  <1> HIDE DEF b, l
  <1>3. /\ b \in (a + 2) .. g /\ s[b] = CRLF /\ \A q \in (a + 1) .. (b - 1) : s[q] # CRLF
        /\ l = SubSeq(s, a + 1, b - 1) /\ l \in Text /\ l # <<>>
    BY <1>1 DEF LineTo, l
  <1>4. a \in Nat \ {0} /\ b \in Nat /\ a < b /\ b <= Len(s) /\ b \in 1 .. g
    <2>1. a \in 1 .. g /\ Len(s) \in Nat /\ g \in 1 .. (Len(s) - 1) /\ b \in (a + 2) .. g
      BY <1>2, <1>3
    <2> QED BY ONLY <2>1
  <1>5. x \in Text /\ SubSeq(s, 2, b) = Append(x \o l, CRLF)
    <2>1. s \in Text /\ a \in Nat \ {0} /\ b \in Nat /\ a < b /\ b <= Len(s) /\ s[b] = CRLF
      BY <1>2, <1>3, <1>4
    <2>2. /\ SubSeq(s, 2, a) \in Text
          /\ SubSeq(s, 2, b) = Append(SubSeq(s, 2, a) \o SubSeq(s, a + 1, b - 1), CRLF)
      BY ONLY <2>1, StretchOn
    <2>3. l = SubSeq(s, a + 1, b - 1)
      BY <1>3
    <2> QED BY ONLY <2>2, <2>3
  <1>6. ASSUME NEW j \in 1 .. Len(l) PROVE l[j] # CRLF
    <2>1. a + 1 \in Nat \ {0} /\ b - 1 \in 0 .. Len(s) /\ s \in Seq(Alphabet)
      BY <1>2, <1>4 DEF Text
    <2>2. /\ Len(l) = (IF a + 1 <= b - 1 THEN b - 1 - (a + 1) + 1 ELSE 0)
          /\ \A i \in 1 .. (b - 1 - (a + 1) + 1) : l[i] = s[a + 1 + i - 1]
      BY <1>3, <2>1, StretchType
    <2>3. j \in 1 .. (b - 1 - (a + 1) + 1) /\ a + 1 + j - 1 \in (a + 1) .. (b - 1)
      BY <1>3, <1>4, <2>2
    <2> QED BY <1>3, <2>2, <2>3
  <1> HIDE DEF x
  <1>7. Read(Append(x \o l, CRLF)) = LineDone(Read(x), l)
    <2>1. Read(x).last = <<>>
      BY DEF x
    <2> QED BY <1>3, <1>5, <1>6, <2>1, ReadLine DEF LineDone
  <1> QED BY <1>1, <1>3, <1>4, <1>5, <1>6, <1>7 DEF LineReadTo, x, l, b

(* Nothing left to parse: the whole header block is read.                  *)
LEMMA AllRead ==
    ASSUME NEW s, NEW g, HasGap(s, g), NEW a \in 1 .. g, s[a] = CRLF, Rest(s, g, a) = <<>>
    PROVE  a = g
  <1> SUFFICES ASSUME a # g PROVE FALSE
    OBVIOUS
  <1> DEFINE b == NextEnd(s, a)
             l == LineAt(s, a)
             rs == Rest(s, g, b)
  <1>1. g \in Nat /\ a \in 1 .. (g - 1)
    BY DEF HasGap, Text
  <1>2. LineTo(s, g, a, b)
    BY <1>1, LineStep
  <1> HIDE DEF b, l
  <1>3. b \in 1 .. g /\ s[b] = CRLF /\ Rest(s, g, a) = << l >> \o rs /\ l \in Text
    <2>1. b \in (a + 2) .. g
      BY <1>2 DEF LineTo
    <2>2. b \in 1 .. g
      BY <1>1, <2>1
    <2>3. LineAt(s, a) = l /\ Rest(s, g, b) = rs
      BY DEF l
    <2> HIDE DEF rs
    <2> QED BY <1>2, <2>2, <2>3 DEF LineTo
  <1>4. rs \in Seq(Text)
    <2>1. FullLines(rs)
      BY <1>3, RestIsFull
    <2> QED BY <2>1 DEF FullLines
  <1> HIDE DEF rs
  <1>5. << l >> \o rs # <<>>
    BY <1>3, <1>4
  <1> QED BY <1>3, <1>5
-------------------------------------------------------------------------------
(* Fields written out again are read as they were. *)

LEMMA RawsType ==
    ASSUME NEW hs \in Seq(Field)
    PROVE  /\ Raws(hs) \in Seq(Text) /\ Len(Raws(hs)) = Len(hs) /\ Len(hs) \in Nat
           /\ \A j \in 1 .. Len(hs) : Raws(hs)[j] = hs[j].raw
           /\ hs # <<>> => Raws(hs) \in Parts
           /\ Join(Raws(hs), CRLF) \in Text /\ Written(hs) \in Text
  <1>1. /\ DOMAIN hs = 1 .. Len(hs) /\ Len(hs) \in Nat
        /\ \A j \in 1 .. Len(hs) : hs[j] \in Field
    OBVIOUS
  <1>2. \A j \in 1 .. Len(hs) : hs[j].raw \in Text
    BY <1>1, FieldFacts
  <1>3. /\ Raws(hs) \in Seq(Text) /\ Len(Raws(hs)) = Len(hs)
        /\ \A j \in 1 .. Len(hs) : Raws(hs)[j] = hs[j].raw
    BY <1>1, <1>2 DEF Raws
  <1>4. hs # <<>> => Raws(hs) \in Parts
    BY <1>1, <1>3 DEF Parts
  <1>5. Join(Raws(hs), CRLF) \in Text
    BY <1>3, JoinType
  <1>6. Written(hs) \in Text
    BY <1>5, Letters DEF Written, Text
  <1> QED BY <1>1, <1>3, <1>4, <1>5, <1>6

(* A line behind fields written back.                                      *)
LEMMA WrittenMore ==
    ASSUME NEW hs \in Seq(Field), hs # <<>>, Reread(hs), NEW gs \in Seq(Field), gs # <<>>,
           NEW l \in Text, l # <<>>, \A j \in 1 .. Len(l) : l[j] # CRLF,
           Join(Raws(gs), CRLF) = Join(Raws(hs), CRLF) \o (<<CRLF>> \o l),
           gs = FieldsAfter(hs, FALSE, l), SkipAfter(FALSE, l) = FALSE
    PROVE  Reread(gs)
  <1> DEFINE J == Join(Raws(hs), CRLF)
             x == Written(hs)
             y == Written(gs)
  <1>1. J \in Text /\ x \in Text /\ x = Append(J, CRLF)
    BY RawsType DEF Written
  <1>2. y = Append(J \o (<<CRLF>> \o l), CRLF)
    BY DEF Written
  <1>3. Read(x) = State(hs, FALSE, <<>>)
    BY DEF Reread
  <1> HIDE DEF J, x, y
  <1>4. J \o (<<CRLF>> \o l) = x \o l
    <2>1. CRLF \in Alphabet
      BY Letters
    <2>2. Append(J, CRLF) = J \o <<CRLF>> /\ <<CRLF>> \in Text
      BY <1>1, <2>1, ChainMore
    <2>3. (J \o <<CRLF>>) \o l = J \o (<<CRLF>> \o l)
      BY <1>1, <2>2, ChainRegroup
    <2> QED BY <1>1, <2>2, <2>3
  <1>5. Read(x).hs = hs /\ Read(x).skip = FALSE /\ Read(x).last = <<>>
    <2> DEFINE no   == FALSE
               none == <<>>
    <2>1. Read(x) = State(hs, no, none)
      BY <1>3
    <2> HIDE DEF no, none
    <2>2. Read(x).hs = hs /\ Read(x).skip = no /\ Read(x).last = none
      BY <2>1, StateIs
    <2> QED BY <2>2 DEF no, none
  <1>6. Read(Append(x \o l, CRLF)) = State(FieldsAfter(hs, FALSE, l), SkipAfter(FALSE, l), <<>>)
    BY <1>1, <1>5, ReadLine
  <1> QED BY <1>2, <1>4, <1>6 DEF Reread, y

LEMMA FirstWritten ==
    ASSUME NEW l \in Text, l # <<>>, \A j \in 1 .. Len(l) : l[j] # CRLF,
           ~Continues(l), IsFieldLine(l)
    PROVE  Reread(Append(<<>>, TakenFrom(l)))
  <1> DEFINE none == <<>>
             hs == Append(none, TakenFrom(l))
  <1>1. TakenFrom(l) \in Field /\ TakenFrom(l).raw = l
    BY FieldFacts DEF IsFieldLine, TakenFrom
  <1>2. Raws(hs) = <<l>>
    BY <1>1 DEF Raws
  <1>3. Written(hs) = Append(l, CRLF)
    BY <1>2, JoinOne DEF Written
  <1>4. none \in Text /\ Read(none) = Fresh /\ none \o l = l
    BY ReadMore DEF Text
  <1>5. Read(none).hs = <<>> /\ Read(none).skip = FALSE /\ Read(none).last = <<>>
    <2> DEFINE no == FALSE
    <2>1. Read(none) = State(none, no, none)
      BY <1>4 DEF Fresh
    <2> HIDE DEF no, none
    <2>2. Read(none).hs = none /\ Read(none).skip = no /\ Read(none).last = none
      BY <2>1, StateIs
    <2> QED BY <2>2 DEF no, none
  <1>6. Read(Append(none \o l, CRLF)) = State(FieldsAfter(<<>>, FALSE, l), SkipAfter(FALSE, l), <<>>)
    BY ONLY <1>4, <1>5, ReadLine, l \in Text, l # <<>>, \A j \in 1 .. Len(l) : l[j] # CRLF
  <1>7. FieldsAfter(<<>>, FALSE, l) = hs /\ SkipAfter(FALSE, l) = FALSE
    BY DEF FieldsAfter, SkipAfter
  <1> QED BY <1>3, <1>4, <1>6, <1>7 DEF Reread

LEMMA RereadMore ==
    ASSUME NEW hs \in Seq(Field), Reread(hs), NEW skip \in BOOLEAN,
           NEW l \in Text, l # <<>>, \A j \in 1 .. Len(l) : l[j] # CRLF
    PROVE  Reread(FieldsAfter(hs, skip, l))
  <1> DEFINE gs == FieldsAfter(hs, skip, l)
             f == TakenFrom(l)
             n == Len(hs)
  <1>1. gs \in Seq(Field)
    BY FieldsType
  <1>2. CASE gs = hs
    BY <1>2
  <1>3. CASE ~Continues(l) /\ IsFieldLine(l)
    <2>1. gs = Append(hs, f) /\ SkipAfter(FALSE, l) = FALSE /\ gs = FieldsAfter(hs, FALSE, l)
      BY <1>3 DEF FieldsAfter, SkipAfter
    <2>2. f \in Field /\ f.raw = l
      BY <1>3, FieldFacts DEF IsFieldLine, TakenFrom
    <2>3. CASE hs = <<>>
      BY <1>3, <2>1, <2>3, FirstWritten
    <2>4. CASE hs # <<>>
      <3>1. /\ Raws(hs) \in Seq(Text) /\ Len(Raws(hs)) = n /\ n \in Nat
            /\ \A j \in 1 .. n : Raws(hs)[j] = hs[j].raw
            /\ Raws(hs) \in Parts
        BY <2>4, RawsType
      <3>2. /\ Raws(gs) \in Seq(Text) /\ Len(Raws(gs)) = Len(gs)
            /\ \A j \in 1 .. Len(gs) : Raws(gs)[j] = gs[j].raw
        BY <1>1, RawsType
      <3> DEFINE u == Raws(hs)
                 v == Raws(gs)
                 w == Append(u, l)
      <3> HIDE DEF gs, f, u, v
      <3>3. Len(gs) = n + 1 /\ gs[n + 1] = f /\ \A j \in 1 .. n : gs[j] = hs[j]
        <4>1. gs = Append(hs, f) /\ hs \in Seq(Field) /\ f \in Field
          BY <2>1, <2>2
        <4> QED BY ONLY <4>1, AppendProperties
      <3> HIDE DEF n
      <3>4. w \in Seq(Text) /\ Len(w) = n + 1 /\ w[n + 1] = l /\ \A j \in 1 .. n : w[j] = u[j]
        <4>1. u \in Seq(Text) /\ l \in Text
          BY <3>1 DEF u
        <4>2. w \in Seq(Text) /\ Len(w) = Len(u) + 1 /\ w[Len(u) + 1] = l /\ \A j \in 1 .. Len(u) : w[j] = u[j]
          BY ONLY <4>1, AppendProperties
        <4>3. Len(u) = n
          BY <3>1 DEF u
        <4> QED BY <4>2, <4>3
      <3> HIDE DEF w
      <3>5. ASSUME NEW j \in 1 .. Len(v) PROVE v[j] = w[j]
        <4>1. j \in 1 .. (n + 1) /\ j \in 1 .. Len(gs) /\ (j # n + 1 => j \in 1 .. n)
          BY <3>1, <3>2, <3>3 DEF v
        <4>2. v[j] = gs[j].raw
          BY <3>2, <4>1 DEF v
        <4>3. CASE j = n + 1
          BY <2>2, <3>3, <3>4, <4>2, <4>3
        <4>4. CASE j # n + 1
          BY <3>1, <3>3, <3>4, <4>1, <4>2, <4>4 DEF u
        <4> QED BY <4>3, <4>4
      <3>6. v = w
        <4>1. v \in Seq(Text) /\ w \in Seq(Text) /\ Len(v) = Len(w)
          BY <3>2, <3>3, <3>4 DEF v
        <4> QED BY <3>5, <4>1, SameSequence
      <3>7. Join(v, CRLF) = Join(u, CRLF) \o (<<CRLF>> \o l)
        <4>1. u \in Parts
          BY <3>1 DEF u
        <4> QED BY <3>6, <4>1, JoinMore DEF w
      <3>8. gs # <<>>
        BY <3>1, <3>3
      <3> QED BY <1>1, <2>1, <2>4, <3>7, <3>8, WrittenMore DEF u, v, gs
    <2> QED BY <2>3, <2>4
  <1>4. CASE Continues(l) /\ hs # <<>> /\ ~skip
    <2>1. gs = GrownLast(hs, l) /\ SkipAfter(FALSE, l) = FALSE /\ gs = FieldsAfter(hs, FALSE, l)
      BY <1>4 DEF FieldsAfter, SkipAfter
    <2>2. /\ Len(gs) = n /\ n \in Nat \ {0} /\ hs[n] \in Field
          /\ gs[n] = Grown(hs[n], l) /\ \A j \in 1 .. n : j # n => gs[j] = hs[j]
      <3> DEFINE k == GrownLast(hs, l)
      <3>1. /\ Len(k) = Len(hs) /\ Len(hs) \in Nat \ {0} /\ hs[Len(hs)] \in Field
            /\ k[Len(hs)] = Grown(hs[Len(hs)], l)
            /\ \A j \in 1 .. Len(hs) : j # Len(hs) => k[j] = hs[j]
        BY <1>4, LastGrows
      <3>2. gs = k
        BY <2>1
      <3> HIDE DEF k, gs
      <3> QED BY <3>1, <3>2
    <2>3. gs[n].raw = (hs[n].raw \o <<CRLF>>) \o l /\ hs[n].raw \in Text
      BY <2>2, FieldFacts
    <2> DEFINE u == Raws(hs)
               v == Raws(gs)
               m == n - 1
               y == <<CRLF>> \o l
    <2>4. gs # <<>>
      BY <2>2
    <2>5. /\ u \in Parts /\ Len(u) = n /\ \A j \in 1 .. n : u[j] = hs[j].raw
          /\ v \in Parts /\ Len(v) = n /\ \A j \in 1 .. n : v[j] = gs[j].raw
      <3>1. /\ u \in Parts /\ Len(u) = n /\ \A j \in 1 .. n : u[j] = hs[j].raw
        BY <1>4, RawsType
      <3>2. v \in Parts /\ Len(v) = Len(gs) /\ \A j \in 1 .. Len(gs) : v[j] = gs[j].raw
        BY <1>1, <2>4, RawsType
      <3> QED BY <2>2, <3>1, <3>2
    <2>6. <<CRLF>> \in Text /\ y \in Text
      BY Letters, OneType, ChainType
    <2>7. gs[n].raw = hs[n].raw \o y
      BY <2>3, <2>6, ChainRegroup
    <2> HIDE DEF gs, u, v, y, n
    <2>8. m \in Nat /\ m = Len(u) - 1 /\ m = Len(v) - 1 /\ m + 1 = n
      BY <2>2, <2>5
    <2>9. \A k \in 1 .. m : u[k] = v[k]
      <3>1. \A k \in 1 .. m : k \in 1 .. n /\ k # n
        BY <2>2
      <3> QED BY <2>2, <2>5, <3>1
    <2> HIDE DEF m
    <2>10. v[m + 1] = u[m + 1] \o y
      <3>1. n \in 1 .. n
        BY <2>2
      <3> QED BY <2>5, <2>7, <2>8, <3>1
    <2>11. Join(v, CRLF) = Join(u, CRLF) \o y
      BY <2>5, <2>6, <2>8, <2>9, <2>10, JoinChange
    <2> QED BY <1>1, <1>4, <2>1, <2>4, <2>11, WrittenMore DEF u, v, y, gs
  <1> QED BY <1>2, <1>3, <1>4 DEF FieldsAfter
-------------------------------------------------------------------------------
(* What the parser has found at its end. *)

LineParsed ==
    /\ lines # <<>> /\ lines' = Tail(lines) /\ raw' = raw
    /\ headers' = FieldsAfter(headers, skipping, Head(lines))
    /\ skipping' = SkipAfter(skipping, Head(lines))

LEMMA ParsesLine ==
    ASSUME CInv, DropContinuation \/ ContinueField \/ TakeField \/ SkipLine
    PROVE  LineParsed /\ Parsing
  <1>1. CASE DropContinuation
    BY <1>1 DEF DropContinuation, Advance, Parsing, LineParsed, FieldsAfter, SkipAfter
  <1>2. CASE ContinueField
    <2>1. /\ lines # <<>> /\ lines' = Tail(lines) /\ raw' = raw /\ Parsing
          /\ Continues(Head(lines)) /\ headers # <<>> /\ ~skipping
          /\ headers' = GrownLast(headers, Head(lines)) /\ skipping' = skipping
      BY <1>2 DEF ContinueField, Advance, Parsing, GrownLast
    <2> QED BY <2>1 DEF LineParsed, FieldsAfter, SkipAfter
  <1>3. CASE TakeField
    <2>1. /\ lines # <<>> /\ lines' = Tail(lines) /\ raw' = raw /\ Parsing
          /\ ~Continues(Head(lines)) /\ IsFieldLine(Head(lines))
          /\ headers' = Append(headers, TakenFrom(Head(lines))) /\ skipping' = FALSE
      BY <1>3 DEF TakeField, Advance, Parsing, TakenFrom
    <2> QED BY <2>1 DEF LineParsed, FieldsAfter, SkipAfter
  <1>4. CASE SkipLine
    <2>1. /\ lines # <<>> /\ lines' = Tail(lines) /\ raw' = raw /\ Parsing
          /\ ~Continues(Head(lines)) /\ ~IsFieldLine(Head(lines))
          /\ headers' = headers /\ skipping' = TRUE
      BY <1>4 DEF SkipLine, Advance, Parsing
    <2> QED BY <2>1 DEF LineParsed, FieldsAfter, SkipAfter
  <1> QED BY <1>1, <1>2, <1>3, <1>4

LEMMA LineTraced ==
    ASSUME CInv, pc # "split", Traced, Reread(headers), LineParsed
    PROVE  Traced' /\ Reread(headers')
  <1> DEFINE s == Framed(raw)
             g == Stop(raw)
  <1>1. HasGap(s, g)
    BY FramedGap DEF Stop, CInv
  <1>2. /\ headers \in Seq(Field) /\ skipping \in BOOLEAN
    BY DEF CInv, Parsed
  <1>3. Framed(raw') = s /\ Stop(raw') = g
    BY DEF LineParsed
  <1>4. PICK a \in 1 .. g : TracedAt(s, g, a, lines, headers, skipping)
    BY DEF Traced
  <1> HIDE DEF s, g
  <1> DEFINE x == SubSeq(s, 2, a)
             l == LineAt(s, a)
             b == NextEnd(s, a)
             none == <<>>
  <1>5. s[a] = CRLF /\ lines = Rest(s, g, a) /\ Read(x) = State(headers, skipping, none)
    BY <1>4 DEF TracedAt
  <1> HIDE DEF none
  <1>6. Read(x).hs = headers /\ Read(x).skip = skipping /\ Read(x).last = none
    BY <1>5, StateIs
  <1>7. LineReadTo(s, g, a, l, b)
    BY <1>1, <1>5, <1>6, LineRead DEF LineParsed, none
  <1> HIDE DEF x, l, b
  <1>8. /\ l \in Text /\ l # <<>> /\ \A j \in 1 .. Len(l) : l[j] # CRLF
        /\ b \in 1 .. g /\ s[b] = CRLF /\ Head(lines) = l /\ Tail(lines) = Rest(s, g, b)
        /\ Read(SubSeq(s, 2, b)) = LineDone(Read(x), l)
    BY <1>5, <1>7 DEF LineReadTo, x
  <1>9. headers' = FieldsAfter(headers, skipping, l) /\ skipping' = SkipAfter(skipping, l)
        /\ lines' = Rest(s, g, b)
    BY <1>8 DEF LineParsed
  <1>10. Read(SubSeq(s, 2, b)) = State(headers', skipping', <<>>)
    BY <1>6, <1>8, <1>9 DEF LineDone
  <1>11. Traced'
    <2>1. TracedAt(s, g, b, lines', headers', skipping')
      BY <1>8, <1>9, <1>10 DEF TracedAt
    <2>2. \E e \in 1 .. Stop(raw') : TracedAt(Framed(raw'), Stop(raw'), e, lines', headers', skipping')
      BY <1>3, <1>8, <2>1
    <2> QED BY <2>2 DEF Traced
  <1>12. Reread(headers')
    BY <1>2, <1>8, <1>9, RereadMore
  <1> QED BY <1>11, <1>12

LEMMA SplitTraced ==
    ASSUME CInv, SplitMessage
    PROVE  Traced' /\ Reread(headers')
  <1> DEFINE N == Normalize(raw)
             s == Framed(raw)
             g == Stop(raw)
             x == SubSeq(s, 2, 1)
  <1>1. raw \in Text /\ raw' = raw /\ headers' = <<>> /\ skipping' = FALSE
    BY DEF CInv, SplitMessage
  <1>2. lines' = IF IsPrefix(<<CRLF>>, N) THEN <<>> ELSE LinesOf(N)
    BY DEF SplitMessage, LinesOf
  <1>3. lines' = Rest(s, g, 1)
    <2>1. (IF IsPrefix(<<CRLF>>, N) THEN <<>> ELSE LinesOf(N)) = Rest(s, g, 1)
      BY <1>1, SplitParsed DEF Stop
    <2> QED BY <1>2, <2>1
  <1>4. HasGap(s, g)
    BY <1>1, FramedGap DEF Stop
  <1>5. Framed(raw') = s /\ Stop(raw') = g
    BY <1>1
  <1> HIDE DEF s, g, N
  <1>6. 1 \in 1 .. g /\ s[1] = CRLF /\ s \in Seq(Alphabet) /\ Len(s) \in Nat /\ 1 \in 0 .. Len(s)
    BY <1>4 DEF HasGap, Text
  <1>7. x = <<>>
    <2>1. 2 \in Nat \ {0} /\ ~(2 <= 1)
      OBVIOUS
    <2>2. x \in Seq(Alphabet) /\ Len(x) = 0
      BY <1>6, <2>1, StretchType
    <2> HIDE DEF x
    <2> QED BY <2>2
  <1>8. Read(x) = State(<<>>, FALSE, <<>>)
    BY <1>7, ReadMore DEF Fresh
  <1>9. TracedAt(s, g, 1, lines', headers', skipping')
    <2>1. headers' = <<>> /\ skipping' = FALSE
      BY <1>1
    <2> QED BY <1>3, <1>6, <1>8, <2>1 DEF TracedAt
  <1>10. Traced'
    <2>1. \E e \in 1 .. Stop(raw') : TracedAt(Framed(raw'), Stop(raw'), e, lines', headers', skipping')
      BY <1>5, <1>6, <1>9
    <2> QED BY <2>1 DEF Traced
  <1>11. Reread(headers')
    BY <1>1 DEF Reread
  <1> QED BY <1>10, <1>11

(* The header block is what stands before the gap of the framed text, with *)
(* or without the first of its two line ends.                              *)
HeadBehind(x, t) == t = x \/ (x \in Text /\ t = Append(x, CRLF))

LEMMA HeadFramed ==
    ASSUME NEW r \in Text
    PROVE  HeadBehind(SubSeq(Framed(r), 2, Stop(r)), HeadText(Normalize(r)))
  <1> DEFINE N == Normalize(r)
             s == Framed(r)
             g == Stop(r)
             t == HeadText(N)
             n == Len(N)
             h == Len(t)
  <1>1. /\ N \in Text /\ n \in Nat /\ s \in Text /\ Len(s) = n + 3
        /\ s[1] = CRLF /\ s[n + 2] = CRLF /\ s[n + 3] = CRLF
        /\ \A p \in 1 .. n : s[p + 1] = N[p]
    BY FramedFacts
  <1>2. HasGap(s, g)
    BY FramedGap DEF Stop
  <1> HIDE DEF N, s, g
  <1>3. /\ s[g] = CRLF /\ s[g + 1] = CRLF /\ g \in 1 .. (n + 2)
        /\ \A p \in 1 .. (g - 1) : s[p] = CRLF => s[p + 1] # CRLF
    BY <1>1, <1>2 DEF HasGap, NoGapBefore
  <1>4. /\ t \in Text /\ h \in Nat \ {0} /\ h <= n + 1 /\ t[h] = CRLF
        /\ \A j \in 1 .. h : t[j] = IF j <= n THEN N[j] ELSE CRLF
        /\ h = StartOf(N) - 1
    BY <1>1, HeadShape
  <1> HIDE DEF t
  <1>5. ASSUME NEW j \in 1 .. h PROVE t[j] = s[j + 1]
    <2>1. j <= n => j \in 1 .. n
      BY <1>1, <1>4
    <2>2. ~(j <= n) => j + 1 = n + 2
      BY <1>1, <1>4
    <2> QED BY <1>1, <1>4, <2>1, <2>2
  <1>6. g = h \/ g = h + 1
    <2>1. ASSUME NEW e, FirstBlank(N, e) PROVE g = h
      <3>1. h = e /\ e \in 1 .. n /\ N[e] = CRLF /\ (e = 1 \/ N[e - 1] = CRLF)
            /\ \A d \in 1 .. (e - 1) : ~(N[d] = CRLF /\ (d = 1 \/ N[d - 1] = CRLF))
        <4>1. StartOf(N) = e + 1
          BY <1>1, <2>1, StartIs
        <4>2. e \in 1 .. n
          BY <2>1 DEF FirstBlank
        <4>3. h = e
          BY <1>4, <4>1, <4>2
        <4> QED BY <2>1, <4>2, <4>3 DEF FirstBlank, Blank
      <3> HIDE DEF n, h
      <3>2. s[e + 1] = CRLF /\ s[e] = CRLF
        <4>1. s[e + 1] = CRLF
          BY <1>1, <3>1
        <4>2. CASE e = 1
          BY <1>1, <4>1, <4>2
        <4>3. CASE e # 1
          <5>1. e - 1 \in 1 .. n /\ e - 1 + 1 = e
            BY <1>1, <3>1, <4>3
          <5>2. s[e - 1 + 1] = N[e - 1]
            BY <1>1, <5>1
          <5> QED BY <3>1, <4>1, <4>3, <5>1, <5>2
        <4> QED BY <4>1, <4>2, <4>3
      <3>3. ASSUME g < e PROVE FALSE
        <4>1. g \in 1 .. (e - 1) /\ g \in 1 .. n /\ e \in Nat
          BY <1>1, <1>3, <3>1, <3>3
        <4>2. N[g] = CRLF
          BY <1>1, <1>3, <4>1
        <4>3. g # 1 => N[g - 1] = CRLF
          <5>1. g # 1 => g - 1 \in 1 .. n /\ g - 1 + 1 = g
            BY <1>1, <4>1
          <5>2. g # 1 => s[g - 1 + 1] = N[g - 1]
            BY <1>1, <5>1
          <5> QED BY <1>3, <5>1, <5>2
        <4> QED BY <3>1, <4>1, <4>2, <4>3
      <3>4. ASSUME e < g PROVE FALSE
        <4>1. e \in 1 .. (g - 1)
          BY <1>1, <1>3, <3>1, <3>4
        <4> QED BY <1>3, <3>2, <4>1
      <3> QED BY <1>1, <1>3, <3>1, <3>3, <3>4
    <2>2. CASE NoBlank(N)
      <3>1. h = n + 1 /\ \A d \in 1 .. n : ~(N[d] = CRLF /\ (d = 1 \/ N[d - 1] = CRLF))
        <4>1. StartOf(N) = n + 2
          BY <1>1, <2>2, StartIs
        <4>2. h = n + 1
          BY <1>1, <1>4, <4>1
        <4> QED BY <2>2, <4>2 DEF NoBlank, Blank
      <3> HIDE DEF n, h
      <3>2. ASSUME g \in 1 .. n PROVE FALSE
        <4>1. N[g] = CRLF
          BY <1>1, <1>3, <3>2
        <4>2. g # 1 => N[g - 1] = CRLF
          <5>1. g # 1 => g - 1 \in 1 .. n /\ g - 1 + 1 = g
            BY <1>1, <3>2
          <5>2. g # 1 => s[g - 1 + 1] = N[g - 1]
            BY <1>1, <5>1
          <5> QED BY <1>3, <5>1, <5>2
        <4> QED BY <3>1, <3>2, <4>1, <4>2
      <3> QED BY <1>1, <1>3, <3>1, <3>2
    <2> QED BY <1>1, <2>1, <2>2, StartIs
  <1> HIDE DEF n, h
  <1> DEFINE x == SubSeq(s, 2, g)
             y == SubSeq(s, 2, h + 1)
  <1>7. /\ s \in Seq(Alphabet) /\ 2 \in Nat \ {0} /\ g \in 0 .. Len(s) /\ h + 1 \in 0 .. Len(s)
        /\ 2 <= h + 1
    <2>1. h + 1 \in 0 .. (n + 3) /\ g \in 0 .. (n + 3) /\ 2 <= h + 1 /\ 2 \in Nat \ {0}
      <3>1. h \in Nat \ {0} /\ h <= n + 1 /\ g \in 1 .. (n + 2) /\ n \in Nat
        BY <1>1, <1>3, <1>4
      <3> QED BY ONLY <3>1
    <2>2. s \in Seq(Alphabet) /\ Len(s) = n + 3
      BY <1>1 DEF Text
    <2> QED BY <2>1, <2>2
  <1>8. /\ y \in Seq(Alphabet) /\ Len(y) = h
        /\ \A j \in 1 .. h : y[j] = s[j + 1]
    <2>1. s \in Seq(Alphabet) /\ 2 \in Nat \ {0} /\ h + 1 \in 0 .. Len(s)
      BY <1>7
    <2> DEFINE k == h + 1
    <2>2. k \in 0 .. Len(s)
      BY <2>1
    <2>3. y = SubSeq(s, 2, k)
      BY DEF y
    <2> HIDE DEF k, y
    <2>4. /\ SubSeq(s, 2, k) \in Seq(Alphabet) /\ Len(SubSeq(s, 2, k)) = IF 2 <= k THEN k - 2 + 1 ELSE 0
          /\ \A j \in 1 .. (k - 2 + 1) : SubSeq(s, 2, k)[j] = s[2 + j - 1]
      BY ONLY <2>1, <2>2, StretchType
    <2>5. 2 <= k
      BY <1>7 DEF k
    <2>6. /\ y \in Seq(Alphabet) /\ Len(y) = k - 2 + 1
          /\ \A j \in 1 .. (k - 2 + 1) : y[j] = s[2 + j - 1]
      BY <2>3, <2>4, <2>5
    <2>7. k - 2 + 1 = h /\ \A j \in 1 .. h : 2 + j - 1 = j + 1
      BY <1>4 DEF k
    <2> QED BY <2>6, <2>7
  <1>9. x \in Seq(Alphabet) /\ Len(x) = (IF 2 <= g THEN g - 2 + 1 ELSE 0)
        /\ \A j \in 1 .. (g - 2 + 1) : x[j] = s[2 + j - 1]
    <2>1. s \in Seq(Alphabet) /\ 2 \in Nat \ {0} /\ g \in 0 .. Len(s)
      BY <1>7
    <2> QED BY ONLY <2>1, StretchType
  <1> HIDE DEF x, y
  <1>10. t = y
    <2>1. t \in Seq(Alphabet) /\ Len(t) = h
      BY <1>4 DEF h, Text
    <2>2. Len(y) = h
      BY <1>4, <1>8
    <2>3. ASSUME NEW j \in 1 .. h PROVE t[j] = y[j]
      BY <1>5, <1>8, <2>3
    <2> QED BY <1>8, <2>1, <2>2, <2>3, SameSequence
  <1>11. CASE g = h + 1
    BY <1>10, <1>11 DEF x, y, t, s, g, N, HeadBehind
  <1>12. CASE g = h
    <2> DEFINE z == Append(x, CRLF)
    <2>1. x \in Seq(Alphabet) /\ CRLF \in Alphabet
      BY <1>9, Letters
    <2>2. /\ z \in Seq(Alphabet) /\ Len(z) = Len(x) + 1 /\ z[Len(x) + 1] = CRLF
          /\ \A i \in 1 .. Len(x) : z[i] = x[i]
      BY ONLY <2>1, AppendProperties
    <2> HIDE DEF z
    <2>3. Len(x) = h - 1 /\ Len(z) = h
      <3>1. Len(x) = (IF 2 <= h THEN h - 2 + 1 ELSE 0) /\ Len(z) = Len(x) + 1 /\ h \in Nat \ {0}
        BY <1>4, <1>9, <1>12, <2>2
      <3> QED BY ONLY <3>1
    <2>4. ASSUME NEW j \in 1 .. h PROVE t[j] = z[j]
      <3>1. CASE j = h
        <4>1. z[j] = CRLF
          BY <1>4, <2>2, <2>3, <3>1
        <4> QED BY <1>4, <3>1, <4>1
      <3>2. CASE j # h
        <4>1. j \in 1 .. Len(x) /\ j \in 1 .. (g - 2 + 1) /\ 2 + j - 1 = j + 1
          BY <1>4, <1>12, <2>3, <3>2
        <4> QED BY <1>5, <1>9, <2>2, <4>1
      <3> QED BY <3>1, <3>2
    <2>5. t \in Seq(Alphabet) /\ Len(t) = h
      BY <1>4 DEF h, Text
    <2>6. t = z
      BY <2>2, <2>3, <2>4, <2>5, SameSequence
    <2>7. HeadBehind(x, t)
      BY <1>9, <2>6 DEF z, Text, HeadBehind
    <2> QED BY <2>7 DEF x, t, s, g, N
  <1> QED BY <1>6, <1>11, <1>12

(* What the parser found at its end.                                       *)
LEMMA HeadersRead ==
    ASSUME CInv, pc = "done", Traced
    PROVE  headers = Fields(Wire)
  <1> DEFINE s == Framed(raw)
             g == Stop(raw)
             t == HeadText(Wire)
             none == <<>>
  <1>1. HasGap(s, g) /\ raw \in Text
    BY FramedGap DEF Stop, CInv
  <1>2. HeadBehind(SubSeq(s, 2, g), t)
    BY <1>1, HeadFramed DEF Wire
  <1>3. PICK a \in 1 .. g : TracedAt(s, g, a, lines, headers, skipping)
    BY DEF Traced
  <1> HIDE DEF s, g, t
  <1>4. a = g
    BY <1>1, <1>3, AllRead DEF TracedAt, CInv
  <1> DEFINE x == SubSeq(s, 2, g)
  <1>5. Read(x) = State(headers, skipping, none)
    BY <1>3, <1>4 DEF TracedAt
  <1> HIDE DEF none, x
  <1>6. Read(x).hs = headers /\ Read(x).last = none
    BY <1>5, StateIs
  <1>7. Read(t) = Read(x)
    <2>1. CASE t = x
      BY <2>1
    <2>2. CASE x \in Text /\ t = Append(x, CRLF)
      BY <1>6, <2>2, ReadEmpty DEF none
    <2> QED BY <1>2, <2>1, <2>2 DEF x, HeadBehind
  <1> QED BY <1>6, <1>7 DEF Fields, t
-------------------------------------------------------------------------------
(* The invariant of the fields, and the theorem. *)

LEMMA FieldsAre ==
    ASSUME NEW w \in Text
    PROVE  HeadText(w) \in Text /\ Fields(w) \in Seq(Field)
  BY HeadIs, ReadType, StatesAre DEF Fields

LEMMA RelaysFacts ==
    /\ \A hs \in Seq(Field) : \A es : Relays(hs, hs, es)
    /\ \A hs, gs, fs : \A es, more : Relays(hs, gs, es) /\ Relays(gs, fs, more)
                                        => Relays(hs, fs, es \cup more)
  <1>1. \A hs \in Seq(Field) : \A es : Relays(hs, hs, es)
    BY FormsSelf DEF Relays
  <1>2. ASSUME NEW hs, NEW gs, NEW fs, Forms(hs, gs), Forms(gs, fs) PROVE Forms(hs, fs)
    BY <1>2 DEF Forms, SameForm
  <1> QED BY <1>1, <1>2 DEF Relays

LEMMA HInvInit == CanonInit => HInv
  BY PInvInit DEF HInv, CanonInit, Init

LEMMA SplitRelays ==
    ASSUME HInv, SplitMessage, UNCHANGED <<first, edits, count>>
    PROVE  HInv'
  <1>1. PInv' /\ CInv /\ Wire' = Wire
    BY SplitCovers DEF HInv, PInv, SplitMessage, Wire
  <1>2. Traced' /\ Reread(headers')
    BY <1>1, SplitTraced
  <1>3. first' = first /\ edits' = edits
    OBVIOUS
  <1> QED BY <1>1, <1>2, <1>3 DEF HInv

LEMMA LineRelays ==
    ASSUME HInv, UNCHANGED <<first, edits, count>>,
           DropContinuation \/ ContinueField \/ TakeField \/ SkipLine
    PROVE  HInv'
  <1>1. PInv' /\ CInv
    BY ParseCovers DEF HInv, PInv
  <1>2. LineParsed /\ Parsing
    BY <1>1, ParsesLine
  <1>3. pc # "split"
    BY <1>2 DEF Parsing
  <1>4. Traced' /\ Reread(headers')
    BY <1>1, <1>2, <1>3, LineTraced DEF HInv
  <1>5. first' = first /\ edits' = edits /\ Wire' = Wire
    BY <1>2 DEF LineParsed, Wire
  <1> QED BY <1>1, <1>4, <1>5 DEF HInv

LEMMA FinishRelays ==
    ASSUME HInv, UNCHANGED <<first, edits, count>>, Finish
    PROVE  HInv'
  <1>1. PInv' /\ pc # "split"
    BY ParseCovers DEF HInv, Finish
  <1>2. UNCHANGED <<raw, lines, headers, skipping, first, edits>>
    BY DEF Finish, parser
  <1>3. Traced' /\ Reread(headers')
    BY <1>1, <1>2 DEF HInv, Traced
  <1> QED BY <1>1, <1>2, <1>3 DEF HInv, Wire

(* An edit keeps the invariant if the fields of the new text are the old.  *)
LEMMA EditRelays ==
    ASSUME HInv, PInv', pc = "done", NEW text, NEW kind, Edit(text, kind),
           Relays(Fields(Wire), Fields(Normalize(text)), kind)
    PROVE  HInv'
  <1> DEFINE hs == Fields(Wire)
             gs == Fields(Normalize(text))
  <1>1. CInv /\ Traced
    BY DEF HInv, PInv
  <1>2. headers = hs /\ hs \in Seq(Field)
    BY <1>1, HeadersRead, Places, FieldsAre
  <1>3. /\ pc' = "split" /\ raw' = text /\ edits' = edits \cup kind
        /\ first' = IF first = Absent THEN [headers |-> headers, body |-> body] ELSE first
    BY DEF Edit
  <1>4. Fields(Wire') = gs
    BY <1>3 DEF Wire
  <1>5. Relays(hs, gs, kind)
    OBVIOUS
  <1> HIDE DEF hs, gs
  <1>6. /\ first'.headers \in Seq(Field)
        /\ Relays(first'.headers, gs, edits')
    <2>1. CASE first = Absent
      <3>1. first'.headers = hs
        BY <1>2, <1>3, <2>1
      <3>2. Relays(hs, hs, edits)
        BY <1>2, RelaysFacts
      <3>3. Relays(hs, gs, edits \cup kind)
        BY <1>5, <3>2, RelaysFacts
      <3> QED BY <1>2, <1>3, <3>1, <3>3
    <2>2. CASE first # Absent
      <3>1. first'.headers = first.headers
        BY <1>3, <2>2
      <3>2. first.headers \in Seq(Field) /\ Relays(first.headers, hs, edits)
        BY <2>2 DEF HInv, hs
      <3>3. Relays(first.headers, gs, edits \cup kind)
        BY <1>5, <3>2, RelaysFacts
      <3> QED BY <1>3, <3>1, <3>2, <3>3
    <2> QED BY <2>1, <2>2
  <1> QED BY <1>3, <1>4, <1>6 DEF HInv

LEMMA CleanRelays ==
    ASSUME HInv, PInv', pc = "done", NEW text \in Seq(Clean), NEW kind, Edit(text, kind),
           Relays(Fields(Wire), Fields(text), kind)
    PROVE  HInv'
  <1>1. Normalize(text) = text
    BY CleanStays
  <1> QED BY <1>1, EditRelays

LEMMA SpaceRelays ==
    ASSUME HInv, PInv', pc = "done", NEW text \in Seq(Clean), Edit(text, {"space"}),
           Forms(Fields(Wire), Fields(text))
    PROVE  HInv'
  <1>1. Relays(Fields(Wire), Fields(text), {"space"})
    BY DEF Relays
  <1> QED BY <1>1, CleanRelays

LEMMA SameRelays ==
    ASSUME HInv, PInv', pc = "done", NEW text \in Seq(Clean), NEW kind, Edit(text, kind),
           Fields(text) = Fields(Wire)
    PROVE  HInv'
  <1>1. Wire \in Text
    BY Places DEF HInv, PInv
  <1>2. Relays(Fields(Wire), Fields(text), kind)
    BY <1>1, FieldsAre, RelaysFacts
  <1> QED BY <1>2, CleanRelays

LEMMA StoreRelays == HInv /\ PInv' /\ pc = "done" /\ Store => HInv'
  <1> SUFFICES ASSUME HInv, PInv', pc = "done", Store PROVE HInv'
    OBVIOUS
  <1>1. Wire \in Seq(Clean) /\ Wire \in Text
    BY Places DEF HInv, PInv
  <1>2. PICK text \in Encodings(Wire) : Edit(text, {})
    BY DEF Store
  <1>3. Normalize(text) = Wire
    BY <1>1, StoredIs
  <1>4. Relays(Fields(Wire), Fields(Normalize(text)), {})
    BY <1>1, <1>3, FieldsAre, RelaysFacts
  <1> QED BY <1>2, <1>4, EditRelays

(* The fields written back, and the empty line and the body behind them.   *)
LEMMA RewrittenHead ==
    ASSUME NEW ps \in Seq(Solid), ps # <<>>, NEW b \in Seq(Clean)
    PROVE  /\ Join(ps \o << <<>>, b >>, CRLF) \in Seq(Clean)
           /\ HeadText(Join(ps \o << <<>>, b >>, CRLF)) = Append(Append(Join(ps, CRLF), CRLF), CRLF)
  <1> DEFINE J == Join(ps, CRLF)
             none == <<>>
             u == Append(Append(J, CRLF), CRLF)
             one == <<CRLF>>
             qs == Append(ps, none)
             x == Join(ps \o << none, b >>, CRLF)
  <1>0. x \in Seq(Clean)
    BY Rewritten
  <1>1. J \in Solid /\ J \in Text
    BY SolidsJoined, SolidFacts
  <1>2. ps \in Parts /\ none \in Text /\ b \in Text
    <2>1. Solid \subseteq Text
      BY SolidFacts
    <2>2. b \in Text
      BY CleanText
    <2> QED BY <2>1, <2>2 DEF Parts, Text
  <1>3. ps \o << <<>>, b >> = Append(qs, b)
    BY <1>2 DEF Parts
  <1>4. qs \in Parts /\ Join(qs, CRLF) = J \o (one \o none)
    <2>1. qs \in Parts
      BY <1>2 DEF Parts
    <2>2. Join(Append(ps, none), CRLF) = Join(ps, CRLF) \o (<<CRLF>> \o none)
      <3> HIDE DEF none
      <3> QED BY ONLY <1>2, JoinMore
    <2> QED BY <2>1, <2>2
  <1>5. Join(Append(qs, b), CRLF) = Join(qs, CRLF) \o (one \o b)
    <2> HIDE DEF qs
    <2> QED BY <1>2, <1>4, JoinMore
  <1>6. one \o none = one /\ one \in Text
    BY CleanText DEF Text
  <1>7. u = (J \o one) \o one
    <2>1. J \in Seq(Alphabet) /\ CRLF \in Alphabet
      BY <1>1, Letters DEF Text
    <2>2. Append(J, CRLF) \in Seq(Alphabet) /\ Append(J, CRLF) = J \o one
      BY <2>1, AppendIs
    <2> DEFINE m == Append(J, CRLF)
    <2> HIDE DEF m
    <2>3. Append(m, CRLF) = m \o one
      BY <2>1, <2>2, AppendIs DEF m
    <2> QED BY <2>2, <2>3 DEF m
  <1>8. u \in Text /\ u \in Seq(Clean) /\ FirstBlank(u, Len(u))
    BY <1>1, SolidEnds
  <1>9. x = Join(Append(qs, b), CRLF)
    BY <1>3
  <1> HIDE DEF J, none, one, qs, u, x
  <1>10. x = u \o b
    <2>1. x = (J \o one) \o (one \o b)
      BY <1>4, <1>5, <1>6, <1>9
    <2>2. J \o one \in Text
      BY ONLY <1>1, <1>6, ChainType
    <2>3. ((J \o one) \o one) \o b = (J \o one) \o (one \o b)
      BY ONLY <1>2, <1>6, <2>2, ChainRegroup
    <2> QED BY <1>7, <2>1, <2>3
  <1>11. HeadText(x) = u
    BY <1>2, <1>8, <1>10, HeadOf
  <1> QED BY <1>0, <1>11 DEF x, u, J, none

LEMMA FreshIs == Fresh.hs = <<>> /\ Fresh.last = <<>>
  <1> DEFINE no   == FALSE
             none == <<>>
  <1>1. Fresh = State(none, no, none)
    BY DEF Fresh
  <1> HIDE DEF no, none
  <1>2. Fresh.hs = none /\ Fresh.last = none
    BY <1>1, StateIs
  <1> QED BY <1>2 DEF none

LEMMA RewriteRelays == HInv /\ PInv' /\ pc = "done" /\ Rewrite => HInv'
  <1> SUFFICES ASSUME HInv, PInv', pc = "done", Rewrite PROVE HInv'
    OBVIOUS
  <1>1. /\ body = Cut(Wire) /\ SolidFields /\ headers \in Seq(Field) /\ body \in Seq(Clean)
        /\ CInv /\ Traced /\ Reread(headers)
    BY Places DEF HInv, PInv, CInv, Parsed
  <1>2. headers = Fields(Wire)
    BY <1>1, HeadersRead
  <1>3. CASE headers = <<>>
    <2> DEFINE one == <<CRLF>>
               text == one \o body
               none == <<>>
    <2>1. Edit(text, {})
      BY <1>3 DEF Rewrite
    <2>2. text \in Seq(Clean) /\ body \in Text /\ one \in Text
      BY <1>1, BodyAlone, CleanText, Letters, OneType
    <2>3. FirstBlank(one, Len(one))
      BY DEF FirstBlank, Blank
    <2>4. HeadText(text) = one
      <3> HIDE DEF one
      <3> QED BY <2>2, <2>3, HeadOf
    <2>5. Read(one) = Fresh
      <3>1. none \in Text /\ Read(none) = Fresh
        BY ReadMore DEF Text
      <3>2. Read(none).last = <<>>
        BY <3>1, FreshIs
      <3>3. Read(Append(none, CRLF)) = Read(none)
        <4> HIDE DEF none
        <4> QED BY <3>1, <3>2, ReadEmpty
      <3>4. Append(none, CRLF) = one
        OBVIOUS
      <3> QED BY <3>1, <3>3, <3>4
    <2>6. Fields(text) = <<>>
      BY <2>4, <2>5, FreshIs DEF Fields
    <2> HIDE DEF text
    <2> QED BY <1>2, <1>3, <2>1, <2>2, <2>6, SameRelays
  <1>4. CASE headers # <<>>
    <2> DEFINE raws == Raws(headers)
               text == Join(raws \o << <<>>, body >>, CRLF)
               x == Written(headers)
               none == <<>>
    <2>1. Edit(text, {})
      BY <1>4 DEF Rewrite, Raws
    <2>2. raws \in Seq(Solid) /\ raws # <<>>
      <3>1. DOMAIN headers = 1 .. Len(headers) /\ Len(headers) \in Nat \ {0}
        BY <1>1, <1>4
      <3>2. raws \in Seq(Solid) /\ Len(raws) = Len(headers)
        BY <1>1, <3>1 DEF SolidFields, Raws
      <3> HIDE DEF raws
      <3> QED BY <3>1, <3>2
    <2>3. x \in Text /\ x = Append(Join(raws, CRLF), CRLF) /\ Read(x) = State(headers, FALSE, none)
      BY <1>1, <1>4, RawsType DEF Reread, Written
    <2> HIDE DEF raws, x
    <2>4. text \in Seq(Clean) /\ HeadText(text) = Append(Append(Join(raws, CRLF), CRLF), CRLF)
      BY <1>1, <2>2, RewrittenHead
    <2>5. HeadText(text) = Append(x, CRLF)
      BY <2>3, <2>4
    <2>6. Read(x).hs = headers /\ Read(x).last = none
      <3> DEFINE no == FALSE
      <3>1. Read(x) = State(headers, no, none)
        BY <2>3
      <3> HIDE DEF no, none
      <3> QED BY <3>1, StateIs
    <2>7. Read(Append(x, CRLF)) = Read(x)
      BY <2>3, <2>6, ReadEmpty
    <2> HIDE DEF text
    <2>8. Fields(text) = headers
      BY <2>5, <2>6, <2>7 DEF Fields
    <2> QED BY <1>2, <2>1, <2>4, <2>8, SameRelays
  <1> QED BY <1>3, <1>4

(* A character put behind the header block.                                *)
LEMMA BodyInserted ==
    ASSUME NEW w \in Text, NEW e, FirstBlank(w, e), NEW p \in (e + 1) .. (Len(w) + 1),
           NEW c \in Alphabet
    PROVE  Fields(InsertAt(w, p, c)) = Fields(w)
  <1> DEFINE v == InsertAt(w, p, c)
  <1>1. e \in 1 .. Len(w) /\ Len(w) \in Nat
    BY DEF FirstBlank, Text
  <1>2. p \in 1 .. (Len(w) + 1)
    BY <1>1
  <1>3. /\ v \in Text /\ Len(v) = Len(w) + 1 /\ \A j \in 1 .. (p - 1) : v[j] = w[j]
    BY <1>2, InsertFacts
  <1>4. FirstBlank(v, e)
    BY InsertInBody
  <1> HIDE DEF v
  <1>5. HeadText(w) = SubSeq(w, 1, e) /\ HeadText(v) = SubSeq(v, 1, e)
    BY <1>3, <1>4, HeadIs
  <1> DEFINE x == SubSeq(w, 1, e)
             y == SubSeq(v, 1, e)
  <1>6. /\ w \in Seq(Alphabet) /\ v \in Seq(Alphabet) /\ 1 \in Nat \ {0}
        /\ e \in 0 .. Len(w) /\ e \in 0 .. Len(v)
    BY <1>1, <1>3 DEF Text
  <1>7. /\ x \in Seq(Alphabet) /\ Len(x) = (IF 1 <= e THEN e - 1 + 1 ELSE 0)
        /\ \A j \in 1 .. (e - 1 + 1) : x[j] = w[1 + j - 1]
    BY <1>6, StretchType
  <1>8. /\ y \in Seq(Alphabet) /\ Len(y) = (IF 1 <= e THEN e - 1 + 1 ELSE 0)
        /\ \A j \in 1 .. (e - 1 + 1) : y[j] = v[1 + j - 1]
    BY <1>6, StretchType
  <1> HIDE DEF x, y
  <1>9. ASSUME NEW j \in 1 .. Len(x) PROVE x[j] = y[j]
    <2>1. j \in 1 .. (e - 1 + 1) /\ 1 + j - 1 \in 1 .. (p - 1)
      BY <1>1, <1>7
    <2> QED BY <1>3, <1>7, <1>8, <2>1
  <1>10. x = y
    BY <1>7, <1>8, <1>9, SameSequence
  <1> QED BY <1>5, <1>10 DEF Fields, x, y, v

LEMMA WidenRelays == HInv /\ PInv' /\ pc = "done" /\ Widen => HInv'
  <1> SUFFICES ASSUME HInv, PInv', pc = "done", Widen PROVE HInv'
    OBVIOUS
  <1>1. PICK p \in 1 .. (Len(Wire) + 1), space \in WSP :
          /\ \/ LineBefore(p) # <<>> /\ Last(LineBefore(p)) \in WSP
             \/ LineEnd(p) /\ (p >= BodyStart \/ LineBefore(p) # <<>>)
          /\ Edit(InsertAt(Wire, p, space), {"space"})
    BY DEF Widen
  <1>2. CInv /\ space \in Clean /\ space # CRLF /\ space \in Alphabet
    BY Letters DEF HInv, PInv, Clean, WSP, CRLF
  <1>3. /\ Wire \in Seq(Clean) /\ Wire \in Text /\ Len(Wire) \in Nat
        /\ \A e : FirstBlank(Wire, e) => e \in 1 .. Len(Wire) /\ BodyStart = e + 1
        /\ NoBlank(Wire) => BodyStart = Len(Wire) + 2
        /\ NoBlank(Wire) \/ \E e : FirstBlank(Wire, e)
    BY <1>2, Places
  <1>4. BodyStart \in Nat
    BY <1>3
  <1>5. InsertAt(Wire, p, space) \in Seq(Clean)
    BY <1>2, <1>3, CleanInsert
  <1>6. CASE p < BodyStart
    <2>1. LineBefore(p) # <<>> /\ (Last(LineBefore(p)) \in WSP \/ LineEnd(p))
      BY <1>1, <1>3, <1>4, <1>6
    <2>2. Forms(Fields(Wire), Fields(InsertAt(Wire, p, space)))
      BY <1>2, <1>6, <2>1, WidenHead
    <2> QED BY <1>1, <1>5, <2>2, SpaceRelays
  <1>7. CASE p >= BodyStart
    <2>1. PICK e : FirstBlank(Wire, e)
      BY <1>3, <1>7
    <2>2. p \in (e + 1) .. (Len(Wire) + 1)
      BY <1>3, <1>7, <2>1
    <2>3. Fields(InsertAt(Wire, p, space)) = Fields(Wire)
      BY <1>2, <1>3, <2>1, <2>2, BodyInserted
    <2> QED BY <1>1, <1>5, <2>3, SameRelays
  <1> QED BY <1>3, <1>4, <1>6, <1>7

(* A position of the header block that stands in the text.                 *)
LEMMA InHead ==
    ASSUME CInv, NEW p \in 1 .. HeaderEnd
    PROVE  p \in 1 .. Len(Wire) /\ p \in 1 .. (Len(Wire) + 1) /\ p < BodyStart
  <1>1. /\ Len(Wire) \in Nat /\ HeaderEnd \in Nat /\ HeaderEnd <= Len(Wire)
        /\ \A e : FirstBlank(Wire, e) => e \in 1 .. Len(Wire) /\ BodyStart = e + 1 /\ HeaderEnd <= e
        /\ NoBlank(Wire) => BodyStart = Len(Wire) + 2
        /\ NoBlank(Wire) \/ \E e : FirstBlank(Wire, e)
    BY Places
  <1>2. p \in 1 .. (Len(Wire) + 1) /\ p \in 1 .. Len(Wire)
    BY <1>1
  <1>3. p < BodyStart
    <2>1. CASE NoBlank(Wire)
      BY <1>1, <1>2, <2>1
    <2>2. ASSUME NEW e, FirstBlank(Wire, e) PROVE p < BodyStart
      <3>1. e \in 1 .. Len(Wire) /\ BodyStart = e + 1 /\ HeaderEnd <= e
        BY <1>1, <2>2
      <3> QED BY <1>1, <3>1
    <2> QED BY <1>1, <2>1, <2>2
  <1> QED BY <1>2, <1>3

LEMMA RefoldRelays == HInv /\ PInv' /\ pc = "done" /\ Refold => HInv'
  <1> SUFFICES ASSUME HInv, PInv', pc = "done", Refold PROVE HInv'
    OBVIOUS
  <1>1. PICK p \in 2 .. HeaderEnd :
          /\ Wire[p] \in WSP /\ LineBefore(p) # <<>>
          /\ Continues(LineBefore(p)) \/ Contains(LineBefore(p), ":")
          /\ Edit(InsertAt(Wire, p, CRLF), {"space"})
    BY DEF Refold, HeaderEnd
  <1>2. CInv /\ CRLF \in Clean /\ Wire \in Seq(Clean)
    BY CleanText, Places DEF HInv, PInv
  <1>3. p \in 1 .. HeaderEnd
    BY <1>2, HeaderEndIs
  <1>4. p \in 1 .. Len(Wire) /\ p \in 1 .. (Len(Wire) + 1) /\ p < BodyStart
    BY <1>2, <1>3, InHead
  <1>5. Forms(Fields(Wire), Fields(InsertAt(Wire, p, CRLF)))
    BY <1>1, <1>2, <1>4, RefoldHead
  <1>6. InsertAt(Wire, p, CRLF) \in Seq(Clean)
    BY <1>2, <1>4, CleanInsert
  <1> QED BY <1>1, <1>5, <1>6, SpaceRelays

LEMMA RecaseRelays == HInv /\ PInv' /\ pc = "done" /\ Recase => HInv'
  <1> SUFFICES ASSUME HInv, PInv', pc = "done", Recase PROVE HInv'
    OBVIOUS
  <1>1. PICK p \in 1 .. HeaderEnd :
          /\ Wire[p] \in DOMAIN LowerOf /\ ToSet(LineBefore(p)) \subseteq NameChars
          /\ Edit([Wire EXCEPT ![p] = LowerOf[@]], {"space"})
    BY DEF Recase, HeaderEnd
  <1> DEFINE c == LowerOf[Wire[p]]
             v == RecaseAt(Wire, p, c)
  <1>2. CInv /\ Wire \in Seq(Clean)
    BY Places DEF HInv, PInv
  <1>3. p \in 1 .. Len(Wire) /\ p < BodyStart
    BY <1>2, InHead
  <1>4. Edit(v, {"space"})
    BY <1>1 DEF RecaseAt
  <1>5. Forms(Fields(Wire), Fields(v))
    BY <1>1, <1>2, <1>3, RecaseHead
  <1>6. c \in Clean
    <2>1. c \in NameChars
      BY <1>1, CaseAssumption
    <2>2. c \in Alphabet
      BY <1>1, Letters
    <2>3. \A ch \in NameChars : ch # "CR" /\ ch # "LF"
      BY NamesArePrintable
    <2> QED BY <2>1, <2>2, <2>3 DEF Clean
  <1>7. v \in Seq(Clean)
    <2> HIDE DEF c
    <2> QED BY <1>2, <1>3, <1>6 DEF RecaseAt
  <1> HIDE DEF v
  <1> QED BY <1>4, <1>5, <1>7, SpaceRelays

(* Text behind the message.                                                *)
LEMMA AddedRelays ==
    ASSUME HInv, PInv', pc = "done", BodyStart <= Len(Wire) + 1, NEW t \in Seq(Clean), NEW kind,
           Edit(Wire \o t, kind)
    PROVE  HInv'
  <1>1. /\ Wire \in Seq(Clean) /\ Wire \in Text /\ Len(Wire) \in Nat
        /\ NoBlank(Wire) => BodyStart = Len(Wire) + 2
        /\ NoBlank(Wire) \/ \E e : FirstBlank(Wire, e)
    BY Places DEF HInv, PInv
  <1>2. PICK e : FirstBlank(Wire, e)
    BY <1>1
  <1> DEFINE u == SubSeq(Wire, 1, e)
             r == Cut(Wire)
             w == Wire
  <1>3. /\ u \in Text /\ FirstBlank(u, Len(u)) /\ r \in Text /\ w = u \o r
    BY <1>1, <1>2, CutOff
  <1>4. t \in Text /\ w \o t \in Seq(Clean)
    BY <1>1, CleanText
  <1> HIDE DEF u, r, w
  <1>5. w \o t = u \o (r \o t) /\ r \o t \in Text
    BY <1>3, <1>4, ChainRegroup, ChainType
  <1>6. HeadText(w) = u /\ HeadText(w \o t) = u
    BY <1>3, <1>5, HeadOf
  <1>7. Fields(w \o t) = Fields(w)
    BY <1>6 DEF Fields
  <1> QED BY <1>4, <1>7, SameRelays DEF w

LEMMA BlankRelays == HInv /\ PInv' /\ pc = "done" /\ AppendBlank => HInv'
  <1> SUFFICES ASSUME HInv, PInv', pc = "done", AppendBlank PROVE HInv'
    OBVIOUS
  <1> DEFINE t == <<CRLF>>
  <1>1. Wire \in Seq(Alphabet) /\ CRLF \in Clean /\ CRLF \in Alphabet
    BY Places, CleanText, Letters DEF HInv, PInv, Text
  <1>2. Append(Wire, CRLF) = Wire \o t /\ t \in Seq(Clean)
    BY <1>1, AppendIs
  <1>3. BodyStart <= Len(Wire) + 1 /\ Edit(Wire \o t, {"blank"})
    BY <1>2 DEF AppendBlank
  <1> HIDE DEF t
  <1> QED BY <1>2, <1>3, AddedRelays

LEMMA TextRelays == HInv /\ PInv' /\ pc = "done" /\ AppendText => HInv'
  <1> SUFFICES ASSUME HInv, PInv', pc = "done", AppendText PROVE HInv'
    OBVIOUS
  <1> DEFINE t == More(body)
  <1>1. BodyStart <= Len(Wire) + 1 /\ Edit(Wire \o t, {"text"})
    BY DEF AppendText, More
  <1>2. t \in Seq(Clean)
    <2>1. "v" \in Clean /\ CRLF \in Clean
      BY Letters, CleanText DEF Clean
    <2>2. << CRLF, "v" >> \in Seq(Clean) /\ << "v" >> \in Seq(Clean)
      BY <2>1
    <2> QED BY <2>2 DEF More
  <1> HIDE DEF t
  <1> QED BY <1>1, <1>2, AddedRelays

LEMMA HInvStep == HInv /\ [CanonNext]_canonVars => HInv'
  <1> SUFFICES ASSUME HInv, [CanonNext]_canonVars PROVE HInv'
    OBVIOUS
  <1>1. PInv'
    BY PInvStep DEF HInv
  <1>2. CASE Next /\ UNCHANGED <<first, edits, count>>
    BY <1>2, SplitRelays, LineRelays, FinishRelays DEF Next
  <1>3. CASE Edits
    BY <1>1, <1>3, StoreRelays, RewriteRelays, WidenRelays, RefoldRelays, RecaseRelays,
       BlankRelays, TextRelays DEF Edits
  <1>4. CASE UNCHANGED canonVars
    BY <1>1, <1>4 DEF canonVars, vars, parser, HInv, Wire, Traced
  <1> QED BY <1>2, <1>3, <1>4 DEF CanonNext

(* In any message and through any number of edits, the fields the verifier *)
(* finds have the relaxed forms the signer hashed, and are the signer's    *)
(* byte for byte where neither whitespace nor a fold nor a capital was     *)
(* touched, whatever line ends they were stored with, however often they   *)
(* were written out again, and whatever came in behind them                *)
(* (canon.go:14-20, 71-104).                                               *)
THEOREM HeadersStay == CanonSpec => []HeadersUnchanged
  <1>1. HInv => HeadersUnchanged
    <2> SUFFICES ASSUME HInv, pc = "done", first # Absent
        PROVE  /\ RelaxedFields(headers) = RelaxedFields(first.headers)
               /\ "space" \notin edits => headers = first.headers
      BY DEF HeadersUnchanged
    <2>1. CInv /\ Traced /\ first.headers \in Seq(Field)
          /\ Relays(first.headers, Fields(Wire), edits)
      BY DEF HInv, PInv
    <2>2. headers = Fields(Wire) /\ Fields(Wire) \in Seq(Field)
      BY <2>1, HeadersRead, Places, FieldsAre
    <2>3. RelaxedFields(first.headers) = RelaxedFields(headers)
      BY <2>1, <2>2, FormsAre DEF Relays
    <2> QED BY <2>1, <2>2, <2>3 DEF Relays
  <1> QED BY <1>1, HInvInit, HInvStep, PTL DEF CanonSpec
==============================================================================

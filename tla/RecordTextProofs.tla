--------------------------- MODULE RecordTextProofs ---------------------------
(***************************************************************************)
(* For every list, every record and every length of a TXT string: the      *)
(* strings of a published record carry it, the strict parser takes the     *)
(* lists of the grammar, and the readers of a list it takes agree with it. *)
(*                                                                         *)
(* Fragmented follows the loop of RecordFragment.  Read says what the      *)
(* parser knows behind the segments it has walked: the tags are those of   *)
(* the segments with "=", one of each name.  Blanked follows RemoveBValue  *)
(* over the same segments.                                                 *)
(***************************************************************************)
EXTENDS RecordText, SequenceFacts, TLAPS

IsText(s) == s \in Seq(ToSet(s))

LEMMA TextOf ==
    ASSUME NEW S, NEW t \in Seq(S)
    PROVE  IsText(t)
  <1>1. Len(t) \in Nat /\ t \in [1 .. Len(t) -> S] /\ DOMAIN t = 1 .. Len(t)
    OBVIOUS
  <1>2. \A j \in 1 .. Len(t) : t[j] \in ToSet(t)
    BY <1>1 DEF ToSet
  <1>3. t \in [1 .. Len(t) -> ToSet(t)]
    BY <1>1, <1>2
  <1> QED BY <1>1, <1>3 DEF IsText

LEMMA SmallerOf ==
    ASSUME NEW a \in Nat, NEW b \in Nat
    PROVE  Min({a, b}) = IF a <= b THEN a ELSE b
  <1>1. {a, b} \in SUBSET Nat /\ {a, b} # {}
    OBVIOUS
  <1>2. Min({a, b}) \in {a, b} /\ \A m \in {a, b} : Min({a, b}) <= m
    BY <1>1, SmallestElement
  <1> QED BY <1>2
-------------------------------------------------------------------------------
(* The strings of a record. *)

Written(n, size) == IF n <= size THEN n ELSE size

Fragmented ==
    /\ IsText(value)
    /\ pc = "fragment" =>
          /\ chunks \in Seq(Seq(ToSet(value)))
          /\ at = Len(chunks) * MaxLen /\ at < Len(value) + MaxLen
          /\ FlattenSeq(chunks) = SubSeq(value, 1, Written(at, Len(value)))
    /\ ChunksCarryTheRecord

LEMMA InitFragmented == RecordInit => Fragmented
  <1> SUFFICES ASSUME RecordInit PROVE Fragmented
    OBVIOUS
  <1>1. IsText(value)
    BY RecordsAreSequences, TextsAreSequences DEF RecordInit, IsText
  <1>2. chunks = <<>> /\ at = 0 /\ (pc = "fragment" \/ (pc = "strict" /\ text = value))
    BY DEF RecordInit
  <1>3. Len(value) \in Nat /\ Written(0, Len(value)) = 0
    BY <1>1 DEF IsText, Written
  <1>4. FlattenSeq(chunks) = SubSeq(value, 1, 0)
    <2>1. SubSeq(value, 1, 0) = <<>>
      BY SubSeqEmpty
    <2> QED BY <1>2, <2>1, FlattenEmpty
  <1>5. chunks \in Seq(Seq(ToSet(value))) /\ Len(chunks) = 0 /\ at < Len(value) + MaxLen
    BY <1>2, <1>3, MaxLenAssumption
  <1>6. at = Len(chunks) * MaxLen
    BY <1>2, <1>5, MaxLenAssumption
  <1>7. ChunksCarryTheRecord
    BY <1>2 DEF ChunksCarryTheRecord
  <1> QED BY <1>1, <1>2, <1>3, <1>4, <1>5, <1>6, <1>7 DEF Fragmented

LEMMA WriteChunkFragmented == Fragmented /\ WriteChunk => Fragmented'
  <1> SUFFICES ASSUME Fragmented, WriteChunk PROVE Fragmented'
    OBVIOUS
  <1> DEFINE V     == ToSet(value)
             n     == Len(chunks)
             upto  == Min({at + MaxLen, Len(value)})
             chunk == SubSeq(value, at + 1, upto)
  <1>1. /\ pc = "fragment" /\ at < Len(value) /\ at' = at + MaxLen
        /\ chunks' = Append(chunks, chunk)
        /\ UNCHANGED <<text, pc, i, tags, out, value>>
    BY DEF WriteChunk, vars
  <1>2. /\ value \in Seq(V) /\ Len(value) \in Nat
        /\ chunks \in Seq(Seq(V)) /\ n \in Nat
        /\ at = n * MaxLen /\ MaxLen \in Nat \ {0}
        /\ FlattenSeq(chunks) = SubSeq(value, 1, at)
    BY <1>1, MaxLenAssumption DEF Fragmented, IsText, Written
  <1>3. at \in Nat /\ Len(value) \in Nat /\ MaxLen \in Nat \ {0} /\ at < Len(value)
    BY <1>1, <1>2
  <1>4. /\ upto = Written(at + MaxLen, Len(value))
        /\ upto \in (at + 1) .. Len(value) /\ upto <= at + MaxLen
    <2>1. upto = Written(at + MaxLen, Len(value))
      BY <1>3, SmallerOf DEF Written
    <2> HIDE DEF upto
    <2> QED BY <1>3, <2>1 DEF Written
  <1> HIDE DEF upto
  <1>5. chunk \in Seq(V) /\ Len(chunk) = upto - at
    <2>1. at + 1 \in Nat \ {0} /\ upto \in 0 .. Len(value)
      BY <1>2, <1>3, <1>4
    <2> HIDE DEF chunk, V
    <2>2. chunk \in Seq(V) /\ Len(chunk) = IF at + 1 <= upto THEN upto - (at + 1) + 1 ELSE 0
      BY <1>2, <2>1, StretchType DEF chunk
    <2> QED BY <1>3, <1>4, <2>1, <2>2
  <1>6. Len(chunk) <= MaxLen /\ chunk # <<>>
    <2>1. upto - at \in 1 .. MaxLen
      BY <1>3, <1>4
    <2> HIDE DEF chunk
    <2> QED BY <1>3, <1>5, <2>1
  <1>7. FlattenSeq(chunks) \o chunk = SubSeq(value, 1, upto)
    <2>1. 1 \in Nat \ {0} /\ at \in 0 .. Len(value) /\ upto \in 0 .. Len(value)
          /\ 1 <= at + 1 /\ at <= upto
      BY <1>1, <1>2, <1>3, <1>4
    <2> HIDE DEF V
    <2>2. SubSeq(value, 1, at) \o SubSeq(value, at + 1, upto) = SubSeq(value, 1, upto)
      BY <1>2, <2>1, StretchJoin
    <2> QED BY <1>2, <2>2
  <1> HIDE DEF chunk, V
  <1>8. /\ chunks' \in Seq(Seq(V)) /\ Len(chunks') = n + 1
        /\ FlattenSeq(chunks') = SubSeq(value, 1, upto)
    <2>1. FlattenSeq(Append(chunks, chunk)) = FlattenSeq(chunks) \o chunk
      BY <1>2, <1>5, FlattenAppend
    <2>2. /\ Append(chunks, chunk) \in Seq(Seq(V))
          /\ Len(Append(chunks, chunk)) = Len(chunks) + 1
      BY <1>2, <1>5
    <2> QED BY <1>1, <1>7, <2>1, <2>2
  <1>9. at' = Len(chunks') * MaxLen
    BY <1>1, <1>2, <1>8
  <1>10. at' < Len(value) + MaxLen
    BY <1>1, <1>2, <1>3
  <1>11. \A k \in DOMAIN chunks' : Len(chunks'[k]) <= MaxLen /\ (chunks'[k] = <<>> => value = <<>>)
    <2> TAKE k \in DOMAIN chunks'
    <2>1. CASE k \in DOMAIN chunks
      <3>1. chunks'[k] = chunks[k]
        BY <1>1, <1>2, <1>5, <2>1
      <3> QED BY <2>1, <3>1 DEF Fragmented, ChunksCarryTheRecord
    <2>2. CASE k \notin DOMAIN chunks
      <3>1. chunks'[k] = chunk
        BY <1>1, <1>2, <1>5, <2>2
      <3> QED BY <1>6, <3>1
    <2> QED BY <2>1, <2>2
  <1>12. Written(at', Len(value)') = upto
    BY <1>1, <1>4
  <1>13. ChunksCarryTheRecord'
    BY <1>1, <1>11 DEF ChunksCarryTheRecord
  <1>14. ToSet(value)' = V /\ value' \in Seq(V) /\ Len(value)' = Len(value)
    BY <1>1, <1>2 DEF V
  <1> QED BY <1>1, <1>8, <1>9, <1>10, <1>12, <1>13, <1>14 DEF Fragmented, IsText

LEMMA WriteFragmentFragmented == Fragmented /\ WriteFragment => Fragmented'
  <1> SUFFICES ASSUME Fragmented, WriteFragment PROVE Fragmented'
    OBVIOUS
  <1> DEFINE V == ToSet(value)
             n == Len(chunks)
  <1>1. /\ pc = "fragment" /\ at >= Len(value) /\ pc' = "published"
        /\ chunks' = (IF chunks = <<>> THEN << <<>> >> ELSE chunks)
        /\ UNCHANGED <<text, value>>
    BY DEF WriteFragment
  <1>2. /\ value \in Seq(V) /\ Len(value) \in Nat
        /\ chunks \in Seq(Seq(V)) /\ n \in Nat
        /\ at = n * MaxLen /\ MaxLen \in Nat \ {0} /\ at < Len(value) + MaxLen
        /\ FlattenSeq(chunks) = SubSeq(value, 1, Written(at, Len(value)))
    BY <1>1, MaxLenAssumption DEF Fragmented, IsText
  <1>3. at \in Nat
    BY <1>2
  <1>4. Written(at, Len(value)) = Len(value)
    BY <1>1, <1>2, <1>3 DEF Written
  <1>5. FlattenSeq(chunks) = value
    BY <1>2, <1>4, WholeStretch
  <1>6. CASE chunks = <<>>
    <2>1. n = 0 /\ Len(value) = 0 /\ value = <<>>
      <3>1. n = 0
        BY <1>6
      <3>2. at = 0
        BY <1>2, <3>1
      <3> QED BY <1>1, <1>2, <3>1, <3>2
    <2>2. chunks' = << <<>> >> /\ Len(chunks') = 1
      BY <1>1, <1>6
    <2>3. FlattenSeq(chunks') = <<>>
      <3>1. FlattenSeq(<<>>) = <<>> /\ <<>> \in Seq(Seq(V)) /\ <<>> \in Seq(V)
        BY FlattenEmpty
      <3>2. FlattenSeq(Append(<<>>, <<>>)) = FlattenSeq(<<>>) \o <<>>
        BY <3>1, FlattenAppend
      <3>3. Append(<<>>, <<>>) = << <<>> >> /\ <<>> \o <<>> = <<>>
        OBVIOUS
      <3> QED BY <2>2, <3>1, <3>2, <3>3
    <2>4. Len(chunks') * MaxLen < Len(value) + MaxLen + 1
      BY <1>2, <2>1, <2>2
    <2>5. \A k \in DOMAIN chunks' : Len(chunks'[k]) <= MaxLen
      BY <1>2, <2>2
    <2> QED BY <1>1, <1>2, <2>1, <2>3, <2>4, <2>5 DEF Fragmented, ChunksCarryTheRecord, IsText
  <1>7. CASE chunks # <<>>
    <2>1. chunks' = chunks
      BY <1>1, <1>7
    <2>2. value # <<>>
      <3>1. n >= 1
        BY <1>2, <1>7
      <3>2. n * MaxLen >= MaxLen
        BY <1>2, <3>1
      <3>3. Len(value) # 0
        BY <1>2, <3>2
      <3> QED BY <3>3
    <2>3. n * MaxLen < Len(value) + MaxLen + (IF value = <<>> THEN 1 ELSE 0)
      BY <1>2, <2>2
    <2> QED BY <1>1, <1>2, <1>5, <2>1, <2>3 DEF Fragmented, ChunksCarryTheRecord, IsText
  <1> QED BY <1>6, <1>7

LEMMA FragmentedStep == Fragmented /\ [RecordNext]_recordVars => Fragmented'
  <1> SUFFICES ASSUME Fragmented, [RecordNext]_recordVars PROVE Fragmented'
    OBVIOUS
  <1>1. CASE WriteChunk
    BY <1>1, WriteChunkFragmented
  <1>2. CASE WriteFragment
    BY <1>2, WriteFragmentFragmented
  <1>3. CASE Resolve
    <2>1. pc' = "strict" /\ text' = value /\ UNCHANGED <<value, chunks, at>>
      BY <1>3 DEF Resolve, Fragmented, ChunksCarryTheRecord
    <2> QED BY <2>1 DEF Fragmented, ChunksCarryTheRecord, IsText
  <1>4. CASE Next /\ UNCHANGED <<value, chunks, at>>
    <2>1. /\ pc \notin {"fragment", "published"} /\ pc' \notin {"fragment", "published"}
          /\ UNCHANGED <<text, value, chunks, at>>
      BY <1>4 DEF Next, RefuseSpace, IgnoreSegment, RefuseSegment, TakeTag, Accept, Blank,
                  Finish, Parsing
    <2> QED BY <2>1 DEF Fragmented, ChunksCarryTheRecord, IsText
  <1>5. CASE UNCHANGED recordVars
    BY <1>5 DEF recordVars, vars, Fragmented, ChunksCarryTheRecord, IsText, Written
  <1> QED BY <1>1, <1>2, <1>3, <1>4, <1>5 DEF RecordNext

LEMMA FragmentedInvariance == RecordSpec => []Fragmented
  BY InitFragmented, FragmentedStep, PTL DEF RecordSpec

(* The strings of a published record fit a TXT record, are as few as that  *)
(* takes, and joined by the resolver they are the record                   *)
(* (dkim.go:79-93).                                                        *)
THEOREM ChunksCarry == RecordSpec => []ChunksCarryTheRecord
  <1>1. Fragmented => ChunksCarryTheRecord
    BY DEF Fragmented
  <1> QED BY <1>1, FragmentedInvariance, PTL
-------------------------------------------------------------------------------
(* Segments and what stands in them. *)

EndAt(s, p)    == IndexFrom(s, p, Semicolon)
EqualsAt(s, p) == p + IndexFrom(SegmentAt(s, p), 1, "=") - 1

TagAt(s, p)   == HasEquals(SegmentAt(s, p))
KeyAt(s, p)   == KeyOf(SegmentAt(s, p))
ValueAt(s, p) == ValueOf(SegmentAt(s, p))
BlankAt(s, p) == TrimFWS(SegmentAt(s, p)) = <<>>

(* The first character c from a position on, or the end.                   *)
LEMMA IndexFacts ==
    ASSUME NEW s, IsText(s), NEW from \in 1 .. (Len(s) + 1), NEW c
    PROVE  /\ IndexFrom(s, from, c) \in from .. (Len(s) + 1)
           /\ IndexFrom(s, from, c) <= Len(s) => s[IndexFrom(s, from, c)] = c
           /\ \A p \in from .. (IndexFrom(s, from, c) - 1) : s[p] # c
  <1> DEFINE B == { p \in from .. Len(s) : s[p] = c } \cup {Len(s) + 1}
  <1>1. Len(s) \in Nat /\ B \in SUBSET Nat /\ B # {} /\ B \subseteq from .. (Len(s) + 1)
    BY DEF IsText
  <1>2. IndexFrom(s, from, c) = Min(B)
    BY DEF IndexFrom
  <1>3. Min(B) \in B /\ \A m \in B : Min(B) <= m
    <2> HIDE DEF B
    <2> QED BY <1>1, SmallestElement
  <1>4. Min(B) <= Len(s) => s[Min(B)] = c
    BY <1>1, <1>3
  <1>5. \A p \in from .. (Min(B) - 1) : s[p] # c
    <2> TAKE p \in from .. (Min(B) - 1)
    <2>1. p \in from .. Len(s) /\ ~(Min(B) <= p)
      BY <1>1, <1>3
    <2>2. p \notin B
      BY <1>3, <2>1
    <2> QED BY <2>1, <2>2
  <1> QED BY <1>1, <1>2, <1>3, <1>4, <1>5

LEMMA IndexIs ==
    ASSUME NEW s, IsText(s), NEW from \in 1 .. (Len(s) + 1), NEW c,
           NEW p \in from .. Len(s), s[p] = c, \A r \in from .. (p - 1) : s[r] # c
    PROVE  IndexFrom(s, from, c) = p
  <1> DEFINE e == IndexFrom(s, from, c)
  <1>1. /\ e \in from .. (Len(s) + 1) /\ Len(s) \in Nat
        /\ e <= Len(s) => s[e] = c
        /\ \A r \in from .. (e - 1) : s[r] # c
    BY IndexFacts DEF IsText
  <1> HIDE DEF e
  <1>2. ~(e < p)
    BY <1>1
  <1>3. ~(p < e)
    BY <1>1
  <1> QED BY <1>1, <1>2, <1>3 DEF e

LEMMA StartRange ==
    ASSUME NEW s, IsText(s), NEW p \in Starts(s)
    PROVE  p \in 1 .. (Len(s) + 1) /\ Len(s) \in Nat /\ (p = 1 \/ s[p - 1] = Semicolon)
  <1>1. Len(s) \in Nat /\ DOMAIN s = 1 .. Len(s)
    BY DEF IsText
  <1>2. p = 1 \/ \E q \in 1 .. Len(s) : s[q] = Semicolon /\ p = q + 1
    BY <1>1 DEF Starts
  <1>3. ASSUME NEW q \in 1 .. Len(s), s[q] = Semicolon, p = q + 1
        PROVE  p \in 1 .. (Len(s) + 1) /\ s[p - 1] = Semicolon
    BY <1>1, <1>3
  <1> QED BY <1>1, <1>2, <1>3

(* The segment at a start, and its part in front of the first "=".         *)
LEMMA SegmentFacts ==
    ASSUME NEW s, IsText(s), NEW p \in Starts(s)
    PROVE  LET e == EndAt(s, p) seg == SegmentAt(s, p) IN
           /\ e \in p .. (Len(s) + 1)
           /\ e <= Len(s) => s[e] = Semicolon
           /\ \A r \in p .. (e - 1) : s[r] # Semicolon
           /\ seg = SubSeq(s, p, e - 1)
           /\ IsText(seg) /\ Len(seg) = e - p
           /\ \A j \in 1 .. (e - p) : seg[j] = s[p + j - 1]
           /\ TagAt(s, p) <=> \E r \in p .. (e - 1) : s[r] = "="
  <1> DEFINE e == EndAt(s, p)
             seg == SegmentAt(s, p)
             S == ToSet(s)
  <1>1. p \in 1 .. (Len(s) + 1) /\ Len(s) \in Nat /\ s \in Seq(S)
    BY StartRange DEF IsText
  <1>2. /\ e \in p .. (Len(s) + 1) /\ (e <= Len(s) => s[e] = Semicolon)
        /\ \A r \in p .. (e - 1) : s[r] # Semicolon
    BY <1>1, IndexFacts DEF EndAt
  <1>3. seg = SubSeq(s, p, e - 1)
    BY DEF SegmentAt, EndAt
  <1> HIDE DEF e, seg, S
  <1>4. /\ seg \in Seq(S) /\ Len(seg) = e - p
        /\ \A j \in 1 .. (e - p) : seg[j] = s[p + j - 1]
    <2>1. p \in Nat \ {0} /\ e - 1 \in 0 .. Len(s)
      BY <1>1, <1>2
    <2>2. /\ seg \in Seq(S) /\ Len(seg) = (IF p <= e - 1 THEN (e - 1) - p + 1 ELSE 0)
          /\ \A j \in 1 .. ((e - 1) - p + 1) : seg[j] = s[p + j - 1]
      BY <1>1, <1>3, <2>1, StretchType
    <2>3. (e - 1) - p + 1 = e - p /\ (IF p <= e - 1 THEN (e - 1) - p + 1 ELSE 0) = e - p
      BY <1>1, <1>2
    <2> QED BY <2>2, <2>3
  <1>5. IsText(seg)
    BY <1>4 DEF IsText, ToSet
  <1>6. TagAt(s, p) <=> \E r \in p .. (e - 1) : s[r] = "="
    <2>1. TagAt(s, p) <=> \E j \in 1 .. Len(seg) : seg[j] = "="
      BY DEF TagAt, HasEquals, Contains, seg
    <2>2. ASSUME NEW j \in 1 .. Len(seg), seg[j] = "="
          PROVE  p + j - 1 \in p .. (e - 1) /\ s[p + j - 1] = "="
      BY <1>1, <1>2, <1>4, <2>2
    <2>3. ASSUME NEW r \in p .. (e - 1), s[r] = "="
          PROVE  r - p + 1 \in 1 .. Len(seg) /\ seg[r - p + 1] = "="
      <3>1. r - p + 1 \in 1 .. (e - p) /\ p + (r - p + 1) - 1 = r
        BY <1>1, <1>2
      <3> QED BY <1>4, <2>3, <3>1
    <2> QED BY <2>1, <2>2, <2>3
  <1> QED BY <1>2, <1>3, <1>4, <1>5, <1>6 DEF e, seg

LEMMA TagFacts ==
    ASSUME NEW s, IsText(s), NEW p \in Starts(s), TagAt(s, p)
    PROVE  LET e == EndAt(s, p) eq == EqualsAt(s, p) IN
           /\ eq \in p .. (e - 1) /\ s[eq] = "="
           /\ \A r \in p .. (eq - 1) : s[r] # "="
           /\ SubSeq(SegmentAt(s, p), 1, IndexFrom(SegmentAt(s, p), 1, "=")) = SubSeq(s, p, eq)
           /\ KeyAt(s, p) = TrimFWS(SubSeq(s, p, eq - 1))
           /\ ValueAt(s, p) = TrimFWS(SubSeq(s, eq + 1, e - 1))
  <1> DEFINE e == EndAt(s, p)
             eq == EqualsAt(s, p)
             seg == SegmentAt(s, p)
             at1 == IndexFrom(seg, 1, "=")
             S == ToSet(s)
  <1>1. p \in 1 .. (Len(s) + 1) /\ Len(s) \in Nat /\ s \in Seq(S)
    BY StartRange DEF IsText
  <1>2. /\ e \in p .. (Len(s) + 1) /\ seg = SubSeq(s, p, e - 1) /\ IsText(seg)
        /\ Len(seg) = e - p /\ \A j \in 1 .. (e - p) : seg[j] = s[p + j - 1]
        /\ \E r \in p .. (e - 1) : s[r] = "="
    BY SegmentFacts
  <1> HIDE DEF e, seg, S
  <1>3. /\ at1 \in 1 .. (Len(seg) + 1) /\ (at1 <= Len(seg) => seg[at1] = "=")
        /\ \A j \in 1 .. (at1 - 1) : seg[j] # "="
    <2>1. 1 \in 1 .. (Len(seg) + 1) /\ IsText(seg)
      BY <1>1, <1>2
    <2> QED BY <2>1, IndexFacts
  <1>4. eq = p + at1 - 1
    BY DEF EqualsAt, seg
  <1> HIDE DEF at1, eq
  <1>5. at1 <= Len(seg)
    <2>1. PICK r \in p .. (e - 1) : s[r] = "="
      BY <1>2
    <2>2. r - p + 1 \in 1 .. (e - p) /\ p + (r - p + 1) - 1 = r
      BY <1>1, <1>2
    <2>3. seg[r - p + 1] = "="
      BY <1>2, <2>1, <2>2
    <2>4. ~(r - p + 1 \in 1 .. (at1 - 1))
      BY <1>3, <2>3
    <2> QED BY <1>1, <1>2, <1>3, <2>2, <2>4
  <1>6. eq \in p .. (e - 1) /\ s[eq] = "="
    BY <1>1, <1>2, <1>3, <1>4, <1>5
  <1>7. \A r \in p .. (eq - 1) : s[r] # "="
    <2> TAKE r \in p .. (eq - 1)
    <2>1. /\ r - p + 1 \in 1 .. (at1 - 1) /\ r - p + 1 \in 1 .. (e - p)
          /\ p + (r - p + 1) - 1 = r
      BY <1>1, <1>2, <1>3, <1>4, <1>5
    <2> QED BY <1>2, <1>3, <2>1
  <1>8. \A c \in Nat \ {0}, d \in 0 .. (e - p) :
           SubSeq(seg, c, d) = SubSeq(s, p + c - 1, p + d - 1)
    <2> TAKE c \in Nat \ {0}, d \in 0 .. (e - p)
    <2>1. /\ p \in Nat \ {0} /\ e - 1 \in 0 .. Len(s) /\ p <= (e - 1) + 1
          /\ d \in 0 .. ((e - 1) - p + 1)
      BY <1>1, <1>2
    <2> QED BY <1>1, <1>2, <2>1, StretchWithin
  <1>9. SubSeq(seg, 1, at1) = SubSeq(s, p, eq)
    <2>1. 1 \in Nat \ {0} /\ at1 \in 0 .. (e - p) /\ p + 1 - 1 = p /\ p + at1 - 1 = eq
      BY <1>1, <1>2, <1>3, <1>4, <1>5
    <2>2. SubSeq(seg, 1, at1) = SubSeq(s, p + 1 - 1, p + at1 - 1)
      BY <1>8, <2>1
    <2> QED BY <2>1, <2>2
  <1>10. SubSeq(seg, 1, at1 - 1) = SubSeq(s, p, eq - 1)
    <2>1. /\ 1 \in Nat \ {0} /\ at1 - 1 \in 0 .. (e - p)
          /\ p + 1 - 1 = p /\ p + (at1 - 1) - 1 = eq - 1
      BY <1>1, <1>2, <1>3, <1>4, <1>5
    <2>2. SubSeq(seg, 1, at1 - 1) = SubSeq(s, p + 1 - 1, p + (at1 - 1) - 1)
      BY <1>8, <2>1
    <2> QED BY <2>1, <2>2
  <1>11. SubSeq(seg, at1 + 1, Len(seg)) = SubSeq(s, eq + 1, e - 1)
    <2>1. /\ at1 + 1 \in Nat \ {0} /\ e - p \in 0 .. (e - p) /\ Len(seg) = e - p
          /\ p + (at1 + 1) - 1 = eq + 1 /\ p + (e - p) - 1 = e - 1
      BY <1>1, <1>2, <1>3, <1>4, <1>5
    <2>2. SubSeq(seg, at1 + 1, e - p) = SubSeq(s, p + (at1 + 1) - 1, p + (e - p) - 1)
      BY <1>8, <2>1
    <2> QED BY <2>1, <2>2
  <1>12. /\ KeyAt(s, p) = TrimFWS(SubSeq(seg, 1, at1 - 1))
         /\ ValueAt(s, p) = TrimFWS(SubSeq(seg, at1 + 1, Len(seg)))
    BY DEF KeyAt, KeyOf, ValueAt, ValueOf, at1, seg
  <1> QED BY <1>6, <1>7, <1>9, <1>10, <1>11, <1>12 DEF e, eq, at1, seg

(* The segments in front of a position.                                    *)
Done(s, n)   == { p \in Starts(s) : p < n }
TagsIn(s, n) == { p \in Done(s, n) : TagAt(s, p) }

(* The next segment starts behind the delimiter, or there is none.         *)
LEMMA NextStart ==
    ASSUME NEW s, IsText(s), NEW p \in Starts(s)
    PROVE  LET n == EndAt(s, p) + 1 IN
           /\ n \in Starts(s) \/ n = Len(s) + 2
           /\ Done(s, n) = Done(s, p) \cup {p}
           /\ \A q \in Starts(s) : q < p => EndAt(s, q) < p
  <1> DEFINE e == EndAt(s, p)
  <1>1. p \in 1 .. (Len(s) + 1) /\ Len(s) \in Nat /\ DOMAIN s = 1 .. Len(s)
    BY StartRange DEF IsText
  <1>2. /\ e \in p .. (Len(s) + 1) /\ (e <= Len(s) => s[e] = Semicolon)
        /\ \A r \in p .. (e - 1) : s[r] # Semicolon
    BY SegmentFacts
  <1> HIDE DEF e
  <1>3. e + 1 \in Starts(s) \/ e + 1 = Len(s) + 2
    BY <1>1, <1>2 DEF Starts
  <1>4. \A q \in Starts(s) : q < e + 1 => q = p \/ q < p
    <2> SUFFICES ASSUME NEW q \in Starts(s), q < e + 1, q # p, ~(q < p) PROVE FALSE
      OBVIOUS
    <2>1. q \in 1 .. (Len(s) + 1)
      BY StartRange
    <2>2. q > p /\ q # 1
      BY <1>1, <2>1
    <2>3. q - 1 \in p .. (e - 1) /\ s[q - 1] = Semicolon
      BY <1>1, <1>2, <2>1, <2>2 DEF Starts
    <2> QED BY <1>2, <2>3
  <1>5. Done(s, e + 1) = Done(s, p) \cup {p}
    <2>1. \A q \in Starts(s) : q \in Nat
      BY StartRange
    <2>2. p < e + 1 /\ \A q \in Starts(s) : q < p => q < e + 1
      BY <1>1, <1>2, <2>1
    <2> QED BY <1>4, <2>2 DEF Done
  <1>6. \A q \in Starts(s) : q < p => EndAt(s, q) < p
    <2> SUFFICES ASSUME NEW q \in Starts(s), q < p PROVE EndAt(s, q) < p
      OBVIOUS
    <2>1. q \in 1 .. (Len(s) + 1) /\ p # 1
      BY <1>1, StartRange
    <2>2. p - 1 \in DOMAIN s /\ s[p - 1] = Semicolon /\ p - 1 >= q
      BY <1>1, <2>1 DEF Starts
    <2>3. /\ EndAt(s, q) \in q .. (Len(s) + 1)
          /\ \A r \in q .. (EndAt(s, q) - 1) : s[r] # Semicolon
      BY SegmentFacts
    <2> QED BY <1>1, <2>1, <2>2, <2>3
  <1> QED BY <1>3, <1>5, <1>6 DEF e
(* What strings.Trim leaves of a stretch.                                  *)
AllIn(s, p, q, C) == \A r \in p .. q : s[r] \in C

Trimmed(s, p, q, C, a, z) ==
    /\ a \in p .. q /\ z \in a .. q
    /\ s[a] \notin C /\ s[z] \notin C
    /\ AllIn(s, p, a - 1, C) /\ AllIn(s, z + 1, q, C)

LEMMA TrimOf ==
    ASSUME NEW t, IsText(t), NEW C
    PROVE  IF AllIn(t, 1, Len(t), C) THEN Trim(t, C) = <<>>
           ELSE \E a, z \in 1 .. Len(t) :
                   /\ Trimmed(t, 1, Len(t), C, a, z)
                   /\ Trim(t, C) = SubSeq(t, a, z)
  <1> DEFINE B == { p \in DOMAIN t : t[p] \notin C }
             a == Min(B)
             z == Max(B)
  <1>1. Len(t) \in Nat /\ DOMAIN t = 1 .. Len(t)
    BY DEF IsText
  <1>2. Trim(t, C) = IF B = {} THEN <<>> ELSE SubSeq(t, a, z)
    BY DEF Trim
  <1>3. AllIn(t, 1, Len(t), C) <=> B = {}
    BY <1>1 DEF AllIn
  <1>4. ASSUME B # {}
        PROVE  a \in 1 .. Len(t) /\ z \in 1 .. Len(t) /\ Trimmed(t, 1, Len(t), C, a, z)
    <2>1. B \in SUBSET Nat /\ B \in SUBSET (0 .. Len(t))
      BY <1>1
    <2>2. \A m \in 1 .. Len(t) : t[m] \notin C <=> m \in B
      BY <1>1
    <2>3. \A m \in B : m \in 1 .. Len(t)
      BY <1>1
    <2> HIDE DEF B
    <2>4. a \in B /\ \A m \in B : a <= m
      BY <1>4, <2>1, SmallestElement
    <2>5. z \in B /\ \A m \in B : m <= z
      BY <1>1, <1>4, <2>1, GreatestElement
    <2> HIDE DEF a, z
    <2>6. a \in 1 .. Len(t) /\ z \in 1 .. Len(t) /\ a <= z
      BY <2>3, <2>4, <2>5
    <2>7. AllIn(t, 1, a - 1, C)
      <3>1. ASSUME NEW r \in 1 .. (a - 1) PROVE t[r] \in C
        <4>1. r \in 1 .. Len(t) /\ ~(a <= r)
          BY <1>1, <2>6
        <4> QED BY <2>2, <2>4, <4>1
      <3> QED BY <3>1 DEF AllIn
    <2>8. AllIn(t, z + 1, Len(t), C)
      <3>1. ASSUME NEW r \in (z + 1) .. Len(t) PROVE t[r] \in C
        <4>1. r \in 1 .. Len(t) /\ ~(r <= z)
          BY <1>1, <2>6
        <4> QED BY <2>2, <2>5, <4>1
      <3> QED BY <3>1 DEF AllIn
    <2>9. t[a] \notin C /\ t[z] \notin C
      BY <2>2, <2>4, <2>5, <2>6
    <2>10. z \in a .. Len(t)
      BY <1>1, <2>6
    <2> QED BY <2>6, <2>7, <2>8, <2>9, <2>10 DEF Trimmed
  <1> HIDE DEF a, z, B
  <1> QED BY <1>2, <1>3, <1>4

LEMMA TrimStretch ==
    ASSUME NEW s, IsText(s), NEW p \in 1 .. (Len(s) + 1), NEW q \in (p - 1) .. Len(s), NEW C
    PROVE  IF AllIn(s, p, q, C) THEN Trim(SubSeq(s, p, q), C) = <<>>
           ELSE \E a, z \in p .. q :
                   /\ Trimmed(s, p, q, C, a, z)
                   /\ Trim(SubSeq(s, p, q), C) = SubSeq(s, a, z)
  <1> DEFINE t == SubSeq(s, p, q)
             n == q - p + 1
             S == ToSet(s)
  <1>1. Len(s) \in Nat /\ s \in Seq(S) /\ p \in Nat \ {0} /\ q \in 0 .. Len(s)
    BY DEF IsText
  <1>2. n \in Nat /\ q = p + n - 1
    BY <1>1
  <1> HIDE DEF S
  <1>3. t \in Seq(S) /\ Len(t) = n /\ \A j \in 1 .. n : t[j] = s[p + j - 1]
    <2>1. /\ t \in Seq(S) /\ Len(t) = (IF p <= q THEN q - p + 1 ELSE 0)
          /\ \A j \in 1 .. n : t[j] = s[p + j - 1]
      BY <1>1, StretchType
    <2>2. (IF p <= q THEN q - p + 1 ELSE 0) = n
      BY <1>1, <1>2
    <2> QED BY <2>1, <2>2
  <1> HIDE DEF t, n
  <1>4. IsText(t)
    BY <1>3, TextOf
  <1>5. \A b \in Nat, d \in 0 .. n : b >= 1 =>
           (AllIn(t, b, d, C) <=> AllIn(s, p + b - 1, p + d - 1, C))
    <2> SUFFICES ASSUME NEW b \in Nat, NEW d \in 0 .. n, b >= 1
                 PROVE  AllIn(t, b, d, C) <=> AllIn(s, p + b - 1, p + d - 1, C)
      OBVIOUS
    <2>1. ASSUME AllIn(t, b, d, C), NEW r \in (p + b - 1) .. (p + d - 1) PROVE s[r] \in C
      <3>1. r - p + 1 \in b .. d /\ r - p + 1 \in 1 .. n /\ p + (r - p + 1) - 1 = r
        BY <1>1, <1>2
      <3> QED BY <1>3, <2>1, <3>1 DEF AllIn
    <2>2. ASSUME AllIn(s, p + b - 1, p + d - 1, C), NEW j \in b .. d PROVE t[j] \in C
      <3>1. p + j - 1 \in (p + b - 1) .. (p + d - 1) /\ j \in 1 .. n
        BY <1>1, <1>2
      <3> QED BY <1>3, <2>2, <3>1 DEF AllIn
    <2> QED BY <2>1, <2>2 DEF AllIn
  <1>6. AllIn(t, 1, Len(t), C) <=> AllIn(s, p, q, C)
    <2>1. 1 \in Nat /\ n \in 0 .. n /\ 1 >= 1 /\ p + 1 - 1 = p /\ p + n - 1 = q
      BY <1>1, <1>2
    <2>2. AllIn(t, 1, n, C) <=> AllIn(s, p + 1 - 1, p + n - 1, C)
      BY <1>5, <2>1
    <2> QED BY <1>3, <2>1, <2>2
  <1>7. CASE AllIn(s, p, q, C)
    BY <1>4, <1>6, <1>7, TrimOf DEF t
  <1>8. CASE ~AllIn(s, p, q, C)
    <2>1. PICK b \in 1 .. n, d \in 1 .. n :
             Trimmed(t, 1, n, C, b, d) /\ Trim(t, C) = SubSeq(t, b, d)
      BY <1>3, <1>4, <1>6, <1>8, TrimOf
    <2> DEFINE a == p + b - 1
               z == p + d - 1
    <2>2. /\ b <= d /\ t[b] \notin C /\ t[d] \notin C
          /\ AllIn(t, 1, b - 1, C) /\ AllIn(t, d + 1, n, C)
      BY <2>1 DEF Trimmed
    <2>3. a \in p .. q /\ z \in a .. q /\ z \in p .. q
      BY <1>1, <1>2, <2>2
    <2>4. s[a] \notin C /\ s[z] \notin C
      BY <1>3, <2>2
    <2>5. AllIn(s, p, a - 1, C)
      <3>1. 1 \in Nat /\ b - 1 \in 0 .. n /\ 1 >= 1 /\ p + 1 - 1 = p /\ p + (b - 1) - 1 = a - 1
        BY <1>1, <1>2
      <3>2. AllIn(t, 1, b - 1, C) <=> AllIn(s, p + 1 - 1, p + (b - 1) - 1, C)
        BY <1>5, <3>1
      <3> QED BY <2>2, <3>1, <3>2
    <2>6. AllIn(s, z + 1, q, C)
      <3>1. d + 1 \in Nat /\ n \in 0 .. n /\ d + 1 >= 1
            /\ p + (d + 1) - 1 = z + 1 /\ p + n - 1 = q
        BY <1>1, <1>2
      <3>2. AllIn(t, d + 1, n, C) <=> AllIn(s, p + (d + 1) - 1, p + n - 1, C)
        BY <1>5, <3>1
      <3> QED BY <2>2, <3>1, <3>2
    <2>7. SubSeq(t, b, d) = SubSeq(s, a, z)
      <3>1. /\ p <= q + 1 /\ b \in Nat \ {0} /\ d \in 0 .. (q - p + 1)
            /\ q - p + 1 = n
        BY <1>1, <1>2
      <3> QED BY <1>1, <3>1, StretchWithin DEF t
    <2> HIDE DEF a, z
    <2>8. Trimmed(s, p, q, C, a, z)
      BY <2>3, <2>4, <2>5, <2>6 DEF Trimmed
    <2> QED BY <1>8, <2>1, <2>3, <2>7, <2>8 DEF t
  <1> QED BY <1>7, <1>8

LEMMA TrimSolid ==
    ASSUME NEW s, IsText(s), NEW p \in 1 .. (Len(s) + 1), NEW q \in (p - 1) .. Len(s), NEW C,
           ~AllIn(s, p, q, C)
    PROVE  \E a, z \in p .. q :
              /\ Trimmed(s, p, q, C, a, z)
              /\ Trim(SubSeq(s, p, q), C) = SubSeq(s, a, z)
  BY TrimStretch

LEMMA TrimmedOnce ==
    ASSUME NEW s, NEW p \in Nat, NEW q \in Nat, NEW C, NEW a, NEW z, NEW b, NEW d,
           Trimmed(s, p, q, C, a, z), Trimmed(s, p, q, C, b, d)
    PROVE  a = b /\ z = d
  <1>1. /\ a \in p .. q /\ b \in p .. q /\ z \in a .. q /\ d \in b .. q
        /\ s[a] \notin C /\ s[b] \notin C /\ s[z] \notin C /\ s[d] \notin C
        /\ (\A r \in p .. (a - 1) : s[r] \in C) /\ (\A r \in p .. (b - 1) : s[r] \in C)
        /\ (\A r \in (z + 1) .. q : s[r] \in C) /\ (\A r \in (d + 1) .. q : s[r] \in C)
    BY DEF Trimmed, AllIn
  <1>2. ~(a < b) /\ ~(b < a)
    BY <1>1
  <1>3. ~(z < d) /\ ~(d < z)
    BY <1>1
  <1> QED BY <1>1, <1>2, <1>3

LEMMA TrimIs ==
    ASSUME NEW s, IsText(s), NEW p \in 1 .. (Len(s) + 1), NEW q \in (p - 1) .. Len(s), NEW C,
           NEW a, NEW z, Trimmed(s, p, q, C, a, z)
    PROVE  Trim(SubSeq(s, p, q), C) = SubSeq(s, a, z)
  <1>1. Len(s) \in Nat /\ p \in Nat /\ q \in Nat
    BY DEF IsText
  <1>2. ~AllIn(s, p, q, C)
    BY DEF Trimmed, AllIn
  <1>3. PICK b \in p .. q, d \in p .. q :
           Trimmed(s, p, q, C, b, d) /\ Trim(SubSeq(s, p, q), C) = SubSeq(s, b, d)
    BY <1>2, TrimStretch
  <1>4. a = b /\ z = d
    BY <1>1, <1>3, TrimmedOnce
  <1> QED BY <1>3, <1>4
-------------------------------------------------------------------------------
(* The parser. *)

(* A segment the parser passes, and a list it takes.                       *)
Sound(s, p) == IF TagAt(s, p) THEN validTagName(KeyAt(s, p)) /\ validTagValue(ValueAt(s, p))
               ELSE BlankAt(s, p)

NamedOnce(s, P) == \A p, q \in P : KeyAt(s, p) = KeyAt(s, q) => p = q

WellRead(s) ==
    /\ ~nonFWSSpace(s)
    /\ \A p \in Starts(s) : Sound(s, p)
    /\ NamedOnce(s, { p \in Starts(s) : TagAt(s, p) })

(* f is what the segments in front of n say.                               *)
Walked(s, n, f) ==
    /\ \A p \in Done(s, n) : Sound(s, p)
    /\ NamedOnce(s, TagsIn(s, n))
    /\ f = [k \in { KeyAt(s, p) : p \in TagsIn(s, n) } |-> f[k]]
    /\ \A p \in TagsIn(s, n) : f[KeyAt(s, p)] = ValueAt(s, p)

Position(s, n) == n \in Starts(s) \/ n = Len(s) + 2

LEMMA WalkedDomain ==
    ASSUME NEW s, NEW n, NEW f, Walked(s, n, f)
    PROVE  DOMAIN f = { KeyAt(s, p) : p \in TagsIn(s, n) }
  <1> DEFINE K == { KeyAt(s, p) : p \in TagsIn(s, n) }
  <1>1. f = [k \in K |-> f[k]]
    BY DEF Walked
  <1> HIDE DEF K
  <1>2. DOMAIN f = K
    BY <1>1
  <1> QED BY <1>2 DEF K

LEMMA WalkedNothing ==
    ASSUME NEW s, IsText(s)
    PROVE  Walked(s, 1, <<>>)
  <1>1. \A p \in Starts(s) : ~(p < 1)
    BY StartRange
  <1>2. Done(s, 1) = {} /\ TagsIn(s, 1) = {}
    BY <1>1 DEF Done, TagsIn
  <1>3. { KeyAt(s, p) : p \in TagsIn(s, 1) } = {}
    BY <1>2
  <1>4. <<>> = [k \in {} |-> <<>>[k]]
    OBVIOUS
  <1> QED BY <1>2, <1>3, <1>4 DEF Walked, NamedOnce

(* Behind all segments, it is the whole list that was walked.              *)
LEMMA WalkedAll ==
    ASSUME NEW s, IsText(s)
    PROVE  /\ Done(s, Len(s) + 2) = Starts(s)
           /\ TagsIn(s, Len(s) + 2) = { p \in Starts(s) : TagAt(s, p) }
  <1>1. \A p \in Starts(s) : p < Len(s) + 2
    BY StartRange
  <1>2. Done(s, Len(s) + 2) = Starts(s)
    BY <1>1 DEF Done
  <1> QED BY <1>2 DEF TagsIn

LEMMA StepIgnored ==
    ASSUME NEW s, IsText(s), NEW p \in Starts(s), NEW f, Walked(s, p, f),
           ~TagAt(s, p), BlankAt(s, p)
    PROVE  Walked(s, EndAt(s, p) + 1, f)
  <1> DEFINE n == EndAt(s, p) + 1
  <1>1. Done(s, n) = Done(s, p) \cup {p}
    BY NextStart
  <1>2. TagsIn(s, n) = TagsIn(s, p)
    BY <1>1 DEF TagsIn
  <1>3. Sound(s, p)
    BY DEF Sound
  <1> HIDE DEF n
  <1>4. Walked(s, n, f)
    BY <1>1, <1>2, <1>3 DEF Walked
  <1> QED BY <1>4 DEF n

LEMMA StepTaken ==
    ASSUME NEW s, IsText(s), NEW p \in Starts(s), NEW f, Walked(s, p, f),
           TagAt(s, p), validTagName(KeyAt(s, p)), validTagValue(ValueAt(s, p)),
           KeyAt(s, p) \notin DOMAIN f
    PROVE  Walked(s, EndAt(s, p) + 1, Put(f, KeyAt(s, p), ValueAt(s, p)))
  <1> DEFINE n == EndAt(s, p) + 1
             key == KeyAt(s, p)
             g == Put(f, key, ValueAt(s, p))
             K == { KeyAt(s, q) : q \in TagsIn(s, p) }
  <1>1. Done(s, n) = Done(s, p) \cup {p}
    BY NextStart
  <1>2. TagsIn(s, n) = TagsIn(s, p) \cup {p}
    BY <1>1 DEF TagsIn
  <1>3. Sound(s, p)
    BY DEF Sound
  <1>4. DOMAIN f = K
    BY WalkedDomain
  <1>5. \A q \in TagsIn(s, p) : KeyAt(s, q) # key
    BY <1>4
  <1>6. DOMAIN g = K \cup {key} /\ g[key] = ValueAt(s, p) /\ (\A k \in K : k # key => g[k] = f[k])
        /\ g = [k \in DOMAIN g |-> g[k]]
    BY <1>4 DEF Put
  <1>7. { KeyAt(s, q) : q \in TagsIn(s, n) } = K \cup {key}
    BY <1>2
  <1>8. \A q \in TagsIn(s, n) : g[KeyAt(s, q)] = ValueAt(s, q)
    <2> TAKE q \in TagsIn(s, n)
    <2>1. CASE q = p
      BY <1>6, <2>1
    <2>2. CASE q # p
      <3>1. q \in TagsIn(s, p)
        BY <1>2, <2>2
      <3>2. KeyAt(s, q) \in K /\ KeyAt(s, q) # key /\ f[KeyAt(s, q)] = ValueAt(s, q)
        BY <1>5, <3>1 DEF Walked
      <3> HIDE DEF g, K
      <3> QED BY <1>6, <3>2
    <2> QED BY <2>1, <2>2
  <1>9. NamedOnce(s, TagsIn(s, n))
    <2>1. NamedOnce(s, TagsIn(s, p))
      BY DEF Walked
    <2> HIDE DEF n
    <2> QED BY <1>2, <1>5, <2>1 DEF NamedOnce
  <1> HIDE DEF n, g, K
  <1>10. \A q \in Done(s, n) : Sound(s, q)
    BY <1>1, <1>3 DEF Walked
  <1>11. g = [k \in { KeyAt(s, q) : q \in TagsIn(s, n) } |-> g[k]]
    BY <1>6, <1>7
  <1>12. Walked(s, n, g)
    BY <1>8, <1>9, <1>10, <1>11 DEF Walked
  <1> QED BY <1>12 DEF n, g
-------------------------------------------------------------------------------
(* RemoveBValue over the segments the parser took. *)

(* The last character in front of the segment at n.                        *)
Upto(s, n) == IF n - 1 <= Len(s) THEN n - 1 ELSE Len(s)

Blanked(s, n, o) ==
    /\ (\A p \in TagsIn(s, n) : KeyAt(s, p) # << "b" >>) => o = SubSeq(s, 1, Upto(s, n))
    /\ \A p \in TagsIn(s, n) : KeyAt(s, p) = << "b" >> =>
          o = SubSeq(s, 1, EqualsAt(s, p)) \o SubSeq(s, EndAt(s, p), Upto(s, n))

LEMMA BlankedNothing ==
    ASSUME NEW s, IsText(s)
    PROVE  Blanked(s, 1, <<>>)
  <1>1. \A p \in Starts(s) : ~(p < 1)
    BY StartRange
  <1>2. TagsIn(s, 1) = {} /\ Len(s) \in Nat
    BY <1>1 DEF Done, TagsIn, IsText
  <1>3. Upto(s, 1) = 0
    BY <1>2 DEF Upto
  <1>4. SubSeq(s, 1, 0) = <<>>
    BY SubSeqEmpty
  <1> QED BY <1>2, <1>3, <1>4 DEF Blanked

(* What one turn of the loop leaves of the segment at p and its delimiter. *)
KeptOf(s, p) ==
    IF IsB(SegmentAt(s, p))
    THEN SubSeq(SegmentAt(s, p), 1, IndexFrom(SegmentAt(s, p), 1, "="))
    ELSE SegmentAt(s, p)

DelimOf(s, p) == IF EndAt(s, p) > Len(s) THEN <<>> ELSE <<Semicolon>>

Left(s, p) == KeptOf(s, p) \o DelimOf(s, p)

LEMMA DelimiterAt ==
    ASSUME NEW s, IsText(s), NEW p \in Starts(s)
    PROVE  /\ SubSeq(s, EndAt(s, p), Upto(s, EndAt(s, p) + 1)) =
                 IF EndAt(s, p) > Len(s) THEN <<>> ELSE <<Semicolon>>
           /\ Upto(s, EndAt(s, p) + 1) \in 0 .. Len(s)
           /\ Upto(s, EndAt(s, p) + 1) >= EndAt(s, p) - 1
  <1> DEFINE e == EndAt(s, p)
             u == Upto(s, e + 1)
             S == ToSet(s)
  <1>1. /\ e \in p .. (Len(s) + 1) /\ (e <= Len(s) => s[e] = Semicolon)
        /\ p \in 1 .. (Len(s) + 1) /\ Len(s) \in Nat /\ s \in Seq(S)
    BY SegmentFacts, StartRange DEF IsText
  <1> HIDE DEF e, S
  <1>2. u \in 0 .. Len(s) /\ u >= e - 1 /\ u = (IF e > Len(s) THEN e - 1 ELSE e)
    BY <1>1 DEF Upto
  <1>3. e \in Nat \ {0}
    BY <1>1
  <1> HIDE DEF u
  <1>4. CASE e > Len(s)
    <2>1. e - 1 < e /\ u = e - 1
      BY <1>2, <1>3, <1>4
    <2>2. SubSeq(s, e, u) = <<>>
      BY <1>3, <2>1, SubSeqEmpty
    <2> QED BY <1>2, <1>4, <2>2 DEF e, u
  <1>5. CASE ~(e > Len(s))
    <2>1. u = e /\ e \in 1 .. Len(s) /\ s[e] = Semicolon /\ e \in 0 .. Len(s)
      BY <1>1, <1>2, <1>5
    <2>2. /\ SubSeq(s, e, e) \in Seq(S)
          /\ Len(SubSeq(s, e, e)) = (IF e <= e THEN e - e + 1 ELSE 0)
          /\ \A j \in 1 .. (e - e + 1) : SubSeq(s, e, e)[j] = s[e + j - 1]
      BY <1>1, <1>3, <2>1, StretchType
    <2>3. /\ (IF e <= e THEN e - e + 1 ELSE 0) = 1 /\ 1 \in 1 .. (e - e + 1)
          /\ e + 1 - 1 = e
      BY <2>1
    <2>4. Len(SubSeq(s, e, e)) = 1 /\ SubSeq(s, e, e)[1] = Semicolon
      BY <2>1, <2>2, <2>3
    <2> DEFINE t == SubSeq(s, e, e)
               d == <<Semicolon>>
    <2>5. Semicolon \in S
      BY <1>1, <2>1
    <2>6. d \in Seq(S) /\ Len(d) = 1 /\ d[1] = Semicolon
      BY <2>5
    <2>7. t \in Seq(S) /\ Len(t) = 1 /\ t[1] = Semicolon
      BY <2>2, <2>4
    <2> HIDE DEF t, d
    <2>8. t = d
      BY <2>6, <2>7, SameSequence
    <2> QED BY <1>2, <1>5, <2>1, <2>8 DEF e, u, t, d
  <1> QED BY <1>4, <1>5

LEMMA LeftOf ==
    ASSUME NEW s, IsText(s), NEW p \in Starts(s)
    PROVE  Left(s, p) =
              IF TagAt(s, p) /\ KeyAt(s, p) = << "b" >>
              THEN SubSeq(s, p, EqualsAt(s, p)) \o SubSeq(s, EndAt(s, p), Upto(s, EndAt(s, p) + 1))
              ELSE SubSeq(s, p, Upto(s, EndAt(s, p) + 1))
  <1> DEFINE e == EndAt(s, p)
             u == Upto(s, e + 1)
  <1>1. IsB(SegmentAt(s, p)) <=> TagAt(s, p) /\ KeyAt(s, p) = << "b" >>
    BY DEF IsB, TagAt, KeyAt
  <1>2. /\ e \in p .. (Len(s) + 1) /\ p \in 1 .. (Len(s) + 1) /\ Len(s) \in Nat
        /\ s \in Seq(ToSet(s)) /\ SegmentAt(s, p) = SubSeq(s, p, e - 1)
    BY SegmentFacts, StartRange DEF IsText
  <1>3. /\ SubSeq(s, e, u) = (IF e > Len(s) THEN <<>> ELSE <<Semicolon>>)
        /\ u \in 0 .. Len(s) /\ u >= e - 1
    BY DelimiterAt
  <1> HIDE DEF e, u
  <1>4. CASE TagAt(s, p) /\ KeyAt(s, p) = << "b" >>
    <2>1. SubSeq(SegmentAt(s, p), 1, IndexFrom(SegmentAt(s, p), 1, "=")) =
             SubSeq(s, p, EqualsAt(s, p))
      BY <1>4, TagFacts
    <2> QED BY <1>1, <1>3, <1>4, <2>1 DEF Left, KeptOf, DelimOf, e, u
  <1>5. CASE ~(TagAt(s, p) /\ KeyAt(s, p) = << "b" >>)
    <2>1. Left(s, p) = SubSeq(s, p, e - 1) \o SubSeq(s, e, u)
      BY <1>1, <1>2, <1>3, <1>5 DEF Left, KeptOf, DelimOf, e
    <2>2. /\ p \in Nat \ {0} /\ e - 1 \in 0 .. Len(s) /\ p <= (e - 1) + 1 /\ e - 1 <= u
          /\ (e - 1) + 1 = e
      BY <1>2, <1>3
    <2>3. SubSeq(s, p, e - 1) \o SubSeq(s, (e - 1) + 1, u) = SubSeq(s, p, u)
      BY <1>2, <1>3, <2>2, StretchJoin
    <2> QED BY <1>5, <2>1, <2>2, <2>3 DEF e, u
  <1> QED BY <1>4, <1>5

LEMMA LeftType ==
    ASSUME NEW s, IsText(s), NEW p \in Starts(s)
    PROVE  KeptOf(s, p) \in Seq(ToSet(s)) /\ DelimOf(s, p) \in Seq(ToSet(s))
  <1> DEFINE e == EndAt(s, p)
             u == Upto(s, e + 1)
             S == ToSet(s)
  <1>1. /\ e \in p .. (Len(s) + 1) /\ p \in 1 .. (Len(s) + 1) /\ Len(s) \in Nat
        /\ s \in Seq(S) /\ SegmentAt(s, p) = SubSeq(s, p, e - 1)
    BY SegmentFacts, StartRange DEF IsText
  <1>2. SubSeq(s, e, u) = DelimOf(s, p) /\ u \in 0 .. Len(s)
    BY DelimiterAt DEF DelimOf
  <1> HIDE DEF e, u, S
  <1>3. /\ p \in Nat \ {0} /\ e \in Nat \ {0} /\ e - 1 \in 0 .. Len(s)
    BY <1>1
  <1>4. DelimOf(s, p) \in Seq(S)
    BY <1>1, <1>2, <1>3, StretchType
  <1>5. SubSeq(s, p, e - 1) \in Seq(S)
    BY <1>1, <1>3, StretchType
  <1>6. CASE IsB(SegmentAt(s, p))
    <2>1. TagAt(s, p)
      BY <1>6 DEF IsB, TagAt
    <2>2. EqualsAt(s, p) \in p .. (e - 1) /\ KeptOf(s, p) = SubSeq(s, p, EqualsAt(s, p))
      BY <1>6, <2>1, TagFacts DEF KeptOf, e
    <2>3. EqualsAt(s, p) \in 0 .. Len(s)
      BY <1>1, <2>2
    <2>4. SubSeq(s, p, EqualsAt(s, p)) \in Seq(S)
      BY <1>1, <1>3, <2>3, StretchType
    <2> QED BY <1>4, <2>2, <2>4 DEF S
  <1>7. CASE ~IsB(SegmentAt(s, p))
    BY <1>1, <1>4, <1>5, <1>7 DEF KeptOf, S
  <1> QED BY <1>6, <1>7

LEMMA StepBlanked ==
    ASSUME NEW s, IsText(s), NEW p \in Starts(s), p <= Len(s), NEW o, Blanked(s, p, o),
           NamedOnce(s, { q \in Starts(s) : TagAt(s, q) })
    PROVE  Blanked(s, EndAt(s, p) + 1, o \o Left(s, p))
  <1> DEFINE e == EndAt(s, p)
             n == e + 1
             u == Upto(s, n)
             S == ToSet(s)
             B == { q \in Starts(s) : TagAt(s, q) /\ KeyAt(s, q) = << "b" >> }
  <1>1. /\ e \in p .. (Len(s) + 1) /\ p \in 1 .. Len(s) /\ Len(s) \in Nat /\ s \in Seq(S)
        /\ u \in 0 .. Len(s) /\ u >= e - 1
    BY SegmentFacts, StartRange, DelimiterAt DEF IsText
  <1>2. TagsIn(s, n) = TagsIn(s, p) \cup (IF TagAt(s, p) THEN {p} ELSE {})
    BY NextStart DEF TagsIn
  <1>3. \A q, r \in B : q = r
    BY DEF NamedOnce
  <1>4. \A q \in TagsIn(s, p) : q \in Starts(s) /\ q < p /\ TagAt(s, q)
    BY DEF TagsIn, Done
  <1>5. Upto(s, p) = p - 1
    BY <1>1 DEF Upto
  <1> HIDE DEF e, n, u, S
  <1>6. CASE p \in B
    <2>1. \A q \in TagsIn(s, p) : KeyAt(s, q) # << "b" >>
      <3>1. ASSUME NEW q \in TagsIn(s, p), KeyAt(s, q) = << "b" >> PROVE FALSE
        <4>1. q = p /\ q < p
          BY <1>3, <1>4, <1>6, <3>1
        <4> QED BY <1>1, <4>1
      <3> QED BY <3>1
    <2>2. o = SubSeq(s, 1, p - 1)
      BY <1>5, <2>1 DEF Blanked
    <2>3. TagAt(s, p) /\ KeyAt(s, p) = << "b" >>
      BY <1>6
    <2>4. Left(s, p) = SubSeq(s, p, EqualsAt(s, p)) \o SubSeq(s, e, u)
      BY <2>3, LeftOf DEF e, u, n
    <2>5. EqualsAt(s, p) \in p .. (e - 1)
      BY <2>3, TagFacts DEF e
    <2> DEFINE eq == EqualsAt(s, p)
    <2> HIDE DEF eq
    <2>6. /\ 1 \in Nat \ {0} /\ p \in Nat \ {0} /\ e \in Nat \ {0}
          /\ p - 1 \in 0 .. Len(s) /\ eq \in 0 .. Len(s)
          /\ 1 <= (p - 1) + 1 /\ p - 1 <= eq /\ (p - 1) + 1 = p
      BY <1>1, <2>5 DEF eq
    <2>7. SubSeq(s, 1, p - 1) \o SubSeq(s, (p - 1) + 1, eq) = SubSeq(s, 1, eq)
      BY <1>1, <2>6, StretchJoin
    <2>8. /\ SubSeq(s, 1, p - 1) \in Seq(S) /\ SubSeq(s, p, eq) \in Seq(S)
          /\ SubSeq(s, e, u) \in Seq(S)
      BY <1>1, <2>6, StretchType
    <2>9. o \o Left(s, p) = SubSeq(s, 1, eq) \o SubSeq(s, e, u)
      <3> DEFINE x == SubSeq(s, 1, p - 1)
                 y == SubSeq(s, p, eq)
                 w == SubSeq(s, e, u)
      <3>1. o = x /\ Left(s, p) = y \o w /\ x \in Seq(S) /\ y \in Seq(S) /\ w \in Seq(S)
            /\ x \o y = SubSeq(s, 1, eq)
        BY <2>2, <2>4, <2>6, <2>7, <2>8 DEF eq
      <3> HIDE DEF x, y
      <3>2. x \o (y \o w) = (x \o y) \o w
        <4>1. x \in Seq(S) /\ y \in Seq(S) /\ w \in Seq(S)
          BY <3>1
        <4> HIDE DEF w
        <4> QED BY ONLY <4>1, ConcatAssociative
      <3> QED BY <3>1, <3>2
    <2>10. \A q \in TagsIn(s, n) : KeyAt(s, q) = << "b" >> => q = p
      BY <1>2, <2>1
    <2>11. p \in TagsIn(s, n)
      BY <1>2, <2>3
    <2> QED BY <2>3, <2>9, <2>10, <2>11 DEF Blanked, eq, e, n, u
  <1>7. CASE p \notin B
    <2>1. ~(TagAt(s, p) /\ KeyAt(s, p) = << "b" >>)
      BY <1>7
    <2>2. Left(s, p) = SubSeq(s, p, u)
      BY <2>1, LeftOf DEF e, u, n
    <2>3. \A q \in TagsIn(s, n) : KeyAt(s, q) = << "b" >> => q \in TagsIn(s, p)
      BY <1>2, <2>1
    <2>4. TagsIn(s, p) \subseteq TagsIn(s, n)
      BY <1>2
    <2>5. \A a \in 1 .. p : SubSeq(s, a, p - 1) \o SubSeq(s, p, u) = SubSeq(s, a, u)
      <3> TAKE a \in 1 .. p
      <3>1. /\ a \in Nat \ {0} /\ p - 1 \in 0 .. Len(s) /\ a <= (p - 1) + 1 /\ p - 1 <= u
            /\ (p - 1) + 1 = p
        BY <1>1
      <3>2. SubSeq(s, a, p - 1) \o SubSeq(s, (p - 1) + 1, u) = SubSeq(s, a, u)
        BY <1>1, <3>1, StretchJoin
      <3> QED BY <3>1, <3>2
    <2>6. ASSUME \A q \in TagsIn(s, n) : KeyAt(s, q) # << "b" >>
          PROVE  o \o Left(s, p) = SubSeq(s, 1, u)
      <3>1. o = SubSeq(s, 1, p - 1)
        BY <1>5, <2>4, <2>6 DEF Blanked
      <3>2. 1 \in 1 .. p
        BY <1>1
      <3> QED BY <2>2, <2>5, <3>1, <3>2
    <2>7. ASSUME NEW q \in TagsIn(s, n), KeyAt(s, q) = << "b" >>
          PROVE  o \o Left(s, p) = SubSeq(s, 1, EqualsAt(s, q)) \o SubSeq(s, EndAt(s, q), u)
      <3>1. /\ q \in TagsIn(s, p) /\ q \in Starts(s) /\ q < p /\ TagAt(s, q)
        BY <1>4, <2>3, <2>7
      <3> DEFINE d == EndAt(s, q)
                 eq == EqualsAt(s, q)
      <3>2. o = SubSeq(s, 1, eq) \o SubSeq(s, d, p - 1)
        BY <1>5, <2>7, <3>1 DEF Blanked
      <3>3. /\ d < p /\ d \in q .. (Len(s) + 1) /\ q \in 1 .. (Len(s) + 1)
            /\ eq \in q .. (d - 1)
        BY <3>1, NextStart, SegmentFacts, StartRange, TagFacts
      <3> HIDE DEF d, eq
      <3>4. /\ d \in 1 .. p /\ 1 \in Nat \ {0} /\ eq \in 0 .. Len(s) /\ d \in Nat \ {0}
            /\ p - 1 \in 0 .. Len(s) /\ p \in Nat \ {0}
        BY <1>1, <3>3
      <3>5. SubSeq(s, d, p - 1) \o SubSeq(s, p, u) = SubSeq(s, d, u)
        BY <2>5, <3>4
      <3>6. /\ SubSeq(s, 1, eq) \in Seq(S) /\ SubSeq(s, d, p - 1) \in Seq(S)
            /\ SubSeq(s, p, u) \in Seq(S)
        BY <1>1, <3>4, StretchType
      <3> DEFINE x == SubSeq(s, 1, eq)
                 y == SubSeq(s, d, p - 1)
                 w == SubSeq(s, p, u)
      <3>7. o = x \o y /\ Left(s, p) = w /\ y \o w = SubSeq(s, d, u)
        BY <2>2, <3>2, <3>5
      <3>8. (x \o y) \o w = x \o (y \o w)
        <4>1. x \in Seq(S) /\ y \in Seq(S) /\ w \in Seq(S)
          BY <3>6
        <4> HIDE DEF x, y, w
        <4> QED BY ONLY <4>1, ConcatAssociative
      <3> HIDE DEF y, w
      <3> QED BY <3>7, <3>8 DEF x, d, eq
    <2>8. Blanked(s, n, o \o Left(s, p))
      <3> HIDE DEF n, B
      <3> QED BY <2>6, <2>7 DEF Blanked, u
    <2> QED BY <2>8 DEF n, e
  <1> HIDE DEF B
  <1> QED BY <1>6, <1>7 DEF n, e
-------------------------------------------------------------------------------
(* What is known at each stage. *)

ReadTo(s, stage, n, f, o) ==
    /\ IsText(s)
    /\ stage \in {"fragment", "published", "strict", "refused", "blank", "done"}
    /\ stage \in {"fragment", "published"} => n = 1 /\ f = <<>> /\ o = <<>>
    /\ stage = "strict" => o = <<>> /\ Position(s, n) /\ Walked(s, n, f)
    /\ stage = "refused" => ~WellRead(s)
    /\ stage \in {"blank", "done"} => ~nonFWSSpace(s) /\ Walked(s, Len(s) + 2, f)
    /\ stage = "blank" => Position(s, n) /\ Blanked(s, n, o) /\ o \in Seq(ToSet(s))
    /\ stage = "done" => Blanked(s, Len(s) + 2, o)

Read == ReadTo(text, pc, i, tags, out)

LEMMA InitRead == RecordInit => Read
  <1> SUFFICES ASSUME RecordInit PROVE Read
    OBVIOUS
  <1>1. /\ i = 1 /\ tags = <<>> /\ out = <<>>
        /\ pc \in {"fragment", "strict"} /\ (text = <<>> \/ text \in Texts)
    BY DEF RecordInit
  <1>2. IsText(text)
    <2>1. <<>> \in Seq({})
      OBVIOUS
    <2>2. text \in Texts => IsText(text)
      BY TextsAreSequences DEF IsText
    <2> QED BY <1>1, <2>1, <2>2, TextOf
  <1>3. Walked(text, 1, <<>>)
    BY <1>2, WalkedNothing
  <1>4. Position(text, 1)
    BY DEF Position, Starts
  <1> QED BY <1>1, <1>2, <1>3, <1>4 DEF Read, ReadTo

LEMMA ParsingAt ==
    ASSUME Read, Parsing
    PROVE  /\ IsText(text) /\ i \in Starts(text) /\ Walked(text, i, tags)
           /\ ~nonFWSSpace(text) /\ out = <<>> /\ pc = "strict"
           /\ Position(text, EndAt(text, i) + 1)
  <1>1. /\ IsText(text) /\ Position(text, i) /\ Walked(text, i, tags)
        /\ ~nonFWSSpace(text) /\ out = <<>> /\ pc = "strict" /\ i <= Len(text) + 1
    BY DEF Read, ReadTo, Parsing
  <1>2. Len(text) \in Nat
    BY <1>1 DEF IsText
  <1>3. i # Len(text) + 2
    BY <1>1, <1>2
  <1>4. i \in Starts(text)
    BY <1>1, <1>3 DEF Position
  <1>5. Position(text, EndAt(text, i) + 1)
    BY <1>1, <1>4, NextStart DEF Position
  <1> QED BY <1>1, <1>4, <1>5

LEMMA IgnoreSegmentRead == Read /\ IgnoreSegment => Read'
  <1> SUFFICES ASSUME Read, IgnoreSegment PROVE Read'
    OBVIOUS
  <1>1. Parsing
    BY DEF IgnoreSegment
  <1>2. /\ ~TagAt(text, i) /\ BlankAt(text, i) /\ i' = EndAt(text, i) + 1
        /\ UNCHANGED <<text, pc, tags, out>>
    BY DEF IgnoreSegment, Segment, Advance, TagAt, BlankAt, EndAt
  <1>3. Walked(text, EndAt(text, i) + 1, tags)
    BY <1>1, <1>2, ParsingAt, StepIgnored
  <1>4. ReadTo(text, "strict", EndAt(text, i) + 1, tags, out)
    BY <1>1, <1>3, ParsingAt DEF ReadTo
  <1> QED BY <1>1, <1>2, <1>4, ParsingAt DEF Read

LEMMA TakeTagRead == Read /\ TakeTag => Read'
  <1> SUFFICES ASSUME Read, TakeTag PROVE Read'
    OBVIOUS
  <1> DEFINE g == Put(tags, KeyAt(text, i), ValueAt(text, i))
  <1>1. Parsing
    BY DEF TakeTag
  <1>2. /\ TagAt(text, i) /\ validTagName(KeyAt(text, i)) /\ validTagValue(ValueAt(text, i))
        /\ KeyAt(text, i) \notin DOMAIN tags
        /\ tags' = g /\ i' = EndAt(text, i) + 1
        /\ UNCHANGED <<text, pc, out>>
    BY DEF TakeTag, Segment, Advance, TagAt, KeyAt, ValueAt, EndAt
  <1> HIDE DEF g
  <1>3. Walked(text, EndAt(text, i) + 1, g)
    BY <1>1, <1>2, ParsingAt, StepTaken DEF g
  <1>4. ReadTo(text, "strict", EndAt(text, i) + 1, g, out)
    BY <1>1, <1>3, ParsingAt DEF ReadTo
  <1> QED BY <1>1, <1>2, <1>4, ParsingAt DEF Read

LEMMA RefuseSegmentRead == Read /\ RefuseSegment => Read'
  <1> SUFFICES ASSUME Read, RefuseSegment PROVE Read'
    OBVIOUS
  <1>1. Parsing
    BY DEF RefuseSegment
  <1>2. pc' = "refused" /\ UNCHANGED <<text, i, tags, out>>
    BY DEF RefuseSegment
  <1>3. IF TagAt(text, i)
        THEN \/ ~validTagName(KeyAt(text, i)) \/ KeyAt(text, i) \in DOMAIN tags
             \/ ~validTagValue(ValueAt(text, i))
        ELSE ~BlankAt(text, i)
    BY DEF RefuseSegment, Segment, TagAt, KeyAt, ValueAt, BlankAt
  <1>4. i \in Starts(text) /\ Walked(text, i, tags) /\ IsText(text)
    BY <1>1, ParsingAt
  <1>5. ReadTo(text, "refused", i, tags, out)
    <2>1. ~WellRead(text)
      <3>1. CASE TagAt(text, i) /\ KeyAt(text, i) \in DOMAIN tags
        <4>0. DOMAIN tags = { KeyAt(text, q) : q \in TagsIn(text, i) }
          BY <1>4, WalkedDomain
        <4>1. PICK q \in TagsIn(text, i) : KeyAt(text, q) = KeyAt(text, i)
          BY <3>1, <4>0
        <4>2. q \in Starts(text) /\ q < i /\ TagAt(text, q)
          BY DEF TagsIn, Done
        <4>3. q # i
          BY <1>4, <4>2, StartRange
        <4>4. ~NamedOnce(text, { p \in Starts(text) : TagAt(text, p) })
          BY <1>4, <3>1, <4>1, <4>2, <4>3 DEF NamedOnce
        <4> QED BY <4>4 DEF WellRead
      <3>2. CASE ~(TagAt(text, i) /\ KeyAt(text, i) \in DOMAIN tags)
        <4>1. ~Sound(text, i)
          BY <1>3, <3>2 DEF Sound
        <4> QED BY <1>4, <4>1 DEF WellRead
      <3> QED BY <3>1, <3>2
    <2> QED BY <1>4, <2>1 DEF ReadTo
  <1> QED BY <1>2, <1>5 DEF Read

LEMMA AcceptRead == Read /\ Accept => Read'
  <1> SUFFICES ASSUME Read, Accept PROVE Read'
    OBVIOUS
  <1>1. /\ pc = "strict" /\ ~nonFWSSpace(text) /\ i > Len(text) + 1
        /\ pc' = "blank" /\ i' = 1 /\ UNCHANGED <<text, tags, out>>
    BY DEF Accept
  <1>2. IsText(text) /\ Position(text, i) /\ Walked(text, i, tags) /\ out = <<>>
    BY <1>1 DEF Read, ReadTo
  <1>3. Len(text) \in Nat
    BY <1>2 DEF IsText
  <1>4. i = Len(text) + 2
    <2>1. i \notin Starts(text)
      BY <1>1, <1>2, <1>3, StartRange
    <2> QED BY <1>2, <2>1 DEF Position
  <1>5. Blanked(text, 1, <<>>) /\ Position(text, 1)
    BY <1>2, BlankedNothing DEF Position, Starts
  <1>6. ReadTo(text, "blank", 1, tags, out)
    BY <1>1, <1>2, <1>4, <1>5 DEF ReadTo
  <1> QED BY <1>1, <1>6 DEF Read

LEMMA BlankRead == Read /\ Blank => Read'
  <1> SUFFICES ASSUME Read, Blank PROVE Read'
    OBVIOUS
  <1>1. /\ pc = "blank" /\ i <= Len(text) /\ i' = EndAt(text, i) + 1
        /\ UNCHANGED <<text, pc, tags>>
    BY DEF Blank, Advance, EndAt
  <1>2. /\ IsText(text) /\ Position(text, i) /\ Blanked(text, i, out)
        /\ out \in Seq(ToSet(text))
        /\ ~nonFWSSpace(text) /\ Walked(text, Len(text) + 2, tags)
    BY <1>1 DEF Read, ReadTo
  <1>3. i \in Starts(text)
    <2>1. Len(text) \in Nat
      BY <1>2 DEF IsText
    <2>2. i # Len(text) + 2
      BY <1>1, <2>1
    <2> QED BY <1>2, <2>2 DEF Position
  <1>4. out' = out \o Left(text, i) /\ out \o Left(text, i) \in Seq(ToSet(text))
    <2> DEFINE x == KeptOf(text, i)
               y == DelimOf(text, i)
    <2>1. out' = (out \o x) \o y
      BY DEF Blank, Segment, EndAt, KeptOf, DelimOf
    <2>2. x \in Seq(ToSet(text)) /\ y \in Seq(ToSet(text)) /\ out \in Seq(ToSet(text))
      BY <1>2, <1>3, LeftType
    <2>3. Left(text, i) = x \o y
      BY DEF Left
    <2> HIDE DEF x, y
    <2>4. (out \o x) \o y = out \o (x \o y) /\ x \o y \in Seq(ToSet(text))
          /\ out \o (x \o y) \in Seq(ToSet(text))
      BY <2>2, ConcatAssociative
    <2> QED BY <2>1, <2>3, <2>4
  <1>5. NamedOnce(text, { q \in Starts(text) : TagAt(text, q) })
    BY <1>2, WalkedAll DEF Walked
  <1>6. Blanked(text, EndAt(text, i) + 1, out \o Left(text, i))
    BY <1>1, <1>2, <1>3, <1>5, StepBlanked
  <1>7. Position(text, EndAt(text, i) + 1)
    BY <1>2, <1>3, NextStart DEF Position
  <1>8. ReadTo(text, "blank", EndAt(text, i) + 1, tags, out \o Left(text, i))
    BY <1>2, <1>4, <1>6, <1>7 DEF ReadTo
  <1> QED BY <1>1, <1>4, <1>8 DEF Read

LEMMA FinishRead == Read /\ Finish => Read'
  <1> SUFFICES ASSUME Read, Finish PROVE Read'
    OBVIOUS
  <1>1. pc = "blank" /\ i > Len(text) /\ pc' = "done" /\ UNCHANGED <<text, i, tags, out>>
    BY DEF Finish
  <1>2. /\ IsText(text) /\ Position(text, i) /\ Blanked(text, i, out)
        /\ ~nonFWSSpace(text) /\ Walked(text, Len(text) + 2, tags)
    BY <1>1 DEF Read, ReadTo
  <1> DEFINE n == Len(text) + 2
  <1>3. Len(text) \in Nat
    BY <1>2 DEF IsText
  <1>4. CASE i = n
    <2>1. ReadTo(text, "done", i, tags, out)
      BY <1>2, <1>4 DEF ReadTo
    <2> QED BY <1>1, <2>1 DEF Read
  <1>5. CASE i # n
    <2>1. i \in Starts(text) /\ i = Len(text) + 1
      <3>1. i \in Starts(text)
        BY <1>2, <1>5 DEF Position
      <3>2. i \in 1 .. (Len(text) + 1)
        BY <1>2, <3>1, StartRange
      <3> QED BY <1>1, <1>3, <3>1, <3>2
    <2>2. EndAt(text, i) = i
      <3>1. EndAt(text, i) \in i .. (Len(text) + 1)
        BY <1>2, <2>1, SegmentFacts
      <3> QED BY <1>3, <2>1, <3>1
    <2>3. ~TagAt(text, i)
      <3>1. TagAt(text, i) <=> \E r \in i .. (i - 1) : text[r] = "="
        BY <1>2, <2>1, <2>2, SegmentFacts
      <3>2. ~ \E r \in i .. (i - 1) : TRUE
        BY <1>3, <2>1
      <3> QED BY <3>1, <3>2
    <2>4. n = EndAt(text, i) + 1
      BY <1>3, <2>1, <2>2
    <2>5. TagsIn(text, n) = TagsIn(text, i)
      <3>1. Done(text, n) = Done(text, i) \cup {i}
        BY <1>2, <2>1, <2>4, NextStart
      <3> QED BY <2>3, <3>1 DEF TagsIn
    <2>6. Upto(text, n) = Upto(text, i)
      BY <1>3, <2>1 DEF Upto
    <2> HIDE DEF n
    <2>7. Blanked(text, n, out)
      BY <1>2, <2>5, <2>6 DEF Blanked
    <2>8. ReadTo(text, "done", i, tags, out)
      BY <1>2, <2>7 DEF ReadTo, n
    <2> QED BY <1>1, <2>8 DEF Read
  <1> QED BY <1>4, <1>5

LEMMA ReadStep == Fragmented /\ Read /\ [RecordNext]_recordVars => Read'
  <1> SUFFICES ASSUME Fragmented, Read, [RecordNext]_recordVars PROVE Read'
    OBVIOUS
  <1>1. CASE WriteChunk
    BY <1>1 DEF WriteChunk, vars, Read
  <1>2. CASE WriteFragment
    <2>1. /\ pc = "fragment" /\ pc' = "published" /\ UNCHANGED <<text, i, tags, out>>
      BY <1>2 DEF WriteFragment
    <2>2. ReadTo(text, "published", i, tags, out)
      BY <2>1 DEF Read, ReadTo
    <2> QED BY <2>1, <2>2 DEF Read
  <1>3. CASE Resolve
    <2>1. /\ pc = "published" /\ pc' = "strict" /\ UNCHANGED <<i, tags, out>>
          /\ text' = value /\ IsText(value)
      BY <1>3 DEF Resolve, Fragmented, ChunksCarryTheRecord
    <2>2. i = 1 /\ tags = <<>> /\ out = <<>>
      BY <2>1 DEF Read, ReadTo
    <2>3. Walked(value, 1, <<>>) /\ Position(value, 1)
      BY <2>1, WalkedNothing DEF Position, Starts
    <2>4. ReadTo(value, "strict", 1, <<>>, <<>>)
      BY <2>1, <2>3 DEF ReadTo
    <2> QED BY <2>1, <2>2, <2>4 DEF Read
  <1>4. CASE RefuseSpace
    <2>1. nonFWSSpace(text) /\ pc' = "refused" /\ UNCHANGED <<text, i, tags, out>>
      BY <1>4 DEF RefuseSpace
    <2>2. ~WellRead(text)
      BY <2>1 DEF WellRead
    <2>3. IsText(text)
      BY DEF Read, ReadTo
    <2>4. ReadTo(text, "refused", i, tags, out)
      BY <2>2, <2>3 DEF ReadTo
    <2> QED BY <2>1, <2>4 DEF Read
  <1>5. CASE IgnoreSegment
    BY <1>5, IgnoreSegmentRead
  <1>6. CASE RefuseSegment
    BY <1>6, RefuseSegmentRead
  <1>7. CASE TakeTag
    BY <1>7, TakeTagRead
  <1>8. CASE Accept
    BY <1>8, AcceptRead
  <1>9. CASE Blank
    BY <1>9, BlankRead
  <1>10. CASE Finish
    BY <1>10, FinishRead
  <1>11. CASE UNCHANGED recordVars
    BY <1>11 DEF recordVars, vars, Read
  <1> QED BY <1>1, <1>2, <1>3, <1>4, <1>5, <1>6, <1>7, <1>8, <1>9, <1>10, <1>11
          DEF RecordNext, Next

LEMMA ReadInvariance == RecordSpec => []Read
  BY InitRead, ReadStep, FragmentedInvariance, PTL DEF RecordSpec
-------------------------------------------------------------------------------
LEMMA BlankedAtTheEnd == Read => SignatureIsWhatIsBlanked
  <1> SUFFICES ASSUME Read, pc = "done"
               PROVE  IF << "b" >> \notin DOMAIN tags THEN out = text
                      ELSE \E p, q \in 0 .. Len(text) :
                              /\ p > 0 /\ text[p] = "="
                              /\ q = Len(text) \/ text[q + 1] = Semicolon
                              /\ TrimFWS(SubSeq(text, p + 1, q)) = tags[<< "b" >>]
                              /\ out = SubSeq(text, 1, p) \o SubSeq(text, q + 1, Len(text))
    BY DEF SignatureIsWhatIsBlanked
  <1> DEFINE n == Len(text) + 2
             T == TagsIn(text, n)
  <1>1. IsText(text) /\ Walked(text, n, tags) /\ Blanked(text, n, out)
    BY DEF Read, ReadTo
  <1>2. Len(text) \in Nat /\ text \in Seq(ToSet(text))
    BY <1>1 DEF IsText
  <1>3. DOMAIN tags = { KeyAt(text, p) : p \in T } /\ Upto(text, n) = Len(text)
    <2>1. DOMAIN tags = { KeyAt(text, p) : p \in TagsIn(text, n) }
      BY <1>1, WalkedDomain
    <2>2. Upto(text, n) = Len(text)
      BY <1>2 DEF Upto
    <2> QED BY <2>1, <2>2
  <1>4. \A p \in T : p \in Starts(text) /\ TagAt(text, p) /\ tags[KeyAt(text, p)] = ValueAt(text, p)
    BY <1>1 DEF TagsIn, Done, Walked
  <1> HIDE DEF n, T
  <1>5. CASE << "b" >> \notin DOMAIN tags
    <2>1. \A p \in T : KeyAt(text, p) # << "b" >>
      BY <1>3, <1>5
    <2>2. out = SubSeq(text, 1, Len(text))
      BY <1>1, <1>3, <2>1 DEF Blanked, T
    <2> QED BY <1>2, <1>5, <2>2, WholeStretch
  <1>6. CASE << "b" >> \in DOMAIN tags
    <2>1. PICK s \in T : KeyAt(text, s) = << "b" >>
      BY <1>3, <1>6
    <2> DEFINE p == EqualsAt(text, s)
               e == EndAt(text, s)
               q == e - 1
    <2>2. s \in Starts(text) /\ TagAt(text, s)
      BY <1>4
    <2>3. /\ p \in s .. (e - 1) /\ text[p] = "="
          /\ ValueAt(text, s) = TrimFWS(SubSeq(text, p + 1, e - 1))
      BY <1>1, <2>2, TagFacts
    <2>4. /\ e \in s .. (Len(text) + 1) /\ s \in 1 .. (Len(text) + 1)
          /\ (e <= Len(text) => text[e] = Semicolon)
      BY <1>1, <2>2, SegmentFacts, StartRange
    <2>5. out = SubSeq(text, 1, p) \o SubSeq(text, e, Len(text))
      BY <1>1, <1>3, <2>1 DEF Blanked, T
    <2>6. tags[<< "b" >>] = ValueAt(text, s)
      BY <1>4, <2>1
    <2> HIDE DEF p, e
    <2>7. /\ p \in 0 .. Len(text) /\ q \in 0 .. Len(text) /\ p > 0 /\ q + 1 = e
          /\ (q = Len(text) \/ text[q + 1] = Semicolon)
      BY <1>2, <2>3, <2>4
    <2>8. /\ TrimFWS(SubSeq(text, p + 1, q)) = tags[<< "b" >>]
          /\ out = SubSeq(text, 1, p) \o SubSeq(text, q + 1, Len(text))
      BY <2>3, <2>5, <2>6, <2>7
    <2> HIDE DEF q
    <2> QED BY <1>6, <2>3, <2>7, <2>8
  <1> QED BY <1>5, <1>6

(* What RemoveBValue leaves out of the hash is the value the parser took   *)
(* for the signature and nothing else, for every list the parser takes     *)
(* (canon.go:190-221).                                                     *)
THEOREM BlankedIsTheSignature == RecordSpec => []SignatureIsWhatIsBlanked
  BY BlankedAtTheEnd, ReadInvariance, PTL
-------------------------------------------------------------------------------
(* The characters that tell names, whitespace and delimiters apart. *)

LEMMA Characters ==
    /\ \A c \in Alpha \cup AlnumPunc : c \notin FWS /\ c # Semicolon /\ c # "="
    /\ \A c \in Unprintable : c \notin FWS
    /\ "=" \notin FWS /\ Semicolon \notin FWS /\ "=" # Semicolon
  <1>1. \A c \in Alpha \cup AlnumPunc : c \notin FWS /\ c # Semicolon /\ c # "="
    BY CharacterClasses, Zenon
  <1>2. \A c \in Unprintable : c \notin FWS
    BY CharacterClasses, Zenon
  <1>3. "=" # Semicolon
    BY Zenon DEF Semicolon
  <1>4. "=" \notin FWS
    BY Zenon DEF FWS, WSP, CRLF
  <1>5. Semicolon \notin FWS
    BY Zenon DEF FWS, WSP, CRLF, Semicolon
  <1> QED BY <1>1, <1>2, <1>3, <1>4, <1>5

LEMMA BlankIsSpace ==
    ASSUME NEW s, IsText(s), NEW p \in Starts(s)
    PROVE  /\ BlankAt(s, p) <=> AllIn(s, p, EndAt(s, p) - 1, FWS)
           /\ TagAt(s, p) => ~BlankAt(s, p)
  <1> DEFINE e == EndAt(s, p)
  <1>1. /\ e \in p .. (Len(s) + 1) /\ p \in 1 .. (Len(s) + 1) /\ Len(s) \in Nat
        /\ s \in Seq(ToSet(s)) /\ SegmentAt(s, p) = SubSeq(s, p, e - 1)
        /\ TagAt(s, p) <=> \E r \in p .. (e - 1) : s[r] = "="
    BY SegmentFacts, StartRange DEF IsText
  <1> HIDE DEF e
  <1>2. e - 1 \in (p - 1) .. Len(s) /\ p \in 1 .. (Len(s) + 1)
    BY <1>1
  <1>3. BlankAt(s, p) <=> Trim(SubSeq(s, p, e - 1), FWS) = <<>>
    BY <1>1 DEF BlankAt, TrimFWS
  <1>4. CASE AllIn(s, p, e - 1, FWS)
    <2>1. ~TagAt(s, p)
      BY <1>1, <1>4, Characters DEF AllIn
    <2>2. BlankAt(s, p)
      BY <1>2, <1>3, <1>4, TrimStretch
    <2> QED BY <1>4, <2>1, <2>2 DEF e
  <1>5. CASE ~AllIn(s, p, e - 1, FWS)
    <2> DEFINE last == e - 1
    <2>1. PICK a \in p .. last, z \in p .. last :
             /\ Trimmed(s, p, last, FWS, a, z)
             /\ Trim(SubSeq(s, p, last), FWS) = SubSeq(s, a, z)
      <3>1. IsText(s) /\ last \in (p - 1) .. Len(s) /\ p \in 1 .. (Len(s) + 1)
            /\ ~AllIn(s, p, last, FWS)
        BY <1>2, <1>5
      <3> HIDE DEF last
      <3> QED BY ONLY <3>1, TrimSolid
    <2>2. a \in Nat \ {0} /\ z \in 0 .. Len(s) /\ a <= z
      BY <1>1, <2>1 DEF Trimmed
    <2>3. Len(SubSeq(s, a, z)) = z - a + 1
      BY <1>1, <2>2, StretchType
    <2>4. z - a + 1 # 0
      BY <1>1, <2>2
    <2>5. SubSeq(s, a, z) # <<>>
      BY <2>3, <2>4
    <2> QED BY <1>3, <1>5, <2>1, <2>5 DEF e
  <1> QED BY <1>4, <1>5

(* A name stands in its segment with whitespace around it.                 *)
LEMMA NameStands ==
    ASSUME NEW s, IsText(s), NEW p \in Starts(s), TagAt(s, p), KeyAt(s, p) # <<>>
    PROVE  \E a, z \in p .. (EqualsAt(s, p) - 1) :
              /\ Trimmed(s, p, EqualsAt(s, p) - 1, FWS, a, z)
              /\ KeyAt(s, p) = SubSeq(s, a, z)
              /\ Len(KeyAt(s, p)) = z - a + 1 /\ a <= z
              /\ \A j \in 1 .. (z - a + 1) : KeyAt(s, p)[j] = s[a + j - 1]
              /\ KeyAt(s, p) \in Seq(ToSet(s))
  <1> DEFINE eq == EqualsAt(s, p)
             e == EndAt(s, p)
  <1>1. /\ eq \in p .. (e - 1) /\ KeyAt(s, p) = Trim(SubSeq(s, p, eq - 1), FWS)
        /\ e \in p .. (Len(s) + 1) /\ p \in 1 .. (Len(s) + 1) /\ Len(s) \in Nat
        /\ s \in Seq(ToSet(s))
    BY TagFacts, SegmentFacts, StartRange DEF TrimFWS, IsText
  <1> HIDE DEF eq, e
  <1>2. eq - 1 \in (p - 1) .. Len(s) /\ p \in 1 .. (Len(s) + 1)
    BY <1>1
  <1>3. ~AllIn(s, p, eq - 1, FWS)
    BY <1>1, <1>2, TrimStretch
  <1> DEFINE last == eq - 1
  <1>4. PICK a \in p .. last, z \in p .. last :
           /\ Trimmed(s, p, last, FWS, a, z)
           /\ Trim(SubSeq(s, p, last), FWS) = SubSeq(s, a, z)
    <2>1. IsText(s) /\ last \in (p - 1) .. Len(s) /\ p \in 1 .. (Len(s) + 1)
          /\ ~AllIn(s, p, last, FWS)
      BY <1>2, <1>3
    <2> HIDE DEF last
    <2> QED BY ONLY <2>1, TrimSolid
  <1>5. a \in Nat \ {0} /\ z \in 0 .. Len(s) /\ a <= z
    BY <1>1, <1>4 DEF Trimmed
  <1>6. /\ Len(SubSeq(s, a, z)) = z - a + 1 /\ SubSeq(s, a, z) \in Seq(ToSet(s))
        /\ \A j \in 1 .. (z - a + 1) : SubSeq(s, a, z)[j] = s[a + j - 1]
    BY <1>1, <1>5, StretchType
  <1> QED BY <1>1, <1>4, <1>5, <1>6 DEF eq

(* Every character stands in a segment or ends one.                        *)
LEMMA SegmentHolding ==
    ASSUME NEW s, IsText(s), NEW r \in 1 .. Len(s)
    PROVE  \E p \in Starts(s) : p <= r /\ r <= EndAt(s, p)
  <1> DEFINE B == { p \in Starts(s) : p <= r }
             p == Max(B)
  <1>1. Len(s) \in Nat /\ DOMAIN s = 1 .. Len(s)
    BY DEF IsText
  <1>2. \A q \in Starts(s) : q \in 1 .. (Len(s) + 1)
    BY StartRange
  <1>3. B \in SUBSET (0 .. Len(s)) /\ 1 \in B
    BY <1>1, <1>2 DEF Starts
  <1>4. \A m \in B : m \in Starts(s) /\ m <= r
    OBVIOUS
  <1>5. \A m \in Starts(s) : m <= r => m \in B
    OBVIOUS
  <1> HIDE DEF B
  <1>6. p \in B /\ \A m \in B : m <= p
    BY <1>1, <1>3, GreatestElement
  <1>7. p \in Starts(s) /\ p <= r
    BY <1>4, <1>6
  <1>8. EndAt(s, p) \in p .. (Len(s) + 1) /\ p \in 1 .. (Len(s) + 1)
    BY <1>2, <1>7, SegmentFacts
  <1>9. EndAt(s, p) + 1 \in Starts(s) \/ EndAt(s, p) + 1 = Len(s) + 2
    BY <1>7, NextStart
  <1> HIDE DEF p
  <1>10. r <= EndAt(s, p)
    <2> SUFFICES ASSUME EndAt(s, p) < r PROVE FALSE
      BY <1>1, <1>8
    <2>1. EndAt(s, p) + 1 <= r /\ EndAt(s, p) + 1 # Len(s) + 2 /\ ~(EndAt(s, p) + 1 <= p)
      BY <1>1, <1>8
    <2>2. EndAt(s, p) + 1 \in B
      BY <1>5, <1>9, <2>1
    <2> QED BY <1>6, <2>1, <2>2
  <1> QED BY <1>7, <1>10

LEMMA ReadersOfTheList == Read => ReadersAgree
  <1> DEFINE n == Len(text) + 2
             T == TagsIn(text, n)
             first == Min({ p \in DOMAIN text : text[p] \notin FWS \cup {Semicolon} })
             name == FirstTagName(text)
  <1> SUFFICES ASSUME Read, Accepted
               PROVE  /\ ParseTagList(text) = tags
                      /\ tags # <<>> =>
                            /\ name \in DOMAIN tags
                            /\ SubSeq(text, first, first + Len(name) - 1) = name
    BY DEF ReadersAgree
  <1>1. IsText(text) /\ Walked(text, n, tags)
    BY DEF Read, ReadTo, Accepted
  <1>2. Len(text) \in Nat /\ DOMAIN text = 1 .. Len(text)
    BY <1>1 DEF IsText
  <1>3. /\ T = { p \in Starts(text) : TagAt(text, p) } /\ Done(text, n) = Starts(text)
    BY <1>1, WalkedAll
  <1>4. \A p \in Starts(text) : p \in 1 .. (Len(text) + 1) /\ Sound(text, p)
    BY <1>1, <1>3, StartRange DEF Walked
  <1>5. \A p \in T : /\ KeyAt(text, p) # <<>> /\ KeyAt(text, p)[1] \in Alpha
                     /\ ToSet(KeyAt(text, p)) \subseteq Alpha \cup AlnumPunc
    BY <1>3, <1>4 DEF Sound, validTagName
  <1>6. \A p, q \in T : KeyAt(text, p) = KeyAt(text, q) => p = q
    BY <1>1 DEF Walked, NamedOnce
  <1> DEFINE K == { KeyAt(text, p) : p \in T }
  <1>7. tags = [k \in K |-> tags[k]] /\ \A p \in T : tags[KeyAt(text, p)] = ValueAt(text, p)
    BY <1>1 DEF Walked
  <1>8. DOMAIN tags = K
    BY <1>1, WalkedDomain
  <1>9. Tagged(text) = T
    BY <1>3, <1>5 DEF Tagged, TagAt, KeyAt
  <1> HIDE DEF T, n
  <1>10. ParseTagList(text) = tags
    <2> DEFINE named(k) == { p \in T : KeyAt(text, p) = k }
    <2>1. ParseTagList(text) = [k \in K |-> ValueAt(text, Max(named(k)))]
      BY <1>9 DEF ParseTagList, KeyAt, ValueAt
    <2>2. ASSUME NEW k \in K PROVE ValueAt(text, Max(named(k))) = tags[k]
      <3>1. PICK p \in T : KeyAt(text, p) = k
        OBVIOUS
      <3>2. named(k) = {p}
        BY <1>6, <3>1
      <3>3. p \in Nat
        BY <1>3, <1>4 DEF T
      <3>4. Max({p}) = p
        <4>1. {p} \in SUBSET (0 .. p) /\ {p} # {}
          BY <3>3
        <4>2. Max({p}) \in {p}
          BY <3>3, <4>1, GreatestElement
        <4> QED BY <4>2
      <3> HIDE DEF named
      <3> QED BY <1>7, <3>1, <3>2, <3>4
    <2> HIDE DEF K
    <2>3. [k \in K |-> ValueAt(text, Max(named(k)))] = [k \in K |-> tags[k]]
      BY <2>2
    <2> HIDE DEF named
    <2> QED BY <1>7, <2>1, <2>3
  <1>11. ASSUME tags # <<>>
         PROVE  name \in DOMAIN tags /\ SubSeq(text, first, first + Len(name) - 1) = name
    <2>1. T # {}
      <3>1. SUFFICES ASSUME T = {} PROVE FALSE
        OBVIOUS
      <3>2. K = {}
        BY <3>1
      <3> HIDE DEF K
      <3>3. tags = [k \in {} |-> tags[k]]
        BY <1>7, <3>2
      <3>4. [k \in {} |-> tags[k]] = <<>>
        OBVIOUS
      <3> QED BY <1>11, <3>3, <3>4
    <2> DEFINE solid == { p \in Starts(text) : TrimFWS(SegmentAt(text, p)) # <<>> }
    <2>2. \A p \in Starts(text) : TagAt(text, p) <=> ~BlankAt(text, p)
      BY <1>1, <1>4, BlankIsSpace DEF Sound
    <2>3. solid = T
      BY <1>3, <2>2 DEF BlankAt, T
    <2>4. T \in SUBSET Nat
      BY <1>3, <1>4 DEF T
    <2> DEFINE m == Min(T)
    <2>5. m \in T /\ \A q \in T : m <= q
      BY <2>1, <2>4, SmallestElement
    <2>6. m \in Starts(text) /\ TagAt(text, m) /\ m \in 1 .. (Len(text) + 1)
      BY <1>3, <1>4, <2>5 DEF T
    <2>7. name = KeyAt(text, m)
      BY <2>1, <2>3, <2>6 DEF FirstTagName, TagAt, KeyAt
    <2> HIDE DEF name, first, m
    <2>8. name \in DOMAIN tags
      BY <1>8, <2>5, <2>7
    <2>9. PICK a \in m .. (EqualsAt(text, m) - 1), z \in m .. (EqualsAt(text, m) - 1) :
             /\ Trimmed(text, m, EqualsAt(text, m) - 1, FWS, a, z)
             /\ name = SubSeq(text, a, z) /\ Len(name) = z - a + 1 /\ a <= z
             /\ \A j \in 1 .. (z - a + 1) : name[j] = text[a + j - 1]
      BY <1>1, <1>5, <2>5, <2>6, <2>7, NameStands
    <2> DEFINE e == EndAt(text, m)
    <2>10. /\ EqualsAt(text, m) \in m .. (e - 1) /\ e \in m .. (Len(text) + 1)
      BY <1>1, <2>6, TagFacts, SegmentFacts
    <2>11. a \in 1 .. Len(text) /\ z \in 1 .. Len(text) /\ a >= m
      BY <1>2, <2>6, <2>9, <2>10
    <2>12. text[a] \notin FWS \cup {Semicolon}
      <3>1. name[1] \in Alpha
        BY <1>5, <2>5, <2>7
      <3>2. 1 \in 1 .. (z - a + 1) /\ a + 1 - 1 = a
        BY <2>9, <2>11
      <3>3. text[a] \in Alpha
        BY <2>9, <3>1, <3>2
      <3> QED BY <3>3, Characters
    <2>13. ASSUME NEW r \in 1 .. Len(text), r < a PROVE text[r] \in FWS \cup {Semicolon}
      <3>1. PICK p \in Starts(text) : p <= r /\ r <= EndAt(text, p)
        BY <1>1, SegmentHolding
      <3>2. p \in 1 .. (Len(text) + 1) /\ EndAt(text, p) \in p .. (Len(text) + 1)
            /\ (EndAt(text, p) <= Len(text) => text[EndAt(text, p)] = Semicolon)
        BY <1>1, <1>4, <3>1, SegmentFacts
      <3>3. CASE r = EndAt(text, p)
        BY <3>2, <3>3
      <3>4. CASE r # EndAt(text, p) /\ BlankAt(text, p)
        <4>1. AllIn(text, p, EndAt(text, p) - 1, FWS)
          BY <1>1, <3>1, <3>4, BlankIsSpace
        <4>2. r \in p .. (EndAt(text, p) - 1)
          BY <3>1, <3>2, <3>4
        <4> QED BY <4>1, <4>2 DEF AllIn
      <3>5. CASE r # EndAt(text, p) /\ ~BlankAt(text, p)
        <4>1. p \in T
          BY <1>3, <2>2, <3>1, <3>5 DEF T
        <4>2. m <= p
          BY <2>5, <4>1
        <4>3. p = m
          <5>1. CASE p # m
            <6>1. m < p
              BY <2>6, <3>2, <4>2, <5>1
            <6>2. EndAt(text, m) < p
              BY <1>1, <2>6, <3>1, <6>1, NextStart
            <6>3. a < EndAt(text, m)
              BY <2>9, <2>10, <2>11
            <6> QED BY <2>10, <2>11, <2>13, <3>1, <3>2, <6>2, <6>3
          <5> QED BY <5>1
        <4>4. r \in m .. (a - 1)
          BY <2>11, <2>13, <3>1, <4>3
        <4> QED BY <2>9, <4>4 DEF Trimmed, AllIn
      <3> QED BY <3>3, <3>4, <3>5
    <2>14. first = a
      <3> DEFINE F == { p \in DOMAIN text : text[p] \notin FWS \cup {Semicolon} }
      <3>1. F \in SUBSET Nat /\ a \in F
        BY <1>2, <2>11, <2>12
      <3>2. \A f \in F : f \in 1 .. Len(text) /\ ~(f < a)
        BY <1>2, <2>13
      <3>3. first = Min(F)
        BY DEF first
      <3> HIDE DEF F
      <3>4. first \in F /\ \A f \in F : first <= f
        BY <3>1, <3>3, SmallestElement
      <3>5. first <= a /\ ~(first < a) /\ first \in 1 .. Len(text)
        BY <3>1, <3>2, <3>4
      <3> QED BY <2>11, <3>5
    <2>15. first + Len(name) - 1 = z
      BY <2>9, <2>11, <2>14
    <2> QED BY <2>8, <2>9, <2>14, <2>15
  <1> QED BY <1>10, <1>11

(* A caller of the lenient parser gets from an accepted list the tags      *)
(* verification saw, and the name the version test of a key record finds   *)
(* is a tag's and opens the list (grammar.go:12-29, 271-289;               *)
(* keyrecord.go:78).                                                       *)
THEOREM ReadersSeeTheSame == RecordSpec => []ReadersAgree
  BY ReadersOfTheList, ReadInvariance, PTL
-------------------------------------------------------------------------------
(* The grammar. *)

LEMMA StretchSet ==
    ASSUME NEW s, IsText(s), NEW a \in Nat \ {0}, NEW b \in 0 .. Len(s)
    PROVE  ToSet(SubSeq(s, a, b)) = { s[r] : r \in a .. b }
  <1> DEFINE t == SubSeq(s, a, b)
  <1>1. Len(s) \in Nat /\ s \in Seq(ToSet(s))
    BY DEF IsText
  <1>2. /\ t \in Seq(ToSet(s)) /\ Len(t) = (IF a <= b THEN b - a + 1 ELSE 0)
        /\ \A j \in 1 .. (b - a + 1) : t[j] = s[a + j - 1]
    BY <1>1, StretchType
  <1> HIDE DEF t
  <1>3. DOMAIN t = 1 .. (b - a + 1)
    <2>1. Len(t) \in Nat /\ DOMAIN t = 1 .. Len(t)
      BY <1>2
    <2>2. 1 .. (IF a <= b THEN b - a + 1 ELSE 0) = 1 .. (b - a + 1)
      OBVIOUS
    <2> QED BY <1>2, <2>1, <2>2
  <1>4. ASSUME NEW j \in 1 .. (b - a + 1) PROVE \E r \in a .. b : t[j] = s[r]
    <2>1. a + j - 1 \in a .. b
      OBVIOUS
    <2> QED BY <1>2, <2>1
  <1>5. ASSUME NEW r \in a .. b PROVE \E j \in 1 .. (b - a + 1) : s[r] = t[j]
    <2>1. r - a + 1 \in 1 .. (b - a + 1) /\ a + (r - a + 1) - 1 = r
      OBVIOUS
    <2> QED BY <1>2, <2>1
  <1>6. ToSet(t) = { t[j] : j \in 1 .. (b - a + 1) }
    BY <1>3 DEF ToSet
  <1> DEFINE A == { t[j] : j \in 1 .. (b - a + 1) }
             R == { s[r] : r \in a .. b }
  <1>7. \A x \in A : x \in R
    BY <1>4
  <1>8. \A x \in R : x \in A
    BY <1>5
  <1>9. ToSet(t) = A
    BY <1>6
  <1> HIDE DEF A, R
  <1>10. A = R
    BY <1>7, <1>8
  <1> QED BY <1>9, <1>10 DEF t, R

(* A value holds an unprintable character just if its stretch does.        *)
LEMMA ValueCharacters ==
    ASSUME NEW s, IsText(s), NEW p \in Starts(s), TagAt(s, p)
    PROVE  validTagValue(ValueAt(s, p)) <=>
              \A r \in (EqualsAt(s, p) + 1) .. (EndAt(s, p) - 1) : s[r] \notin Unprintable
  <1> DEFINE e == EndAt(s, p)
             b == EqualsAt(s, p) + 1
  <1>1. /\ b \in (p + 1) .. e /\ ValueAt(s, p) = Trim(SubSeq(s, b, e - 1), FWS)
        /\ e \in p .. (Len(s) + 1) /\ p \in 1 .. (Len(s) + 1) /\ Len(s) \in Nat
    <2>1. /\ EqualsAt(s, p) \in p .. (e - 1)
          /\ ValueAt(s, p) = TrimFWS(SubSeq(s, b, e - 1))
      BY TagFacts
    <2>2. e \in p .. (Len(s) + 1) /\ p \in 1 .. (Len(s) + 1) /\ Len(s) \in Nat
      BY SegmentFacts, StartRange
    <2> QED BY <2>1, <2>2 DEF TrimFWS
  <1> HIDE DEF b, e
  <1>2. b \in 1 .. (Len(s) + 1) /\ e - 1 \in (b - 1) .. Len(s)
    BY <1>1
  <1>3. CASE AllIn(s, b, e - 1, FWS)
    <2>1. ValueAt(s, p) = <<>>
      BY <1>1, <1>2, <1>3, TrimStretch
    <2>2. ToSet(<<>>) = {}
      BY DEF ToSet
    <2>3. validTagValue(ValueAt(s, p))
      BY <2>1, <2>2 DEF validTagValue
    <2>4. \A r \in b .. (e - 1) : s[r] \notin Unprintable
      BY <1>3, Characters DEF AllIn
    <2> QED BY <2>3, <2>4 DEF b, e
  <1>4. CASE ~AllIn(s, b, e - 1, FWS)
    <2> DEFINE q == e - 1
    <2> HIDE DEF q
    <2>0. b \in 1 .. (Len(s) + 1) /\ q \in (b - 1) .. Len(s) /\ ~AllIn(s, b, q, FWS)
      BY <1>2, <1>4 DEF q
    <2>1. PICK a \in b .. q, z \in b .. q :
             /\ Trimmed(s, b, q, FWS, a, z)
             /\ Trim(SubSeq(s, b, q), FWS) = SubSeq(s, a, z)
      BY <2>0, TrimStretch
    <2> USE DEF q
    <2>2. a \in Nat \ {0} /\ z \in 0 .. Len(s)
      BY <1>1, <1>2, <2>1
    <2>3. ToSet(ValueAt(s, p)) = { s[r] : r \in a .. z }
      BY <1>1, <2>1, <2>2, StretchSet
    <2>4. /\ \A r \in b .. (a - 1) : s[r] \in FWS
          /\ \A r \in (z + 1) .. (e - 1) : s[r] \in FWS
      BY <2>1 DEF Trimmed, AllIn
    <2>5. \A r \in b .. (e - 1) :
             r \in a .. z \/ r \in b .. (a - 1) \/ r \in (z + 1) .. (e - 1)
      BY <1>1, <2>1
    <2>6. \A r \in a .. z : r \in b .. (e - 1)
      BY <1>1, <2>1
    <2>7. validTagValue(ValueAt(s, p)) <=> \A r \in a .. z : s[r] \notin Unprintable
      BY <2>3 DEF validTagValue
    <2>8. (\A r \in a .. z : s[r] \notin Unprintable)
             <=> \A r \in b .. (e - 1) : s[r] \notin Unprintable
      BY <2>4, <2>5, <2>6, Characters
    <2> QED BY <2>7, <2>8 DEF b, e
  <1> QED BY <1>3, <1>4

GoodTag(s, p) == TagAt(s, p) /\ validTagName(KeyAt(s, p)) /\ validTagValue(ValueAt(s, p))

(* A name the grammar gives a segment is the key the parser takes.         *)
LEMMA GrammarName ==
    ASSUME IsText(text), NEW p \in Starts(text), NEW name \in NamesIn(p, EndAt(text, p) - 1)
    PROVE  GoodTag(text, p) /\ KeyAt(text, p) = name
  <1> DEFINE e == EndAt(text, p)
             q == e - 1
             eq == EqualsAt(text, p)
             S == ToSet(text)
  <1>1. /\ e \in p .. (Len(text) + 1) /\ p \in 1 .. (Len(text) + 1) /\ Len(text) \in Nat
        /\ text \in Seq(S)
        /\ TagAt(text, p) <=> \E r \in p .. (e - 1) : text[r] = "="
    BY SegmentFacts, StartRange DEF IsText
  <1>2. /\ name # <<>> /\ IsTagSpec(p, q, name)
        /\ \E b \in p .. q, d \in p .. q : name = SubSeq(text, b, d)
    BY DEF NamesIn
  <1>3. PICK a \in p .. q, w \in p .. q :
           LET z == a + Len(name) - 1 IN
           /\ z < w /\ text[w] = "="
           /\ IsSpace(p, a - 1) /\ SubSeq(text, a, z) = name /\ IsSpace(z + 1, w - 1)
           /\ text[a] \in Alpha
           /\ \A r \in a .. z : text[r] \in Alpha \cup AlnumPunc
           /\ \A r \in (w + 1) .. q : text[r] \notin Unprintable
    BY <1>2 DEF IsTagSpec
  <1> DEFINE z == a + Len(name) - 1
  <1> HIDE DEF e, eq, S
  <1>4. Len(name) \in Nat \ {0}
    <2>1. PICK b \in p .. q, d \in p .. q : name = SubSeq(text, b, d)
      BY <1>2
    <2>2. b \in Nat \ {0} /\ d \in 0 .. Len(text)
      BY <1>1
    <2>3. name \in Seq(S)
      BY <1>1, <2>1, <2>2, StretchType
    <2> QED BY <1>2, <2>3
  <1>5. /\ z \in a .. (w - 1) /\ text[w] = "=" /\ SubSeq(text, a, z) = name
        /\ (\A r \in p .. (a - 1) : text[r] \in FWS)
        /\ (\A r \in (z + 1) .. (w - 1) : text[r] \in FWS)
        /\ text[a] \in Alpha /\ (\A r \in a .. z : text[r] \in Alpha \cup AlnumPunc)
        /\ \A r \in (w + 1) .. q : text[r] \notin Unprintable
    <2>1. z \in a .. (w - 1)
      BY <1>1, <1>3, <1>4
    <2> QED BY <1>3, <2>1 DEF IsSpace
  <1> HIDE DEF z
  <1>6. TagAt(text, p)
    BY <1>1, <1>5
  <1>7. /\ eq \in p .. (e - 1) /\ text[eq] = "=" /\ \A r \in p .. (eq - 1) : text[r] # "="
        /\ KeyAt(text, p) = TrimFWS(SubSeq(text, p, eq - 1))
    BY <1>6, TagFacts DEF eq, e
  <1>8. \A r \in p .. (w - 1) : text[r] # "="
    <2>1. \A r \in p .. (w - 1) :
             r \in p .. (a - 1) \/ r \in a .. z \/ r \in (z + 1) .. (w - 1)
      BY <1>1, <1>5
    <2> QED BY <1>5, <2>1, Characters
  <1>9. eq = w
    <2>1. ~(eq < w)
      BY <1>1, <1>7, <1>8
    <2>2. ~(w < eq)
      BY <1>1, <1>5, <1>7
    <2> QED BY <1>1, <1>7, <2>1, <2>2
  <1>10. Trimmed(text, p, w - 1, FWS, a, z)
    <2>1. z \in a .. z /\ a \in a .. z /\ a \in p .. (w - 1)
      BY <1>1, <1>5
    <2>2. text[a] \notin FWS /\ text[z] \notin FWS
      BY <1>5, <2>1, Characters
    <2> QED BY <1>5, <2>1, <2>2 DEF Trimmed, AllIn
  <1>11. KeyAt(text, p) = name
    <2>1. p \in 1 .. (Len(text) + 1) /\ w - 1 \in (p - 1) .. Len(text)
      BY <1>1
    <2>2. Trim(SubSeq(text, p, w - 1), FWS) = SubSeq(text, a, z)
      BY <1>10, <2>1, TrimIs
    <2> QED BY <1>5, <1>7, <1>9, <2>2 DEF TrimFWS
  <1>12. a \in Nat \ {0} /\ z \in 0 .. Len(text) /\ a <= z
    BY <1>1, <1>5
  <1>13. validTagName(name)
    <2>1. ToSet(name) = { text[r] : r \in a .. z }
      BY <1>5, <1>12, StretchSet
    <2>2. name[1] = text[a]
      <3>1. \A j \in 1 .. (z - a + 1) : SubSeq(text, a, z)[j] = text[a + j - 1]
        BY <1>1, <1>12, StretchType
      <3>2. 1 \in 1 .. (z - a + 1) /\ a + 1 - 1 = a
        BY <1>12
      <3> QED BY <1>5, <3>1, <3>2
    <2>3. ToSet(name) \subseteq Alpha \cup AlnumPunc
      BY <1>5, <2>1
    <2> QED BY <1>2, <1>5, <2>2, <2>3 DEF validTagName
  <1>14. validTagValue(ValueAt(text, p))
    <2>1. \A r \in (eq + 1) .. (e - 1) : text[r] \notin Unprintable
      BY <1>5, <1>9
    <2> QED BY <1>6, <2>1, ValueCharacters DEF eq, e
  <1> QED BY <1>6, <1>11, <1>13, <1>14 DEF GoodTag

(* The key of a tag the parser takes is a name of the grammar.             *)
LEMMA ParsedName ==
    ASSUME IsText(text), NEW p \in Starts(text), GoodTag(text, p)
    PROVE  KeyAt(text, p) \in NamesIn(p, EndAt(text, p) - 1)
  <1> DEFINE e == EndAt(text, p)
             q == e - 1
             eq == EqualsAt(text, p)
             name == KeyAt(text, p)
  <1>1. TagAt(text, p) /\ validTagName(name) /\ validTagValue(ValueAt(text, p))
    BY DEF GoodTag
  <1>2. /\ name # <<>> /\ name[1] \in Alpha /\ ToSet(name) \subseteq Alpha \cup AlnumPunc
    BY <1>1 DEF validTagName
  <1>3. /\ e \in p .. (Len(text) + 1) /\ p \in 1 .. (Len(text) + 1) /\ Len(text) \in Nat
        /\ eq \in p .. (e - 1) /\ text[eq] = "="
    BY <1>1, SegmentFacts, StartRange, TagFacts
  <1>4. PICK a \in p .. (eq - 1), z \in p .. (eq - 1) :
           /\ Trimmed(text, p, eq - 1, FWS, a, z)
           /\ name = SubSeq(text, a, z)
           /\ Len(name) = z - a + 1 /\ a <= z
           /\ \A j \in 1 .. (z - a + 1) : name[j] = text[a + j - 1]
    BY <1>1, <1>2, NameStands
  <1>5. \A r \in (eq + 1) .. (e - 1) : text[r] \notin Unprintable
    BY <1>1, ValueCharacters
  <1> HIDE DEF e, eq, name
  <1>6. /\ a \in p .. q /\ z \in p .. q /\ eq \in p .. q /\ a + Len(name) - 1 = z /\ z < eq
        /\ a \in Nat \ {0} /\ z \in 0 .. Len(text)
    BY <1>3, <1>4
  <1>7. IsSpace(p, a - 1) /\ IsSpace(z + 1, eq - 1)
    BY <1>4 DEF Trimmed, AllIn, IsSpace
  <1>8. text[a] \in Alpha
    <2>1. 1 \in 1 .. (z - a + 1) /\ a + 1 - 1 = a
      BY <1>4, <1>6
    <2> QED BY <1>2, <1>4, <2>1
  <1>9. \A r \in a .. z : text[r] \in Alpha \cup AlnumPunc
    <2>1. ToSet(name) = { text[r] : r \in a .. z }
      BY <1>4, <1>6, StretchSet
    <2> QED BY <1>2, <2>1
  <1>10. IsTagSpec(p, q, name)
    BY <1>3, <1>4, <1>5, <1>6, <1>7, <1>8, <1>9 DEF IsTagSpec
  <1>11. name \in { SubSeq(text, b, d) : b, d \in p .. q } \ {<<>>}
    BY <1>2, <1>4, <1>6
  <1> HIDE DEF q
  <1>12. name \in NamesIn(p, q)
    BY <1>10, <1>11 DEF NamesIn
  <1> QED BY <1>12 DEF name, q, e

LEMMA GrammarOfSegment ==
    ASSUME IsText(text), NEW p \in Starts(text)
    PROVE  /\ NamesIn(p, EndAt(text, p) - 1) =
                 IF GoodTag(text, p) THEN {KeyAt(text, p)} ELSE {}
           /\ IsSpace(p, EndAt(text, p) - 1) <=> BlankAt(text, p)
           /\ Sound(text, p) <=> (\/ IsSpace(p, EndAt(text, p) - 1)
                                  \/ NamesIn(p, EndAt(text, p) - 1) # {})
  <1> DEFINE N == NamesIn(p, EndAt(text, p) - 1)
  <1>1. \A name \in N : GoodTag(text, p) /\ KeyAt(text, p) = name
    BY GrammarName
  <1>2. GoodTag(text, p) => KeyAt(text, p) \in N
    BY ParsedName
  <1> HIDE DEF N
  <1>3. N = IF GoodTag(text, p) THEN {KeyAt(text, p)} ELSE {}
    BY <1>1, <1>2
  <1>4. IsSpace(p, EndAt(text, p) - 1) <=> BlankAt(text, p)
    BY BlankIsSpace DEF IsSpace, AllIn
  <1>5. Sound(text, p) <=> BlankAt(text, p) \/ N # {}
    BY <1>3, BlankIsSpace DEF Sound, GoodTag
  <1> QED BY <1>3, <1>4, <1>5 DEF N

LEMMA GrammarOfList ==
    ASSUME IsText(text)
    PROVE  WellFormed <=> WellRead(text)
  <1> DEFINE N(p) == NamesIn(p, EndAt(text, p) - 1)
             P == Starts(text)
  <1>1. (\A p \in DOMAIN text : text[p] \notin OtherSpace) <=> ~nonFWSSpace(text)
    BY DEF nonFWSSpace, ToSet
  <1>2. \A p \in P : Sound(text, p) <=> (IsSpace(p, EndAt(text, p) - 1) \/ N(p) # {})
    BY GrammarOfSegment
  <1>3. \A p \in P : N(p) = IF GoodTag(text, p) THEN {KeyAt(text, p)} ELSE {}
    BY GrammarOfSegment
  <1>4. WellFormed <=>
           /\ \A p \in DOMAIN text : text[p] \notin OtherSpace
           /\ \A p \in P : IsSpace(p, EndAt(text, p) - 1) \/ N(p) # {}
           /\ \A p, q \in P : p # q => N(p) \cap N(q) = {}
    BY DEF WellFormed, EndAt
  <1>5. ASSUME \A p \in P : Sound(text, p)
        PROVE  (\A p, q \in P : p # q => N(p) \cap N(q) = {})
                  <=> NamedOnce(text, { p \in P : TagAt(text, p) })
    <2>1. \A p \in P : TagAt(text, p) <=> GoodTag(text, p)
      BY <1>5 DEF Sound, GoodTag
    <2> HIDE DEF N, P
    <2>2. ASSUME \A p, q \in P : p # q => N(p) \cap N(q) = {},
                 NEW p \in P, NEW q \in P, TagAt(text, p), TagAt(text, q),
                 KeyAt(text, p) = KeyAt(text, q)
          PROVE  p = q
      <3>1. KeyAt(text, p) \in N(p) /\ KeyAt(text, p) \in N(q)
        BY <1>3, <2>1, <2>2
      <3> QED BY <2>2, <3>1
    <2>3. ASSUME NamedOnce(text, { p \in P : TagAt(text, p) }),
                 NEW p \in P, NEW q \in P, p # q, NEW name \in N(p) \cap N(q)
          PROVE  FALSE
      <3>1. /\ GoodTag(text, p) /\ KeyAt(text, p) = name
            /\ GoodTag(text, q) /\ KeyAt(text, q) = name
        BY <1>3, <2>3
      <3>2. TagAt(text, p) /\ TagAt(text, q)
        BY <2>1, <3>1
      <3> QED BY <2>3, <3>1, <3>2 DEF NamedOnce
    <2> QED BY <2>2, <2>3 DEF NamedOnce
  <1> HIDE DEF N
  <1>6. WellRead(text) <=>
           /\ ~nonFWSSpace(text) /\ (\A p \in P : Sound(text, p))
           /\ NamedOnce(text, { p \in P : TagAt(text, p) })
    BY DEF WellRead
  <1> HIDE DEF P
  <1> QED BY <1>1, <1>2, <1>4, <1>5, <1>6

LEMMA TakenByTheGrammar == Read => AcceptsTheGrammar
  <1> SUFFICES ASSUME Read PROVE AcceptsTheGrammar
    OBVIOUS
  <1>1. IsText(text)
    BY DEF Read, ReadTo
  <1>2. WellFormed <=> WellRead(text)
    BY <1>1, GrammarOfList
  <1>3. pc = "refused" => ~WellFormed
    BY <1>2 DEF Read, ReadTo
  <1>4. ASSUME Accepted
        PROVE  /\ WellFormed
               /\ DOMAIN tags = UNION { NamesIn(p, IndexFrom(text, p, Semicolon) - 1) :
                                          p \in Starts(text) }
    <2> DEFINE n == Len(text) + 2
               T == { p \in Starts(text) : TagAt(text, p) }
               N(p) == NamesIn(p, EndAt(text, p) - 1)
    <2>1. ~nonFWSSpace(text) /\ Walked(text, n, tags)
      BY <1>4 DEF Read, ReadTo, Accepted
    <2>2. Done(text, n) = Starts(text) /\ TagsIn(text, n) = T
      BY <1>1, WalkedAll
    <2>3. WellRead(text)
      BY <2>1, <2>2 DEF WellRead, Walked
    <2>4. DOMAIN tags = { KeyAt(text, p) : p \in T }
      BY <2>1, <2>2, WalkedDomain
    <2>5. \A p \in Starts(text) : N(p) = IF TagAt(text, p) THEN {KeyAt(text, p)} ELSE {}
      <3>1. \A p \in Starts(text) : TagAt(text, p) <=> GoodTag(text, p)
        BY <2>3 DEF WellRead, Sound, GoodTag
      <3> QED BY <1>1, <3>1, GrammarOfSegment
    <2> HIDE DEF N
    <2>6. DOMAIN tags = UNION { N(p) : p \in Starts(text) }
      BY <2>4, <2>5
    <2> QED BY <1>2, <2>3, <2>6 DEF N, EndAt
  <1> QED BY <1>3, <1>4 DEF AcceptsTheGrammar

(* The strict parser takes exactly the lists of the grammar, and reads a   *)
(* tag for each name in them (grammar.go:31-56).                           *)
THEOREM ParserIsTheGrammar == RecordSpec => []AcceptsTheGrammar
  BY TakenByTheGrammar, ReadInvariance, PTL
-------------------------------------------------------------------------------
(* Base64. *)

LEMMA StripType ==
    ASSUME NEW v, IsText(v)
    PROVE  IsText(StripWSP(v))
  <1> DEFINE parts == [p \in DOMAIN v |-> IF v[p] \in FWS THEN <<>> ELSE << v[p] >>]
             S == ToSet(v)
  <1>1. Len(v) \in Nat /\ DOMAIN v = 1 .. Len(v)
    BY DEF IsText
  <1>2. \A p \in DOMAIN v : v[p] \in S
    BY DEF ToSet
  <1> HIDE DEF S
  <1>3. parts \in [1 .. Len(v) -> Seq(S)]
    BY <1>1, <1>2
  <1> HIDE DEF parts
  <1>4. FlattenSeq(parts) \in Seq(S)
    BY <1>1, <1>3, FlattenType
  <1>5. StripWSP(v) = FlattenSeq(parts)
    BY DEF StripWSP, parts
  <1> QED BY <1>4, <1>5, TextOf

LEMMA FullGroups ==
    ASSUME NEW n \in Nat, n % 4 = 0, NEW z \in 0 .. n, n - z <= 2
    PROVE  z % 4 # 1
  OBVIOUS

LEMMA FullGroup ==
    ASSUME NEW n \in Nat, n % 4 = 0, n <= 2
    PROVE  n = 0
  OBVIOUS

(* The characters in front of the padding of solid are base64, and only    *)
(* padding is behind them.                                                 *)
Proper(s, run, z) ==
    /\ run = SubSeq(s, 1, z)
    /\ \A p \in (z + 1) .. Len(s) : s[p] = "="
    /\ \A p \in 1 .. z : s[p] \in DOMAIN Sextet

LEMMA ProperOnce ==
    ASSUME NEW s, IsText(s), NEW run, NEW z \in 0 .. Len(s), Proper(s, run, z)
    PROVE  IndexFrom(s, 1, "=") = z + 1
  <1> DEFINE e == IndexFrom(s, 1, "=")
  <1>1. Len(s) \in Nat
    BY DEF IsText
  <1>2. 1 \in 1 .. (Len(s) + 1)
    BY <1>1
  <1>3. /\ e \in 1 .. (Len(s) + 1) /\ (e <= Len(s) => s[e] = "=")
        /\ \A p \in 1 .. (e - 1) : s[p] # "="
    BY <1>2, IndexFacts
  <1>4. /\ \A p \in (z + 1) .. Len(s) : s[p] = "="
        /\ \A p \in 1 .. z : s[p] # "="
    BY PaddingIsNoSextet DEF Proper
  <1> HIDE DEF e
  <1>5. ~(e < z + 1)
    BY <1>1, <1>3, <1>4
  <1>6. ~(z + 1 < e)
    <2> SUFFICES ASSUME z + 1 < e PROVE FALSE
      OBVIOUS
    <2>1. z + 1 \in 1 .. (e - 1) /\ z + 1 \in (z + 1) .. Len(s)
      BY <1>1, <1>3
    <2> QED BY <1>3, <1>4, <2>1
  <1> QED BY <1>1, <1>3, <1>5, <1>6 DEF e

LEMMA StdIsProper ==
    ASSUME NEW s, IsText(s), StdDecode(s).ok
    PROVE  \E z \in 0 .. Len(s) :
              /\ Proper(s, SubSeq(s, 1, z), z) /\ z % 4 # 1
              /\ StdDecode(s) = [ok |-> TRUE, octets |-> Octets(SubSeq(s, 1, z))]
  <1> DEFINE run == Trim(s, {"="})
             n == Len(s)
  <1>1. n \in Nat /\ s \in Seq(ToSet(s))
    BY DEF IsText
  <1>2. /\ n % 4 = 0 /\ n - Len(run) <= 2 /\ IsPrefix(run, s) /\ ToSet(run) \subseteq DOMAIN Sextet
        /\ StdDecode(s) = [ok |-> TRUE, octets |-> Octets(run)]
    <2> DEFINE C == /\ n % 4 = 0 /\ n - Len(run) <= 2
                    /\ IsPrefix(run, s) /\ ToSet(run) \subseteq DOMAIN Sextet
               R == [ok |-> TRUE, octets |-> Octets(run)]
    <2>1. StdDecode(s) = IF C THEN R ELSE Refused
      BY DEF StdDecode
    <2>2. Refused.ok = FALSE
      BY DEF Refused
    <2> HIDE DEF R
    <2>3. C
      BY <2>1, <2>2
    <2> QED BY <2>1, <2>3 DEF R
  <1> HIDE DEF n
  <1>3. CASE AllIn(s, 1, Len(s), {"="})
    <2>1. run = <<>>
      BY <1>3, TrimOf
    <2>2. n = 0
      <3>1. Len(run) = 0
        BY <2>1
      <3> HIDE DEF run
      <3>2. n <= 2
        BY <1>1, <1>2, <3>1
      <3> QED BY <1>1, <1>2, <3>2, FullGroup
    <2>3. SubSeq(s, 1, 0) = <<>> /\ 0 % 4 # 1 /\ 0 \in 0 .. Len(s)
      BY <1>1, SubSeqEmpty DEF n
    <2>4. Proper(s, SubSeq(s, 1, 0), 0)
      BY <2>2 DEF Proper, n
    <2> QED BY <1>2, <2>1, <2>3, <2>4
  <1>4. CASE ~AllIn(s, 1, Len(s), {"="})
    <2>1. PICK a \in 1 .. Len(s), z \in 1 .. Len(s) :
             Trimmed(s, 1, Len(s), {"="}, a, z) /\ run = SubSeq(s, a, z)
      BY <1>4, TrimOf
    <2>2. /\ a <= z /\ s[a] # "=" /\ (\A p \in (z + 1) .. n : s[p] = "=")
          /\ \A p \in 1 .. (a - 1) : s[p] = "="
      BY <2>1 DEF Trimmed, AllIn, n
    <2>3. a \in Nat \ {0} /\ z \in 0 .. Len(s) /\ z \in 1 .. n
      BY <1>1, <2>1 DEF n
    <2> HIDE DEF run
    <2>4. /\ Len(run) = z - a + 1 /\ run \in Seq(ToSet(s))
          /\ \A j \in 1 .. (z - a + 1) : run[j] = s[a + j - 1]
      BY <1>1, <2>1, <2>2, <2>3, StretchType
    <2>5. a = 1
      <3>1. z - a + 1 \in 0 .. n /\ 1 \in 1 .. (z - a + 1) /\ a + 1 - 1 = a
        BY <1>1, <2>2, <2>3
      <3>2. run[1] = s[a]
        BY <2>4, <3>1
      <3> DEFINE l == Len(run)
                 u == SubSeq(run, 1, l)
                 v == SubSeq(s, 1, l)
      <3>3. u = v
        BY <1>2 DEF IsPrefix
      <3>4. l \in 0 .. Len(run) /\ l \in 0 .. Len(s) /\ 1 \in Nat \ {0} /\ 1 \in 1 .. (l - 1 + 1)
        BY <2>4, <3>1 DEF n
      <3>5. \A j \in 1 .. (l - 1 + 1) : u[j] = run[1 + j - 1]
        <4> HIDE DEF run, l
        <4> QED BY <2>4, <3>4, StretchType DEF u
      <3>6. \A j \in 1 .. (l - 1 + 1) : v[j] = s[1 + j - 1]
        <4> HIDE DEF run, l
        <4> QED BY <1>1, <3>4, StretchType DEF v
      <3> HIDE DEF u, v, l, run
      <3>7. run[1] = s[1]
        BY <3>3, <3>4, <3>5, <3>6
      <3>8. s[1] # "="
        BY <2>2, <3>2, <3>7
      <3>9. ~(1 \in 1 .. (a - 1))
        BY <2>2, <3>8
      <3> QED BY <2>3, <3>9
    <2>6. run = SubSeq(s, 1, z) /\ Len(run) = z
      BY <2>1, <2>3, <2>4, <2>5
    <2>7. \A p \in 1 .. z : s[p] \in DOMAIN Sextet
      <3>1. ToSet(run) = { s[r] : r \in 1 .. z }
        <4>1. 1 \in Nat \ {0}
          OBVIOUS
        <4> HIDE DEF run
        <4> QED BY <2>3, <2>6, <4>1, StretchSet
      <3> QED BY <1>2, <3>1
    <2> HIDE DEF run
    <2>8. Proper(s, SubSeq(s, 1, z), z)
      BY <2>2, <2>7 DEF Proper, n
    <2>9. z % 4 # 1
      <3>1. z \in 0 .. n /\ n - z <= 2
        BY <1>1, <1>2, <2>3, <2>6
      <3> QED BY <1>1, <1>2, <3>1, FullGroups
    <2> QED BY <1>2, <2>3, <2>6, <2>8, <2>9
  <1> QED BY <1>3, <1>4

(* The end of what TrimRight leaves.                                       *)
LastOf(s) == Max({0} \cup { p \in DOMAIN s : s[p] # "=" })

LEMMA LastFacts ==
    ASSUME NEW s, IsText(s)
    PROVE  /\ LastOf(s) \in 0 .. Len(s) /\ (LastOf(s) > 0 => s[LastOf(s)] # "=")
           /\ \A p \in (LastOf(s) + 1) .. Len(s) : s[p] = "="
           /\ TrimRightPad(s) = SubSeq(s, 1, LastOf(s))
  <1> DEFINE B == {0} \cup { p \in DOMAIN s : s[p] # "=" }
             z == LastOf(s)
  <1>1. Len(s) \in Nat /\ DOMAIN s = 1 .. Len(s)
    BY DEF IsText
  <1>2. B \in SUBSET (0 .. Len(s)) /\ B # {}
    BY <1>1
  <1>3. z = Max(B) /\ TrimRightPad(s) = SubSeq(s, 1, z)
    BY DEF LastOf, TrimRightPad
  <1>4. \A b \in B : b > 0 => s[b] # "="
    BY <1>1
  <1>5. \A p \in 1 .. Len(s) : s[p] # "=" => p \in B
    BY <1>1
  <1> HIDE DEF B, z
  <1>6. z \in B /\ \A m \in B : m <= z
    BY <1>1, <1>2, <1>3, GreatestElement
  <1>7. z \in 0 .. Len(s)
    BY <1>2, <1>6
  <1>8. \A p \in (z + 1) .. Len(s) : s[p] = "="
    <2> SUFFICES ASSUME NEW p \in (z + 1) .. Len(s), s[p] # "=" PROVE FALSE
      OBVIOUS
    <2>1. p \in 1 .. Len(s) /\ ~(p <= z)
      BY <1>1, <1>7
    <2> QED BY <1>5, <1>6, <2>1
  <1> QED BY <1>3, <1>4, <1>6, <1>7, <1>8 DEF z

LEMMA RawOf ==
    ASSUME NEW s, IsText(s), NEW z \in 0 .. Len(s)
    PROVE  RawDecode(SubSeq(s, 1, z)) =
              IF z % 4 # 1 /\ \A p \in 1 .. z : s[p] \in DOMAIN Sextet
              THEN [ok |-> TRUE, octets |-> Octets(SubSeq(s, 1, z))] ELSE Refused
  <1> DEFINE t == SubSeq(s, 1, z)
  <1>1. Len(s) \in Nat /\ s \in Seq(ToSet(s)) /\ 1 \in Nat \ {0}
    BY DEF IsText
  <1>2. Len(t) = z
    <2>1. Len(t) = (IF 1 <= z THEN z - 1 + 1 ELSE 0)
      BY <1>1, StretchType
    <2> HIDE DEF t
    <2> QED BY <2>1
  <1>3. ToSet(t) = { s[r] : r \in 1 .. z }
    BY <1>1, StretchSet
  <1> HIDE DEF t
  <1>4. ToSet(t) \subseteq DOMAIN Sextet <=> \A p \in 1 .. z : s[p] \in DOMAIN Sextet
    BY <1>3
  <1>5. RawDecode(t) = IF z % 4 # 1 /\ \A p \in 1 .. z : s[p] \in DOMAIN Sextet
                       THEN [ok |-> TRUE, octets |-> Octets(t)] ELSE Refused
    BY <1>2, <1>4 DEF RawDecode
  <1> QED BY <1>5 DEF t

LEMMA DecodedOf ==
    ASSUME NEW v, IsText(v)
    PROVE  LET solid == StripWSP(v)
               pad   == IndexFrom(solid, 1, "=")
               run   == SubSeq(solid, 1, pad - 1)
           IN  DecodeTag(v) =
                 IF /\ \A p \in pad .. Len(solid) : solid[p] = "="
                    /\ ToSet(run) \subseteq DOMAIN Sextet /\ Len(run) % 4 # 1
                 THEN [ok |-> TRUE, octets |-> Octets(run)] ELSE Refused
  <1> DEFINE s == StripWSP(v)
             pad == IndexFrom(s, 1, "=")
             run == SubSeq(s, 1, pad - 1)
             good == /\ \A p \in pad .. Len(s) : s[p] = "="
                     /\ ToSet(run) \subseteq DOMAIN Sextet /\ Len(run) % 4 # 1
             z == LastOf(s)
  <1>1. IsText(s)
    BY StripType
  <1> HIDE DEF s
  <1>2. Len(s) \in Nat /\ s \in Seq(ToSet(s)) /\ 1 \in Nat \ {0} /\ 1 \in 1 .. (Len(s) + 1)
    BY <1>1 DEF IsText
  <1>3. pad \in 1 .. (Len(s) + 1)
    BY <1>1, <1>2, IndexFacts
  <1>4. /\ z \in 0 .. Len(s) /\ (z > 0 => s[z] # "=")
        /\ \A p \in (z + 1) .. Len(s) : s[p] = "="
        /\ TrimRightPad(s) = SubSeq(s, 1, z)
    BY <1>1, LastFacts
  <1> HIDE DEF pad, z
  <1>5. pad - 1 \in 0 .. Len(s)
    BY <1>2, <1>3
  <1>6. Len(run) = pad - 1
    <2>1. Len(run) = (IF 1 <= pad - 1 THEN (pad - 1) - 1 + 1 ELSE 0)
      BY <1>2, <1>5, StretchType
    <2> HIDE DEF run
    <2> QED BY <1>5, <2>1
  <1>7. ToSet(run) \subseteq DOMAIN Sextet <=> \A p \in 1 .. (pad - 1) : s[p] \in DOMAIN Sextet
    <2>1. ToSet(run) = { s[r] : r \in 1 .. (pad - 1) }
      BY <1>1, <1>2, <1>5, StretchSet
    <2> HIDE DEF run
    <2> QED BY <2>1
  <1> HIDE DEF run
  <1>8. DecodeTag(v) = IF StdDecode(s).ok THEN StdDecode(s) ELSE RawDecode(SubSeq(s, 1, z))
    BY <1>4 DEF DecodeTag, s
  <1>9. ASSUME NEW y \in 0 .. Len(s), Proper(s, SubSeq(s, 1, y), y), y % 4 # 1
        PROVE  good /\ run = SubSeq(s, 1, y)
    <2>1. pad = y + 1
      BY <1>1, <1>9, ProperOnce DEF pad
    <2>2. pad - 1 = y
      BY <2>1
    <2> QED BY <1>6, <1>7, <1>9, <2>1, <2>2 DEF Proper, run
  <1>10. CASE StdDecode(s).ok
    <2>1. PICK y \in 0 .. Len(s) :
             /\ Proper(s, SubSeq(s, 1, y), y) /\ y % 4 # 1
             /\ StdDecode(s) = [ok |-> TRUE, octets |-> Octets(SubSeq(s, 1, y))]
      BY <1>1, <1>10, StdIsProper
    <2>2. good /\ run = SubSeq(s, 1, y)
      BY <1>9, <2>1
    <2>3. DecodeTag(v) = [ok |-> TRUE, octets |-> Octets(run)]
      BY <1>8, <1>10, <2>1, <2>2
    <2> QED BY <2>2, <2>3 DEF s, pad, run
  <1>11. CASE ~StdDecode(s).ok
    <2>1. DecodeTag(v) =
             IF z % 4 # 1 /\ \A p \in 1 .. z : s[p] \in DOMAIN Sextet
             THEN [ok |-> TRUE, octets |-> Octets(SubSeq(s, 1, z))] ELSE Refused
      BY <1>1, <1>4, <1>8, <1>11, RawOf
    <2>2. CASE z % 4 # 1 /\ \A p \in 1 .. z : s[p] \in DOMAIN Sextet
      <3>1. Proper(s, SubSeq(s, 1, z), z)
        BY <1>4, <2>2 DEF Proper
      <3>2. good /\ run = SubSeq(s, 1, z)
        BY <1>4, <1>9, <2>2, <3>1
      <3>3. DecodeTag(v) = [ok |-> TRUE, octets |-> Octets(run)]
        BY <2>1, <2>2, <3>2
      <3> QED BY <3>2, <3>3 DEF s, pad, run
    <2>3. CASE ~(z % 4 # 1 /\ \A p \in 1 .. z : s[p] \in DOMAIN Sextet)
      <3>1. ~good
        <4> SUFFICES ASSUME good PROVE FALSE
          OBVIOUS
        <4>1. \A p \in 1 .. (pad - 1) : s[p] \in DOMAIN Sextet /\ s[p] # "="
          BY <1>7, PaddingIsNoSextet
        <4>2. ~(z > pad - 1)
          <5> SUFFICES ASSUME z > pad - 1 PROVE FALSE
            OBVIOUS
          <5>1. z \in pad .. Len(s) /\ z > 0
            BY <1>3, <1>4
          <5> QED BY <1>4, <5>1
        <4>3. ~(z < pad - 1)
          <5> SUFFICES ASSUME z < pad - 1 PROVE FALSE
            OBVIOUS
          <5>1. pad - 1 \in 1 .. (pad - 1) /\ pad - 1 \in (z + 1) .. Len(s)
            BY <1>4, <1>5
          <5> QED BY <1>4, <4>1, <5>1
        <4>4. z = pad - 1
          BY <1>4, <1>5, <4>2, <4>3
        <4> QED BY <1>6, <2>3, <4>1, <4>4
      <3>2. DecodeTag(v) = Refused
        BY <2>1, <2>3
      <3> QED BY <3>1, <3>2 DEF s, pad, run
    <2> QED BY <2>2, <2>3
  <1> QED BY <1>10, <1>11

LEMMA ValueIsText ==
    ASSUME NEW s, IsText(s), NEW p \in Starts(s), TagAt(s, p)
    PROVE  IsText(ValueAt(s, p))
  <1> DEFINE e == EndAt(s, p)
             b == EqualsAt(s, p) + 1
  <1>1. /\ b \in (p + 1) .. e /\ ValueAt(s, p) = Trim(SubSeq(s, b, e - 1), FWS)
        /\ e \in p .. (Len(s) + 1) /\ p \in 1 .. (Len(s) + 1)
        /\ Len(s) \in Nat /\ s \in Seq(ToSet(s))
    <2>1. /\ EqualsAt(s, p) \in p .. (e - 1)
          /\ ValueAt(s, p) = TrimFWS(SubSeq(s, b, e - 1))
      BY TagFacts
    <2>2. /\ e \in p .. (Len(s) + 1) /\ p \in 1 .. (Len(s) + 1)
          /\ Len(s) \in Nat /\ s \in Seq(ToSet(s))
      BY SegmentFacts, StartRange DEF IsText
    <2> QED BY <2>1, <2>2 DEF TrimFWS
  <1> HIDE DEF b, e
  <1> DEFINE q == e - 1
  <1>2. b \in 1 .. (Len(s) + 1) /\ q \in (b - 1) .. Len(s)
    BY <1>1
  <1>3. ValueAt(s, p) = Trim(SubSeq(s, b, q), FWS)
    BY <1>1
  <1> HIDE DEF q
  <1>4. CASE AllIn(s, b, q, FWS)
    <2>1. ValueAt(s, p) = <<>>
      BY <1>2, <1>3, <1>4, TrimStretch
    <2>2. <<>> \in Seq({})
      OBVIOUS
    <2> QED BY <2>1, <2>2, TextOf
  <1>5. CASE ~AllIn(s, b, q, FWS)
    <2>1. PICK a \in b .. q, z \in b .. q :
             Trimmed(s, b, q, FWS, a, z) /\ Trim(SubSeq(s, b, q), FWS) = SubSeq(s, a, z)
      BY <1>2, <1>5, TrimStretch
    <2>2. a \in Nat \ {0} /\ z \in 0 .. Len(s)
      BY <1>1, <1>2, <2>1
    <2>3. SubSeq(s, a, z) \in Seq(ToSet(s))
      BY <1>1, <2>2, StretchType
    <2> QED BY <1>3, <2>1, <2>3, TextOf
  <1> QED BY <1>4, <1>5

LEMMA DecodedAsWritten == Read => PaddingAndFoldsIgnored
  <1> SUFFICES ASSUME Read, Accepted, NEW name \in DOMAIN tags
               PROVE  IsText(tags[name])
    BY DecodedOf DEF PaddingAndFoldsIgnored
  <1> DEFINE n == Len(text) + 2
  <1>1. IsText(text) /\ Walked(text, n, tags)
    BY DEF Read, ReadTo, Accepted
  <1>2. DOMAIN tags = { KeyAt(text, p) : p \in TagsIn(text, n) }
    BY <1>1, WalkedDomain
  <1> HIDE DEF n
  <1>3. PICK p \in TagsIn(text, n) : name = KeyAt(text, p)
    BY <1>2
  <1>4. p \in Starts(text) /\ TagAt(text, p) /\ tags[name] = ValueAt(text, p)
    BY <1>1, <1>3 DEF Walked, TagsIn, Done
  <1> QED BY <1>1, <1>4, ValueIsText

(* A base64 value decodes to the octets of its characters wherever it is   *)
(* folded and however much padding is behind them, and only what base64    *)
(* cannot be is refused: the second attempt of DecodeTag never changes     *)
(* what the first one would have read (codec.go:20-41).                    *)
THEOREM DecodingIgnoresFolds == RecordSpec => []PaddingAndFoldsIgnored
  BY DecodedAsWritten, ReadInvariance, PTL

===============================================================================

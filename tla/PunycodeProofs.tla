---------------------------- MODULE PunycodeProofs ----------------------------
(***************************************************************************)
(* Two theorems about every label.                                         *)
(*                                                                         *)
(* The encoder's delta stays below 64 * 0x110000, which its comment gives  *)
(* as the reason why it needs no overflow check.  handled counts the runes *)
(* below n, and during a scan those equal to n that are behind it: that is *)
(* Counted, and it is why a next code point is found while handled is      *)
(* short of the runes.  A pass adds at most one for each rune and one at   *)
(* its end, and moves n up by one; a jump of n adds at most 64 for each    *)
(* code point: that is Bounded.                                            *)
(*                                                                         *)
(* What the encoder writes decodes to the lower-cased label.  The decoder  *)
(* of what is written so far holds the runes handled so far, each in its   *)
(* place among them, and the encoder's bias (Follows); its position and    *)
(* delta give the place the scan is at, counted in turns around the        *)
(* decoded text (Moves); between the digits of one delta its weight times  *)
(* q is what is still to come (Digits).  The loop of punyAdapt gives the   *)
(* decoder's adaptation because delta is bounded (AdaptAgrees).            *)
(***************************************************************************)
EXTENDS Punycode, SequenceFacts, TLAPS

(* The runes below n, and those equal to it in front of position s.        *)
Upto(s) == { p \in DOMAIN runes : runes[p] < n \/ (p < s /\ runes[p] = n) }

TypeInv ==
    /\ pc \in {"label", "pick", "search", "scan", "digit", "done"}
    /\ label \in Seq(CodePoints)
    /\ runes \in Seq(CodePoints) /\ Len(runes) <= 63
    /\ n \in Nat /\ delta \in Nat /\ handled \in Nat /\ r \in Nat \ {0}
    /\ m \in Nat

Counted ==
    /\ pc \in {"pick", "search"} => handled = Cardinality(Upto(1))
    /\ pc \in {"scan", "digit"} =>
          handled = Cardinality(Upto(r)) /\ r <= Len(runes) + 1
    /\ pc = "digit" => r <= Len(runes) /\ runes[r] = n

(* The search's minimum so far: of the runes behind it that are not below  *)
(* n, and one of them unless there is none.                                *)
Searched ==
    pc = "search" =>
        /\ r <= Len(runes) + 1 /\ handled < Len(runes)
        /\ \A p \in DOMAIN runes : p < r /\ runes[p] >= n => m <= runes[p]
        /\ m = MaxInt32 \/ (n <= m /\ m <= MaxRune)

Bounded ==
    /\ punyInitialN <= n /\ n <= MaxRune + 1
    /\ pc = "label" => n = punyInitialN /\ delta = 0
    /\ pc \in {"pick", "search", "done"} => delta <= (n - punyInitialN) * 64
    /\ pc \in {"scan", "digit"} =>
          /\ n <= MaxRune
          /\ delta <= (n - punyInitialN) * 64 + (r - 1)
          /\ r <= 64

IInv == TypeInv /\ Counted /\ Searched /\ Bounded
-------------------------------------------------------------------------------
LEMMA Literals ==
    /\ MaxRune \in Nat /\ punyInitialN \in Nat /\ MaxInt32 \in Nat
    /\ punyInitialN = 128 /\ punyInitialN <= MaxRune /\ MaxRune < MaxInt32
  BY SMT DEF MaxRune, MaxInt32, punyInitialN

LEMMA Types ==
    ASSUME TypeInv
    PROVE  /\ DOMAIN runes = 1 .. Len(runes)
           /\ \A p \in DOMAIN runes : runes[p] \in CodePoints /\ runes[p] \in Nat
           /\ \A s : IsFiniteSet(Upto(s)) /\ Upto(s) \subseteq DOMAIN runes
  <1>1. DOMAIN runes = 1 .. Len(runes) /\ IsFiniteSet(1 .. Len(runes))
    BY FS_Interval DEF TypeInv
  <1>2. \A s : Upto(s) \subseteq DOMAIN runes
    BY DEF Upto
  <1>3. \A s : IsFiniteSet(Upto(s))
    BY <1>1, <1>2, FS_Subset
  <1>4. \A p \in DOMAIN runes : runes[p] \in CodePoints
    BY <1>1 DEF TypeInv
  <1> QED BY Literals, <1>1, <1>2, <1>3, <1>4 DEF CodePoints

(* While a rune is left, one is not below n.                               *)
LEMMA SomeLeft ==
    ASSUME TypeInv, handled = Cardinality(Upto(1)), handled < Len(runes)
    PROVE  \E p \in DOMAIN runes : runes[p] >= n
  <1> SUFFICES ASSUME \A p \in DOMAIN runes : ~(runes[p] >= n)
               PROVE  FALSE
    OBVIOUS
  <1>1. Upto(1) = 1 .. Len(runes)
    <2>1. \A p \in DOMAIN runes : runes[p] < n
      BY Types DEF TypeInv
    <2>2. DOMAIN runes = 1 .. Len(runes) /\ Upto(1) \subseteq DOMAIN runes
      BY Types
    <2>3. DOMAIN runes \subseteq Upto(1)
      BY <2>1 DEF Upto
    <2> QED BY <2>2, <2>3
  <1>2. Cardinality(1 .. Len(runes)) = Len(runes)
    <2>1. Len(runes) \in Nat
      BY DEF TypeInv
    <2>2. Cardinality(1 .. Len(runes)) = IF 1 > Len(runes) THEN 0 ELSE Len(runes) - 1 + 1
      BY <2>1, FS_Interval
    <2> QED BY <2>1, <2>2
  <1> QED BY <1>1, <1>2 DEF TypeInv

LEMMA InitOK ==
    ASSUME Init
    PROVE  IInv
  BY Literals, LabelAssumption DEF Init, IInv, TypeInv, Counted, Searched, Bounded

(* The lower-cased label is a sequence of code points of the same length.  *)
LEMMA Lowered ==
    ASSUME TypeInv
    PROVE  ToLower(label) \in Seq(CodePoints) /\ Len(ToLower(label)) = Len(label)
  <1>1. DOMAIN label = 1 .. Len(label) /\ Len(label) \in Nat
    BY DEF TypeInv
  <1>2. \A p \in DOMAIN label : label[p] \in CodePoints
    BY DEF TypeInv
  <1>3. ToLower(label) \in [1 .. Len(label) -> CodePoints]
    BY <1>1, <1>2, LowerAssumption DEF ToLower
  <1> QED BY <1>1, <1>3
-------------------------------------------------------------------------------
(* One lemma per step that moves n, delta or handled. *)

LEMMA CopyBasicKeeps ==
    ASSUME IInv, CopyBasic
    PROVE  IInv'
  <1>1. /\ runes' \in Seq(CodePoints) /\ Len(runes') <= 63
    BY Lowered DEF IInv, TypeInv, CopyBasic, LeftAlone
  <1>2. DOMAIN runes' = 1 .. Len(runes')
    BY <1>1
  <1>3. n = punyInitialN /\ delta = 0 /\ n' = n /\ delta' = 0 /\ r' = r
    BY Literals DEF IInv, Bounded, CopyBasic, scan
  <1>4. Upto(1)' = { p \in DOMAIN runes' : runes'[p] < punyInitialN }
    BY <1>2, <1>3 DEF Upto
  <1>5. handled' = Cardinality(Upto(1)')
    BY <1>4 DEF CopyBasic, Basic
  <1>6. IsFiniteSet(Upto(1)')
    <2>1. IsFiniteSet(1 .. Len(runes'))
      BY <1>1, FS_Interval
    <2>2. { p \in DOMAIN runes' : runes'[p] < punyInitialN } \subseteq 1 .. Len(runes')
      BY <1>2
    <2> QED BY <1>4, <2>1, <2>2, FS_Subset
  <1>7. handled' \in Nat
    BY <1>5, <1>6, FS_CardinalityType
  <1>8. TypeInv'
    BY <1>1, <1>3, <1>7 DEF IInv, TypeInv, CopyBasic
  <1>9. Counted'
    BY <1>5 DEF Counted, CopyBasic
  <1>10. Bounded'
    BY Literals, <1>3 DEF Bounded, CopyBasic
  <1>11. Searched'
    BY DEF CopyBasic, Searched
  <1> QED BY <1>8, <1>9, <1>10, <1>11 DEF IInv

LEMMA SearchKeeps ==
    ASSUME IInv, BeginSearch \/ Search
    PROVE  IInv'
  <1>1. /\ UNCHANGED <<label, runes, coder>> /\ pc \in {"pick", "search"}
        /\ pc' = "search" /\ handled < Len(runes)
    BY Literals DEF BeginSearch, Search, IInv, Searched
  <1>2. Upto(1)' = Upto(1)
    BY <1>1 DEF Upto, coder
  <1>3. r' \in Nat \ {0} /\ r' <= Len(runes) + 1
    BY Literals DEF BeginSearch, Search, IInv, TypeInv, Searched
  <1>4. CASE BeginSearch
    <2>1. m' = MaxInt32 /\ r' = 1
      BY <1>4 DEF BeginSearch
    <2>2. Searched'
      BY Literals, <1>1, <2>1, <1>3, Types DEF Searched, coder, IInv, TypeInv
    <2>3. TypeInv'
      BY Literals, <1>1, <2>1 DEF IInv, TypeInv, coder
    <2>4. Counted' /\ Bounded'
      BY Literals, <1>1, <1>2 DEF IInv, TypeInv, Counted, Bounded, coder
    <2> QED BY <2>2, <2>3, <2>4 DEF IInv
  <1>5. CASE Search
    <2>1. /\ r \in DOMAIN runes /\ runes[r] \in CodePoints /\ r' = r + 1
          /\ m' = IF runes[r] >= n /\ runes[r] < m THEN runes[r] ELSE m
      BY <1>5, Types DEF Search, IInv, TypeInv
    <2>2. /\ \A p \in DOMAIN runes : p < r /\ runes[p] >= n => m <= runes[p]
          /\ m = MaxInt32 \/ (n <= m /\ m <= MaxRune)
      BY Literals, <1>5 DEF Search, IInv, Searched
    <2>3. m' \in Nat
      BY Literals, <2>1 DEF IInv, TypeInv, CodePoints
    <2>4. m' = MaxInt32 \/ (n <= m' /\ m' <= MaxRune)
      BY Literals, <2>1, <2>2 DEF IInv, TypeInv, CodePoints
    <2>5. \A p \in DOMAIN runes : p < r + 1 /\ runes[p] >= n => m' <= runes[p]
      BY Literals, <2>1, <2>2, Types DEF IInv, TypeInv, CodePoints
    <2>6. Searched'
      BY Literals, <1>1, <1>3, <2>1, <2>4, <2>5 DEF Searched, coder
    <2>7. TypeInv'
      BY <1>1, <1>3, <2>3 DEF IInv, TypeInv, coder
    <2>8. Counted' /\ Bounded'
      BY Literals, <1>1, <1>2 DEF IInv, TypeInv, Counted, Bounded, coder
    <2> QED BY <2>6, <2>7, <2>8 DEF IInv
  <1> QED BY <1>4, <1>5

(* The search does not end with math.MaxInt32, and n passes no rune.       *)
LEMMA NextFound ==
    ASSUME IInv, TakeNext
    PROVE  n <= m /\ m <= MaxRune /\ Upto(1)' = Upto(1)
  <1>1. PICK p \in DOMAIN runes : runes[p] >= n
    BY Literals, SomeLeft DEF IInv, Counted, Searched, TakeNext
  <1>2. /\ \A s \in DOMAIN runes : runes[s] >= n => m <= runes[s]
        /\ m = MaxInt32 \/ (n <= m /\ m <= MaxRune)
    BY Literals, Types DEF IInv, TypeInv, Searched, TakeNext
  <1>3. n <= m /\ m <= MaxRune
    <2>1. m <= MaxRune
      BY Literals, <1>1, <1>2, Types DEF IInv, TypeInv, CodePoints
    <2> QED BY Literals, <1>2, <2>1
  <1>4. Upto(1)' = Upto(1)
    BY <1>2, <1>3, Types DEF TakeNext, Upto, IInv, TypeInv
  <1> QED BY <1>3, <1>4

LEMMA TakeNextKeeps ==
    ASSUME IInv, TakeNext
    PROVE  IInv'
  <1>3. n <= m /\ m <= MaxRune
    BY NextFound
  <1>4. /\ runes' = runes /\ n' = m /\ r' = 1 /\ handled' = handled /\ pc' = "scan"
        /\ label' = label /\ m' = m /\ delta' = delta + (m - n) * (handled + 1)
        /\ pc = "search"
    BY DEF TakeNext
  <1>5. handled + 1 <= 64
    BY Literals, <1>4 DEF IInv, TypeInv, Searched
  <1>6. (m - n) * (handled + 1) \in Nat /\ (m - n) * (handled + 1) <= (m - n) * 64
    <2>1. \A a, b \in Nat : b <= 64 => a * b \in Nat /\ a * b <= a * 64
      OBVIOUS
    <2>2. m - n \in Nat /\ handled + 1 \in Nat
      BY <1>3 DEF IInv, TypeInv
    <2> QED BY <2>1, <2>2, <1>5
  <1>7. Upto(1)' = Upto(1)
    BY NextFound
  <1>8. TypeInv'
    BY <1>4, <1>6 DEF IInv, TypeInv
  <1>9. Counted'
    BY <1>4, <1>7 DEF IInv, TypeInv, Counted
  <1>10. Bounded'
    <2>1. delta <= (n - punyInitialN) * 64 /\ punyInitialN <= n
      BY Literals, <1>4 DEF IInv, Bounded
    <2>2. delta' <= (m - punyInitialN) * 64
      BY Literals, <2>1, <1>3, <1>4, <1>6 DEF IInv, TypeInv
    <2> QED BY Literals, <2>1, <2>2, <1>3, <1>4 DEF IInv, TypeInv, Bounded
  <1>11. Searched'
    BY Literals, <1>4 DEF Searched
  <1> QED BY <1>8, <1>9, <1>10, <1>11 DEF IInv

(* A rune below or above n adds nothing to the runes counted.              *)
LEMMA PassKeeps ==
    ASSUME IInv, CountBelow \/ PassAbove
    PROVE  IInv'
  <1>1. /\ pc = "scan" /\ r <= Len(runes) /\ r' = r + 1 /\ runes[r] # n
        /\ UNCHANGED <<pc, label, runes, n, handled, m>>
        /\ delta' \in {delta, delta + 1}
    <2>1. r \in DOMAIN runes => runes[r] \in Nat
      BY Types DEF IInv
    <2> QED BY <2>1, Types DEF CountBelow, PassAbove, Scanning, coder, IInv, TypeInv
  <1>2. Upto(r + 1) = Upto(r)
    BY <1>1, Types DEF Upto, IInv, TypeInv
  <1>3. Upto(r)' = Upto(r + 1)
    BY <1>1 DEF Upto
  <1>4. TypeInv'
    BY <1>1 DEF IInv, TypeInv
  <1>5. Counted'
    BY <1>1, <1>2, <1>3 DEF IInv, TypeInv, Counted
  <1>6. Bounded'
    BY Literals, <1>1 DEF IInv, TypeInv, Bounded
  <1>7. Searched'
    BY <1>1 DEF Searched
  <1> QED BY <1>4, <1>5, <1>6, <1>7 DEF IInv

(* A rune equal to n is counted once its digits are written.               *)
LEMMA EndDigitsKeeps ==
    ASSUME IInv, EndDigits
    PROVE  IInv'
  <1>1. /\ pc = "digit" /\ pc' = "scan" /\ r' = r + 1 /\ delta' = 0
        /\ handled' = handled + 1 /\ UNCHANGED <<label, runes, n, m>>
    BY DEF EndDigits
  <1>2. r \in DOMAIN runes /\ runes[r] = n /\ r <= Len(runes)
    BY <1>1, Types DEF IInv, TypeInv, Counted
  <1>3. Upto(r + 1) = Upto(r) \cup {r} /\ r \notin Upto(r)
    BY <1>2, Types DEF Upto, IInv, TypeInv
  <1>4. Cardinality(Upto(r) \cup {r}) = Cardinality(Upto(r)) + 1
    BY <1>3, Types, FS_AddElement DEF IInv
  <1>5. Upto(r)' = Upto(r + 1)
    BY <1>1 DEF Upto
  <1>6. TypeInv'
    BY <1>1 DEF IInv, TypeInv
  <1>7. Counted'
    <2>1. handled = Cardinality(Upto(r)) /\ r \in Nat /\ Len(runes) \in Nat
      BY <1>1 DEF IInv, TypeInv, Counted
    <2>2. Upto(r)' = Upto(r) \cup {r}
      BY <1>3, <1>5
    <2>3. handled' = Cardinality(Upto(r)')
      BY <1>1, <1>4, <2>1, <2>2
    <2>4. r' <= Len(runes') + 1
      BY <1>1, <1>2, <2>1
    <2> QED BY <1>1, <2>3, <2>4 DEF Counted
  <1>8. Bounded'
    BY Literals, <1>1, <1>2 DEF IInv, TypeInv, Bounded
  <1>9. Searched'
    BY <1>1 DEF Searched
  <1> QED BY <1>6, <1>7, <1>8, <1>9 DEF IInv

LEMMA EndScanKeeps ==
    ASSUME IInv, EndScan
    PROVE  IInv'
  <1>1. /\ pc = "scan" /\ r > Len(runes) /\ pc' = "pick" /\ delta' = delta + 1
        /\ n' = n + 1 /\ UNCHANGED <<label, runes, handled, m, r>>
    BY DEF EndScan, scan
  <1>2. r = Len(runes) + 1
    BY <1>1 DEF IInv, TypeInv, Counted
  <1>3. Upto(r) = { p \in DOMAIN runes : runes[p] <= n }
    BY <1>2, Types DEF Upto, IInv, TypeInv
  <1>4. Upto(1)' = { p \in DOMAIN runes : runes[p] <= n }
    BY <1>1, Types DEF Upto, IInv, TypeInv
  <1>5. TypeInv'
    BY <1>1 DEF IInv, TypeInv
  <1>6. Counted'
    BY <1>1, <1>3, <1>4 DEF IInv, TypeInv, Counted
  <1>7. Bounded'
    BY Literals, <1>1, <1>2 DEF IInv, TypeInv, Bounded
  <1>8. Searched'
    BY <1>1 DEF Searched
  <1> QED BY <1>5, <1>6, <1>7, <1>8 DEF IInv

LEMMA StepKeeps ==
    ASSUME IInv, [Next]_vars
    PROVE  IInv'
  <1>1. CASE CopyBasic
    BY <1>1, CopyBasicKeeps
  <1>2. CASE BeginSearch \/ Search
    BY <1>2, SearchKeeps
  <1>3. CASE CountBelow \/ PassAbove
    BY <1>3, PassKeeps
  <1>4. CASE EndDigits
    BY <1>4, EndDigitsKeeps
  <1>5. CASE EndScan
    BY <1>5, EndScanKeeps
  <1>6. CASE LeaveLabel \/ Finish
    <2>1. /\ UNCHANGED <<label, runes, n, delta, handled, r, m>>
          /\ pc \in {"label", "pick"} /\ pc' = "done"
      BY <1>6 DEF LeaveLabel, Finish, coder, scan
    <2>2. TypeInv'
      BY <2>1 DEF IInv, TypeInv
    <2>3. Counted' /\ Searched'
      BY <2>1 DEF Counted, Searched
    <2>4. Bounded'
      <3>1. delta <= (n - punyInitialN) * 64
        BY Literals, <2>1 DEF IInv, TypeInv, Bounded
      <3> QED BY <2>1, <3>1 DEF IInv, Bounded
    <2> QED BY <2>2, <2>3, <2>4 DEF IInv
  <1>9. CASE TakeNext
    BY <1>9, TakeNextKeeps
  <1>7. CASE BeginDigits \/ WriteDigit
    <2>1. /\ UNCHANGED <<label, runes, coder, m, r>> /\ pc \in {"scan", "digit"}
          /\ pc' = "digit" /\ r <= Len(runes) /\ runes[r] = n
      BY <1>7 DEF BeginDigits, WriteDigit, Scanning, IInv, TypeInv, Counted
    <2>2. Upto(r)' = Upto(r)
      BY <2>1 DEF Upto, coder
    <2> QED BY Literals, <2>1, <2>2 DEF IInv, TypeInv, Counted, Searched, Bounded, coder
  <1>8. CASE UNCHANGED vars
    <2>1. Upto(1)' = Upto(1) /\ Upto(r)' = Upto(r)
      BY <1>8 DEF Upto, vars, coder, scan
    <2> QED BY Literals, <1>8, <2>1 DEF vars, coder, scan, IInv, TypeInv, Counted, Searched, Bounded
  <1> QED BY <1>1, <1>2, <1>3, <1>4, <1>5, <1>6, <1>7, <1>8, <1>9 DEF Next

LEMMA BoundedDelta == IInv => DeltaBounded
  BY SMT, Literals DEF IInv, TypeInv, Bounded, DeltaBounded

(* "delta stays below 64 * 0x110000 and cannot overflow" (idna.go:67-68),  *)
(* for every label.                                                        *)
THEOREM DeltaNeverOverflows == Spec => []DeltaBounded
  <1> QED BY BoundedDelta, InitOK, StepKeeps, PTL DEF Spec

-------------------------------------------------------------------------------
(* How the decoder's result grows with the characters it is given.         *)
Before(s, cut) == SubSeq(s, 1, cut - 1)

(* The decoder's recursive function is defined by its equation.            *)
AfterEquation(s, cut, size, f) ==
    f = [p \in cut .. size |->
            IF p = cut THEN Begun(Before(s, cut)) ELSE Taken(f[p - 1], s[p])]

LEMMA AfterExists ==
    ASSUME NEW s, NEW cut \in Nat, NEW size \in Nat, cut <= size
    PROVE  \E f : AfterEquation(s, cut, size, f)
  <1> DEFINE S == { e \in Nat : \E f : AfterEquation(s, cut, cut + e, f) }
             first == Begun(Before(s, cut))
  <1> HIDE DEF first
  <1>1. 0 \in S
    <2> DEFINE g == [p \in cut .. cut + 0 |-> first]
    <2>1. AfterEquation(s, cut, cut + 0, g)
      BY DEF AfterEquation, first
    <2> QED BY <2>1
  <1>2. ASSUME NEW e \in Nat, e \in S PROVE e + 1 \in S
    <2>1. PICK g : AfterEquation(s, cut, cut + e, g)
      BY <1>2
    <2> DEFINE top  == cut + (e + 1)
               last == Taken(g[cut + e], s[top])
               h    == [p \in cut .. top |-> IF p = top THEN last ELSE g[p]]
    <2>2. ASSUME NEW p \in cut .. top
          PROVE  h[p] = IF p = cut THEN first ELSE Taken(h[p - 1], s[p])
      <3>1. CASE p = top
        <4>1. p # cut /\ p - 1 = cut + e /\ p - 1 \in cut .. top /\ p - 1 # top
          BY <3>1
        <4>2. h[p - 1] = g[p - 1] /\ h[p] = last
          BY <3>1, <4>1
        <4> HIDE DEF h
        <4> QED BY <3>1, <4>1, <4>2
      <3>2. CASE p # top
        <4>1. p \in cut .. cut + e /\ h[p] = g[p] /\ (p # cut => h[p - 1] = g[p - 1])
          BY <3>2
        <4>2. g[p] = IF p = cut THEN first ELSE Taken(g[p - 1], s[p])
          BY <2>1, <4>1 DEF AfterEquation, first
        <4> HIDE DEF h
        <4> QED BY <4>1, <4>2
      <3> QED BY <3>1, <3>2
    <2>3. h = [p \in cut .. top |-> h[p]]
      OBVIOUS
    <2> HIDE DEF h
    <2>4. AfterEquation(s, cut, top, h)
      BY <2>2, <2>3 DEF AfterEquation, first
    <2>5. \E f : AfterEquation(s, cut, top, f)
      BY <2>4
    <2> QED BY <2>5
  <1> HIDE DEF S
  <1>3. size - cut \in S
    <2>1. \A e \in Nat : e \in S
      BY <1>1, <1>2, NatInductionOnSet
    <2> QED BY <2>1
  <1>4. cut + (size - cut) = size
    OBVIOUS
  <1> QED BY <1>3, <1>4 DEF S

LEMMA DecodingUnfolds ==
    ASSUME NEW s, Len(s) \in Nat, LastDelimiter(s) \in 0 .. Len(s)
    PROVE  \E f : /\ AfterEquation(s, LastDelimiter(s), Len(s), f)
                  /\ Decoding(s) = f[Len(s)]
  <1>1. \E f : AfterEquation(s, LastDelimiter(s), Len(s), f)
    <2>1. /\ LastDelimiter(s) \in Nat /\ LastDelimiter(s) <= Len(s)
          /\ Len(s) \in Nat
      OBVIOUS
    <2> QED BY ONLY <2>1, AfterExists
  <1> QED BY <1>1 DEF Decoding, AfterEquation, Before

(* What is decoded up to a character depends on what stands up to it.      *)
LEMMA AfterAgree ==
    ASSUME NEW s, NEW u, NEW cut \in Nat, NEW size \in Nat, cut <= size,
           NEW f, AfterEquation(s, cut, size, f),
           NEW more, more = size + 1, NEW g, AfterEquation(u, cut, more, g),
           \A p \in 1 .. size : s[p] = u[p],
           Before(s, cut) = Before(u, cut)
    PROVE  f[size] = g[size]
  <1> DEFINE S == { e \in 0 .. (size - cut) : f[cut + e] = g[cut + e] }
             first == Begun(Before(s, cut))
  <1> HIDE DEF first
  <1>1. /\ \A p \in cut .. size : f[p] = IF p = cut THEN first ELSE Taken(f[p - 1], s[p])
        /\ \A p \in cut .. size : g[p] = IF p = cut THEN first ELSE Taken(g[p - 1], u[p])
    <2>1. f = [p \in cut .. size |-> IF p = cut THEN first ELSE Taken(f[p - 1], s[p])]
      BY DEF AfterEquation, first
    <2>2. g = [p \in cut .. more |-> IF p = cut THEN first ELSE Taken(g[p - 1], u[p])]
      BY DEF AfterEquation, first
    <2>3. \A p \in cut .. size : f[p] = IF p = cut THEN first ELSE Taken(f[p - 1], s[p])
      BY ONLY <2>1
    <2>4. \A p \in cut .. size : p \in cut .. more
      OBVIOUS
    <2>5. \A p \in cut .. more : g[p] = IF p = cut THEN first ELSE Taken(g[p - 1], u[p])
      BY ONLY <2>2
    <2> QED BY <2>3, <2>4, <2>5
  <1>2. 0 \in S
    <2>1. cut \in cut .. size /\ cut + 0 = cut
      OBVIOUS
    <2> QED BY <1>1, <2>1
  <1>3. ASSUME NEW e \in 0 .. (size - cut - 1), e \in S PROVE e + 1 \in S
    <2>1. /\ cut + (e + 1) \in cut .. size /\ cut + (e + 1) # cut
          /\ cut + (e + 1) - 1 = cut + e /\ cut + (e + 1) \in 1 .. size
          /\ e + 1 \in 0 .. (size - cut)
      OBVIOUS
    <2>2. f[cut + e] = g[cut + e]
      BY <1>3
    <2>3. f[cut + (e + 1)] = Taken(f[cut + e], s[cut + (e + 1)])
      BY <1>1, <2>1
    <2>4. g[cut + (e + 1)] = Taken(g[cut + e], u[cut + (e + 1)])
      BY <1>1, <2>1
    <2>5. s[cut + (e + 1)] = u[cut + (e + 1)]
      BY <2>1
    <2>6. f[cut + (e + 1)] = g[cut + (e + 1)]
      BY <2>2, <2>3, <2>4, <2>5
    <2> QED BY <2>1, <2>6
  <1> HIDE DEF S
  <1>4. \A e \in 0 .. (size - cut) : e \in S
    <2>1. size - cut \in Nat
      OBVIOUS
    <2> QED BY <1>2, <1>3, <2>1, IntervalInduction
  <1>5. size - cut \in S /\ cut + (size - cut) = size
    BY <1>4
  <1> QED BY <1>5 DEF S

(* A character that is no delimiter is the decoder's next step.            *)
LEMMA DecodingStep ==
    ASSUME NEW s \in Seq(Nat), NEW c \in Nat, c # punyDelimiter
    PROVE  Decoding(Append(s, c)) = Taken(Decoding(s), c)
  <1> DEFINE u   == Append(s, c)
             cut == LastDelimiter(s)
             sz  == Len(s)
             C   == {0} \cup { p \in DOMAIN s : s[p] = punyDelimiter }
  <1>1. /\ u \in Seq(Nat) /\ sz \in Nat /\ Len(u) = sz + 1
        /\ (\A p \in 1 .. sz : u[p] = s[p]) /\ u[sz + 1] = c
        /\ DOMAIN s = 1 .. sz /\ DOMAIN u = 1 .. (sz + 1)
    BY AppendProperties
  <1> HIDE DEF u, sz
  <1>2. { p \in DOMAIN u : u[p] = punyDelimiter } = { p \in DOMAIN s : s[p] = punyDelimiter }
    BY <1>1
  <1>3. LastDelimiter(u) = cut
    BY <1>2 DEF LastDelimiter
  <1>4. cut \in 0 .. sz
    <2>1. C \in SUBSET (0 .. sz) /\ C # {}
      BY <1>1
    <2>2. Max(C) \in C
      BY <1>1, <2>1, GreatestElement
    <2> QED BY <2>1, <2>2 DEF LastDelimiter
  <1>5. PICK f : AfterEquation(s, cut, sz, f) /\ Decoding(s) = f[sz]
    <2>1. Len(s) \in Nat /\ LastDelimiter(s) \in 0 .. Len(s)
      BY <1>1, <1>4 DEF sz
    <2> QED BY ONLY <2>1, DecodingUnfolds DEF cut, sz
  <1>6. PICK g : AfterEquation(u, cut, sz + 1, g) /\ Decoding(u) = g[sz + 1]
    <2>1. LastDelimiter(u) \in 0 .. Len(u) /\ Len(u) \in Nat
      BY <1>1, <1>3, <1>4
    <2>2. \E g : AfterEquation(u, LastDelimiter(u), Len(u), g) /\ Decoding(u) = g[Len(u)]
      BY ONLY <2>1, DecodingUnfolds
    <2> QED BY <1>1, <1>3, <2>2
  <1> HIDE DEF cut, C
  <1>7. Before(s, cut) = Before(u, cut)
    <2>1. CASE cut = 0
      <3>1. 1 \in Int /\ cut - 1 \in Int /\ cut - 1 < 1
        BY <2>1
      <3> QED BY ONLY <3>1, SubSeqEmpty DEF Before
    <2>2. CASE cut # 0
      <3> DEFINE v == SubSeq(s, 1, cut - 1)
                 w == SubSeq(u, 1, cut - 1)
      <3>1. 1 \in Nat \ {0} /\ cut - 1 \in 0 .. Len(s) /\ cut - 1 \in 0 .. Len(u)
        BY <1>1, <1>4, <2>2 DEF sz
      <3>2. /\ v \in Seq(Nat) /\ Len(v) = (IF 1 <= cut - 1 THEN cut - 1 - 1 + 1 ELSE 0)
            /\ \A j \in 1 .. (cut - 1 - 1 + 1) : v[j] = s[1 + j - 1]
        BY <3>1, StretchType
      <3>3. /\ w \in Seq(Nat) /\ Len(w) = (IF 1 <= cut - 1 THEN cut - 1 - 1 + 1 ELSE 0)
            /\ \A j \in 1 .. (cut - 1 - 1 + 1) : w[j] = u[1 + j - 1]
        BY <3>1, <1>1, StretchType
      <3> HIDE DEF v, w
      <3>4. Len(v) = Len(w)
        BY <3>2, <3>3
      <3>5. ASSUME NEW j \in 1 .. Len(v) PROVE v[j] = w[j]
        <4>1. j \in 1 .. (cut - 1 - 1 + 1) /\ 1 + j - 1 \in 1 .. sz
          BY <1>1, <3>2, <1>4, <2>2
        <4> QED BY <4>1, <3>2, <3>3, <1>1
      <3>6. v = w
        BY <3>2, <3>3, <3>4, <3>5, SameSequence
      <3> QED BY <3>6 DEF v, w, Before
    <2> QED BY <2>1, <2>2
  <1>8. f[sz] = g[sz]
    <2>1. /\ cut \in Nat /\ sz \in Nat /\ cut <= sz /\ \A p \in 1 .. sz : s[p] = u[p]
          /\ AfterEquation(s, cut, sz, f) /\ AfterEquation(u, cut, sz + 1, g)
      BY <1>1, <1>4, <1>5, <1>6
    <2> DEFINE more == sz + 1
    <2>2. AfterEquation(u, cut, more, g) /\ more = sz + 1
      BY <2>1
    <2> HIDE DEF more
    <2>3. /\ cut \in Nat /\ sz \in Nat /\ cut <= sz /\ AfterEquation(s, cut, sz, f)
          /\ more = sz + 1 /\ AfterEquation(u, cut, more, g)
          /\ \A p \in 1 .. sz : s[p] = u[p]
          /\ Before(s, cut) = Before(u, cut)
      BY <2>1, <2>2, <1>7
    <2> QED BY ONLY <2>3, AfterAgree
  <1>9. g[sz + 1] = Taken(g[sz], u[sz + 1])
    <2>1. sz + 1 \in cut .. (sz + 1) /\ sz + 1 # cut /\ sz + 1 - 1 = sz
      BY <1>1, <1>4
    <2> DEFINE top == sz + 1
               first == Begun(Before(u, cut))
    <2>2. AfterEquation(u, cut, top, g)
      BY <1>6
    <2> HIDE DEF first
    <2>3. \A p \in cut .. top : g[p] = IF p = cut THEN first ELSE Taken(g[p - 1], u[p])
      BY ONLY <2>2 DEF AfterEquation, first
    <2>4. top - 1 = sz /\ top \in cut .. top /\ top # cut
      BY <1>1, <1>4, <2>1
    <2> HIDE DEF top
    <2>5. g[top] = Taken(g[sz], u[top])
      BY <2>3, <2>4
    <2> QED BY ONLY <2>5 DEF top
  <1> QED BY <1>1, <1>5, <1>6, <1>8, <1>9 DEF u

(* In front of the digits the decoder holds the basic code points.         *)
LEMMA DecodingBegins ==
    ASSUME NEW B \in Seq(Nat)
    PROVE  Decoding(B \o << punyDelimiter >>) = Begun(B)
  <1> DEFINE s  == B \o << punyDelimiter >>
             sz == Len(B) + 1
             C  == {0} \cup { p \in DOMAIN s : s[p] = punyDelimiter }
  <1>1. punyDelimiter \in Nat /\ << punyDelimiter >> \in Seq(Nat)
        /\ Len(<< punyDelimiter >>) = 1 /\ << punyDelimiter >>[1] = punyDelimiter
    BY DEF punyDelimiter
  <1>2. /\ s \in Seq(Nat) /\ Len(s) = sz /\ Len(B) \in Nat /\ sz \in Nat
        /\ \A p \in 1 .. sz : s[p] = IF p <= Len(B) THEN B[p] ELSE << punyDelimiter >>[p - Len(B)]
    BY <1>1, ConcatProperties
  <1>3. s[sz] = punyDelimiter /\ DOMAIN s = 1 .. sz
    <2>1. sz \in 1 .. sz /\ ~(sz <= Len(B)) /\ sz - Len(B) = 1
      BY <1>2
    <2>2. s[sz] = << punyDelimiter >>[sz - Len(B)]
      BY ONLY <1>2, <2>1
    <2> QED BY <1>1, <1>2, <2>1, <2>2
  <1> HIDE DEF s
  <1>4. LastDelimiter(s) = sz
    <2>1. C \in SUBSET (0 .. sz) /\ C # {} /\ sz \in C
      BY <1>2, <1>3
    <2>2. Max(C) \in C /\ \A p \in C : p <= Max(C)
      BY <1>2, <2>1, GreatestElement
    <2> DEFINE top == Max(C)
    <2>3. top \in 0 .. sz /\ sz <= top
      BY <2>1, <2>2
    <2> HIDE DEF C, top
    <2>4. top = sz
      BY <1>2, <2>3
    <2> QED BY <2>4 DEF C, top, LastDelimiter
  <1>5. PICK f : AfterEquation(s, sz, sz, f) /\ Decoding(s) = f[sz]
    <2>1. LastDelimiter(s) \in 0 .. Len(s) /\ Len(s) \in Nat
      BY <1>2, <1>4
    <2>2. \E f : AfterEquation(s, LastDelimiter(s), Len(s), f) /\ Decoding(s) = f[Len(s)]
      BY ONLY <2>1, DecodingUnfolds
    <2> QED BY <1>2, <1>4, <2>2
  <1>6. f[sz] = Begun(Before(s, sz))
    BY <1>5, <1>2 DEF AfterEquation
  <1>7. Before(s, sz) = B
    <2> DEFINE v == SubSeq(s, 1, Len(B))
    <2>1. 1 \in Nat \ {0} /\ Len(B) \in 0 .. Len(s) /\ sz - 1 = Len(B)
      BY <1>2
    <2>2. /\ v \in Seq(Nat) /\ Len(v) = (IF 1 <= Len(B) THEN Len(B) - 1 + 1 ELSE 0)
          /\ \A j \in 1 .. (Len(B) - 1 + 1) : v[j] = s[1 + j - 1]
      BY <1>2, <2>1, StretchType
    <2> HIDE DEF v
    <2>3. Len(v) = Len(B)
      BY <1>2, <2>2
    <2>4. ASSUME NEW j \in 1 .. Len(v) PROVE v[j] = B[j]
      <3>1. j \in 1 .. (Len(B) - 1 + 1) /\ 1 + j - 1 = j /\ j \in 1 .. sz /\ j <= Len(B)
        BY <1>2, <2>3
      <3> QED BY <3>1, <2>2, <1>2
    <2>5. v = B
      BY <2>2, <2>3, <2>4, SameSequence
    <2> QED BY <2>1, <2>5 DEF v, Before
  <1> QED BY <1>5, <1>6, <1>7 DEF s

LEMMA DecodingBeginsBare == Decoding(<<>>) = Begun(<<>>)
  <1> DEFINE s == <<>>
             C == {0} \cup { p \in DOMAIN s : s[p] = punyDelimiter }
  <1>1. Len(s) = 0 /\ DOMAIN s = {}
    OBVIOUS
  <1> HIDE DEF s
  <1>2. LastDelimiter(s) = 0
    <2>1. C = {0}
      BY <1>1
    <2>2. C \in SUBSET (0 .. 0) /\ C # {}
      BY <2>1
    <2>3. Max(C) \in C
      BY <2>2, GreatestElement
    <2> QED BY <2>1, <2>3 DEF LastDelimiter
  <1>3. PICK f : AfterEquation(s, 0, 0, f) /\ Decoding(s) = f[0]
    <2>1. LastDelimiter(s) \in 0 .. Len(s) /\ Len(s) \in Nat
      BY <1>1, <1>2
    <2>2. \E f : AfterEquation(s, LastDelimiter(s), Len(s), f) /\ Decoding(s) = f[Len(s)]
      BY ONLY <2>1, DecodingUnfolds
    <2> QED BY <1>1, <1>2, <2>2
  <1>4. f[0] = Begun(Before(s, 0))
    BY <1>3 DEF AfterEquation
  <1>5. Before(s, 0) = <<>>
    <2>1. 1 \in Int /\ 0 - 1 \in Int /\ 0 - 1 < 1
      OBVIOUS
    <2> QED BY ONLY <2>1, SubSeqEmpty DEF Before
  <1> QED BY <1>3, <1>4, <1>5 DEF s

(* The runes at some positions, up to a size.                              *)
Piece(s, S, p)       == IF p \in S THEN << s[p] >> ELSE <<>>
Pieces(s, S, size)   == [p \in 1 .. size |-> Piece(s, S, p)]
Gathered(s, S, size) == FlattenSeq(Pieces(s, S, size))
Ahead(S, size)       == { p \in 1 .. size : p \in S }

LEMMA GatheredIsAll ==
    ASSUME NEW A, NEW s \in Seq(A), NEW S
    PROVE  RunesAt(s, S) = Gathered(s, S, Len(s))
  BY DEF RunesAt, Gathered, Pieces, Piece

LEMMA GatheredType ==
    ASSUME NEW A, NEW s, NEW S, NEW size \in Nat,
           \A p \in 1 .. size : p \in S => s[p] \in A
    PROVE  Gathered(s, S, size) \in Seq(A) /\ Pieces(s, S, size) \in [1 .. size -> Seq(A)]
  <1>1. ASSUME NEW p \in 1 .. size PROVE Piece(s, S, p) \in Seq(A)
    BY DEF Piece
  <1>2. Pieces(s, S, size) \in [1 .. size -> Seq(A)]
    BY <1>1 DEF Pieces
  <1> QED BY <1>2, FlattenType DEF Gathered

LEMMA GatheredStep ==
    ASSUME NEW A, NEW s \in Seq(A), NEW S, NEW size \in 0 .. (Len(s) - 1)
    PROVE  /\ Gathered(s, S, size) \in Seq(A) /\ Piece(s, S, size + 1) \in Seq(A)
           /\ Gathered(s, S, size + 1) = Gathered(s, S, size) \o Piece(s, S, size + 1)
  <1> DEFINE parts == Pieces(s, S, size + 1)
             front == Pieces(s, S, size)
  <1>1. /\ size \in Nat /\ size + 1 \in Nat
        /\ \A p \in 1 .. (size + 1) : p \in S => s[p] \in A
        /\ \A p \in 1 .. size : p \in S => s[p] \in A
    BY LenProperties
  <1>2. parts \in [1 .. (size + 1) -> Seq(A)] /\ Gathered(s, S, size) \in Seq(A)
    BY <1>1, GatheredType
  <1>3. /\ \A p \in 1 .. (size + 1) : parts[p] = Piece(s, S, p)
        /\ front = [p \in 1 .. size |-> Piece(s, S, p)]
    BY DEF Pieces
  <1>4. size + 1 \in 1 .. (size + 1) /\ \A p \in 1 .. size : p \in 1 .. (size + 1)
    OBVIOUS
  <1> HIDE DEF parts, front
  <1>5. front = [p \in 1 .. size |-> parts[p]]
    BY <1>3, <1>4
  <1>6. FlattenSeq(parts) = FlattenSeq(front) \o parts[size + 1]
    BY <1>1, <1>2, <1>5, FlattenStep
  <1>7. parts[size + 1] = Piece(s, S, size + 1) /\ parts[size + 1] \in Seq(A)
    BY <1>2, <1>3, <1>4
  <1> QED BY <1>2, <1>6, <1>7 DEF Gathered, parts, front

LEMMA GatheredEmpty ==
    ASSUME NEW s, NEW S
    PROVE  Gathered(s, S, 0) = <<>>
  <1>1. Pieces(s, S, 0) = <<>>
    BY DEF Pieces
  <1> QED BY <1>1, FlattenEmpty DEF Gathered

(* There are as many of them as positions.                                 *)
LEMMA GatheredSize ==
    ASSUME NEW A, NEW s \in Seq(A), NEW S
    PROVE  \A size \in 0 .. Len(s) :
              IsFiniteSet(Ahead(S, size)) /\ Len(Gathered(s, S, size)) = Cardinality(Ahead(S, size))
  <1> DEFINE P == { e \in 0 .. Len(s) : /\ IsFiniteSet(Ahead(S, e))
                                        /\ Len(Gathered(s, S, e)) = Cardinality(Ahead(S, e)) }
  <1>1. 0 \in P
    <2>1. Ahead(S, 0) = {}
      BY DEF Ahead
    <2>2. IsFiniteSet({}) /\ Cardinality({}) = 0
      BY FS_EmptySet
    <2>3. Gathered(s, S, 0) = <<>> /\ Len(<<>>) = 0 /\ 0 \in 0 .. Len(s)
      BY GatheredEmpty
    <2> QED BY <2>1, <2>2, <2>3
  <1>2. ASSUME NEW e \in 0 .. (Len(s) - 1), e \in P PROVE e + 1 \in P
    <2> DEFINE old == Ahead(S, e)
               top == e + 1
    <2>1. /\ IsFiniteSet(old) /\ Len(Gathered(s, S, e)) = Cardinality(old)
          /\ e \in Nat /\ top \in 0 .. Len(s)
      BY <1>2
    <2>2. /\ Gathered(s, S, e) \in Seq(A) /\ Piece(s, S, top) \in Seq(A)
          /\ Gathered(s, S, top) = Gathered(s, S, e) \o Piece(s, S, top)
      BY GatheredStep
    <2>3. Len(Gathered(s, S, top)) = Len(Gathered(s, S, e)) + Len(Piece(s, S, top))
      BY <2>2, ConcatProperties
    <2>4. Cardinality(old) \in Nat
      BY <2>1, FS_CardinalityType
    <2>5. CASE top \in S
      <3>1. Ahead(S, top) = old \cup {top} /\ top \notin old
        BY <2>1, <2>5 DEF Ahead
      <3>2. IsFiniteSet(old \cup {top}) /\ Cardinality(old \cup {top}) = Cardinality(old) + 1
        BY <2>1, <3>1, FS_AddElement
      <3>3. Len(Piece(s, S, top)) = 1
        BY <2>5 DEF Piece
      <3> HIDE DEF old, top
      <3> QED BY <2>1, <2>3, <3>1, <3>2, <3>3 DEF top
    <2>6. CASE top \notin S
      <3>1. Ahead(S, top) = old
        BY <2>1, <2>6 DEF Ahead
      <3>2. Len(Piece(s, S, top)) = 0
        BY <2>6 DEF Piece
      <3> HIDE DEF old, top
      <3> QED BY <2>1, <2>3, <2>4, <3>1, <3>2 DEF top
    <2> QED BY <2>5, <2>6
  <1> HIDE DEF P
  <1>3. Len(s) \in Nat
    OBVIOUS
  <1>4. \A e \in 0 .. Len(s) : e \in P
    BY <1>1, <1>2, <1>3, IntervalInduction
  <1> QED BY <1>4 DEF P

(* One position more: in front of it nothing changes, and behind it the    *)
(* same runes stand.                                                       *)
SameBehind(A, s, S, at, size) ==
    \E B \in Seq(A) :
       /\ Gathered(s, S, size) = Gathered(s, S, at - 1) \o B
       /\ Gathered(s, S \cup {at}, size) = Gathered(s, S, at - 1) \o (<< s[at] >> \o B)

LEMMA GatheredWith ==
    ASSUME NEW A, NEW s \in Seq(A), NEW S, NEW at \in 1 .. Len(s), at \notin S
    PROVE  \A size \in at .. Len(s) : SameBehind(A, s, S, at, size)
  <1> DEFINE U == S \cup {at}
             F == Gathered(s, S, at - 1)
             one == << s[at] >>
             P == { e \in 0 .. (Len(s) - at) : \E B \in Seq(A) :
                      /\ Gathered(s, S, at + e) = F \o B
                      /\ Gathered(s, U, at + e) = F \o (one \o B) }
  <1>1. one \in Seq(A) /\ Len(s) \in Nat /\ at - 1 \in 0 .. (Len(s) - 1) /\ at - 1 + 1 = at
    OBVIOUS
  <1>2. /\ F \in Seq(A) /\ Piece(s, S, at) \in Seq(A)
        /\ Gathered(s, S, at) = F \o Piece(s, S, at)
    BY ONLY <1>1, GatheredStep, s \in Seq(A) DEF F
  <1>3. /\ Gathered(s, U, at - 1) \in Seq(A)
        /\ Gathered(s, U, at) = Gathered(s, U, at - 1) \o Piece(s, U, at)
    BY ONLY <1>1, GatheredStep, s \in Seq(A)
  <1>4. Gathered(s, U, at - 1) = F
    <2>1. \A p \in 1 .. (at - 1) : Piece(s, U, p) = Piece(s, S, p)
      BY DEF Piece
    <2>2. Pieces(s, U, at - 1) = Pieces(s, S, at - 1)
      BY <2>1 DEF Pieces
    <2> QED BY <2>2 DEF Gathered
  <1>5. Piece(s, S, at) = <<>> /\ Piece(s, U, at) = one
    BY DEF Piece
  <1> HIDE DEF F, one
  <1>6. 0 \in P
    <2>1. <<>> \in Seq(A) /\ one \o <<>> = one
      BY <1>1, ConcatEmptySeq, EmptySeq
    <2>2. Gathered(s, S, at) = F \o <<>> /\ Gathered(s, U, at) = F \o (one \o <<>>)
      BY ONLY <1>2, <1>3, <1>4, <1>5, <2>1
    <2>3. at + 0 = at /\ 0 \in 0 .. (Len(s) - at)
      BY <1>1
    <2> QED BY <2>1, <2>2, <2>3
  <1>7. ASSUME NEW e \in 0 .. (Len(s) - at - 1), e \in P PROVE e + 1 \in P
    <2> DEFINE top == at + e + 1
    <2>1. PICK B \in Seq(A) : /\ Gathered(s, S, at + e) = F \o B
                              /\ Gathered(s, U, at + e) = F \o (one \o B)
      BY <1>7
    <2>2. /\ at + e \in 0 .. (Len(s) - 1) /\ top # at /\ e + 1 \in 0 .. (Len(s) - at)
          /\ at + (e + 1) = top
      BY <1>1
    <2>3. /\ Gathered(s, S, top) = Gathered(s, S, at + e) \o Piece(s, S, top)
          /\ Gathered(s, U, top) = Gathered(s, U, at + e) \o Piece(s, U, top)
          /\ Piece(s, S, top) \in Seq(A)
      BY ONLY <2>2, GatheredStep, s \in Seq(A)
    <2>4. Piece(s, U, top) = Piece(s, S, top)
      BY <2>2 DEF Piece
    <2> HIDE DEF top, U
    <2> DEFINE x == Piece(s, S, top)
    <2>5. x \in Seq(A) /\ B \o x \in Seq(A) /\ one \o B \in Seq(A)
      BY <1>1, <2>3, ConcatProperties
    <2> HIDE DEF x
    <2>6. Then(Then(F, B), x) = Then(F, Then(B, x))
      BY <1>2, <2>5, ThenAssociative
    <2>7. Then(Then(F, Then(one, B)), x) = Then(F, Then(Then(one, B), x))
      <3>1. Then(one, B) \in Seq(A)
        BY <1>1, ThenType
      <3> QED BY <1>2, <2>5, <3>1, ThenAssociative
    <2>8. Then(Then(one, B), x) = Then(one, Then(B, x))
      BY <1>1, <2>5, ThenAssociative
    <2>9. /\ Gathered(s, S, top) = F \o (B \o x)
          /\ Gathered(s, U, top) = F \o (one \o (B \o x))
      BY <2>1, <2>3, <2>4, <2>6, <2>7, <2>8 DEF x, Then
    <2> QED BY <2>2, <2>5, <2>9
  <1> HIDE DEF P
  <1>8. \A e \in 0 .. (Len(s) - at) : e \in P
    <2>1. Len(s) - at \in Nat
      BY <1>1
    <2> QED BY ONLY <1>6, <1>7, <2>1, IntervalInduction
  <1>9. ASSUME NEW size \in at .. Len(s)
        PROVE  \E B \in Seq(A) : Gathered(s, S, size) = F \o B /\ Gathered(s, U, size) = F \o (one \o B)
    <2>1. size - at \in P /\ at + (size - at) = size
      BY <1>8
    <2> QED BY <2>1 DEF P
  <1> QED BY <1>9 DEF F, one, SameBehind

LEMMA AheadAll ==
    ASSUME NEW A, NEW s \in Seq(A), NEW S \in SUBSET DOMAIN s
    PROVE  /\ Ahead(S, Len(s)) = S /\ IsFiniteSet(S)
           /\ RunesAt(s, S) \in Seq(A) /\ Len(RunesAt(s, S)) = Cardinality(S)
  <1>1. Len(s) \in Nat /\ DOMAIN s = 1 .. Len(s) /\ \A p \in 1 .. Len(s) : s[p] \in A
    BY LenProperties
  <1>2. Ahead(S, Len(s)) = S
    BY <1>1 DEF Ahead
  <1>3. Len(s) \in 0 .. Len(s)
    BY <1>1
  <1>4. /\ IsFiniteSet(Ahead(S, Len(s)))
        /\ Len(Gathered(s, S, Len(s))) = Cardinality(Ahead(S, Len(s)))
    BY ONLY <1>3, GatheredSize, s \in Seq(A)
  <1>5. Gathered(s, S, Len(s)) \in Seq(A)
    BY <1>1, GatheredType
  <1>6. RunesAt(s, S) = Gathered(s, S, Len(s))
    BY GatheredIsAll
  <1> QED BY <1>2, <1>4, <1>5, <1>6

(* A position more puts its rune behind those of the positions in front.   *)
LEMMA RuneInserted ==
    ASSUME NEW A, NEW s \in Seq(A), NEW S \in SUBSET DOMAIN s,
           NEW at \in DOMAIN s, at \notin S
    PROVE  RunesAt(s, S \cup {at})
             = InsertAt(RunesAt(s, S), Cardinality({ p \in S : p < at }) + 1, s[at])
  <1> DEFINE F   == Gathered(s, S, at - 1)
             one == << s[at] >>
             idx == Cardinality({ p \in S : p < at })
  <1>1. /\ at \in 1 .. Len(s) /\ Len(s) \in Nat /\ at - 1 \in 0 .. Len(s)
        /\ Len(s) \in at .. Len(s) /\ one \in Seq(A) /\ at - 1 \in Nat
        /\ \A p \in 1 .. (at - 1) : s[p] \in A
    BY LenProperties
  <1>2. F \in Seq(A)
    BY ONLY <1>1, GatheredType
  <1>3. Len(F) = idx
    <2>1. Len(F) = Cardinality(Ahead(S, at - 1))
      BY ONLY <1>1, GatheredSize, s \in Seq(A)
    <2>2. Ahead(S, at - 1) = { p \in S : p < at }
      BY <1>1 DEF Ahead
    <2> QED BY <2>1, <2>2
  <1> HIDE DEF F, one
  <1>4. PICK B \in Seq(A) : /\ Gathered(s, S, Len(s)) = F \o B
                            /\ Gathered(s, S \cup {at}, Len(s)) = F \o (one \o B)
    <2>1. SameBehind(A, s, S, at, Len(s))
      BY <1>1, GatheredWith
    <2> QED BY ONLY <2>1 DEF F, one, SameBehind
  <1>5. RunesAt(s, S) = F \o B /\ RunesAt(s, S \cup {at}) = F \o (one \o B)
    BY <1>4, GatheredIsAll
  <1> HIDE DEF idx
  <1>6. SubSeq(F \o B, 1, idx) = F /\ idx \in Nat
    <2>1. 1 \in Nat \ {0} /\ Len(F) \in 0 .. Len(F) /\ Len(F) \in Nat
      BY <1>2, LenProperties
    <2>2. SubSeq(F \o B, 1, Len(F)) = SubSeq(F, 1, Len(F))
      BY ONLY <1>2, <2>1, B \in Seq(A), FrontStretch
    <2>3. SubSeq(F, 1, Len(F)) = F
      BY <1>2, WholeStretch
    <2> QED BY <1>3, <2>1, <2>2, <2>3
  <1>7. SubSeq(F \o B, idx + 1, Len(F \o B)) = B
    BY <1>2, <1>3, BackStretch
  <1>8. InsertAt(F \o B, idx + 1, s[at]) = (F \o one) \o B
    <2> DEFINE j == F \o B
               i == idx + 1
               e == s[at]
    <2>6. i - 1 = idx
      BY <1>6
    <2>7. SubSeq(j, 1, idx) = F
      BY ONLY <1>6
    <2> HIDE DEF i
    <2>1. SubSeq(j, 1, i - 1) = F
      BY ONLY <2>6, <2>7
    <2>4. SubSeq(j, i, Len(j)) = B
      BY ONLY <1>7 DEF i
    <2>5. << e >> = one
      BY DEF one
    <2> HIDE DEF j, i, e
    <2>2. InsertAt(j, i, e) = (SubSeq(j, 1, i - 1) \o << e >>) \o SubSeq(j, i, Len(j))
      BY DEF InsertAt
    <2>3. InsertAt(j, i, e) = (F \o one) \o B
      BY ONLY <2>1, <2>2, <2>4, <2>5
    <2> QED BY ONLY <2>3 DEF j, i, e
  <1>9. Then(Then(F, one), B) = Then(F, Then(one, B))
    BY <1>1, <1>2, ThenAssociative
  <1> QED BY <1>5, <1>8, <1>9 DEF Then, idx

(* The runes at all positions are the sequence.                            *)
LEMMA RunesWhole ==
    ASSUME NEW A, NEW s \in Seq(A)
    PROVE  RunesAt(s, DOMAIN s) = s
  <1> DEFINE D == DOMAIN s
             P == { e \in 0 .. Len(s) : /\ Gathered(s, D, e) \in Seq(A)
                                        /\ Len(Gathered(s, D, e)) = e
                                        /\ \A p \in 1 .. e : Gathered(s, D, e)[p] = s[p] }
  <1>1. Len(s) \in Nat /\ D = 1 .. Len(s)
    BY LenProperties
  <1>2. 0 \in P
    <2> DEFINE G == Gathered(s, D, 0)
    <2>1. G = <<>> /\ <<>> \in Seq(A) /\ Len(<<>>) = 0 /\ 0 \in 0 .. Len(s)
      BY <1>1, GatheredEmpty, EmptySeq
    <2> HIDE DEF G
    <2>2. G \in Seq(A) /\ Len(G) = 0 /\ \A p \in 1 .. 0 : G[p] = s[p]
      BY <2>1
    <2> QED BY <2>1, <2>2 DEF G
  <1>3. ASSUME NEW e \in 0 .. (Len(s) - 1), e \in P PROVE e + 1 \in P
    <2> DEFINE F == Gathered(s, D, e)
               x == << s[e + 1] >>
               G == Gathered(s, D, e + 1)
    <2>1. /\ F \in Seq(A) /\ Len(F) = e /\ \A p \in 1 .. e : F[p] = s[p]
          /\ e + 1 \in D /\ e \in Nat /\ e + 1 \in 0 .. Len(s)
      BY <1>1, <1>3
    <2>2. G = F \o x /\ x \in Seq(A) /\ Len(x) = 1 /\ x[1] = s[e + 1]
      <3>1. Piece(s, D, e + 1) = x
        BY <2>1 DEF Piece
      <3>2. s[e + 1] \in A
        BY <2>1
      <3> QED BY <3>1, <3>2, GatheredStep
    <2> HIDE DEF F, x, G
    <2>3. /\ G \in Seq(A) /\ Len(G) = e + 1
          /\ \A p \in 1 .. (e + 1) : G[p] = IF p <= e THEN F[p] ELSE x[p - e]
      <3>1. F \in Seq(A) /\ x \in Seq(A)
        BY <2>1, <2>2
      <3>2. /\ F \o x \in Seq(A) /\ Len(F \o x) = Len(F) + Len(x)
            /\ \A p \in 1 .. (Len(F) + Len(x)) :
                  (F \o x)[p] = IF p <= Len(F) THEN F[p] ELSE x[p - Len(F)]
        BY ONLY <3>1, ConcatProperties
      <3>3. F \o x = G /\ Len(F) = e /\ Len(x) = 1
        BY <2>1, <2>2
      <3> QED BY ONLY <3>2, <3>3
    <2>4. ASSUME NEW p \in 1 .. (e + 1) PROVE G[p] = s[p]
      <3>1. CASE p <= e
        BY <2>1, <2>3, <3>1
      <3>2. CASE ~(p <= e)
        <4>1. p = e + 1 /\ p - e = 1
          BY <2>1, <3>2
        <4> QED BY <2>2, <2>3, <3>2, <4>1
      <3> QED BY <3>1, <3>2
    <2> QED BY <2>1, <2>3, <2>4 DEF G
  <1> HIDE DEF P
  <1>4. Len(s) \in P
    <2>1. \A e \in 0 .. Len(s) : e \in P
      BY ONLY <1>1, <1>2, <1>3, IntervalInduction
    <2> QED BY <1>1, <2>1
  <1>5. Gathered(s, D, Len(s)) = s
    <2> DEFINE G == Gathered(s, D, Len(s))
    <2>1. G \in Seq(A) /\ Len(G) = Len(s) /\ \A p \in 1 .. Len(G) : G[p] = s[p]
      BY <1>4 DEF P
    <2> HIDE DEF G
    <2>2. G = s
      BY <2>1, SameSequence
    <2> QED BY <2>2 DEF G
  <1> QED BY <1>5, GatheredIsAll

-------------------------------------------------------------------------------
(* The numbers: parameters, digits, thresholds and the bias.               *)
LEMMA Parameters ==
    /\ punyBase = 36 /\ punyTMin = 1 /\ punyTMax = 26 /\ punySkew = 38 /\ punyDamp = 700
    /\ punyInitialBias = 72 /\ punyDelimiter = 45 /\ punyInitialN = 128
  BY DEF punyBase, punyTMin, punyTMax, punySkew, punyDamp, punyInitialBias, punyDelimiter,
         punyInitialN

LEMMA DigitFacts ==
    ASSUME NEW d \in 0 .. 35
    PROVE  /\ punyDigit(d) \in (97 .. 122) \cup (48 .. 57) /\ punyDigit(d) \in Nat
           /\ punyDigit(d) # punyDelimiter /\ DigitOf(punyDigit(d)) = d
  BY DEF punyDigit, DigitOf, punyDelimiter

LEMMA ThresholdFacts ==
    ASSUME NEW at \in Nat, NEW b \in Nat
    PROVE  punyThreshold(at, b) \in 1 .. 26
  <1>1. CASE at <= b + 1
    BY <1>1, Parameters DEF punyThreshold
  <1>2. CASE ~(at <= b + 1) /\ at >= b + 26
    BY <1>2, Parameters DEF punyThreshold
  <1>3. CASE ~(at <= b + 1) /\ ~(at >= b + 26)
    BY <1>3, Parameters DEF punyThreshold
  <1> QED BY <1>1, <1>2, <1>3

LEMMA QuotientFacts ==
    ASSUME NEW a \in Nat, NEW b \in Nat \ {0}
    PROVE  /\ a \div b \in Nat /\ a % b \in 0 .. (b - 1)
           /\ a = b * (a \div b) + (a % b)
  OBVIOUS

LEMMA QuotientBelow ==
    ASSUME NEW a \in Nat, NEW b \in Nat \ {0}
    PROVE  a \div b <= a
  <1> DEFINE x == a \div b
             y == a % b
  <1>1. x \in Nat /\ y \in Nat /\ a = b * x + y
    BY QuotientFacts
  <1> HIDE DEF x, y
  <1>2. b * x >= x
    BY <1>1
  <1> QED BY <1>1, <1>2 DEF x

LEMMA QuotientIs ==
    ASSUME NEW a \in Nat, NEW b \in Nat \ {0}, NEW x \in 0 .. (b - 1)
    PROVE  (a * b + x) \div b = a /\ (a * b + x) % b = x
  OBVIOUS

(* What the digits still to come are worth does not change when one of     *)
(* them is written.                                                        *)
LEMMA DigitWorth ==
    ASSUME NEW i \in Nat, NEW w \in Nat, NEW left \in Nat, NEW limit \in 1 .. 26, left >= limit
    PROVE  (i + (limit + ((left - limit) % (36 - limit))) * w)
              + ((left - limit) \div (36 - limit)) * (w * (36 - limit))
             = i + left * w
  <1> DEFINE a == left - limit
             b == 36 - limit
             x == a \div b
             y == a % b
  <1>1. a \in Nat /\ b \in Nat \ {0}
    OBVIOUS
  <1>3. left = limit + a
    OBVIOUS
  <1> HIDE DEF a, b
  <1>2. x \in Nat /\ y \in Nat /\ a = b * x + y
    BY <1>1, QuotientFacts
  <1> HIDE DEF x, y
  <1>4. x * (w * b) = (b * x) * w
    BY <1>1, <1>2
  <1>5. (limit + y) * w = limit * w + y * w /\ (limit + a) * w = limit * w + a * w
    BY <1>1, <1>2
  <1>6. a * w = (b * x) * w + y * w
    BY <1>1, <1>2
  <1>7. (i + (limit + y) * w) + x * (w * b) = i + left * w
    BY <1>1, <1>2, <1>3, <1>4, <1>5, <1>6
  <1> QED BY <1>7 DEF a, b, x, y

(* The code's division loop stops at the power the standard's stops at.    *)
ShrunkEquation(start, f) ==
    f = [j \in 0 .. 5 |->
            IF j = 0 THEN start
            ELSE IF f[j - 1] > ((punyBase - punyTMin) * punyTMax) \div 2
                 THEN f[j - 1] \div (punyBase - punyTMin) ELSE f[j - 1]]

Smaller(v)   == IF v > 455 THEN v \div 35 ELSE v

LEMMA ShrunkExists ==
    ASSUME NEW start \in Nat
    PROVE  \E f : ShrunkEquation(start, f)
  <1> DEFINE a1 == Smaller(start)
             a2 == Smaller(a1)
             a3 == Smaller(a2)
             a4 == Smaller(a3)
             a5 == Smaller(a4)
             g  == [j \in 0 .. 5 |-> IF j = 0 THEN start ELSE IF j = 1 THEN a1
                                     ELSE IF j = 2 THEN a2 ELSE IF j = 3 THEN a3
                                     ELSE IF j = 4 THEN a4 ELSE a5]
  <1>1. (punyBase - punyTMin) = 35 /\ ((punyBase - punyTMin) * punyTMax) \div 2 = 455
    BY Parameters
  <1>2. /\ g[0] = start /\ g[1] = Smaller(g[0]) /\ g[2] = Smaller(g[1])
        /\ g[3] = Smaller(g[2]) /\ g[4] = Smaller(g[3]) /\ g[5] = Smaller(g[4])
        /\ g = [j \in 0 .. 5 |-> g[j]]
    <2> HIDE DEF a1, a2, a3, a4, a5
    <2> DEFINE G(j) == IF j = 0 THEN start ELSE IF j = 1 THEN a1
                       ELSE IF j = 2 THEN a2 ELSE IF j = 3 THEN a3
                       ELSE IF j = 4 THEN a4 ELSE a5
    <2>1. /\ g[0] = start /\ g[1] = a1 /\ g[2] = a2 /\ g[3] = a3 /\ g[4] = a4 /\ g[5] = a5
          /\ g = [j \in 0 .. 5 |-> g[j]]
      OBVIOUS
    <2> HIDE DEF g
    <2> QED BY <2>1 DEF a1, a2, a3, a4, a5
  <1> HIDE DEF g
  <1>3. ASSUME NEW j \in 0 .. 5
        PROVE  g[j] = IF j = 0 THEN start ELSE Smaller(g[j - 1])
    <2>1. j = 0 \/ j = 1 \/ j = 2 \/ j = 3 \/ j = 4 \/ j = 5
      OBVIOUS
    <2> QED BY <1>2, <2>1
  <1>4. ShrunkEquation(start, g)
    <2>1. ASSUME NEW j \in 0 .. 5
          PROVE  g[j] = IF j = 0 THEN start
                        ELSE IF g[j - 1] > ((punyBase - punyTMin) * punyTMax) \div 2
                             THEN g[j - 1] \div (punyBase - punyTMin) ELSE g[j - 1]
      BY <1>1, <1>3 DEF Smaller
    <2> QED BY <1>2, <2>1 DEF ShrunkEquation
  <1> QED BY <1>4

(* The first values of the code's loop.                                    *)
ShrunkFacts(start, f) ==
    /\ f[0] = start
    /\ \A j \in 1 .. 5 : f[j] = Smaller(f[j - 1])

Damped(theDelta, firstTime) == theDelta \div (IF firstTime THEN punyDamp ELSE 2)
Started(damped, size)       == damped + damped \div size

LEMMA AdaptUnfolds ==
    ASSUME NEW theDelta \in Nat, NEW size \in Nat \ {0}, NEW firstTime \in BOOLEAN
    PROVE  LET start == Started(Damped(theDelta, firstTime), size)
           IN  /\ start \in Nat
               /\ \E f : /\ ShrunkFacts(start, f)
                         /\ punyAdapt(theDelta, size, firstTime)
                              = 36 * Cardinality({ j \in 0 .. 4 : f[j] > 455 })
                                  + (36 * f[5]) \div (f[5] + 38)
  <1> DEFINE damped == Damped(theDelta, firstTime)
             start  == Started(damped, size)
  <1>1. start \in Nat
    <2>1. (IF firstTime THEN punyDamp ELSE 2) \in Nat \ {0}
      BY Parameters
    <2>2. damped \in Nat
      BY <2>1, QuotientFacts DEF Damped
    <2> HIDE DEF damped
    <2>3. damped \div size \in Nat
      BY <2>2, QuotientFacts
    <2> QED BY <2>2, <2>3 DEF Started
  <1>2. \E f : ShrunkEquation(start, f)
    BY <1>1, ShrunkExists
  <1> DEFINE f == CHOOSE f : ShrunkEquation(start, f)
  <1>3. ShrunkEquation(start, f)
    BY <1>2
  <1>4. punyAdapt(theDelta, size, firstTime)
          = punyBase * Cardinality({ j \in 0 .. 4 : f[j] > ((punyBase - punyTMin) * punyTMax) \div 2 })
              + ((punyBase - punyTMin + 1) * f[5]) \div (f[5] + punySkew)
    BY DEF punyAdapt, ShrunkEquation, Damped, Started
  <1> HIDE DEF f
  <1>5. /\ (punyBase - punyTMin) = 35 /\ ((punyBase - punyTMin) * punyTMax) \div 2 = 455
        /\ punyBase - punyTMin + 1 = 36 /\ punyBase = 36 /\ punySkew = 38
    BY Parameters
  <1>6. punyAdapt(theDelta, size, firstTime)
          = 36 * Cardinality({ j \in 0 .. 4 : f[j] > 455 }) + (36 * f[5]) \div (f[5] + 38)
    BY <1>4, <1>5
  <1>7. ShrunkFacts(start, f)
    <2>1. \A j \in 0 .. 5 :
             f[j] = IF j = 0 THEN start
                    ELSE IF f[j - 1] > ((punyBase - punyTMin) * punyTMax) \div 2
                         THEN f[j - 1] \div (punyBase - punyTMin) ELSE f[j - 1]
      BY ONLY <1>3 DEF ShrunkEquation
    <2>2. f[0] = start
      BY ONLY <2>1
    <2>3. ASSUME NEW j \in 1 .. 5 PROVE f[j] = Smaller(f[j - 1])
      <3>1. j \in 0 .. 5 /\ j # 0
        OBVIOUS
      <3> QED BY <1>5, <2>1, <3>1 DEF Smaller
    <2> QED BY <2>2, <2>3 DEF ShrunkFacts
  <1> HIDE DEF start
  <1>8. \E h : /\ ShrunkFacts(start, h)
               /\ punyAdapt(theDelta, size, firstTime)
                    = 36 * Cardinality({ j \in 0 .. 4 : h[j] > 455 })
                        + (36 * h[5]) \div (h[5] + 38)
    BY <1>6, <1>7
  <1> QED BY <1>1, <1>8 DEF start

LEMMA PowerValues ==
    /\ Power35[1] = 1 /\ Power35[2] = 35 /\ Power35[3] = 1225 /\ Power35[4] = 42875
    /\ Power35[5] = 1500625 /\ Power35[6] = 52521875
  BY SMT DEF Power35

LEMMA PowerPositive == \A j \in 0 .. 5 : Power35[j + 1] \in Nat \ {0}
  <1> SUFFICES ASSUME NEW j \in 0 .. 5 PROVE Power35[j + 1] \in Nat \ {0}
    OBVIOUS
  <1>1. j = 0 \/ j = 1 \/ j = 2 \/ j = 3 \/ j = 4 \/ j = 5
    OBVIOUS
  <1> QED BY SMT, <1>1, PowerValues

LEMMA PowerStep ==
    ASSUME NEW v \in Nat, NEW j \in 0 .. 4
    PROVE  (v \div Power35[j + 1]) \div 35 = v \div Power35[(j + 1) + 1]
  <1>1. (v \div 1) \div 35 = v \div 35
    BY SMT
  <1>2. (v \div 35) \div 35 = v \div 1225
    BY SMT
  <1>3. (v \div 1225) \div 35 = v \div 42875
    BY SMT
  <1>4. (v \div 42875) \div 35 = v \div 1500625
    BY SMT
  <1>5. (v \div 1500625) \div 35 = v \div 52521875
    BY SMT
  <1>6. j = 0 \/ j = 1 \/ j = 2 \/ j = 3 \/ j = 4
    OBVIOUS
  <1> QED BY SMT, <1>1, <1>2, <1>3, <1>4, <1>5, <1>6, PowerValues

(* Below the limit five divisions are enough.                              *)
DeltaLimit == 64 * (MaxRune + 1)

Enough(start) == { e \in 0 .. 5 : start \div Power35[e + 1] <= 455 }

LEMMA ShrunkIs ==
    ASSUME NEW start \in Nat, NEW f, ShrunkFacts(start, f), NEW e \in Enough(start),
           \A d \in Enough(start) : e <= d
    PROVE  /\ f[5] = start \div Power35[e + 1]
           /\ Cardinality({ j \in 0 .. 4 : f[j] > 455 }) = e
  <1> DEFINE D(j) == start \div Power35[j + 1]
             P == { j \in 0 .. 5 : f[j] = IF j <= e THEN D(j) ELSE D(e) }
  <1>1. /\ f[0] = start /\ e \in 0 .. 5
        /\ \A j \in 1 .. 5 : f[j] = Smaller(f[j - 1])
    BY DEF ShrunkFacts, Enough
  <1>2. D(e) <= 455 /\ \A j \in 0 .. 5 : j < e => ~(D(j) <= 455)
    <2>1. D(e) <= 455
      BY DEF Enough
    <2>2. ASSUME NEW j \in 0 .. 5, j < e, D(j) <= 455 PROVE FALSE
      <3>1. j \in Enough(start)
        BY <2>2 DEF Enough
      <3>2. e <= j
        BY <3>1
      <3> QED BY <1>1, <2>2, <3>2
    <2> QED BY <2>1, <2>2
  <1>3. \A j \in 0 .. 5 : D(j) \in Nat
    <2> SUFFICES ASSUME NEW j \in 0 .. 5 PROVE D(j) \in Nat
      OBVIOUS
    <2>1. Power35[j + 1] \in Nat \ {0}
      BY PowerPositive
    <2> QED BY <2>1, QuotientFacts
  <1>4. 0 \in P
    <2>1. start \div 1 = start
      OBVIOUS
    <2>2. D(0) = start
      BY SMT, <2>1, PowerValues
    <2> QED BY <1>1, <2>2
  <1>5. ASSUME NEW j \in 0 .. 4, j \in P PROVE j + 1 \in P
    <2>1. /\ f[j + 1] = Smaller(f[j]) /\ j \in 0 .. 5 /\ j + 1 \in 0 .. 5
          /\ f[j] = IF j <= e THEN D(j) ELSE D(e)
      <3>1. j + 1 \in 1 .. 5 /\ j + 1 - 1 = j
        OBVIOUS
      <3> QED BY <1>1, <1>5, <3>1
    <2>2. D(j) \div 35 = D(j + 1)
      BY PowerStep
    <2> HIDE DEF D
    <2>3. CASE j < e
      <3>1. f[j] = D(j) /\ ~(D(j) <= 455) /\ D(j) \in Nat /\ j + 1 <= e
        BY <1>1, <1>2, <1>3, <2>1, <2>3
      <3>2. f[j + 1] = D(j + 1)
        BY <2>1, <2>2, <3>1 DEF Smaller
      <3> QED BY <2>1, <3>1, <3>2
    <2>4. CASE ~(j < e)
      <3>1. f[j] = D(e) /\ D(e) <= 455 /\ D(e) \in Nat /\ ~(j + 1 <= e)
        BY <1>1, <1>2, <1>3, <2>1, <2>4
      <3>2. f[j + 1] = D(e)
        BY <2>1, <3>1 DEF Smaller
      <3> QED BY <2>1, <3>1, <3>2
    <2> QED BY <2>3, <2>4
  <1>6. \A j \in 0 .. 5 : f[j] = IF j <= e THEN D(j) ELSE D(e)
    <2> HIDE DEF P
    <2>1. \A j \in 0 .. 5 : j \in P
      <3>1. 5 \in Nat /\ \A j \in 0 .. (5 - 1) : j \in P => j + 1 \in P
        BY <1>5
      <3> QED BY ONLY <1>4, <3>1, IntervalInduction
    <2> QED BY <2>1 DEF P
  <1> HIDE DEF D, P
  <1>7. f[5] = D(e)
    BY <1>1, <1>6
  <1>8. { j \in 0 .. 4 : f[j] > 455 } = 0 .. (e - 1)
    <2>1. ASSUME NEW j \in 0 .. 4 PROVE f[j] > 455 <=> j < e
      <3>1. j \in 0 .. 5 /\ D(j) \in Nat /\ D(e) \in Nat
        BY <1>1, <1>3
      <3>2. CASE j < e
        BY <1>1, <1>2, <1>6, <3>1, <3>2
      <3>3. CASE ~(j < e)
        <4>1. f[j] = D(e)
          BY <1>1, <1>6, <3>1, <3>3
        <4> QED BY <1>2, <3>1, <3>3, <4>1
      <3> QED BY <3>2, <3>3
    <2> QED BY <1>1, <2>1
  <1>9. Cardinality(0 .. (e - 1)) = e
    <2>1. 0 \in Int /\ e - 1 \in Int /\ (e = 0 => 0 > e - 1) /\ (e # 0 => ~(0 > e - 1))
      BY <1>1
    <2>2. Cardinality(0 .. (e - 1)) = IF 0 > e - 1 THEN 0 ELSE (e - 1) - 0 + 1
      BY <2>1, FS_Interval
    <2> QED BY <1>1, <2>1, <2>2
  <1> QED BY <1>7, <1>8, <1>9 DEF D

(* The code adapts the bias as the standard does, and it is a number.      *)
LEMMA AdaptAgrees ==
    ASSUME NEW theDelta \in 0 .. (DeltaLimit - 1), NEW size \in Nat \ {0},
           NEW firstTime \in BOOLEAN
    PROVE  /\ punyAdapt(theDelta, size, firstTime) = Adapted(theDelta, size, firstTime)
           /\ punyAdapt(theDelta, size, firstTime) \in Nat
  <1> DEFINE damped == Damped(theDelta, firstTime)
             start  == Started(damped, size)
             e      == Min(Enough(start))
             rest   == start \div Power35[e + 1]
  <1>1. theDelta \in Nat /\ theDelta <= 76800000
    <2> DEFINE top == MaxRune + 1
    <2>1. MaxRune \in Nat /\ MaxRune <= 1114111
      BY SMT DEF MaxRune
    <2>2. top \in Nat /\ top <= 1200000
      BY SMT, <2>1
    <2>3. theDelta \in 0 .. (64 * top - 1)
      BY SMT DEF DeltaLimit
    <2> HIDE DEF top
    <2> QED BY SMT, <2>2, <2>3
  <1>2. start \in Nat /\ start <= 153600000
    <2> DEFINE by == IF firstTime THEN punyDamp ELSE 2
    <2>1. by \in Nat \ {0}
      BY Parameters
    <2> HIDE DEF by
    <2> DEFINE x == theDelta \div by
    <2>5. theDelta \in Nat
      BY SMT, <1>1
    <2>2. x \in Nat /\ x <= theDelta
      BY <2>1, <2>5, QuotientFacts, QuotientBelow
    <2> HIDE DEF x
    <2>3. x \div size \in Nat /\ x \div size <= x
      BY <2>2, QuotientFacts, QuotientBelow
    <2>4. damped = x
      BY DEF Damped, x, by
    <2> HIDE DEF damped
    <2> QED BY SMT, <1>1, <2>2, <2>3, <2>4 DEF Started
  <1> HIDE DEF start
  <1>12. start \in Nat
    BY SMT, <1>2
  <1>3. PICK f : /\ ShrunkFacts(start, f)
                 /\ punyAdapt(theDelta, size, firstTime)
                      = 36 * Cardinality({ j \in 0 .. 4 : f[j] > 455 })
                          + (36 * f[5]) \div (f[5] + 38)
    <2>1. theDelta \in Nat
      BY <1>1, SMT
    <2> QED BY <2>1, AdaptUnfolds DEF start
  <1>4. Enough(start) \in SUBSET Nat /\ Enough(start) # {}
    <2>1. start \div 52521875 <= 455
      BY SMT, <1>2
    <2>2. 5 \in Enough(start)
      BY SMT, <2>1, PowerValues DEF Enough
    <2> QED BY <2>2 DEF Enough
  <1>5. e \in Enough(start) /\ \A d \in Enough(start) : e <= d
    BY <1>4, SmallestElement
  <1>6. e \in 0 .. 5 /\ rest \in Nat
    <2>1. e \in 0 .. 5
      BY <1>5 DEF Enough
    <2> HIDE DEF e
    <2>2. Power35[e + 1] \in Nat \ {0}
      BY <2>1, PowerPositive
    <2> QED BY <1>12, <2>1, <2>2, QuotientFacts
  <1>7. Adapted(theDelta, size, firstTime) = 36 * e + (36 * rest) \div (rest + 38)
    BY Parameters DEF Adapted, Enough, start, Started, Damped
  <1> HIDE DEF e, damped
  <1>8. /\ f[5] = start \div Power35[e + 1]
        /\ Cardinality({ j \in 0 .. 4 : f[j] > 455 }) = e
    BY <1>12, <1>3, <1>5, ShrunkIs
  <1> HIDE DEF rest
  <1>9. f[5] = rest
    BY <1>8 DEF rest
  <1>10. (36 * rest) \div (rest + 38) \in Nat
    <2>1. 36 * rest \in Nat /\ rest + 38 \in Nat \ {0}
      BY <1>6
    <2> QED BY <2>1, QuotientFacts
  <1>11. 36 * e \in Nat
    BY <1>6
  <1> QED BY <1>3, <1>7, <1>8, <1>9, <1>10, <1>11

-------------------------------------------------------------------------------
(* The handled runes; those of them the scan has passed.                   *)
Handled == IF pc \in {"scan", "digit"} THEN Upto(r) ELSE Upto(1)
Behind  == IF pc \in {"scan", "digit"} THEN { p \in Upto(r) : p < r } ELSE {}

(* A decoder's state, and the characters an A-label is made of.            *)
Decoders   == [text : Seq(Nat), n : Nat, i : Nat, old : Nat, w : Nat, k : Nat, bias : Nat]
Letters(s) == { c \in 0 .. 127 : Contains(s, c) \/ c \in (97 .. 122) \cup (48 .. 57) \cup {45} }

Encoding == pc \in {"pick", "search", "scan", "digit"}

(* The decoder of what is written has the handled runes in their places,   *)
(* and the code's bias.                                                    *)
Follows(D) ==
    /\ D \in Decoders
    /\ D.text = RunesAt(runes, Handled) /\ D.bias = bias /\ D.n <= n
    /\ D.old = 0 <=> handled = basic

(* Where it stands and what delta says it moves by is the place the scan   *)
(* is at: n - D.n times around the text and the handled runes passed.      *)
Moves(D) == D.old + delta = (n - D.n) * (handled + 1) + Cardinality(Behind)

(* In front of a delta its weight is 1; between its digits what q is worth *)
(* is what the decoder has not read yet.                                   *)
Waits(D)  == pc # "digit" => D.w = 1 /\ D.k = punyBase /\ D.i = D.old
Digits(D) == pc = "digit" => D.k = k /\ q \in Nat /\ D.i + q * D.w = D.old + delta

DInv ==
    /\ pc = "label" => bias = punyInitialBias
    /\ pc = "done" /\ LeftAlone => out = label
    /\ pc # "label" /\ ~LeftAlone => out \in Seq(Letters(runes)) /\ runes = ToLower(label)
    /\ pc = "done" /\ ~LeftAlone => Decoded(out) = runes
    /\ Encoding =>
          /\ ~LeftAlone /\ basic \in Nat /\ basic <= handled
          /\ Follows(Decoding(out)) /\ Moves(Decoding(out))
          /\ Waits(Decoding(out)) /\ Digits(Decoding(out))

DigitWithin(st, c, d) == /\ st \in Decoders /\ d \in 0 .. 35 /\ DigitOf(c) = d

(* A digit at or above the threshold is followed by another.               *)
LEMMA TakenMore ==
    ASSUME NEW st, NEW c, NEW d, DigitWithin(st, c, d), d >= punyThreshold(st.k, st.bias)
    PROVE  LET limit == punyThreshold(st.k, st.bias)
               D     == Taken(st, c)
           IN  /\ D \in Decoders
               /\ D.text = st.text /\ D.bias = st.bias /\ D.n = st.n /\ D.old = st.old
               /\ D.i = st.i + d * st.w
               /\ D.w = st.w * (36 - limit) /\ D.k = st.k + 36
  <1> DEFINE limit == punyThreshold(st.k, st.bias)
             D == Taken(st, c)
             i == st.i + d * st.w
             w == st.w * (punyBase - limit)
             kk == st.k + punyBase
  <1>1. /\ st \in Decoders /\ d \in 0 .. 35 /\ DigitOf(c) = d
        /\ st.text \in Seq(Nat) /\ st.n \in Nat /\ st.i \in Nat /\ st.old \in Nat
        /\ st.w \in Nat /\ st.k \in Nat /\ st.bias \in Nat
    BY DEF DigitWithin, Decoders
  <1>2. limit \in 1 .. 26 /\ punyBase = 36
    BY <1>1, ThresholdFacts, Parameters
  <1> HIDE DEF limit
  <1>3. i \in Nat /\ w \in Nat /\ kk \in Nat
    <2>1. \A a, b \in Nat : a * b \in Nat
      OBVIOUS
    <2>2. d * st.w \in Nat
      <3>1. d \in Nat /\ st.w \in Nat
        BY <1>1
      <3> QED BY ONLY <2>1, <3>1
    <2>3. st.w * (36 - limit) \in Nat
      <3>1. st.w \in Nat /\ 36 - limit \in Nat
        BY <1>1, <1>2
      <3> QED BY ONLY <2>1, <3>1
    <2>4. w = st.w * (36 - limit)
      BY <1>2
    <2> DEFINE worth == d * st.w
    <2>5. i \in Nat
      <3>1. i = st.i + worth /\ st.i \in Nat /\ worth \in Nat
        BY <1>1, <2>2
      <3> HIDE DEF i, worth
      <3> QED BY ONLY <3>1
    <2>6. kk \in Nat
      BY <1>1, <1>2
    <2> QED BY <2>3, <2>4, <2>5, <2>6
  <1>4. D = [st EXCEPT !.i = i, !.w = w, !.k = kk]
    BY <1>1 DEF Taken, limit
  <1> HIDE DEF i, w, kk, D
  <1>5. D = [text |-> st.text, n |-> st.n, i |-> i, old |-> st.old, w |-> w, k |-> kk, bias |-> st.bias]
    BY <1>1, <1>4 DEF Decoders
  <1>6. D \in Decoders
    BY <1>1, <1>3, <1>5 DEF Decoders
  <1>7. /\ D.text = st.text /\ D.bias = st.bias /\ D.n = st.n /\ D.old = st.old
        /\ D.i = i /\ D.w = w /\ D.k = kk
    BY <1>5
  <1> QED BY <1>2, <1>6, <1>7 DEF limit, D, i, w, kk

(* A digit below it ends the number, and a rune goes into the text.        *)
Ended(st, by, at, i, size) ==
    [text |-> InsertAt(st.text, at + 1, st.n + by), n |-> st.n + by, i |-> at + 1,
     old |-> at + 1, w |-> 1, k |-> 36, bias |-> Adapted(i - st.old, size, st.old = 0)]

EndsAt(st, d, by, at, i, size) ==
    /\ size = Len(st.text) + 1 /\ i = st.i + d * st.w
    /\ by \in Nat /\ at \in 0 .. (size - 1) /\ i = by * size + at

LEMMA TakenLast ==
    ASSUME NEW st, NEW c, NEW d, DigitWithin(st, c, d), ~(d >= punyThreshold(st.k, st.bias)),
           NEW by, NEW at, NEW i, NEW size, EndsAt(st, d, by, at, i, size)
    PROVE  Taken(st, c) = Ended(st, by, at, i, size)
  <1>1. Len(st.text) \in Nat /\ DigitOf(c) = d
    BY DEF DigitWithin, Decoders
  <1>4. /\ size = Len(st.text) + 1 /\ i = st.i + d * st.w
        /\ by \in Nat /\ at \in 0 .. (size - 1) /\ i = by * size + at
    BY DEF EndsAt
  <1>2. size \in Nat \ {0}
    BY <1>1, <1>4
  <1>3. i \div size = by /\ i % size = at
    <2>1. by \in Nat /\ at \in 0 .. (size - 1)
      BY <1>4
    <2>2. (by * size + at) \div size = by /\ (by * size + at) % size = at
      BY ONLY <1>2, <2>1, QuotientIs
    <2> QED BY ONLY <2>2, <1>4
  <1> QED BY <1>1, <1>3, <1>4, Parameters DEF Taken, Ended

LEMMA LettersAreNumbers ==
    ASSUME NEW s, NEW u \in Seq(Letters(s))
    PROVE  u \in Seq(Nat)
  <1>1. Letters(s) \subseteq Nat
    <2>1. Letters(s) \subseteq 0 .. 127
      BY Zenon DEF Letters
    <2>2. \A c \in 0 .. 127 : c \in Nat
      OBVIOUS
    <2> QED BY Zenon, <2>1, <2>2
  <1>2. Len(u) \in Nat /\ u \in [1 .. Len(u) -> Letters(s)]
    BY LenProperties
  <1>3. u \in [1 .. Len(u) -> Nat]
    BY <1>1, <1>2
  <1> QED BY <1>2, <1>3

(* A digit written is a character of an A-label, and a decoder's step.     *)
LEMMA DigitWritten ==
    ASSUME NEW s, NEW u \in Seq(Letters(s)), NEW d \in 0 .. 35, NEW c, c = punyDigit(d)
    PROVE  /\ Append(u, c) \in Seq(Letters(s))
           /\ Decoding(Append(u, c)) = Taken(Decoding(u), c)
           /\ DigitOf(c) = d
  <1>1. /\ c \in (97 .. 122) \cup (48 .. 57) /\ c \in Nat /\ c # punyDelimiter
        /\ DigitOf(c) = d
    BY DigitFacts
  <1>2. c \in Letters(s)
    BY <1>1 DEF Letters
  <1>3. u \in Seq(Nat)
    BY LettersAreNumbers
  <1> QED BY <1>1, <1>2, <1>3, DecodingStep, AppendProperties

BothInv == IInv /\ DInv

(* The handled runes, as positions and as a text.                          *)
LEMMA HandledFacts ==
    ASSUME BothInv
    PROVE  /\ runes \in Seq(Nat) /\ Len(runes) \in Nat /\ DOMAIN runes = 1 .. Len(runes)
           /\ Handled \in SUBSET DOMAIN runes /\ IsFiniteSet(Handled)
           /\ Len(RunesAt(runes, Handled)) = Cardinality(Handled)
           /\ RunesAt(runes, Handled) \in Seq(Nat)
           /\ Encoding => handled = Cardinality(Handled)
           /\ IsFiniteSet(Behind) /\ Behind \in SUBSET Handled
           /\ Cardinality(Behind) \in Nat
           /\ \A p \in DOMAIN runes : runes[p] \in Nat
           /\ n \in Nat /\ delta \in Nat /\ handled \in Nat /\ r \in Nat \ {0}
  <1>1. TypeInv
    BY DEF BothInv, IInv
  <1>2. /\ Len(runes) \in Nat /\ DOMAIN runes = 1 .. Len(runes)
        /\ \A p \in DOMAIN runes : runes[p] \in Nat
        /\ \A s : IsFiniteSet(Upto(s)) /\ Upto(s) \subseteq DOMAIN runes
    BY <1>1, Types DEF TypeInv
  <1>3. runes \in Seq(Nat)
    <2>1. runes \in [1 .. Len(runes) -> Nat]
      BY <1>1, <1>2 DEF TypeInv
    <2> QED BY <1>2, <2>1
  <1>4. Handled \in SUBSET DOMAIN runes /\ IsFiniteSet(Handled)
    BY <1>2 DEF Handled
  <1>5. Behind \in SUBSET Handled
    BY DEF Behind, Handled
  <1>6. IsFiniteSet(Behind) /\ Cardinality(Behind) \in Nat
    BY <1>4, <1>5, FS_Subset, FS_CardinalityType
  <1>7. Encoding => handled = Cardinality(Handled)
    BY DEF BothInv, IInv, Counted, Encoding, Handled
  <1>8. /\ RunesAt(runes, Handled) \in Seq(Nat)
        /\ Len(RunesAt(runes, Handled)) = Cardinality(Handled)
    BY <1>3, <1>4, AheadAll
  <1> QED BY <1>1, <1>2, <1>3, <1>4, <1>5, <1>6, <1>7, <1>8 DEF TypeInv

(* Between the loops nothing is written.                                   *)
LEMMA QuietDecodes ==
    ASSUME BothInv, pc \in {"pick", "search", "scan"}, Encoding',
           UNCHANGED <<label, runes, out, bias, basic, handled>>,
           Handled' = Handled, n <= n', n' \in Nat, delta' \in Nat,
           pc' = "digit" => q' = delta' /\ k' = punyBase,
           NEW D, D = Decoding(out),
           D.old + delta' = (n' - D.n) * (handled + 1) + Cardinality(Behind')
    PROVE  DInv'
  <1>1. /\ Follows(D) /\ Waits(D) /\ ~LeftAlone /\ basic \in Nat /\ basic <= handled
        /\ out \in Seq(Letters(runes)) /\ runes = ToLower(label)
        /\ pc # "label" /\ pc # "done" /\ pc' # "label" /\ pc' # "done" /\ pc # "digit"
    BY DEF BothInv, DInv, Encoding
  <1>2. LeftAlone' = LeftAlone
    BY DEF LeftAlone
  <1>3. /\ out' = out /\ runes' = runes /\ basic' = basic /\ handled' = handled
        /\ label' = label /\ Decoding(out)' = D
    OBVIOUS
  <1>4. /\ D \in Decoders /\ D.n \in Nat /\ D.old \in Nat
        /\ D.w = 1 /\ D.k = punyBase /\ D.i = D.old
    BY <1>1 DEF Follows, Decoders, Waits
  <1>5. Follows(Decoding(out))'
    <2>1. D.n <= n'
      BY <1>1, <1>4, HandledFacts DEF Follows
    <2>2. /\ D \in Decoders /\ D.text = RunesAt(runes, Handled) /\ D.bias = bias
          /\ D.old = 0 <=> handled = basic
      BY <1>1 DEF Follows
    <2> QED BY <1>3, <2>1, <2>2 DEF Follows
  <1>6. Moves(Decoding(out))'
    BY <1>3 DEF Moves
  <1>7. Waits(Decoding(out))' /\ Digits(Decoding(out))'
    <2>1. pc' = "digit" => q' \in Nat /\ D.i + q' * D.w = D.old + delta'
      BY <1>4
    <2> QED BY <1>3, <1>4, <2>1 DEF Waits, Digits
  <1> QED BY <1>1, <1>2, <1>3, <1>5, <1>6, <1>7 DEF DInv

LEMMA Distributes == \A a, b, c \in Int : (a + b) * c = a * c + b * c
  OBVIOUS

LEMMA StepTypes ==
    ASSUME BothInv, [Next]_vars
    PROVE  IInv' /\ n' \in Nat /\ delta' \in Nat /\ handled' \in Nat
  BY StepKeeps DEF BothInv, IInv, TypeInv

(* What a decoder in an encoding state holds.                              *)
LEMMA DecoderFacts ==
    ASSUME BothInv, Encoding, NEW D, D = Decoding(out)
    PROVE  /\ D \in Decoders /\ D.n \in Nat /\ D.old \in Nat /\ D.i \in Nat
           /\ D.w \in Nat /\ D.k \in Nat /\ D.bias \in Nat /\ D.n <= n
           /\ D.old + delta = (n - D.n) * (handled + 1) + Cardinality(Behind)
           /\ D.text = RunesAt(runes, Handled) /\ D.bias = bias
           /\ (D.old = 0 <=> handled = basic)
  BY DEF BothInv, DInv, Follows, Decoders, Moves

LEMMA SearchDecodes ==
    ASSUME BothInv, BeginSearch \/ Search
    PROVE  DInv'
  <1> DEFINE D == Decoding(out)
  <1>1. /\ pc \in {"pick", "search"} /\ pc' = "search"
        /\ UNCHANGED <<label, runes, out, bias, basic, handled>>
        /\ n' = n /\ delta' = delta /\ Next
    BY DEF BeginSearch, Search, coder, Next
  <1>2. Handled' = Handled /\ Behind' = Behind
    BY <1>1 DEF Handled, Behind, Upto
  <1>3. /\ Encoding /\ Encoding' /\ n <= n' /\ n' \in Nat /\ delta' \in Nat
    BY <1>1, HandledFacts DEF Encoding
  <1>4. D.old + delta' = (n' - D.n) * (handled + 1) + Cardinality(Behind')
    BY <1>1, <1>2, <1>3, DecoderFacts
  <1> HIDE DEF D
  <1>5. D = Decoding(out)
    BY DEF D
  <1> QED BY <1>1, <1>2, <1>3, <1>4, <1>5, QuietDecodes

LEMMA TakeNextDecodes ==
    ASSUME BothInv, TakeNext
    PROVE  DInv'
  <1> DEFINE D == Decoding(out)
  <1>1. /\ pc = "search" /\ pc' = "scan" /\ r' = 1
        /\ UNCHANGED <<label, runes, out, bias, basic, handled>>
        /\ n' = m /\ delta' = delta + (m - n) * (handled + 1) /\ Next
    BY DEF TakeNext, Next
  <1>2. n <= m /\ Upto(1)' = Upto(1) /\ m \in Nat
    BY NextFound DEF BothInv, IInv, TypeInv
  <1>3. Handled' = Handled
    <2>1. Upto(r)' = Upto(1)'
      BY <1>1 DEF Upto
    <2> QED BY <1>1, <1>2, <2>1 DEF Handled
  <1>4. Behind' = {} /\ Behind = {} /\ Cardinality({}) = 0
    <2>1. Behind' = { p \in Upto(r)' : p < 1 }
      BY <1>1 DEF Behind
    <2>2. Upto(r)' = Handled
      BY <1>1, <1>3 DEF Handled
    <2>3. \A p \in Handled : p \in Nat \ {0}
      BY HandledFacts
    <2>4. \A p \in Handled : ~(p < 1)
      BY <2>3
    <2> QED BY <1>1, <2>1, <2>2, <2>4, FS_EmptySet DEF Behind
  <1>5. /\ Encoding /\ Encoding' /\ n <= n' /\ n' \in Nat /\ delta' \in Nat
    BY <1>1, <1>2, StepTypes DEF Encoding
  <1>6. /\ D.old + delta = (n - D.n) * (handled + 1) + 0
        /\ D.n \in Nat /\ D.old \in Nat /\ n \in Nat /\ handled \in Nat /\ delta \in Nat
    BY <1>4, <1>5, DecoderFacts, HandledFacts
  <1> HIDE DEF D
  <1>7. (n - D.n) * (handled + 1) + (m - n) * (handled + 1) = (m - D.n) * (handled + 1)
    <2>1. n - D.n \in Int /\ m - n \in Int /\ handled + 1 \in Int
      BY <1>2, <1>6
    <2>2. (n - D.n) + (m - n) = m - D.n
      BY <1>2, <1>6
    <2>3. ((n - D.n) + (m - n)) * (handled + 1)
             = (n - D.n) * (handled + 1) + (m - n) * (handled + 1)
      BY ONLY <2>1, Distributes
    <2> QED BY <2>2, <2>3
  <1>8. D.old + delta' = (n' - D.n) * (handled + 1) + Cardinality(Behind')
    <2>1. (m - n) * (handled + 1) \in Int /\ (n - D.n) * (handled + 1) \in Int
      BY <1>2, <1>6
    <2> QED BY <1>1, <1>4, <1>6, <1>7, <2>1
  <1>9. D = Decoding(out)
    BY DEF D
  <1>10. pc \in {"pick", "search", "scan"} /\ pc' # "digit"
    BY <1>1
  <1> QED BY <1>1, <1>3, <1>5, <1>8, <1>9, <1>10, QuietDecodes

LEMMA PassDecodes ==
    ASSUME BothInv, CountBelow \/ PassAbove
    PROVE  DInv'
  <1> DEFINE D == Decoding(out)
  <1>1. /\ pc = "scan" /\ pc' = "scan" /\ r <= Len(runes) /\ r' = r + 1
        /\ UNCHANGED <<label, runes, out, bias, basic, handled>> /\ n' = n /\ Next
    BY DEF CountBelow, PassAbove, Scanning, coder, Next
  <1>2. /\ r \in DOMAIN runes /\ runes[r] \in Nat /\ n \in Nat /\ r \in Nat \ {0}
        /\ delta \in Nat /\ handled \in Nat /\ Cardinality(Behind) \in Nat /\ IsFiniteSet(Behind)
        /\ DOMAIN runes = 1 .. Len(runes)
    BY <1>1, HandledFacts
  <1>3. /\ CountBelow => runes[r] < n /\ delta' = delta + 1
        /\ PassAbove => runes[r] > n /\ delta' = delta
    BY DEF CountBelow, PassAbove, coder
  <1>4. runes[r] # n
    BY <1>2, <1>3
  <1>5. Upto(r)' = Upto(r)
    <2>1. Upto(r)' = Upto(r + 1)
      BY <1>1 DEF Upto
    <2>2. Upto(r + 1) = Upto(r)
      BY <1>2, <1>4 DEF Upto
    <2> QED BY <2>1, <2>2
  <1>6. Handled' = Handled
    BY <1>1, <1>5 DEF Handled
  <1>7. Behind' = { p \in Upto(r) : p < r + 1 } /\ Behind = { p \in Upto(r) : p < r }
    BY <1>1, <1>5 DEF Behind
  <1>8. Cardinality(Behind') = Cardinality(Behind) + (delta' - delta)
    <2>1. CASE CountBelow
      <3>1. r \in Upto(r)
        BY <1>2, <1>3, <2>1 DEF Upto
      <3>2. \A p \in Upto(r) : p \in Nat
        BY <1>2 DEF Upto
      <3>3. Behind' = Behind \cup {r} /\ r \notin Behind
        BY <1>2, <1>7, <3>1, <3>2
      <3>4. Cardinality(Behind \cup {r}) = Cardinality(Behind) + 1
        BY <1>2, <3>3, FS_AddElement
      <3> QED BY <1>2, <1>3, <2>1, <3>3, <3>4
    <2>2. CASE PassAbove
      <3>1. r \notin Upto(r)
        BY <1>2, <1>3, <2>2 DEF Upto
      <3>2. \A p \in Upto(r) : p \in Nat
        BY <1>2 DEF Upto
      <3>3. Behind' = Behind
        BY <1>2, <1>7, <3>1, <3>2
      <3> QED BY <1>2, <1>3, <2>2, <3>3
    <2> QED BY <2>1, <2>2
  <1>9. /\ Encoding /\ Encoding' /\ n <= n' /\ n' \in Nat /\ delta' \in Nat
    BY <1>1, <1>2, StepTypes DEF Encoding
  <1>10. /\ D.old + delta = (n - D.n) * (handled + 1) + Cardinality(Behind)
         /\ D.n \in Nat /\ D.old \in Nat
    BY <1>9, DecoderFacts
  <1> HIDE DEF D
  <1>11. D.old + delta' = (n' - D.n) * (handled + 1) + Cardinality(Behind')
    <2> DEFINE x == (n - D.n) * (handled + 1)
    <2>1. x \in Int
      BY <1>2, <1>10
    <2>2. (n' - D.n) * (handled + 1) = x
      BY <1>1
    <2>3. D.old + delta = x + Cardinality(Behind)
      BY <1>10
    <2> HIDE DEF x
    <2>4. D.old \in Nat /\ delta' \in Nat
      BY <1>9, <1>10
    <2>5. D.old + delta' = x + Cardinality(Behind')
      <3> DEFINE old == D.old
                 now == delta'
                 c1  == Cardinality(Behind)
                 c2  == Cardinality(Behind')
      <3>1. old \in Nat /\ now \in Nat /\ c1 \in Nat /\ delta \in Nat /\ x \in Int
        BY <1>2, <2>1, <2>4
      <3>2. c2 = c1 + (now - delta) /\ old + delta = x + c1
        BY ONLY <1>8, <2>3
      <3> HIDE DEF old, now, c1, c2
      <3>3. old + now = x + c2
        BY ONLY <3>1, <3>2
      <3> QED BY ONLY <3>3 DEF old, now, c1, c2
    <2> QED BY ONLY <2>2, <2>5
  <1>12. D = Decoding(out)
    BY DEF D
  <1>13. pc \in {"pick", "search", "scan"} /\ pc' # "digit"
    BY <1>1
  <1> QED BY <1>1, <1>6, <1>9, <1>11, <1>12, <1>13, QuietDecodes

LEMMA BeginDigitsDecodes ==
    ASSUME BothInv, BeginDigits
    PROVE  DInv'
  <1> DEFINE D == Decoding(out)
  <1>1. /\ pc = "scan" /\ pc' = "digit" /\ r' = r /\ n' = n /\ delta' = delta
        /\ q' = delta /\ k' = punyBase
        /\ UNCHANGED <<label, runes, out, bias, basic, handled>> /\ Next
    BY DEF BeginDigits, Scanning, coder, Next
  <1>2. Handled' = Handled /\ Behind' = Behind
    BY <1>1 DEF Handled, Behind, Upto
  <1>3. /\ Encoding /\ Encoding' /\ n <= n' /\ n' \in Nat /\ delta' \in Nat
    BY <1>1, HandledFacts DEF Encoding
  <1>4. D.old + delta' = (n' - D.n) * (handled + 1) + Cardinality(Behind')
    BY <1>1, <1>2, <1>3, DecoderFacts
  <1> HIDE DEF D
  <1>5. D = Decoding(out)
    BY DEF D
  <1>6. pc \in {"pick", "search", "scan"} /\ q' = delta' /\ k' = punyBase
    BY <1>1
  <1> QED BY <1>1, <1>2, <1>3, <1>4, <1>5, <1>6, QuietDecodes

(* All runes equal to n are handled: n moves on, and the place is the      *)
(* start of the next time around.                                          *)
LEMMA EndScanDecodes ==
    ASSUME BothInv, EndScan
    PROVE  DInv'
  <1> DEFINE D == Decoding(out)
  <1>1. /\ pc = "scan" /\ pc' = "pick" /\ r > Len(runes) /\ r' = r
        /\ n' = n + 1 /\ delta' = delta + 1
        /\ UNCHANGED <<label, runes, out, bias, basic, handled>> /\ Next
    BY DEF EndScan, scan, Next
  <1>2. /\ n \in Nat /\ r \in Nat \ {0} /\ handled \in Nat /\ delta \in Nat /\ Len(runes) \in Nat
        /\ DOMAIN runes = 1 .. Len(runes) /\ \A p \in DOMAIN runes : runes[p] \in Nat
    BY HandledFacts
  <1>3. Handled = { p \in DOMAIN runes : runes[p] <= n }
    BY <1>1, <1>2 DEF Handled, Upto
  <1>4. Handled' = { p \in DOMAIN runes : runes[p] <= n }
    BY <1>1, <1>2 DEF Handled, Upto
  <1>5. Behind = Handled
    <2>1. \A p \in Upto(r) : p < r
      BY <1>1, <1>2 DEF Upto
    <2> QED BY <1>1, <2>1 DEF Behind, Handled
  <1>6. Behind' = {} /\ Cardinality({}) = 0
    BY <1>1, FS_EmptySet DEF Behind
  <1>7. /\ Encoding /\ Encoding' /\ n <= n' /\ n' \in Nat /\ delta' \in Nat
    BY <1>1, <1>2 DEF Encoding
  <1>8. /\ D.old + delta = (n - D.n) * (handled + 1) + handled
        /\ D.n \in Nat /\ D.old \in Nat
    BY <1>5, <1>7, DecoderFacts, HandledFacts
  <1> HIDE DEF D
  <1>9. ((n - D.n) + 1) * (handled + 1) = (n - D.n) * (handled + 1) + 1 * (handled + 1)
    <2>1. n - D.n \in Int /\ 1 \in Int /\ handled + 1 \in Int
      BY <1>2, <1>8
    <2> QED BY ONLY <2>1, Distributes
  <1>10. D.old + delta' = (n' - D.n) * (handled + 1) + Cardinality(Behind')
    <2> DEFINE x == (n - D.n) * (handled + 1)
    <2>1. x \in Int /\ n' - D.n = (n - D.n) + 1
      <3>1. n \in Int /\ D.n \in Int /\ handled + 1 \in Int /\ n' = n + 1
        BY <1>1, <1>2, <1>8
      <3>2. n - D.n \in Int /\ n' - D.n = (n - D.n) + 1
        BY ONLY <3>1
      <3>3. \A a, b \in Int : a * b \in Int
        OBVIOUS
      <3> QED BY ONLY <3>1, <3>2, <3>3
    <2>2. (n' - D.n) * (handled + 1) = x + (handled + 1)
      BY <1>2, <1>9, <2>1
    <2>3. D.old + delta = x + handled
      BY <1>8
    <2> HIDE DEF x
    <2>4. D.old \in Nat /\ delta' = delta + 1
      BY <1>1, <1>8
    <2>5. D.old + delta' = (x + (handled + 1)) + 0
      BY ONLY <1>2, <2>1, <2>3, <2>4
    <2> QED BY ONLY <1>6, <2>2, <2>5
  <1>11. D = Decoding(out)
    BY DEF D
  <1>12. pc \in {"pick", "search", "scan"} /\ pc' # "digit"
    BY <1>1
  <1> QED BY <1>1, <1>3, <1>4, <1>7, <1>10, <1>11, <1>12, QuietDecodes

(* In the digit loop: the decoder is behind by what q is still worth.      *)
LEMMA DigitState ==
    ASSUME BothInv, pc = "digit", NEW D, D = Decoding(out)
    PROVE  /\ D.k = k /\ q \in Nat /\ k \in Nat /\ D.i + q * D.w = D.old + delta
           /\ t \in 1 .. 26 /\ punyThreshold(D.k, D.bias) = t
           /\ out \in Seq(Letters(runes)) /\ runes = ToLower(label)
           /\ ~LeftAlone /\ basic \in Nat /\ basic <= handled
  <1>1. Encoding
    BY DEF Encoding
  <1>2. /\ Digits(D) /\ out \in Seq(Letters(runes)) /\ runes = ToLower(label)
        /\ ~LeftAlone /\ basic \in Nat /\ basic <= handled
    BY <1>1 DEF BothInv, DInv
  <1>3. D.k \in Nat /\ D.bias \in Nat /\ D.bias = bias
    BY <1>1, DecoderFacts
  <1>4. D.k = k /\ q \in Nat /\ D.i + q * D.w = D.old + delta
    BY <1>2 DEF Digits
  <1>5. t = punyThreshold(D.k, D.bias)
    BY <1>3, <1>4 DEF t
  <1>6. t \in 1 .. 26
    BY <1>3, <1>5, ThresholdFacts
  <1> QED BY <1>2, <1>3, <1>4, <1>5, <1>6

LEMMA WriteDigitDecodes ==
    ASSUME BothInv, WriteDigit
    PROVE  DInv'
  <1> DEFINE D == Decoding(out)
             d == t + ((q - t) % (36 - t))
             c == punyDigit(d)
             E == Taken(D, c)
  <1>1. /\ pc = "digit" /\ pc' = "digit" /\ q >= t
        /\ UNCHANGED <<label, runes, bias, basic, handled, n, delta, r>>
        /\ out' = Append(out, punyDigit(t + ((q - t) % (punyBase - t))))
        /\ q' = (q - t) \div (punyBase - t) /\ k' = k + punyBase /\ Next
    BY DEF WriteDigit, coder, Next
  <1>2. /\ D.k = k /\ q \in Nat /\ k \in Nat /\ D.i + q * D.w = D.old + delta
        /\ t \in 1 .. 26 /\ punyThreshold(D.k, D.bias) = t
        /\ out \in Seq(Letters(runes)) /\ runes = ToLower(label)
        /\ ~LeftAlone /\ basic \in Nat /\ basic <= handled
    BY <1>1, DigitState
  <1>3. /\ D \in Decoders /\ D.i \in Nat /\ D.w \in Nat /\ D.k \in Nat
        /\ D.old + delta = (n - D.n) * (handled + 1) + Cardinality(Behind)
        /\ D.text = RunesAt(runes, Handled) /\ D.bias = bias /\ D.n <= n
        /\ (D.old = 0 <=> handled = basic)
    BY <1>1, DecoderFacts DEF Encoding
  <1>4. out' = Append(out, c) /\ q' = (q - t) \div (36 - t) /\ k' = k + 36
    BY <1>1, Parameters
  <1>5. /\ d \in 0 .. 35 /\ d >= t /\ q' \in Nat
    <2> DEFINE a == q - t
               b == 36 - t
    <2>1. a \in Nat /\ b \in Nat \ {0} /\ b = 36 - t
      BY <1>1, <1>2
    <2>2. q' = a \div b /\ d = t + (a % b)
      BY <1>4
    <2> HIDE DEF a, b, d
    <2>3. a \div b \in Nat /\ a % b \in 0 .. (b - 1)
      BY <2>1, QuotientFacts
    <2> QED BY <1>2, <2>1, <2>2, <2>3
  <1> HIDE DEF d
  <1>6. /\ Append(out, c) \in Seq(Letters(runes)) /\ Decoding(Append(out, c)) = E
        /\ DigitOf(c) = d
    BY <1>2, <1>5, DigitWritten
  <1> HIDE DEF D, c
  <1>7. DigitWithin(D, c, d) /\ d >= punyThreshold(D.k, D.bias)
    BY <1>2, <1>3, <1>5, <1>6 DEF DigitWithin
  <1>8. /\ E \in Decoders
        /\ E.text = D.text /\ E.bias = D.bias /\ E.n = D.n /\ E.old = D.old
        /\ E.i = D.i + d * D.w
        /\ E.w = D.w * (36 - t) /\ E.k = D.k + 36
    <2>1. LET limit == punyThreshold(D.k, D.bias)
          IN  /\ E \in Decoders
              /\ E.text = D.text /\ E.bias = D.bias /\ E.n = D.n /\ E.old = D.old
              /\ E.i = D.i + d * D.w
              /\ E.w = D.w * (36 - limit) /\ E.k = D.k + 36
      BY <1>7, TakenMore
    <2> QED BY <1>2, <2>1
  <1> HIDE DEF E
  <1>9. E.i + q' * E.w = D.i + q * D.w
    <2>1. D.i \in Nat /\ D.w \in Nat /\ q \in Nat /\ t \in 1 .. 26 /\ q >= t
      BY <1>1, <1>2, <1>3
    <2>2. (D.i + (t + ((q - t) % (36 - t))) * D.w)
             + ((q - t) \div (36 - t)) * (D.w * (36 - t)) = D.i + q * D.w
      BY ONLY <2>1, DigitWorth
    <2>3. E.i = D.i + (t + ((q - t) % (36 - t))) * D.w
      BY <1>8 DEF d
    <2> QED BY ONLY <1>4, <1>8, <2>2, <2>3
  <1>10. /\ Decoding(out)' = E /\ Handled' = Handled /\ Behind' = Behind
         /\ LeftAlone' = LeftAlone
    BY <1>1, <1>4, <1>6 DEF Handled, Behind, Upto, LeftAlone
  <1>11. Follows(Decoding(out))'
    <2>1. /\ E.text = RunesAt(runes', Handled') /\ E.bias = bias' /\ E.n <= n'
          /\ (E.old = 0 <=> handled' = basic')
      BY <1>1, <1>3, <1>8, <1>10
    <2> QED BY <1>8, <1>10, <2>1 DEF Follows
  <1>12. Moves(Decoding(out))'
    <2>1. E.old + delta' = (n' - E.n) * (handled' + 1) + Cardinality(Behind')
      BY <1>1, <1>3, <1>8, <1>10
    <2> QED BY <1>10, <2>1 DEF Moves
  <1>13. Waits(Decoding(out))' /\ Digits(Decoding(out))'
    <2>1. E.k = k' /\ q' \in Nat /\ E.i + q' * E.w = E.old + delta'
      BY <1>1, <1>2, <1>4, <1>5, <1>8, <1>9
    <2> QED BY <1>1, <1>10, <2>1 DEF Waits, Digits
  <1> QED BY <1>1, <1>2, <1>4, <1>6, <1>10, <1>11, <1>12, <1>13 DEF DInv

(* The last digit puts the rune in its place.                              *)
LEMMA EndDigitsDecodes ==
    ASSUME BothInv, EndDigits
    PROVE  DInv'
  <1> DEFINE D  == Decoding(out)
             c  == punyDigit(q)
             E  == Taken(D, c)
             at == Cardinality(Behind)
             by == n - D.n
             i  == D.i + q * D.w
             size == Len(D.text) + 1
  <1>1. /\ pc = "digit" /\ pc' = "scan" /\ ~(q >= t) /\ r' = r + 1
        /\ UNCHANGED <<label, runes, basic, n>>
        /\ out' = Append(out, c) /\ delta' = 0 /\ handled' = handled + 1
        /\ bias' = punyAdapt(delta, handled + 1, handled = basic) /\ Next
    <2>1. q \in Nat /\ t \in 1 .. 26
      BY DigitState DEF EndDigits
    <2> QED BY <2>1 DEF EndDigits, Next
  <1>2. /\ D.k = k /\ q \in Nat /\ k \in Nat /\ i = D.old + delta
        /\ t \in 1 .. 26 /\ punyThreshold(D.k, D.bias) = t
        /\ out \in Seq(Letters(runes)) /\ runes = ToLower(label)
        /\ ~LeftAlone /\ basic \in Nat /\ basic <= handled
    BY <1>1, DigitState
  <1>3. /\ D \in Decoders /\ D.i \in Nat /\ D.w \in Nat /\ D.k \in Nat /\ D.n \in Nat
        /\ D.old \in Nat
        /\ D.old + delta = (n - D.n) * (handled + 1) + at
        /\ D.text = RunesAt(runes, Handled) /\ D.bias = bias /\ D.n <= n
        /\ (D.old = 0 <=> handled = basic) /\ Encoding
    BY <1>1, DecoderFacts DEF Encoding
  <1>4. /\ Handled = Upto(r) /\ Behind = { p \in Upto(r) : p < r }
        /\ r \in DOMAIN runes /\ runes[r] = n /\ r \in Nat \ {0}
        /\ runes \in Seq(Nat) /\ Handled \in SUBSET DOMAIN runes /\ IsFiniteSet(Handled)
        /\ IsFiniteSet(Behind) /\ Behind \in SUBSET Handled /\ at \in Nat
        /\ handled = Cardinality(Handled) /\ handled \in Nat /\ n \in Nat /\ delta \in Nat
        /\ Len(D.text) = handled
    <2>1. r \in DOMAIN runes /\ runes[r] = n
      BY <1>1, HandledFacts DEF BothInv, IInv, Counted
    <2> HIDE DEF D
    <2> QED BY <1>1, <1>3, <2>1, HandledFacts DEF Handled, Behind
  <1>5. at <= handled
    BY <1>4, FS_Subset
  <1>6. q \in 0 .. 35
    BY <1>1, <1>2
  <1>7. /\ Append(out, c) \in Seq(Letters(runes)) /\ Decoding(Append(out, c)) = E
        /\ DigitOf(c) = q
    BY <1>2, <1>6, DigitWritten
  <1> HIDE DEF D, c, at
  <1>8. DigitWithin(D, c, q) /\ ~(q >= punyThreshold(D.k, D.bias))
    BY <1>1, <1>2, <1>3, <1>6, <1>7 DEF DigitWithin
  <1>9. /\ size = handled + 1 /\ at \in 0 .. (size - 1) /\ by \in Nat
        /\ i = by * size + at /\ D.n + by = n /\ i - D.old = delta
    <2>1. i = (n - D.n) * (handled + 1) + at
      BY ONLY <1>2, <1>3
    <2>2. size = handled + 1
      BY <1>4
    <2>3. by \in Nat /\ D.n + by = n
      <3> DEFINE x == D.n
      <3>1. x \in Nat /\ n \in Nat /\ x <= n
        BY <1>3, <1>4
      <3>2. by = n - x
        OBVIOUS
      <3> HIDE DEF x, by
      <3>3. by \in Nat /\ x + by = n
        BY ONLY <3>1, <3>2
      <3> QED BY ONLY <3>3 DEF x
    <2>4. i = by * size + at
      BY ONLY <2>1, <2>2
    <2>5. i - D.old = delta
      <3>1. D.old \in Nat /\ delta \in Nat /\ i = D.old + delta
        BY ONLY <1>2, <1>3, <1>4
      <3> HIDE DEF i
      <3> QED BY <3>1
    <2>6. at \in 0 .. (size - 1)
      BY <1>4, <1>5, <2>2
    <2> QED BY ONLY <2>2, <2>3, <2>4, <2>5, <2>6
  <1>10. E = [text |-> InsertAt(D.text, at + 1, D.n + by), n |-> D.n + by, i |-> at + 1,
              old |-> at + 1, w |-> 1, k |-> 36,
              bias |-> Adapted(i - D.old, size, D.old = 0)]
    <2> HIDE DEF by, i, size
    <2>1. /\ DigitWithin(D, c, q) /\ ~(q >= punyThreshold(D.k, D.bias))
          /\ EndsAt(D, q, by, at, i, size)
      BY <1>8, <1>9 DEF i, size, EndsAt
    <2>2. E = Ended(D, by, at, i, size)
      BY ONLY <2>1, TakenLast DEF E
    <2> QED BY ONLY <2>2 DEF Ended
  <1> HIDE DEF E, by, i, size
  <1>11. bias' = Adapted(i - D.old, size, D.old = 0) /\ bias' \in Nat
    <2>1. delta \in 0 .. (DeltaLimit - 1)
      <3>1. DeltaBounded
        BY BoundedDelta DEF BothInv
      <3> QED BY <3>1 DEF DeltaBounded, DeltaLimit
    <2>2. handled + 1 \in Nat \ {0} /\ (handled = basic) \in BOOLEAN
      BY <1>4
    <2>3. /\ punyAdapt(delta, handled + 1, handled = basic)
               = Adapted(delta, handled + 1, handled = basic)
          /\ punyAdapt(delta, handled + 1, handled = basic) \in Nat
      BY ONLY <2>1, <2>2, AdaptAgrees
    <2>4. (handled = basic) = (D.old = 0)
      BY <1>3
    <2> QED BY <1>1, <1>9, <2>3, <2>4
  <1>12. /\ Handled' = Handled \cup {r} /\ r \notin Handled
    <2>1. Upto(r)' = Upto(r + 1)
      BY <1>1 DEF Upto
    <2>2. Upto(r + 1) = Upto(r) \cup {r} /\ r \notin Upto(r)
      BY <1>4, HandledFacts DEF Upto
    <2> QED BY <1>1, <1>4, <2>1, <2>2 DEF Handled
  <1>13. /\ Behind' = Behind \cup {r} /\ r \notin Behind
    <2>1. Behind' = { p \in Handled \cup {r} : p < r + 1 }
      BY <1>1, <1>12 DEF Behind, Handled
    <2>2. \A p \in Handled : p \in Nat /\ (p < r + 1 <=> p < r)
      <3>1. \A p \in Handled : p \in Nat /\ p # r
        BY <1>4, <1>12, HandledFacts
      <3> QED BY <1>4, <3>1
    <2> QED BY <1>4, <2>1, <2>2
  <1>14. Cardinality(Behind') = at + 1
    BY <1>4, <1>13, FS_AddElement DEF at
  <1>15. E.text = RunesAt(runes, Handled \cup {r}) /\ E.text \in Seq(Nat)
    <2>1. RunesAt(runes, Handled \cup {r})
            = InsertAt(RunesAt(runes, Handled), Cardinality({ p \in Handled : p < r }) + 1, runes[r])
      BY <1>4, <1>12, RuneInserted
    <2>2. Cardinality({ p \in Handled : p < r }) = at
      BY <1>4 DEF at
    <2>3. E.text = InsertAt(D.text, at + 1, D.n + by)
      BY <1>10
    <2>4. E.text = RunesAt(runes, Handled \cup {r})
      BY ONLY <1>3, <1>4, <1>9, <2>1, <2>2, <2>3
    <2>5. Handled \cup {r} \in SUBSET DOMAIN runes
      BY <1>4
    <2> QED BY <1>4, <2>4, <2>5, AheadAll
  <1>16. /\ E.n = n /\ E.i = at + 1 /\ E.old = at + 1 /\ E.w = 1 /\ E.k = 36 /\ E.bias = bias'
    BY <1>9, <1>10, <1>11
  <1>17. E \in Decoders
    <2>1. E = [text |-> E.text, n |-> E.n, i |-> E.i, old |-> E.old, w |-> E.w, k |-> E.k,
               bias |-> E.bias]
      BY <1>10
    <2>2. at + 1 \in Nat
      BY <1>4
    <2> QED BY <1>4, <1>11, <1>15, <1>16, <2>1, <2>2 DEF Decoders
  <1>18. Decoding(out)' = E /\ LeftAlone' = LeftAlone
    BY <1>1, <1>7 DEF LeftAlone
  <1>19. Follows(Decoding(out))'
    <2>1. E.old # 0 /\ handled' # basic'
      <3>1. at \in Nat /\ basic \in Nat /\ handled \in Nat /\ basic <= handled
        BY <1>2, <1>4
      <3>2. at + 1 # 0 /\ handled + 1 # basic
        BY ONLY <3>1
      <3>3. E.old = at + 1 /\ handled' = handled + 1 /\ basic' = basic
        BY <1>1, <1>16
      <3> QED BY ONLY <3>2, <3>3
    <2>2. /\ E.text = RunesAt(runes', Handled') /\ E.bias = bias' /\ E.n <= n'
      BY <1>1, <1>4, <1>12, <1>15, <1>16
    <2> QED BY <1>17, <1>18, <2>1, <2>2 DEF Follows
  <1>20. Moves(Decoding(out))'
    <2>1. (n' - E.n) * (handled' + 1) = 0
      <3>1. n' = E.n /\ n' \in Int /\ handled' + 1 \in Int
        BY <1>1, <1>4, <1>16
      <3>2. \A a \in Int : 0 * a = 0
        OBVIOUS
      <3>3. n' - E.n = 0
        BY ONLY <3>1
      <3> QED BY ONLY <3>1, <3>2, <3>3
    <2> DEFINE behind == Cardinality(Behind')
    <2>2. E.old + delta' = (n' - E.n) * (handled' + 1) + behind
      <3>1. E.old = at + 1 /\ delta' = 0 /\ behind = at + 1 /\ at \in Nat
        BY <1>1, <1>4, <1>14, <1>16
      <3> HIDE DEF behind
      <3> QED BY ONLY <2>1, <3>1
    <2> QED BY <1>18, <2>2 DEF Moves
  <1>21. Waits(Decoding(out))' /\ Digits(Decoding(out))'
    BY <1>1, <1>16, <1>18, Parameters DEF Waits, Digits
  <1> QED BY <1>1, <1>2, <1>4, <1>7, <1>18, <1>19, <1>20, <1>21 DEF DInv

(* The basic code points are in their places before any digit.             *)
LEMMA CopyBasicDecodes ==
    ASSUME BothInv, CopyBasic
    PROVE  DInv'
  <1> DEFINE s == ToLower(label)
             S == Basic(s)
             B == RunesAt(s, S)
             E == Begun(B)
  <1>1. /\ pc = "label" /\ pc' = "pick" /\ ~LeftAlone
        /\ runes' = s /\ basic' = Cardinality(S) /\ handled' = basic'
        /\ out' = B \o (IF basic' > 0 THEN << punyDelimiter >> ELSE <<>>)
        /\ UNCHANGED <<label, n, delta, bias>>
    BY DEF CopyBasic
  <1>2. n = 128 /\ delta = 0 /\ bias = 72
    BY <1>1, Parameters DEF BothInv, DInv, IInv, Bounded
  <1>3. s \in Seq(CodePoints) /\ s \in Seq(Nat) /\ DOMAIN s = 1 .. Len(s) /\ Len(s) \in Nat
        /\ \A p \in DOMAIN s : s[p] \in Nat
    <2>1. s \in Seq(CodePoints)
      BY Lowered DEF BothInv, IInv
    <2> HIDE DEF s
    <2>2. /\ DOMAIN s = 1 .. Len(s) /\ Len(s) \in Nat /\ s \in [1 .. Len(s) -> CodePoints]
          /\ CodePoints \subseteq Nat
      BY <2>1, LenProperties, Literals DEF CodePoints
    <2>3. s \in [1 .. Len(s) -> Nat]
      BY <2>2
    <2> QED BY <2>1, <2>2, <2>3
  <1> HIDE DEF s
  <1>4. S = { p \in DOMAIN s : s[p] < 128 } /\ S \in SUBSET DOMAIN s
    BY Parameters DEF Basic
  <1>5. Upto(1)' = S /\ Handled' = S /\ Behind' = {}
    <2>1. Upto(1)' = { p \in DOMAIN s : s[p] < 128 \/ (p < 1 /\ s[p] = 128) }
      BY <1>1, <1>2 DEF Upto
    <2>2. \A p \in DOMAIN s : ~(p < 1)
      BY <1>3
    <2>3. Upto(1)' = S
      BY <1>4, <2>1, <2>2
    <2> QED BY <1>1, <2>3 DEF Handled, Behind
  <1> HIDE DEF S
  <1>6. B \in Seq(Nat) /\ Len(B) = Cardinality(S) /\ IsFiniteSet(S)
    BY <1>3, <1>4, AheadAll
  <1>7. B \in Seq(Letters(s))
    <2>1. ASSUME NEW p \in 1 .. Len(s), p \in S PROVE s[p] \in Letters(s)
      <3>1. s[p] \in 0 .. 127
        <4>1. p \in DOMAIN s /\ s[p] < 128
          BY <1>4, <2>1
        <4> DEFINE e == s[p]
        <4>2. e \in Nat /\ e < 128
          BY <1>3, <4>1
        <4> HIDE DEF e
        <4>3. e \in 0 .. 127
          BY ONLY <4>2, SMT
        <4> QED BY <4>3 DEF e
      <3>2. Contains(s, s[p])
        BY <2>1 DEF Contains
      <3> QED BY Zenon, <3>1, <3>2 DEF Letters
    <2>2. Gathered(s, S, Len(s)) \in Seq(Letters(s))
      BY <1>3, <2>1, GatheredType
    <2> QED BY <1>3, <2>2, GatheredIsAll
  <1> HIDE DEF B
  <1>8. basic' \in Nat
    BY <1>1, <1>6, FS_CardinalityType
  <1>9. Decoding(out') = E /\ out' \in Seq(Letters(s))
    <2>1. CASE basic' > 0
      <3>1. out' = B \o << punyDelimiter >>
        BY <1>1, <2>1
      <3>2. punyDelimiter \in Letters(s)
        <4>1. punyDelimiter = 45 /\ 45 \in 0 .. 127
          BY Parameters
        <4> QED BY Zenon, <4>1 DEF Letters
      <3>3. << punyDelimiter >> \in Seq(Letters(s))
        BY <3>2
      <3> QED BY <1>6, <1>7, <3>1, <3>3, DecodingBegins, ConcatProperties
    <2>2. CASE ~(basic' > 0)
      <3>1. Len(B) = 0
        BY <1>1, <1>6, <1>8, <2>2
      <3>2. B = <<>>
        BY <1>6, <3>1
      <3>3. out' = <<>>
        BY <1>1, <2>2, <3>2
      <3> QED BY <1>7, <3>2, <3>3, DecodingBeginsBare
    <2> QED BY <2>1, <2>2
  <1>10. /\ E.text = B /\ E.n = 128 /\ E.i = 0 /\ E.old = 0 /\ E.w = 1 /\ E.k = punyBase
         /\ E.bias = 72 /\ E \in Decoders
    BY <1>6, Parameters DEF Begun, Decoders
  <1> HIDE DEF E
  <1>11. Decoding(out)' = E /\ LeftAlone' = LeftAlone
    BY <1>1, <1>9 DEF LeftAlone
  <1>12. Follows(Decoding(out))'
    <2>1. E.text = RunesAt(runes', Handled') /\ E.bias = bias'
      BY <1>1, <1>2, <1>5, <1>10 DEF B
    <2>2. E.n <= n' /\ E.old = 0 /\ handled' = basic'
      BY <1>1, <1>2, <1>10
    <2> QED BY <1>10, <1>11, <2>1, <2>2 DEF Follows
  <1>13. Moves(Decoding(out))'
    <2>1. n' - E.n = 0 /\ handled' + 1 \in Nat
      BY <1>1, <1>2, <1>8, <1>10
    <2>2. (n' - E.n) * (handled' + 1) = 0
      BY <2>1
    <2>3. Cardinality(Behind') = 0
      BY <1>5, FS_EmptySet
    <2>4. E.old + delta' = 0
      BY <1>1, <1>2, <1>10
    <2>5. E.old + delta' = (n' - E.n) * (handled' + 1) + Cardinality(Behind')
      BY ONLY <2>2, <2>3, <2>4
    <2> QED BY <1>11, <2>5 DEF Moves
  <1>14. Waits(Decoding(out))' /\ Digits(Decoding(out))'
    BY <1>1, <1>10, <1>11 DEF Waits, Digits
  <1>15. runes' = ToLower(label') /\ basic' <= handled'
    BY <1>1, <1>8 DEF s
  <1> QED BY <1>1, <1>8, <1>9, <1>11, <1>12, <1>13, <1>14, <1>15 DEF DInv

(* Once all runes are handled the decoder has all of them.                 *)
LEMMA FinishDecodes ==
    ASSUME BothInv, Finish
    PROVE  DInv'
  <1>1. /\ pc = "pick" /\ pc' = "done" /\ handled >= Len(runes)
        /\ UNCHANGED <<label, runes, out, basic, handled>>
    BY DEF Finish, coder
  <1>2. /\ Encoding /\ ~LeftAlone /\ out \in Seq(Letters(runes)) /\ runes = ToLower(label)
    BY <1>1 DEF BothInv, DInv, Encoding
  <1>3. /\ runes \in Seq(Nat) /\ Handled \in SUBSET DOMAIN runes
        /\ handled = Cardinality(Handled) /\ Len(runes) \in Nat /\ DOMAIN runes = 1 .. Len(runes)
    BY <1>2, HandledFacts
  <1>4. Handled = DOMAIN runes
    <2>1. IsFiniteSet(1 .. Len(runes)) /\ Cardinality(1 .. Len(runes)) = Len(runes)
      <3>1. 1 \in Int /\ Len(runes) \in Int
        BY <1>3
      <3>2. /\ IsFiniteSet(1 .. Len(runes))
            /\ Cardinality(1 .. Len(runes)) = IF 1 > Len(runes) THEN 0 ELSE Len(runes) - 1 + 1
        BY <3>1, FS_Interval
      <3> QED BY <1>3, <3>2
    <2> DEFINE all == 1 .. Len(runes)
    <2>2. Handled \in SUBSET all /\ IsFiniteSet(all)
      BY <1>3, <2>1
    <2>3. /\ Cardinality(Handled) <= Cardinality(all)
          /\ Cardinality(all) = Cardinality(Handled) => all = Handled
      BY ONLY <2>2, FS_Subset
    <2> DEFINE k1 == Cardinality(Handled)
    <2> DEFINE k2 == Cardinality(all)
    <2>4. k1 = k2
      <3>1. k1 \in Nat /\ k2 \in Nat
        <4>1. IsFiniteSet(Handled)
          BY ONLY <2>2, FS_Subset
        <4> QED BY <2>2, <4>1, FS_CardinalityType
      <3>2. k1 <= k2
        BY <2>3
      <3>3. k2 <= k1
        <4>1. k2 = Len(runes)
          BY <2>1
        <4>2. handled = k1 /\ handled >= Len(runes) /\ Len(runes) \in Nat
          BY <1>1, <1>3
        <4> HIDE DEF k1, k2
        <4>3. handled \in Nat
          BY ONLY <3>1, <4>2
        <4> QED BY ONLY <4>1, <4>2, <4>3
      <3> HIDE DEF k1, k2
      <3> QED BY ONLY <3>1, <3>2, <3>3
    <2> QED BY <1>3, <2>3, <2>4
  <1>5. Decoded(out) = runes
    <2>1. Decoding(out).text = RunesAt(runes, Handled)
      BY <1>2, DecoderFacts
    <2>2. RunesAt(runes, DOMAIN runes) = runes
      BY <1>3, RunesWhole
    <2> QED BY <1>4, <2>1, <2>2 DEF Decoded
  <1>6. LeftAlone' = LeftAlone
    BY <1>1 DEF LeftAlone
  <1>7. ~Encoding'
    BY <1>1 DEF Encoding
  <1>8. Decoded(out)' = runes'
    BY <1>1, <1>5
  <1> QED BY <1>1, <1>2, <1>6, <1>7, <1>8 DEF DInv

LEMMA DInvInit == Init => DInv
  BY DEF Init, DInv, Encoding

LEMMA DInvStep ==
    ASSUME BothInv, [Next]_vars
    PROVE  BothInv'
  <1>1. IInv'
    BY StepTypes
  <1>2. CASE CopyBasic
    BY <1>1, <1>2, CopyBasicDecodes DEF BothInv
  <1>3. CASE BeginSearch \/ Search
    BY <1>1, <1>3, SearchDecodes DEF BothInv
  <1>4. CASE TakeNext
    BY <1>1, <1>4, TakeNextDecodes DEF BothInv
  <1>5. CASE CountBelow \/ PassAbove
    BY <1>1, <1>5, PassDecodes DEF BothInv
  <1>6. CASE BeginDigits
    BY <1>1, <1>6, BeginDigitsDecodes DEF BothInv
  <1>7. CASE WriteDigit
    BY <1>1, <1>7, WriteDigitDecodes DEF BothInv
  <1>8. CASE EndDigits
    BY <1>1, <1>8, EndDigitsDecodes DEF BothInv
  <1>9. CASE EndScan
    BY <1>1, <1>9, EndScanDecodes DEF BothInv
  <1>10. CASE Finish
    BY <1>1, <1>10, FinishDecodes DEF BothInv
  <1>11. CASE LeaveLabel
    <2>1. pc' = "done" /\ out' = label /\ label' = label /\ LeftAlone
      BY <1>11 DEF LeaveLabel
    <2>2. LeftAlone'
      BY <2>1 DEF LeftAlone
    <2>3. DInv'
      BY <2>1, <2>2 DEF DInv, Encoding
    <2> QED BY <1>1, <2>3 DEF BothInv
  <1>12. CASE UNCHANGED vars
    <2>1. /\ UNCHANGED <<label, pc, runes, out, n, delta, bias, basic, handled, m, r, q, k>>
      BY <1>12 DEF vars, coder, scan
    <2>2. DInv'
      BY <2>1 DEF BothInv, DInv, Encoding, Follows, Moves, Waits, Digits, Handled, Behind, Upto,
                  LeftAlone
    <2> QED BY <1>1, <2>2 DEF BothInv
  <1> QED BY <1>2, <1>3, <1>4, <1>5, <1>6, <1>7, <1>8, <1>9, <1>10, <1>11, <1>12 DEF Next

LEMMA DecodedLabel == BothInv => DecodesToLabel
  <1> SUFFICES ASSUME BothInv, pc = "done", ~LeftAlone
               PROVE  /\ Decoded(out) = ToLower(label)
                      /\ \A c \in ToSet(out) :
                            c < 128 /\ (Contains(runes, c) \/ c \in (97 .. 122) \cup (48 .. 57) \cup {45})
    BY DEF BothInv, DInv, DecodesToLabel
  <1>1. Decoded(out) = runes /\ runes = ToLower(label) /\ out \in Seq(Letters(runes))
    BY DEF BothInv, DInv
  <1>2. ASSUME NEW c \in ToSet(out)
        PROVE  c < 128 /\ (Contains(runes, c) \/ c \in (97 .. 122) \cup (48 .. 57) \cup {45})
    <2>1. c \in Letters(runes)
      BY <1>1, <1>2 DEF ToSet
    <2>2. c \in 0 .. 127 /\ (Contains(runes, c) \/ c \in (97 .. 122) \cup (48 .. 57) \cup {45})
      BY Zenon, <2>1 DEF Letters
    <2>3. c < 128
      BY SMT, <2>2
    <2> QED BY Zenon, <2>2, <2>3
  <1> QED BY <1>1, <1>2

(* An A-label is the label and no other: the standard's decoder gives the  *)
(* lower-cased label back (idna.go:31-41, 64-124), for every label.        *)
THEOREM LabelsDecode == Spec => []DecodesToLabel
  <1>1. Init => BothInv
    BY InitOK, DInvInit DEF BothInv
  <1>2. BothInv /\ [Next]_vars => BothInv'
    BY DInvStep
  <1> QED BY <1>1, <1>2, DecodedLabel, PTL DEF Spec
===============================================================================

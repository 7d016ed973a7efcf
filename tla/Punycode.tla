------------------------------ MODULE Punycode ------------------------------
(***************************************************************************)
(* The A-label of one DNS label: labelToASCII and its punycode encoder,    *)
(* loop by loop, on labels as sequences of code points.  Every signature   *)
(* of an internationalized domain is looked up and compared under this     *)
(* form, so an encoder that is wrong for one label sends its mail to       *)
(* another domain's key, or to none.                                       *)
(***************************************************************************)
EXTENDS Integers, SequencesExt

CONSTANTS Labels,        \* the labels converted
          LowerOf        \* upper-case code point -> its lower case

MaxRune    == 1114111
CodePoints == 0 .. MaxRune

(* A code point, and what unicode.ToLower makes of it.                     *)
ASSUME LabelAssumption == Labels \subseteq Seq(CodePoints)
ASSUME LowerAssumption ==
    /\ DOMAIN LowerOf \subseteq CodePoints
    /\ \A c \in DOMAIN LowerOf : LowerOf[c] \in CodePoints

punyBase        == 36
punyTMin        == 1
punyTMax        == 26
punySkew        == 38
punyDamp        == 700
punyInitialBias == 72
punyInitialN    == 128
punyDelimiter   == 45
MaxInt32        == 2147483647

VARIABLES label,
          pc,                     \* "label", "pick", "search", "scan", "digit" or "done"
          runes,
          out,                    \* what stands behind "xn--"; a label left alone
          n, delta, bias,
          basic, handled,
          m,                      \* the next code point, while it is searched
          r,                      \* the rune the search or the scan is at
          q, k                    \* of the digit loop

scan  == <<r, q, k>>
coder == <<n, delta, bias, handled>>
vars  == <<label, pc, runes, out, coder, basic, m, scan>>

isASCII(s)  == \A p \in DOMAIN s : s[p] < 128
ToLower(s)  == [p \in DOMAIN s |-> IF s[p] \in DOMAIN LowerOf THEN LowerOf[s[p]] ELSE s[p]]

punyThreshold(at, theBias) ==
    CASE at <= theBias + punyTMin -> punyTMin
      [] at > theBias + punyTMin /\ at >= theBias + punyTMax -> punyTMax
      [] OTHER -> at - theBias

(* The positions of the basic code points; the runes at some positions.    *)
Basic(s)      == { p \in DOMAIN s : s[p] < punyInitialN }
RunesAt(s, S) == FlattenSeq([p \in DOMAIN s |-> IF p \in S THEN << s[p] >> ELSE <<>>])

(* Mutant: the first delta is damped like the others.                      *)
punyAdapt_undamped(theDelta, numPoints, firstTime) ==
    LET halved  == theDelta \div 2
        start   == halved + halved \div numPoints
        shrunk[j \in 0 .. 5] ==
            IF j = 0 THEN start
            ELSE IF shrunk[j - 1] > 455 THEN shrunk[j - 1] \div 35 ELSE shrunk[j - 1]
        steps   == Cardinality({ j \in 0 .. 4 : shrunk[j] > 455 })
    IN  punyBase * steps + (36 * shrunk[5]) \div (shrunk[5] + punySkew)

(* The loop divides at most five times: delta is below 35^5.               *)
punyAdapt(theDelta, numPoints, firstTime) ==
    LET damped  == theDelta \div (IF firstTime THEN punyDamp ELSE 2)
        start   == damped + damped \div numPoints
        limit   == ((punyBase - punyTMin) * punyTMax) \div 2
        shrunk[j \in 0 .. 5] ==
            IF j = 0 THEN start
            ELSE IF shrunk[j - 1] > limit
                 THEN shrunk[j - 1] \div (punyBase - punyTMin) ELSE shrunk[j - 1]
        steps   == Cardinality({ j \in 0 .. 4 : shrunk[j] > limit })
    IN  punyBase * steps
          + ((punyBase - punyTMin + 1) * shrunk[5]) \div (shrunk[5] + punySkew)

punyDigit(d) == IF d < 26 THEN 97 + d ELSE 48 + d - 26
-----------------------------------------------------------------------------
Init ==
    /\ label \in Labels
    /\ pc = "label"
    /\ runes = <<>> /\ out = <<>>
    /\ n = punyInitialN /\ delta = 0 /\ bias = punyInitialBias
    /\ basic = 0 /\ handled = 0
    /\ m = MaxInt32 /\ r = 1 /\ q = 0 /\ k = punyBase

(* Mutant: long labels are encoded too.                                    *)
LeftAlone_ascii == isASCII(label)

LeftAlone == isASCII(label) \/ Len(label) > 63

LeaveLabel ==
    /\ pc = "label" /\ LeftAlone
    /\ out' = label
    /\ pc' = "done"
    /\ UNCHANGED <<label, runes, coder, basic, m, scan>>

CopyBasic ==
    /\ pc = "label" /\ ~LeftAlone
    /\ runes' = ToLower(label)
    /\ basic' = Cardinality(Basic(runes'))
    /\ handled' = basic'
    /\ out' = RunesAt(runes', Basic(runes'))
                \o (IF basic' > 0 THEN << punyDelimiter >> ELSE <<>>)
    /\ pc' = "pick"
    /\ UNCHANGED <<label, n, delta, bias, m, scan>>

BeginSearch ==
    /\ pc = "pick" /\ handled < Len(runes)
    /\ m' = MaxInt32
    /\ r' = 1
    /\ pc' = "search"
    /\ UNCHANGED <<label, runes, out, coder, basic, q, k>>

(* The next-smallest code point not yet handled.                           *)
Search ==
    /\ pc = "search" /\ r <= Len(runes)
    /\ m' = IF runes[r] >= n /\ runes[r] < m THEN runes[r] ELSE m
    /\ r' = r + 1
    /\ UNCHANGED <<label, pc, runes, out, coder, basic, q, k>>

TakeNext ==
    /\ pc = "search" /\ r > Len(runes)
    /\ delta' = delta + (m - n) * (handled + 1)
    /\ n' = m
    /\ r' = 1
    /\ pc' = "scan"
    /\ UNCHANGED <<label, runes, out, bias, basic, handled, m, q, k>>

Scanning == pc = "scan" /\ r <= Len(runes)

CountBelow ==
    /\ Scanning /\ runes[r] < n
    /\ delta' = delta + 1
    /\ r' = r + 1
    /\ UNCHANGED <<label, pc, runes, out, n, bias, basic, handled, m, q, k>>

PassAbove ==
    /\ Scanning /\ runes[r] > n
    /\ r' = r + 1
    /\ UNCHANGED <<label, pc, runes, out, coder, basic, m, q, k>>

BeginDigits ==
    /\ Scanning /\ runes[r] = n
    /\ q' = delta /\ k' = punyBase
    /\ pc' = "digit"
    /\ UNCHANGED <<label, runes, out, coder, basic, m, r>>

t == punyThreshold(k, bias)

WriteDigit ==
    /\ pc = "digit" /\ q >= t
    /\ out' = Append(out, punyDigit(t + ((q - t) % (punyBase - t))))
    /\ q' = (q - t) \div (punyBase - t)
    /\ k' = k + punyBase
    /\ UNCHANGED <<label, pc, runes, coder, basic, m, r>>

EndDigits ==
    /\ pc = "digit" /\ q < t
    /\ out' = Append(out, punyDigit(q))
    /\ bias' = punyAdapt(delta, handled + 1, handled = basic)
    /\ delta' = 0
    /\ handled' = handled + 1
    /\ r' = r + 1
    /\ pc' = "scan"
    /\ UNCHANGED <<label, runes, n, basic, m, q, k>>

EndScan ==
    /\ pc = "scan" /\ r > Len(runes)
    /\ delta' = delta + 1
    /\ n' = n + 1
    /\ pc' = "pick"
    /\ UNCHANGED <<label, runes, out, bias, basic, handled, m, scan>>

Finish ==
    /\ pc = "pick" /\ handled >= Len(runes)
    /\ pc' = "done"
    /\ UNCHANGED <<label, runes, out, coder, basic, m, scan>>

Next == \/ LeaveLabel \/ CopyBasic \/ BeginSearch \/ Search \/ TakeNext
        \/ CountBelow \/ PassAbove \/ BeginDigits \/ WriteDigit \/ EndDigits \/ EndScan \/ Finish

Spec == Init /\ [][Next]_vars
-----------------------------------------------------------------------------
(* PROPERTIES *)

(* The decoder of RFC 3492 6.2, with the bias adaptation of 6.1: how it    *)
(* stands in front of the digits, and what it makes of each of them.       *)
Power35 == << 1, 35, 1225, 42875, 1500625, 52521875 >>

Adapted(theDelta, size, firstTime) ==
    LET damped == theDelta \div (IF firstTime THEN 700 ELSE 2)
        d      == damped + damped \div size
        j      == Min({ e \in 0 .. 5 : d \div Power35[e + 1] <= 455 })
        left   == d \div Power35[j + 1]
    IN  36 * j + (36 * left) \div (left + 38)

DigitOf(c) == IF c >= 97 THEN c - 97 ELSE c - 48 + 26

LastDelimiter(s) == Max({0} \cup { p \in DOMAIN s : s[p] = punyDelimiter })

Begun(text) == [text |-> text, n |-> punyInitialN, i |-> 0, old |-> 0,
                w |-> 1, k |-> punyBase, bias |-> punyInitialBias]

Taken(st, c) ==
    LET i     == st.i + DigitOf(c) * st.w
        limit == punyThreshold(st.k, st.bias)
        size  == Len(st.text) + 1
        to    == st.n + i \div size
        at    == (i % size) + 1
    IN  IF DigitOf(c) >= limit
        THEN [st EXCEPT !.i = i, !.w = @ * (punyBase - limit), !.k = @ + punyBase]
        ELSE [text |-> InsertAt(st.text, at, to), n |-> to, i |-> at, old |-> at,
              w |-> 1, k |-> punyBase, bias |-> Adapted(i - st.old, size, st.old = 0)]

Decoding(s) ==
    LET cut == LastDelimiter(s)
        after[p \in cut .. Len(s)] ==
            IF p = cut THEN Begun(SubSeq(s, 1, cut - 1)) ELSE Taken(after[p - 1], s[p])
    IN  after[Len(s)]

Decoded(s) == Decoding(s).text

(* An A-label is the label and no other: the standard's decoder gives the  *)
(* lower-cased label back, so no two labels share a key record name, and   *)
(* but for the label's own ASCII characters it is made of letters and      *)
(* digits a DNS name may hold (idna.go:31-41, 64-124).                     *)
DecodesToLabel ==
    pc = "done" =>
        IF LeftAlone THEN out = label
        ELSE /\ Decoded(out) = ToLower(label)
             /\ \A c \in ToSet(out) :
                   c < 128 /\ (Contains(runes, c) \/ c \in (97 .. 122) \cup (48 .. 57) \cup {45})

(* "delta stays below 64 * 0x110000 and cannot overflow" (idna.go:67-68),  *)
(* and while a rune is left unhandled there is a next code point to find:  *)
(* the search of the code never ends with math.MaxInt32, which delta would *)
(* not survive.                                                            *)
DeltaBounded ==
    /\ delta \in 0 .. (64 * (MaxRune + 1) - 1)
    /\ n \in punyInitialN .. (MaxRune + 1)
=============================================================================

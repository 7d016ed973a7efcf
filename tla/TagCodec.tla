------------------------------ MODULE TagCodec ------------------------------
(***************************************************************************)
(* The base64 of b=, bh= and p=: DecodeTag, which tries the padded         *)
(* alphabet and then the unpadded one.                                     *)
(***************************************************************************)
EXTENDS WireText

CONSTANT Sextet          \* base64 character -> its value, 0 .. 63

ASSUME PaddingIsNoSextet == "=" \notin DOMAIN Sextet

Refused == [ok |-> FALSE, octets |-> <<>>]

(* The octets of a run of base64 characters; bits left over are ignored.   *)
Octets(run) ==
    LET bits(p)  == IF p \in DOMAIN run THEN Sextet[run[p]] ELSE 0
        octet(k) == LET p == (8 * (k - 1)) \div 6 + 1
                        o == (8 * (k - 1)) % 6
                    IN  ((bits(p) * 64 + bits(p + 1)) \div 2 ^ (4 - o)) % 256
    IN  [k \in 1 .. ((6 * Len(run)) \div 8) |-> octet(k)]

(* base64.StdEncoding: groups of four, the last one padded.                *)
StdDecode(s) ==
    LET run == Trim(s, {"="}) IN
    IF /\ Len(s) % 4 = 0 /\ Len(s) - Len(run) <= 2
       /\ IsPrefix(run, s) /\ ToSet(run) \subseteq DOMAIN Sextet
    THEN [ok |-> TRUE, octets |-> Octets(run)] ELSE Refused

(* base64.RawStdEncoding: no padding, and no group of one.                 *)
RawDecode(s) ==
    IF Len(s) % 4 # 1 /\ ToSet(s) \subseteq DOMAIN Sextet
    THEN [ok |-> TRUE, octets |-> Octets(s)] ELSE Refused

StripWSP(s) == FlattenSeq([p \in DOMAIN s |-> IF s[p] \in FWS THEN <<>> ELSE << s[p] >>])

TrimRightPad(s) == SubSeq(s, 1, Max({0} \cup { p \in DOMAIN s : s[p] # "=" }))

(* Mutant: the padding is left on for the second attempt.                  *)
DecodeTag_padded(value) ==
    LET s == StripWSP(value) IN
    IF StdDecode(s).ok THEN StdDecode(s) ELSE RawDecode(s)

DecodeTag(value) ==
    LET s == StripWSP(value) IN
    IF StdDecode(s).ok THEN StdDecode(s) ELSE RawDecode(TrimRightPad(s))
=============================================================================

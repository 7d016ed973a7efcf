------------------------------ MODULE MCFolding ------------------------------
(***************************************************************************)
(* Two instances of Folding.  Small: a line of a few characters and every  *)
(* tag length around it.  Real: the 78 columns of the code and the lengths *)
(* of the tags Sign writes for signing domains and selectors of any length *)
(* in a range.                                                             *)
(***************************************************************************)
EXTENDS Folding

CONSTANTS MaxTag, MaxField, MaxFields

Tag(name, len) == [name |-> name, len |-> len, fields |-> <<>>]

JoinedLen(fields) ==
    LET sum[j \in 0 .. Len(fields)] == IF j = 0 THEN 0 ELSE sum[j - 1] + fields[j] + 1
    IN  2 + sum[Len(fields)] - 1

HTag(fields) == [name |-> "h", len |-> JoinedLen(fields), fields |-> fields]

SmallTagLists ==
    { <<Tag("v", 3), Tag("d", x), HTag(f), Tag("bh", y)>> :
        x \in 3 .. MaxTag, y \in 3 .. MaxTag,
        f \in UNION { [1 .. j -> 1 .. MaxField] : j \in 1 .. MaxFields } }

(* v=1; a=rsa-sha256; c=relaxed/relaxed; d=; s=; h= of seven names with    *)
(* "from" oversigned; bh= of a SHA-256 hash.                               *)
RealTagLists ==
    { <<Tag("v", 3), Tag("a", 12), Tag("c", 17), Tag("d", x), Tag("s", y),
        HTag(<<4, 4, 7, 4, 2, 10, 12>>), Tag("bh", 47)>> :
        x \in 5 .. 34, y \in 3 .. 12 }
==============================================================================

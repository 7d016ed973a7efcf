----------------------------- MODULE MCPunycode -----------------------------
(***************************************************************************)
(* Every label of up to five of the code points at the edges, and labels   *)
(* of 62, 63 and 64 code points: the largest deltas, many passes, many     *)
(* equal code points, and the ones that are left alone.                    *)
(***************************************************************************)
EXTENDS Punycode

a      == 97
hyphen == 45
first  == 128       \* the smallest code point that is encoded
uml    == 252
UML    == 220       \* its capital
kelvin == 8490      \* whose lower case is the ASCII k
last   == 1114111

MCLowerOf == (UML :> uml) @@ (kelvin :> 107) @@ (65 :> a)

Short == SeqOf({a, hyphen, first, uml, UML, 19968, last}, 4)
           \cup SeqOf({65, a, first, kelvin, last}, 5)

Repeat(c, size) == [p \in 1 .. size |-> c]

Long == { Repeat(last, 63), Repeat(uml, 64), Repeat(a, 64) \o << last >>, Repeat(a, 62) \o << last >>,
          << last >> \o Repeat(a, 62), Repeat(first, 62) \o << last >>,
          << last >> \o Repeat(first, 62),
          [p \in 1 .. 63 |-> last - p], [p \in 1 .. 62 |-> first + 300 * p],
          [p \in 1 .. 63 |-> IF p % 2 = 0 THEN a ELSE first + ((p * 37) % 40)] }

MCLabels == Short \cup Long
=============================================================================

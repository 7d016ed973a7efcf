------------------------------ MODULE WireText ------------------------------
(***************************************************************************)
(* Texts as sequences of characters, and the functions of Go's strings     *)
(* package the parsers use on them.  A character stands for its class; the *)
(* pair CR LF of a normalized message is the one character CRLF.           *)
(***************************************************************************)
EXTENDS Naturals, SequencesExt

CRLF == "CRLF"
WSP  == {" ", "TAB"}

(* The characters FWS is made of, for TrimFWS.                             *)
FWS == WSP \cup {CRLF}

(* strings.IndexByte from a position on; one past the end without one.     *)
IndexFrom(s, from, c) == Min({ p \in from .. Len(s) : s[p] = c } \cup {Len(s) + 1})

(* strings.Trim.                                                           *)
Trim(s, cutset) ==
    LET solid == { p \in DOMAIN s : s[p] \notin cutset }
    IN  IF solid = {} THEN <<>> ELSE SubSeq(s, Min(solid), Max(solid))

(* strings.Split at a character, from each position on: the text up to the *)
(* next such character, and the parts behind it.                           *)
PartsFrom(s, c) ==
    LET from[p \in 1 .. (Len(s) + 1)] ==
          LET q == IndexFrom(s, p, c)
          IN  IF q > Len(s) THEN << SubSeq(s, p, Len(s)) >>
              ELSE << SubSeq(s, p, q - 1) >> \o from[q + 1]
    IN  from

Split(s, c) == PartsFrom(s, c)[1]

(* strings.Join with a character.                                          *)
Join(parts, c) ==
    FlattenSeq([k \in DOMAIN parts |-> IF k = 1 THEN parts[k] ELSE <<c>> \o parts[k]])
=============================================================================

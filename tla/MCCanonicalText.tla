--------------------------- MODULE MCCanonicalText ---------------------------
(***************************************************************************)
(* Every message of up to four of the characters that decide, and messages *)
(* of up to three of the lines that occur and a last one without an end.   *)
(***************************************************************************)
EXTENDS CanonicalText

MCLowerOf == [ch \in {"A"} |-> "a"]

Deciding == {"a", ":", " ", "CR", "LF"}

WireLines == { << "a", ":", "v" >>, << "A", " ", ":", "TAB", "v", " " >>, << " ", "v" >>,
               << "TAB" >>, << "!8", ":" >>, << >> }
Ends      == { << "CR", "LF" >>, << "LF" >>, << "CR" >> }

WithEnds(parts, end) == FlattenSeq([k \in DOMAIN parts |-> parts[k] \o end])

MCMessages == SeqOf(Deciding, 4)
                \cup { WithEnds(parts, end) \o last :
                         parts \in SeqOf(WireLines, 2), end \in Ends,
                         last \in { << >>, << "v", " ", "v" >>, << " " >> } }
                \cup { WithEnds(parts, << "LF" >>) \o << "v", " ", "v" >> :
                         parts \in { three \in [1 .. 3 -> WireLines] : << >> \in ToSet(three) } }
==============================================================================

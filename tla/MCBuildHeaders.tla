--------------------------- MODULE MCBuildHeaders ---------------------------
(***************************************************************************)
(* Blocks of up to MaxFields fields and h= tags of up to MaxNames names:   *)
(* one ordinary name and the name of the signature fields themselves, of   *)
(* which two differ so that a block can hold equal and unequal ones.       *)
(***************************************************************************)
EXTENDS BuildHeaders

CONSTANTS MaxFields, MaxNames

MCNames  == {"from", "dkim-signature"}
MCFields == { [name |-> "from", text |-> "a"],
              [name |-> "dkim-signature", text |-> "a"],
              [name |-> "dkim-signature", text |-> "b"] }
MCBlocks    == UNION { [1 .. n -> MCFields] : n \in 0 .. MaxFields }
MCNameLists == UNION { [1 .. n -> MCNames \cup {Empty}] : n \in 1 .. MaxNames }
=============================================================================

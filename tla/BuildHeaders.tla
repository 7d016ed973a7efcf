---------------------------- MODULE BuildHeaders ----------------------------
(***************************************************************************)
(* BuildSignedHeaders as it runs: the signature field is taken out of the  *)
(* block, then each name of h= consumes one more instance of its name from *)
(* the bottom.                                                             *)
(***************************************************************************)
EXTENDS SignedHeaders

CONSTANTS Names,       \* field names
          SigName,     \* "dkim-signature" among them
          Fields,      \* the fields a block may hold
          Blocks,      \* the header blocks considered
          NameLists    \* the h= tags considered

(* A field name is never empty (grammar.ValidFieldName, RFC 5322 2.2).     *)
ASSUME NameShape  == Empty \notin Names
ASSUME FieldShape == \A f \in Fields : f.name \in Names
ASSUME BlockShape == Blocks \subseteq Seq(Fields)
ASSUME ListShape  == NameLists \subseteq Seq(Names \cup {Empty})

VARIABLES headers,     \* allHeaders as the caller passed it
          names,       \* h= split at its colons
          self,        \* the position of the field being verified, 0 at signing
          sig,         \* that field
          block,       \* allHeaders from which sig was taken out
          k,           \* the next name of h=
          consumed,    \* instances consumed, per name
          picked       \* positions in block written so far

vars == <<headers, names, self, sig, block, k, consumed, picked>>

(* Verification passes a signature field of the block, Sign a new one.     *)
Init ==
    /\ headers \in Blocks
    /\ names \in NameLists
    /\ self \in 0 .. Len(headers)
    /\ sig \in { f \in Fields : f.name = SigName }
    /\ self # 0 => sig = headers[self]
    /\ block = WithoutSelf(headers, sig)
    /\ k = 1
    /\ consumed = [n \in Names |-> 0]
    /\ picked = <<>>

(* Mutant: an empty element ends the loop.                                 *)
SkipEmpty_ends ==
    /\ k <= Len(names)
    /\ names[k] = Empty
    /\ k' = Len(names) + 1
    /\ UNCHANGED <<headers, names, self, sig, block, consumed, picked>>

(* An empty element of h= is passed over.                                  *)
SkipEmpty ==
    /\ k <= Len(names)
    /\ names[k] = Empty
    /\ k' = k + 1
    /\ UNCHANGED <<headers, names, self, sig, block, consumed, picked>>

(* Mutants: the consumed instance is not counted; an absent field is       *)
(* written all the same; the fields come out in reverse.                   *)
SelectName_uncounted ==
    /\ k <= Len(names)
    /\ names[k] # Empty
    /\ LET p == nthFromBottom(block, names[k], consumed[names[k]])
       IN  picked' = IF p = 0 THEN picked ELSE Append(picked, p)
    /\ k' = k + 1
    /\ UNCHANGED <<headers, names, self, sig, block, consumed>>

SelectName_absentToo ==
    /\ k <= Len(names)
    /\ names[k] # Empty
    /\ picked' = Append(picked, nthFromBottom(block, names[k], consumed[names[k]]))
    /\ consumed' = [consumed EXCEPT ![names[k]] = @ + 1]
    /\ k' = k + 1
    /\ UNCHANGED <<headers, names, self, sig, block>>

SelectName_reversed ==
    /\ k <= Len(names)
    /\ names[k] # Empty
    /\ LET p == nthFromBottom(block, names[k], consumed[names[k]])
       IN  picked' = IF p = 0 THEN picked ELSE <<p>> \o picked
    /\ consumed' = [consumed EXCEPT ![names[k]] = @ + 1]
    /\ k' = k + 1
    /\ UNCHANGED <<headers, names, self, sig, block>>

(* A name consumes the next instance of its name; one the block lacks      *)
(* contributes nothing, and is counted all the same.                       *)
SelectName ==
    /\ k <= Len(names)
    /\ names[k] # Empty
    /\ LET p == nthFromBottom(block, names[k], consumed[names[k]])
       IN  picked' = IF p = 0 THEN picked ELSE Append(picked, p)
    /\ consumed' = [consumed EXCEPT ![names[k]] = @ + 1]
    /\ k' = k + 1
    /\ UNCHANGED <<headers, names, self, sig, block>>

Next == SkipEmpty \/ SelectName

Spec == Init /\ [][Next]_vars
-----------------------------------------------------------------------------
(* PROPERTIES *)

Done == k > Len(names)

Instances(name) == { p \in DOMAIN block : block[p].name = name }
PickedSet       == { picked[j] : j \in DOMAIN picked }

(* The values the variables may take.                                      *)
TypeOK ==
    /\ k \in 1 .. (Len(names) + 1)
    /\ consumed \in [Names -> Nat]
    /\ picked \in Seq(DOMAIN block)

(* No field is hashed twice: a name repeated in h= never selects the same  *)
(* instance again (verify.go:484-496).                                     *)
NoFieldTwice ==
    \A m, n \in DOMAIN picked : picked[m] = picked[n] => m = n

(* The instances selected for a name are the bottom-most ones: no instance *)
(* is passed over for one above it, so a field a relay prepends is never   *)
(* selected in place of one the signer saw (verify.go:517-528).            *)
BottomMostFirst ==
    \A p \in PickedSet : Below(block, p) \subseteq PickedSet

(* Each name of h= covers an instance while there is one: listing a name n *)
(* times covers the n bottom instances, or all of them.  This is what      *)
(* makes one listing more than the instances (oversigning) assert that     *)
(* there is no further one.                                                *)
EveryListingCovers ==
    Done => \A name \in Names :
        LET listed == Cardinality({ j \in DOMAIN names : names[j] = name })
            there  == Cardinality(Instances(name))
        IN  Cardinality(PickedSet \cap Instances(name))
              = IF listed < there THEN listed ELSE there

(* The loop computes the selection the rest of the system is stated with.  *)
LoopSelects == Done => picked = Selected(names, block)

(* Of the fields equal to the one verified, the upper-most is left out of  *)
(* the selection, and no other: those below it are selected as far as h=   *)
(* reaches, counted in the caller's block (verify.go:473-482).             *)
OneCopyLeftOut ==
    Done /\ self # 0 =>
        LET copies  == { p \in DOMAIN headers : headers[p] = sig }
            listed  == Cardinality({ j \in DOMAIN names : names[j] = SigName })
            reached == { p \in copies : /\ \E q \in copies : q < p
                                        /\ Rank(headers, p) < listed }
        IN  Cardinality({ p \in PickedSet : block[p] = sig }) = Cardinality(reached)

(* "The field being verified is added implicitly below, never selected by  *)
(* h=" (verify.go:473): what h= selects is what it selects from the other  *)
(* fields of the block.                                                    *)
FieldBeingVerifiedNeverSelected ==
    Done /\ self # 0 =>
        LET others == SubSeq(headers, 1, self - 1)
                        \o SubSeq(headers, self + 1, Len(headers))
        IN  [j \in DOMAIN picked |-> block[picked[j]]] = SelectedFields(names, others)
=============================================================================

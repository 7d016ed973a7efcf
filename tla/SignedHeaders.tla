---------------------------- MODULE SignedHeaders ----------------------------
(***************************************************************************)
(* Which header fields a signature covers: the selection of the h= names   *)
(* bottom-up (RFC 6376 5.4.2) as BuildSignedHeaders makes it.              *)
(*                                                                         *)
(* A header block is a sequence of fields, each a record with at least a   *)
(* lower-cased `name`; two fields are the same Go Header value when the    *)
(* records are equal.  An h= tag is the sequence of its lower-cased names, *)
(* Empty standing for an empty element ("from::to").                       *)
(***************************************************************************)
EXTENDS TagValues, SequencesExt

(* The instances of the field's name further down the block.               *)
Below(headers, p) ==
    { q \in DOMAIN headers : q > p /\ headers[q].name = headers[p].name }

Rank(headers, p) == Cardinality(Below(headers, p))

IsNth(headers, name, n, p) ==
    /\ p \in DOMAIN headers
    /\ headers[p].name = name
    /\ Rank(headers, p) = n

(* Mutant: counted from the top.                                           *)
nthFromBottom_fromTop(headers, name, n) ==
    LET IsIt(p) == /\ headers[p].name = name
                   /\ Cardinality({ q \in 1 .. (p - 1) : headers[q].name = name }) = n
    IN  IF \E p \in DOMAIN headers : IsIt(p)
        THEN CHOOSE p \in DOMAIN headers : IsIt(p)
        ELSE 0

(* The position of the nth instance (from 0) counted from the bottom, or 0.*)
nthFromBottom(headers, name, n) ==
    IF \E p \in DOMAIN headers : IsNth(headers, name, n, p)
    THEN CHOOSE p \in DOMAIN headers : IsNth(headers, name, n, p)
    ELSE 0

(* Mutant: the last field equal to sig.                                    *)
IsSelf_last(headers, sig, p) ==
    /\ p \in DOMAIN headers
    /\ headers[p] = sig
    /\ \A q \in (p + 1) .. Len(headers) : headers[q] # sig

(* Where the first field equal to sig stands, or 0.                        *)
IsSelf(headers, sig, p) ==
    /\ p \in DOMAIN headers
    /\ headers[p] = sig
    /\ \A q \in 1 .. (p - 1) : headers[q] # sig

SelfAt(headers, sig) ==
    IF \E p \in DOMAIN headers : IsSelf(headers, sig, p)
    THEN CHOOSE p \in DOMAIN headers : IsSelf(headers, sig, p)
    ELSE 0

(* The block without that one field.                                       *)
WithoutSelf(headers, sig) ==
    LET at == SelfAt(headers, sig)
    IN  IF at = 0 THEN headers
        ELSE SubSeq(headers, 1, at - 1) \o SubSeq(headers, at + 1, Len(headers))

(* Mutant: a repeated name starts over at the bottom.                      *)
ConsumedBefore_none(names, k) == 0

(* How often a name has been consumed before the kth name of h=.           *)
ConsumedBefore(names, k) ==
    Cardinality({ j \in 1 .. (k - 1) : names[j] = names[k] })

(* The position the kth name of h= selects, if it selects one.             *)
SelectedBy(names, headers, k) ==
    LET p == nthFromBottom(headers, names[k], ConsumedBefore(names, k))
    IN  IF names[k] = Empty \/ p = 0 THEN <<>> ELSE <<p>>

(* The positions the whole h= selects, in its order: what the loop writes. *)
Selected(names, headers) ==
    FlattenSeq([k \in DOMAIN names |-> SelectedBy(names, headers, k)])

SelectedFields(names, headers) ==
    LET at == Selected(names, headers)
    IN  [k \in DOMAIN at |-> headers[at[k]]]
=============================================================================

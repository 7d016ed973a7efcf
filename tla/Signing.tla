------------------------------- MODULE Signing -------------------------------
(***************************************************************************)
(* Sign: what it refuses, the h= list it builds and the signature field it *)
(* writes.  It is a pure function of the message, its options and the key. *)
(*                                                                         *)
(* Options are a record [domain, selector, key, headers, oversign,         *)
(* headerCanon, bodyCanon, time, expiration]; Empty is Go's "".  The key   *)
(* is [kind, bits, id], Absent for nil.                                    *)
(***************************************************************************)
EXTENDS DkimMessage, KeyRecord

CONSTANTS FieldNames,       \* the names ValidFieldName accepts
          SemicolonNames    \* those of them with a ";" (and no "=")

ASSUME NoNameIsEmpty == Empty \notin FieldNames

DefaultSignedHeaders ==
    << "from", "reply-to", "subject", "date", "to", "cc",
       "resent-date", "resent-from", "resent-to", "resent-cc",
       "in-reply-to", "references", "list-id", "list-help", "list-unsubscribe",
       "list-subscribe", "list-post", "list-owner", "list-archive", "message-id",
       "sender", "mime-version", "content-type", "content-transfer-encoding" >>

DefaultOversignedHeaders ==
    << "from", "to", "cc", "subject", "reply-to", "date", "message-id",
       "content-type", "mime-version" >>

Defaulted(opt) ==
    LET bare == opt.headers = <<>> /\ opt.oversign = <<>>
    IN  [opt EXCEPT
           !.headerCanon = IF @ = Empty THEN "relaxed" ELSE @,
           !.bodyCanon   = IF @ = Empty THEN "relaxed" ELSE @,
           !.headers     = IF bare THEN DefaultSignedHeaders ELSE @,
           !.oversign    = IF bare THEN DefaultOversignedHeaders ELSE @]

Algorithm(key) == CASE key.kind = "rsa"     -> "rsa-sha256"
                    [] key.kind = "ed25519" -> "ed25519-sha256"
                    [] OTHER                -> "unsupported"

CountOf(headers, name) == Cardinality({ p \in DOMAIN headers : headers[p].name = name })

(* The names of a list, each where it is first named.                      *)
FirstNamed(names) ==
    FlattenSeq([j \in DOMAIN names |->
                   IF Contains(SubSeq(names, 1, j - 1), names[j]) THEN <<>> ELSE <<names[j]>>])

(* One listing per instance, one more for an oversigned name.              *)
signedHeaderList(headers, want, oversign) ==
    LET listed(name) == CountOf(headers, name) + (IF Contains(oversign, name) THEN 1 ELSE 0)
        order        == FirstNamed(want \o oversign)
    IN  FlattenSeq([j \in DOMAIN order |-> [c \in 1 .. listed(order[j]) |-> order[j]]])

(* The errors of signedHeaderList.                                         *)
HeaderListError(headers, want, oversign) ==
    \/ ~(ToSet(want \o oversign) \subseteq FieldNames)
    \/ ~Contains(want \o oversign, "from")
    \/ CountOf(headers, "from") = 0

KeyError(key) ==
    \/ key = Absent
    \/ Algorithm(key) = "unsupported"
    \/ key.kind = "rsa" /\ key.bits < MinRSABits

TimeError(opt) ==
    \/ opt.time > MaxTimestamp \/ opt.expiration > MaxTimestamp
    \/ opt.expiration < 0
    \/ opt.expiration > 0 /\ opt.time > 0 /\ opt.expiration <= opt.time

SignError(headers, opt) ==
    \/ opt.domain = Empty \/ opt.selector = Empty
    \/ ~ValidDNSName(opt.domain) \/ ~ValidDNSName(opt.selector)
    \/ KeyError(opt.key)
    \/ TimeError(opt)
    \/ ~({Defaulted(opt).headerCanon, Defaulted(opt).bodyCanon} \subseteq {"simple", "relaxed"})
    \/ HeaderListError(headers, Defaulted(opt).headers, Defaulted(opt).oversign)

(* The tag list before b= is filled in.  A ";" in a name of h= ends the    *)
(* tag there, and what follows is no tag.                                  *)
UnsignedTags(headers, body, given) ==
    LET opt  == Defaulted(given)
        list == signedHeaderList(headers, opt.headers, opt.oversign)
    IN  [ strict |-> ToSet(list) \cap SemicolonNames = {},
          v |-> "1", a |-> Algorithm(opt.key), c |-> <<opt.headerCanon, opt.bodyCanon>>,
          d |-> opt.domain, s |-> opt.selector,
          t |-> IF opt.time > 0 THEN opt.time ELSE Absent,
          x |-> IF opt.expiration > 0 THEN opt.expiration ELSE Absent,
          h |-> list, bh |-> CanonicalizeBody(body, opt.bodyCanon), b |-> Empty,
          i |-> Absent, l |-> Absent, q |-> Absent ]

(* Mutant: the signature is computed over the value before it is folded.   *)
Sign_unfolded(headers, body, opt) ==
    LET tags  == UnsignedTags(headers, body, opt)
        field == [name |-> "dkim-signature", text |-> <<>>, ws |-> 1, tags |-> tags]
    IN  [field EXCEPT !.tags.b =
           [ by   |-> [kind |-> opt.key.kind, id |-> opt.key.id],
             over |-> BuildSignedHeaders(tags.h, headers, [field EXCEPT !.ws = 0],
                                         tags.c[1]) ]]

(* The field the caller prepends.                                          *)
Sign(headers, body, opt) ==
    LET tags  == UnsignedTags(headers, body, opt)
        field == [name |-> "dkim-signature", text |-> <<>>, ws |-> 1, tags |-> tags]
    IN  [field EXCEPT !.tags.b =
           [ by   |-> [kind |-> opt.key.kind, id |-> opt.key.id],
             over |-> BuildSignedHeaders(tags.h, headers, field, tags.c[1]) ]]
=============================================================================

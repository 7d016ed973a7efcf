------------------------------- MODULE Checks -------------------------------
(***************************************************************************)
(* The checks a signature field goes through, each as what it refuses or   *)
(* computes: DKIM's policy of VerifySignature, the mechanism of            *)
(* verifyMechanism, and the flags of the key record.                       *)
(***************************************************************************)
EXTENDS DkimMessage, KeyRecord

RequiredTags(tags) == /\ NonEmpty(tags.a) /\ NonEmpty(tags.b) /\ NonEmpty(tags.bh)
                      /\ NonEmpty(tags.d) /\ NonEmpty(tags.s) /\ NonEmpty(tags.h)

IdentityOK(tags) ==
    Present(tags.i) => /\ IsName(tags.i)
                       /\ ValidDNSName(tags.i)
                       /\ DomainAligned(tags.i, tags.d)

TimingOK(tags, clock) ==
    /\ Present(tags.t) => IsTime(tags.t)
    /\ Present(tags.x) => /\ IsTime(tags.x)
                          /\ Present(tags.t) => tags.x > tags.t
                          /\ clock < tags.x

(* Mutant: the time is not looked at before the mechanism.                 *)
PolicyOK_timeless(tags, clock) ==
    /\ tags.v = "1"
    /\ RequiredTags(tags)
    /\ HeaderListCoversFrom(tags.h)
    /\ IdentityOK(tags)

PolicyOK(tags, clock) ==
    /\ tags.v = "1"
    /\ RequiredTags(tags)
    /\ HeaderListCoversFrom(tags.h)
    /\ IdentityOK(tags)
    /\ TimingOK(tags, clock)

KeyTypeOf(a) == CASE a = "rsa-sha256"     -> "rsa"
                  [] a = "ed25519-sha256" -> "ed25519"
                  [] OTHER                -> "unsupported"

HeaderCanon(tags) == IF ~Present(tags.c) THEN "simple"
                     ELSE IF IsName(tags.c) THEN tags.c[1] ELSE "unsupported"
BodyCanon(tags)   == IF Present(tags.c) /\ IsName(tags.c) /\ Len(tags.c) = 2
                     THEN tags.c[2] ELSE "simple"

(* Everything that makes the mechanism permerror before the body hash is   *)
(* compared.                                                               *)
MechanismOK(tags, body) ==
    /\ RequiredTags(tags)
    /\ KeyTypeOf(tags.a) # "unsupported"
    /\ ValidDNSName(tags.d) /\ ValidDNSName(tags.s)
    /\ Present(tags.q) => ListContains(tags.q, "dns/txt")
    /\ {HeaderCanon(tags), BodyCanon(tags)} \subseteq {"simple", "relaxed"}
    /\ Present(tags.l) =>
          /\ tags.l \notin {Empty, Junk}
          /\ tags.l <= Len(CanonicalizeBody(body, BodyCanon(tags)))
    /\ tags.bh # Junk

(* Mutant: l=0 is taken for an absent l=.                                  *)
HashedBody_zeroAbsent(tags, body) ==
    LET canonical == CanonicalizeBody(body, BodyCanon(tags))
    IN  IF Present(tags.l) /\ tags.l # 0 THEN SubSeq(canonical, 1, tags.l) ELSE canonical

(* The canonical body up to l=; lengths are counted in lines here.         *)
HashedBody(tags, body) ==
    LET canonical == CanonicalizeBody(body, BodyCanon(tags))
    IN  IF Present(tags.l) THEN SubSeq(canonical, 1, tags.l) ELSE canonical

VerifyHash(key, data, sig) == sig.by = key /\ sig.over = data

KeyPolicyOK(tags, flags) ==
    /\ ~flags.notForEmail
    /\ flags.noSubdomain /\ Present(tags.i) => tags.i = tags.d
=============================================================================

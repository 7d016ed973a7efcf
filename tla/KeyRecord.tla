------------------------------ MODULE KeyRecord ------------------------------
(***************************************************************************)
(* DKIM key records, as keyrecord.Fetch reads them.                        *)
(*                                                                         *)
(* A record is one TXT string, abstracted to what the code asks of it:     *)
(*   strict   ParseTagListStrict accepts it (no duplicate, no malformed    *)
(*            segment)                                                     *)
(*   v        its v= tag, vfirst whether FirstTagName is "v"               *)
(*   h, t, s  the members of those lists (Absent without the tag)          *)
(*   k        its k= tag                                                   *)
(*   p        its p= tag: Absent, Empty (revoked), Junk (not base64), or   *)
(*            the key the bytes decode to: [kind, bits, id], where kind is *)
(*            "rsa" for a PKIX or PKCS#1 RSA key of that many bits, "raw"  *)
(*            for that many arbitrary bits, "other" for another PKIX key   *)
(***************************************************************************)
EXTENDS TagValues

CONSTANTS MinRSABits,      \* 1024
          Ed25519Bits      \* 256, the size of a raw Ed25519 public key

ASSUME KeySizes == MinRSABits \in Nat /\ Ed25519Bits \in Nat

(* An absent v= or k= is none of their values.                             *)
ASSUME AbsentIsNoWord == Absent \notin {"DKIM1", "rsa", "ed25519"}

(* The crypto.PublicKey parsePublicKey yields is [kind, id]; nil is NoKey. *)
NoKey == [kind |-> "none", id |-> "none"]

NoFlags == [noSubdomain |-> FALSE, notForEmail |-> FALSE]

parsePublicKey(k, p) ==
    CASE k = "ed25519" /\ p.kind = "raw" /\ p.bits = Ed25519Bits ->
            [kind |-> "ed25519", id |-> p.id]
      [] k = "rsa" /\ p.kind = "rsa" /\ p.bits >= MinRSABits ->
            [kind |-> "rsa", id |-> p.id]
      [] OTHER -> NoKey

KeyType(rec) == IF Present(rec.k) THEN rec.k ELSE "rsa"

(* Mutant: a v= anywhere in the record will do.                            *)
VersionOK_anywhere(rec) == Present(rec.v) => rec.v = "DKIM1"

(* The version clause: an absent v= is fine, a present one must be DKIM1   *)
(* and come first.                                                         *)
VersionOK(rec) == Present(rec.v) => rec.v = "DKIM1" /\ rec.vfirst

keyRecordAllowsHash(rec, hashAlg) ==
    Present(rec.h) => ListContains(rec.h, hashAlg)

(* What stays of a record after every `continue` of the loop.              *)
Usable(rec, keyType, hashAlg) ==
    /\ rec.strict
    /\ VersionOK(rec)
    /\ keyRecordAllowsHash(rec, hashAlg)
    /\ NonEmpty(rec.p)
    /\ KeyType(rec) = keyType
    /\ rec.p # Junk
    /\ parsePublicKey(keyType, rec.p) # NoKey

keyRecordAllowsService(rec) ==
    Present(rec.s) => ListContains(rec.s, "email") \/ ListContains(rec.s, "*")

FlagsOf(rec) ==
    [ noSubdomain |-> Present(rec.t) /\ ListContains(rec.t, "s"),
      notForEmail |-> ~keyRecordAllowsService(rec) ]

(***************************************************************************)
(* The three results of Fetch, as a triple of the Go return values.  The   *)
(* resolver answers [err |-> "notfound"], [err |-> "temporary"] (any other *)
(* error) or [err |-> "none", records |-> a sequence of records].          *)
(***************************************************************************)
Found(rec, keyType) == [ key   |-> parsePublicKey(keyType, rec.p),
                         flags |-> FlagsOf(rec), res |-> "" ]
Failed(res)         == [ key |-> NoKey, flags |-> NoFlags, res |-> res ]

(* Mutant: the resolver's error is passed on as a result.                  *)
ErrorResult_verbatim(err) == Failed(err)

(* Mutant: a timeout is taken for a missing record, and the reverse.       *)
ErrorResult_swapped(err) == Failed(IF err = "notfound" THEN "temperror" ELSE "permerror")

ErrorResult(err) == Failed(IF err = "notfound" THEN "permerror" ELSE "temperror")

(* The position of the first record a signature of that algorithm can use. *)
IsFirstUsable(i, records, keyType, hashAlg) ==
    /\ i \in DOMAIN records
    /\ Usable(records[i], keyType, hashAlg)
    /\ \A j \in 1 .. (i - 1) : ~Usable(records[j], keyType, hashAlg)

(* Fetch as one function of the answer: what the loop computes.            *)
Fetch(answer, keyType, hashAlg) ==
    IF answer.err # "none" THEN ErrorResult(answer.err)
    ELSE IF \E i \in DOMAIN answer.records :
               IsFirstUsable(i, answer.records, keyType, hashAlg)
         THEN Found(answer.records[CHOOSE i \in DOMAIN answer.records :
                      IsFirstUsable(i, answer.records, keyType, hashAlg)], keyType)
         ELSE Failed("permerror")
=============================================================================

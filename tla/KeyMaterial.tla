----------------------------- MODULE KeyMaterial -----------------------------
(***************************************************************************)
(* Keys on their way from GenerateKey to the signer and, as a record, to   *)
(* the verifier.  A PEM text is Absent when pem.Decode finds no block in   *)
(* it, or [der, key]: the encoding its bytes parse as ("pkcs1", "pkcs8",   *)
(* "spki", Junk), which no label of the block decides, and the key they    *)
(* hold, [kind, bits, id] with kind "rsa", "ed25519" or another.           *)
(***************************************************************************)
EXTENDS KeyRecord

GeneratedMinBits == 2048

(* A pair of PEM texts, Absent when the size is refused.                   *)
GenerateKey(bits, id) ==
    IF bits < GeneratedMinBits THEN [private |-> Absent, public |-> Absent]
    ELSE LET key == [kind |-> "rsa", bits |-> bits, id |-> id]
         IN  [ private |-> [der |-> "pkcs1", key |-> key],
               public  |-> [der |-> "spki", key |-> key] ]

(* PKCS#1 first, which holds RSA keys only, then PKCS#8; nil is Absent.    *)
ParsePrivateKey(pem) ==
    IF /\ pem # Absent /\ pem.der \in {"pkcs1", "pkcs8"}
       /\ pem.key.kind = "rsa"
    THEN pem.key ELSE Absent

(* The p= of a record: the DER itself for RSA, the bare key for Ed25519.   *)
KeyData(key) == IF key.kind = "rsa" THEN key ELSE [key EXCEPT !.kind = "raw"]

(* The record as Fetch will read it, Absent for an error.                  *)
RecordValue(pem) ==
    IF pem # Absent /\ pem.der = "spki" /\ pem.key.kind \in {"rsa", "ed25519"}
    THEN [ strict |-> TRUE, v |-> "DKIM1", vfirst |-> TRUE,
           h |-> Absent, t |-> Absent, s |-> Absent,
           k |-> pem.key.kind, p |-> KeyData(pem.key) ]
    ELSE Absent
=============================================================================

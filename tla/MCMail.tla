-------------------------------- MODULE MCMail --------------------------------
(***************************************************************************)
(* A draft with a name once and one twice, a continuation line and a line  *)
(* that is no field, and options of every kind, refused ones included: RSA *)
(* and Ed25519, both canonicalizations, default headers, oversigning,      *)
(* signing over an earlier signature, expiry.                              *)
(***************************************************************************)
EXTENDS Mail, KeyMaterial

Dom == <<"example", "org">>

(* The keys: A and B generated, E in PKCS#8 as x509 parses it and as the   *)
(* SubjectPublicKeyInfo its record is rendered from.                       *)
PairA == GenerateKey(2048, "A")
PairB == GenerateKey(2048, "B")
EdKey == [kind |-> "ed25519", bits |-> 256, id |-> "E"]
EdPEM(der) == [der |-> der, key |-> EdKey]

FieldOf(name, word) == [name |-> name, text |-> <<word>>, ws |-> 0, tags |-> Absent]
Continuation(words, ws) == [kind |-> "continuation", text |-> words, ws |-> ws]
NotAField == [kind |-> "other"]

TheText == << [text |-> "hello", ws |-> 0], [text |-> "", ws |-> 1] >>

Draft(theLines) == [lines |-> theLines, text |-> TheText]

MCDrafts ==
    { Draft(<< NotAField, Continuation(<< "dropped" >>, 1),
               FieldLine(FieldOf("subject", "one")), Continuation(<< "more" >>, 1),
               FieldLine(FieldOf("from", "alice")), FieldLine(FieldOf("subject", "two")) >>) }

(* A block that begins with a continuation line.                           *)
MCLeadingDrafts ==
    { Draft(<< Continuation(<< "stray" >>, 1), FieldLine(FieldOf("from", "alice")) >>) }

Bare == [ domain |-> Dom, selector |-> << "s1" >>, key |-> ParsePrivateKey(PairA.private),
          headers |-> <<>>, oversign |-> <<>>, headerCanon |-> Empty,
          bodyCanon |-> Empty, time |-> 0, expiration |-> 0 ]

MCOptionSets ==
    { Bare,
      [Bare EXCEPT !.headers = << "subject", "from", "subject" >>,
                   !.headerCanon = "simple", !.bodyCanon = "simple"],
      [Bare EXCEPT !.selector = << "s2" >>, !.key = EdKey,
                   !.headers = << "from", "dkim-signature" >>, !.oversign = << "from" >>,
                   !.time = 1, !.expiration = 2],
      (* refused ones *)
      [Bare EXCEPT !.selector = Empty],
      [Bare EXCEPT !.domain = << "no dns name" >>],
      [Bare EXCEPT !.key = ParsePrivateKey(GenerateKey(2047, "A").private)],
      [Bare EXCEPT !.key = ParsePrivateKey(PairA.public)],
      [Bare EXCEPT !.key = ParsePrivateKey(EdPEM("pkcs8"))],
      [Bare EXCEPT !.key = ParsePrivateKey([der |-> "pkcs8",
                              key |-> [kind |-> "rsa", bits |-> 1023, id |-> "A"]])],
      [Bare EXCEPT !.key.kind = "other"],
      [Bare EXCEPT !.headers = << "subject" >>],
      [Bare EXCEPT !.headers = << "from", "no field name" >>],
      [Bare EXCEPT !.bodyCanon = "nofws"],
      [Bare EXCEPT !.time = 2, !.expiration = 2],
      [Bare EXCEPT !.expiration = 10],
      [Bare EXCEPT !.expiration = -1] }

(* A field name RFC 5322 allows and a tag list does not.                   *)
MCNameOptions == { [Bare EXCEPT !.headers = << "from" >>, !.oversign = << "x;y" >>] }

MCFieldNames ==
    ToSet(DefaultSignedHeaders) \cup {"dkim-signature", "received", "x;y"}

MCTraceFields == { FieldOf("received", "hop"), FieldOf("subject", "hi") }

MCLabels   == {"example", "org", "s1", "s2"}
MCALabelOf == <<>>      \* no U-labels here

MCRecordNames == { << << "s1" >>, Dom >>, << << "s2" >>, Dom >> }

(* The records, each rendered where there is a key to render: the first    *)
(* zone holds both keys, the second the rotated one.                       *)
Rendered(pems) ==
    SelectSeq([j \in DOMAIN pems |-> RecordValue(pems[j])], LAMBDA rec : rec # Absent)

MCZones ==
    { [name \in MCRecordNames |-> [err |-> "none", records |-> Rendered(pems)]] :
        pems \in { << EdPEM("spki"), PairA.private, PairA.public >>, << PairB.public >> } }
===============================================================================

------------------------------- MODULE Verify -------------------------------
(***************************************************************************)
(* Verify on one message, and a layered scheme's loop over the same        *)
(* signature fields with VerifySignatureBare or VerifySignatureBareTags.   *)
(* For each field, the stages of the code between two points where the     *)
(* world can move on: the strict parse, the DKIM policy with its clock     *)
(* reading, the mechanism up to the key query, the answer, the signature   *)
(* check, the key's policy flags.                                          *)
(*                                                                         *)
(* The message is the caller's and does not change.  The clock and the     *)
(* DNS zone are not, and do.                                               *)
(***************************************************************************)
EXTENDS Checks

CONSTANTS RecordNames,    \* the names the DNS holds something under
          Zones,          \* what it may hold: functions on RecordNames
          MaxTime         \* bound on the clock

ASSUME ClockAssumption == MaxTime \in Nat

VARIABLES
    headers, body,   \* the message: SplitMessage's results
    entry,           \* the function called for each field, one of Entries
    zone,            \* one of Zones
    now,             \* the clock timeNow reads
    pc,              \* the stage
    at,              \* the header field the loop is at
    call,            \* the locals of the current VerifySignature call
    results,         \* the VerifyResults so far
    seen             \* history: what the calls read, one entry per result

message  == <<headers, body, entry>>
world    == <<zone, now>>
progress == <<pc, at, call, results, seen>>
vars     == <<message, world, progress>>

NoCall == [tags |-> [d |-> Empty, s |-> Empty], data |-> <<>>, now |-> Absent, name |-> Absent,
           answer |-> Absent, flags |-> NoFlags]

Entries == {"VerifySignature", "VerifySignatureBare", "VerifySignatureBareTags"}

(* Whether DKIM's own policy applies.                                      *)
policy == entry = "VerifySignature"

Sig == headers[at]
-----------------------------------------------------------------------------
(* The loop and the stages. *)

(* Mutant: the loop over the signatures ends at the first permerror.       *)
Return_stops(locals, result) ==
    /\ results' = Append(results,
          [domain |-> locals.tags.d, selector |-> locals.tags.s, result |-> result])
    /\ seen' = Append(seen, [at |-> at, now |-> locals.now, name |-> locals.name,
                             answer |-> locals.answer])
    /\ at' = at + 1
    /\ pc' = IF result = "permerror" THEN "done" ELSE "scan"
    /\ call' = NoCall

(* A VerifyResult, and with it the end of the call and the next field.  A  *)
(* call that did not get past the parse names no domain.                   *)
Return(locals, result) ==
    /\ results' = Append(results,
          [domain |-> locals.tags.d, selector |-> locals.tags.s, result |-> result])
    /\ seen' = Append(seen, [at |-> at, now |-> locals.now, name |-> locals.name,
                             answer |-> locals.answer])
    /\ at' = at + 1
    /\ pc' = "scan"
    /\ call' = NoCall

GoOn(stage, locals) ==
    /\ pc' = stage
    /\ call' = locals
    /\ UNCHANGED <<at, results, seen>>

(* Mutant: the loop stays at a field of another name.                      *)
SkipField_stays ==
    /\ pc = "scan" /\ at <= Len(headers)
    /\ Sig.name # "dkim-signature"
    /\ UNCHANGED vars

SkipField ==
    /\ pc = "scan" /\ at <= Len(headers)
    /\ Sig.name # "dkim-signature"
    /\ at' = at + 1
    /\ UNCHANGED <<message, world, pc, call, results, seen>>

(* The call begins: the tag list is parsed strictly, unless the caller has *)
(* parsed it by a grammar of its own.                                      *)
Parse ==
    /\ pc = "scan" /\ at <= Len(headers)
    /\ Sig.name = "dkim-signature"
    /\ IF Sig.tags.strict \/ entry = "VerifySignatureBareTags"
       THEN GoOn(IF policy THEN "policy" ELSE "mechanism",
                 [NoCall EXCEPT !.tags = ALabelTags(Sig.tags)])
       ELSE Return(NoCall, "permerror")
    /\ UNCHANGED <<message, world>>

(* The checks of VerifySignature before the mechanism; x= is compared with *)
(* the clock of this moment.                                               *)
CheckPolicy ==
    /\ pc = "policy"
    /\ LET locals == [call EXCEPT !.now = now]
       IN  IF PolicyOK(call.tags, now) THEN GoOn("mechanism", locals)
           ELSE Return(locals, "permerror")
    /\ UNCHANGED <<message, world>>

(* verifyMechanism up to the key query.                                    *)
PrepareMechanism ==
    /\ pc = "mechanism"
    /\ LET tags == call.tags IN
       \/ /\ ~MechanismOK(tags, body)
          /\ Return(call, "permerror")
       \/ /\ MechanismOK(tags, body) /\ HashedBody(tags, body) # tags.bh
          /\ Return(call, "fail")
       \/ /\ MechanismOK(tags, body) /\ HashedBody(tags, body) = tags.bh
          /\ IF tags.b = Junk THEN Return(call, "permerror")
             ELSE GoOn("query",
                       [call EXCEPT
                          !.data = BuildSignedHeaders(tags.h, headers, Sig, HeaderCanon(tags)),
                          !.name = RecordName(tags.s, tags.d)])
    /\ UNCHANGED <<message, world>>

(* The resolver answers: what the zone holds now, or a transient error.    *)
TempError == [err |-> "temporary", records |-> <<>>]
NotFound  == [err |-> "notfound", records |-> <<>>]

(* A transient error is an error of the lookup, never of the zone, no      *)
(* answer is an absent one, and records come in a slice.                   *)
ASSUME AnswersAreThere ==
    /\ Absent \notin {TempError, NotFound}
    /\ \A theZone \in Zones, name \in RecordNames :
          LET held == theZone[name]
          IN  /\ held # Absent /\ held.err \in {"none", "notfound"}
              /\ held.records \in Seq(ToSet(held.records))

Held(name, theZone) == IF name \in RecordNames THEN theZone[name] ELSE NotFound

Answer ==
    /\ pc = "query"
    /\ \E answer \in {TempError, Held(call.name, zone)} :
          GoOn("answered", [call EXCEPT !.answer = answer])
    /\ UNCHANGED <<message, world>>

(* Mutant: after a transient error the previous signature's answer is used.*)
CheckSignature_reuses ==
    /\ pc = "answered"
    /\ LET tags   == call.tags
           answer == IF call.answer.err = "temporary" /\ seen # <<>>
                        /\ Last(seen).answer # Absent
                     THEN Last(seen).answer ELSE call.answer
           fetch  == Fetch(answer, KeyTypeOf(tags.a), "sha256")
       IN  IF fetch.res # "" THEN Return(call, fetch.res)
           ELSE IF ~VerifyHash(fetch.key, call.data, tags.b) THEN Return(call, "fail")
           ELSE IF policy THEN GoOn("keypolicy", [call EXCEPT !.flags = fetch.flags])
           ELSE Return(call, "pass")
    /\ UNCHANGED <<message, world>>

(* The rest of verifyMechanism: key selection and the signature check.     *)
CheckSignature ==
    /\ pc = "answered"
    /\ LET tags  == call.tags
           fetch == Fetch(call.answer, KeyTypeOf(tags.a), "sha256")
       IN  IF fetch.res # "" THEN Return(call, fetch.res)
           ELSE IF ~VerifyHash(fetch.key, call.data, tags.b) THEN Return(call, "fail")
           ELSE IF policy THEN GoOn("keypolicy", [call EXCEPT !.flags = fetch.flags])
           ELSE Return(call, "pass")
    /\ UNCHANGED <<message, world>>

(* The rest of VerifySignature: the selected key record's s= and t=s.      *)
CheckKeyPolicy ==
    /\ pc = "keypolicy"
    /\ Return(call, IF KeyPolicyOK(call.tags, call.flags) THEN "pass" ELSE "permerror")
    /\ UNCHANGED <<message, world>>

Finish ==
    /\ pc = "scan" /\ at > Len(headers)
    /\ pc' = "done"
    /\ UNCHANGED <<message, world, at, call, results, seen>>

VerifierStep == \/ SkipField \/ Parse \/ CheckPolicy \/ PrepareMechanism
                \/ CheckSignature \/ CheckKeyPolicy \/ Finish

(* The environment. *)

Tick ==
    /\ pc # "done" /\ now < MaxTime
    /\ now' = now + 1
    /\ UNCHANGED <<message, zone, progress>>

(* A domain publishes, rotates or withdraws a key.                         *)
Publish ==
    /\ pc # "done"
    /\ zone' \in Zones \ {zone}
    /\ UNCHANGED <<message, now, progress>>

Next == VerifierStep \/ Answer \/ Tick \/ Publish

(* A call on a message, in any world.                                      *)
Called(theHeaders, theBody, theEntry) ==
    /\ headers = theHeaders /\ body = theBody /\ entry = theEntry
    /\ pc = "scan" /\ at = 1 /\ call = NoCall
    /\ results = <<>> /\ seen = <<>>

(* Any call on any message.                                                *)
CallInit ==
    /\ headers \in Seq(ToSet(headers)) /\ entry \in Entries
    /\ Called(headers, body, entry)
    /\ zone \in Zones /\ now \in 0 .. MaxTime

CallSpec == CallInit /\ [][Next]_vars

(* What SplitMessage and ParseTagList hand on: sequences of fields and of  *)
(* lines, and the tags of a signature field with names of labels, h= a     *)
(* list and l= a number or what parseUint refuses.                         *)
TagRecord(tags) ==
    /\ tags = [ strict |-> tags.strict, v |-> tags.v, a |-> tags.a, b |-> tags.b,
                bh |-> tags.bh, c |-> tags.c, d |-> tags.d, s |-> tags.s, h |-> tags.h,
                i |-> tags.i, l |-> tags.l, q |-> tags.q, t |-> tags.t, x |-> tags.x ]
    /\ NonEmpty(tags.h) => tags.h \in Seq(ToSet(tags.h))
    /\ \A name \in {tags.d, tags.s, tags.i} : IsName(name) => name \in Seq(STRING)
    /\ tags.l \in Nat \cup {Absent, Empty, Junk}

WellFormed(theHeaders, theBody) ==
    /\ theHeaders \in Seq(ToSet(theHeaders)) /\ theBody \in Seq(ToSet(theBody))
    /\ \A p \in DOMAIN theHeaders :
          theHeaders[p].name = "dkim-signature" => TagRecord(theHeaders[p].tags)

ParsedSpec == CallInit /\ WellFormed(headers, body) /\ [][Next]_vars

(* The verifier is sequential code, and the resolver returns: its context  *)
(* carries the caller's deadline, and a missed one is an answer.           *)
Progress == WF_vars(VerifierStep) /\ WF_vars(Answer)
-----------------------------------------------------------------------------
(* PROPERTIES *)

Results == {"pass", "fail", "permerror", "temperror"}

(* The values the variables may take.                                      *)
TypeOK ==
    /\ entry \in Entries
    /\ pc \in {"scan", "policy", "mechanism", "query", "answered", "keypolicy", "done"}
    /\ at \in 1 .. (Len(headers) + 1)
    /\ zone \in Zones
    /\ now \in 0 .. MaxTime
    /\ Len(seen) = Len(results)
    /\ \A j \in DOMAIN results : results[j].result \in Results

(* What the signature field of a message is worth to the function called,  *)
(* given one clock reading and one answer.                                 *)
Parsed(theEntry, field) == field.tags.strict \/ theEntry = "VerifySignatureBareTags"

Verdict(theHeaders, theBody, theEntry, field, clock, answer) ==
    LET tags  == ALabelTags(field.tags)
        dkim  == theEntry = "VerifySignature"
        fetch == Fetch(answer, KeyTypeOf(tags.a), "sha256")
        data  == BuildSignedHeaders(tags.h, theHeaders, field, HeaderCanon(tags))
    IN  IF \/ ~Parsed(theEntry, field)
           \/ dkim /\ ~PolicyOK(tags, clock)
           \/ ~MechanismOK(tags, theBody)            THEN "permerror"
        ELSE IF HashedBody(tags, theBody) # tags.bh   THEN "fail"
        ELSE IF tags.b = Junk                         THEN "permerror"
        ELSE IF fetch.res # ""                        THEN fetch.res
        ELSE IF ~VerifyHash(fetch.key, data, tags.b)  THEN "fail"
        ELSE IF dkim /\ ~KeyPolicyOK(tags, fetch.flags) THEN "permerror"
        ELSE "pass"

(* A field the parse refuses names no domain.                              *)
ResultOf(theHeaders, theBody, theEntry, field, clock, answer) ==
    LET tags == ALabelTags(field.tags)
    IN  [ domain   |-> IF Parsed(theEntry, field) THEN tags.d ELSE Empty,
          selector |-> IF Parsed(theEntry, field) THEN tags.s ELSE Empty,
          result   |-> Verdict(theHeaders, theBody, theEntry, field, clock, answer) ]

NameOf(field) == RecordName(ALabelTags(field.tags).s, ALabelTags(field.tags).d)

(* What the DNS could answer under a name.                                 *)
Answers(name) == {TempError} \cup { Held(name, theZone) : theZone \in Zones }

(* The results for some clock reading and some answer the DNS could give   *)
(* under the field's own key record name.                                  *)
Worth(theHeaders, theBody, theEntry, field) ==
    { ResultOf(theHeaders, theBody, theEntry, field, clock, answer) :
        clock \in 0 .. MaxTime, answer \in Answers(NameOf(field)) }

(* Verify keeps the promise of Verdicts: whatever the order of its stages  *)
(* and of the world's steps, each step is a stutter or gives the next      *)
(* signature field a result of its worth, and it returns when every one    *)
(* has one (verify.go:28, 31-48).                                          *)
Promise == INSTANCE Verdicts WITH closed <- (pc = "done")
ImplementsVerdicts == Promise!VerdictSpec

(* Signatures are judged one by one: no tag, canonicalization, key, flag   *)
(* or result of another signature of the message, verified before or       *)
(* after, shows in a result, and it rests on one clock reading and one     *)
(* answer however the clock and the zone moved meanwhile (verify.go:41-46, *)
(* 104-423).                                                               *)
NoCrossTalk ==
    \A j \in DOMAIN results :
        results[j].result = Verdict(headers, body, entry, headers[seen[j].at], seen[j].now, seen[j].answer)

(* What RFC 6376 asks of a signature, clause by clause and without the     *)
(* checks of the code.  First what the message alone decides, at a clock   *)
(* reading: a tag list that parses, the required tags, a known algorithm,  *)
(* names that are DNS names, the query method and the canonicalizations    *)
(* this verifier has, a body at least as long as l= says; and for DKIM the *)
(* version, a signed author, an identity inside the domain, and the times. *)
Admissible(field, clock) ==
    LET tags == field.tags
        d    == ToALabels(tags.d)
        idom == ToALabels(tags.i)
    IN  /\ tags.strict \/ entry = "VerifySignatureBareTags"
        /\ NonEmpty(tags.b) /\ NonEmpty(tags.bh) /\ NonEmpty(tags.h)
        /\ tags.a \in {"rsa-sha256", "ed25519-sha256"}
        /\ ValidDNSName(d) /\ ValidDNSName(ToALabels(tags.s))
        /\ tags.q = Absent \/ "dns/txt" \in tags.q
        /\ HeaderCanon(tags) \in {"simple", "relaxed"}
        /\ BodyCanon(tags) \in {"simple", "relaxed"}
        /\ tags.bh # Junk
        /\ \/ tags.l = Absent
           \/ /\ tags.l \notin {Empty, Junk}
              /\ tags.l <= Len(CanonicalizeBody(body, BodyCanon(tags)))
        /\ policy =>
              /\ tags.v = "1"
              /\ \E k \in DOMAIN tags.h : tags.h[k] = "from"
              /\ tags.i = Absent \/ (ValidDNSName(idom) /\ IsSuffix(d, idom))
              /\ tags.t = Absent \/ IsTime(tags.t)
              /\ \/ tags.x = Absent
                 \/ /\ IsTime(tags.x) /\ clock < tags.x
                    /\ tags.t = Absent \/ tags.t < tags.x

(* bh= is that of the whole canonical body, or of as much of it as l= says *)
(* to count, nothing at all for l=0.                                       *)
BodySigned(tags) ==
    LET canonical == CanonicalizeBody(body, BodyCanon(tags))
    IN  tags.bh = IF tags.l = Absent THEN canonical ELSE SubSeq(canonical, 1, tags.l)

(* The fields of a name, in the order of the block.                        *)
Instances(name, block) ==
    FlattenSeq([p \in DOMAIN block |-> IF block[p].name = name THEN <<block[p]>> ELSE <<>>])

(* RFC 6376 5.4.2: the nth listing of a name is the nth of its instances   *)
(* from the bottom, and nothing when there are fewer.                      *)
ListedField(names, k, others, canon) ==
    LET all == Instances(names[k], others)
        n   == Cardinality({ j \in 1 .. k : names[j] = names[k] })
    IN  IF names[k] = Empty \/ n > Len(all) THEN <<>>
        ELSE << CanonicalizeHeader(all[Len(all) - n + 1], canon) >>

(* The header data of the signature field at p: the fields h= lists among  *)
(* the others, and the field itself without its signature.                 *)
HeaderData(p) ==
    LET tags  == headers[p].tags
        canon == HeaderCanon(tags)
    IN  FlattenSeq([k \in DOMAIN tags.h |->
                       ListedField(tags.h, k, RemoveAt(headers, p), canon)])
          \o << CanonicalizeHeader(RemoveBValue(headers[p]), canon) >>

(* Equal fields are one Header value and stand for one another.            *)
Copies(field) == { p \in DOMAIN headers : headers[p] = field }

(* A key record for the algorithm: well-formed, of the known version and   *)
(* for SHA-256, its key not revoked, of the kind and at least the size the *)
(* algorithm asks for.                                                     *)
Serves(rec, a) ==
    /\ rec.strict
    /\ rec.v = Absent \/ (rec.v = "DKIM1" /\ rec.vfirst)
    /\ rec.h = Absent \/ "sha256" \in rec.h
    /\ rec.p \notin {Absent, Empty, Junk}
    /\ \/ /\ a = "rsa-sha256" /\ rec.k \in {Absent, "rsa"}
          /\ rec.p.kind = "rsa" /\ rec.p.bits >= MinRSABits
       \/ /\ a = "ed25519-sha256" /\ rec.k = "ed25519"
          /\ rec.p.kind = "raw" /\ rec.p.bits = Ed25519Bits

FirstServing(r, answer, a) ==
    /\ answer.err = "none" /\ r \in DOMAIN answer.records
    /\ Serves(answer.records[r], a)
    /\ \A q \in 1 .. (r - 1) : ~Serves(answer.records[q], a)

(* The key of a record made that signature.                                *)
SignedWith(rec, tags) ==
    tags.b.by = [ kind |-> IF tags.a = "rsa-sha256" THEN "rsa" ELSE "ed25519",
                  id   |-> rec.p.id ]

(* s= lets the key serve mail, and t=s no subdomain of the signer.         *)
ForMail(rec, tags) ==
    /\ rec.s = Absent \/ {"email", "*"} \cap rec.s # {}
    /\ rec.t # Absent /\ "s" \in rec.t
          => tags.i = Absent \/ ToALabels(tags.i) = ToALabels(tags.d)

(* The message, the clock reading and the answer vouch for the signature:  *)
(* the message does not refuse it, body and header data are the ones       *)
(* signed, the first record that serves the algorithm holds the key that   *)
(* signed them, and for DKIM that key is for mail of this identity.        *)
Vouched(field, clock, answer) ==
    LET tags == field.tags IN
    /\ Admissible(field, clock)
    /\ BodySigned(tags)
    /\ \E p \in Copies(field) : tags.b.over = HeaderData(p)
    /\ \E r \in DOMAIN answer.records :
          /\ FirstServing(r, answer, tags.a)
          /\ SignedWith(answer.records[r], tags)
          /\ policy => ForMail(answer.records[r], tags)

(* What a pass tells the caller, in the terms of RFC 6376 rather than of   *)
(* the code: the result names the domain and the selector of the field,    *)
(* the answer is the one under these names, and with it the field is       *)
(* vouched for: its tags, the body up to l=, every field h= selects, the   *)
(* algorithm and the key (verify.go:104-423, 473-505).                     *)
PassMeansVerified ==
    \A j \in DOMAIN results : results[j].result = "pass" =>
        LET field == headers[seen[j].at]
        IN  /\ results[j].domain = ToALabels(field.tags.d)
            /\ results[j].selector = ToALabels(field.tags.s)
            /\ seen[j].name = <<results[j].selector, results[j].domain>>
            /\ Vouched(field, seen[j].now, seen[j].answer)

(* A signature that does not pass is told from the others by its cause, in *)
(* the same terms: temperror only for a transient failure of the lookup of *)
(* a signature the message does not refuse, so that it may be tried again; *)
(* fail only for a body, header data or a key that is not the one signed;  *)
(* permerror only for what the message or the published records say        *)
(* (verify.go:57-95, keyrecord.go:51-56).                                  *)
NonPassHasCause ==
    \A j \in DOMAIN results :
        LET field  == headers[seen[j].at]
            tags   == field.tags
            answer == seen[j].answer
            admissible == Admissible(field, seen[j].now)
            hashed     == BodySigned(tags)
        IN  /\ results[j].result = "temperror" =>
                  /\ admissible /\ hashed /\ tags.b # Junk
                  /\ answer # Absent /\ answer.err = "temporary"
            /\ results[j].result = "fail" =>
                  /\ admissible
                  /\ hashed => /\ tags.b # Junk /\ answer # Absent
                               /\ \E r \in DOMAIN answer.records :
                                     /\ FirstServing(r, answer, tags.a)
                                     /\ \/ ~SignedWith(answer.records[r], tags)
                                        \/ \E p \in Copies(field) : tags.b.over # HeaderData(p)
            /\ results[j].result = "permerror" =>
                  \/ ~admissible
                  \/ hashed /\ tags.b = Junk
                  \/ /\ hashed /\ answer # Absent
                     /\ answer.err # "temporary"
                     /\ \A r \in DOMAIN answer.records :
                           FirstServing(r, answer, tags.a)
                             => policy /\ ~ForMail(answer.records[r], tags)

(* A lookup is not spent on a signature the message alone refuses: a query *)
(* goes out only for an admissible one over this body, with a b= that can  *)
(* be decoded, under its own names (verify.go:105-162, 334-408).           *)
QueryOnlyIfVerifiable ==
    pc = "query" =>
        /\ Admissible(Sig, call.now)
        /\ BodySigned(Sig.tags)
        /\ Sig.tags.b # Junk
        /\ call.name = << ToALabels(Sig.tags.s), ToALabels(Sig.tags.d) >>

(* The call returns.                                                       *)
Returns == <>(pc = "done")
=============================================================================

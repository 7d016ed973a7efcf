------------------------------ MODULE MailProofs ------------------------------
(***************************************************************************)
(* For every message, zone, clock bound and entry point: Verify implements *)
(* Verdicts, each result being worth what its own call read.  And for      *)
(* every draft, options, relays and zones: a pass is the word of a         *)
(* signer, and what a signer wrote passes where it stands as written.      *)
(*                                                                         *)
(* The inductive invariant follows a call from stage to stage: InCall says *)
(* that its locals are about the field the loop is at, Staged what the     *)
(* stages behind it have established, and Counted that the results are as  *)
(* many as the signature fields in front of that field.  With them, what a *)
(* stage returns is what Verdict says of the field.                        *)
(***************************************************************************)
EXTENDS Mail, SequenceFacts, FiniteSetTheorems, TLAPS

(* VERIFICATION, WHATEVER THE MESSAGE *)

IsSeq(s) == s \in Seq(ToSet(s))

Shape ==
    /\ IsSeq(headers) /\ IsSeq(results) /\ IsSeq(seen)
    /\ Len(seen) = Len(results)
    /\ at \in 1 .. (Len(headers) + 1)
    /\ pc \in {"scan", "policy", "mechanism", "query", "answered", "keypolicy", "done"}
    /\ entry \in Entries /\ zone \in Zones /\ now \in 0 .. MaxTime

Counted ==
    /\ Cardinality(Promise!SignaturesUpto(at - 1)) = Len(results)
    /\ pc = "done" => at = Len(headers) + 1

InCall ==
    pc \notin {"scan", "done"} =>
        /\ at <= Len(headers) /\ Sig.name = "dkim-signature" /\ Parsed(entry, Sig)
        /\ call = [ tags |-> ALabelTags(Sig.tags), data |-> call.data, now |-> call.now,
                    name |-> call.name, answer |-> call.answer, flags |-> call.flags ]

Prepared ==
    /\ MechanismOK(call.tags, body)
    /\ HashedBody(call.tags, body) = call.tags.bh
    /\ call.tags.b # Junk
    /\ call.data = BuildSignedHeaders(call.tags.h, headers, Sig, HeaderCanon(call.tags))
    /\ call.name = NameOf(Sig)

Checked ==
    LET fetch == Fetch(call.answer, KeyTypeOf(call.tags.a), "sha256")
    IN  /\ policy
        /\ fetch.res = "" /\ call.flags = fetch.flags
        /\ VerifyHash(fetch.key, call.data, call.tags.b)

Staged ==
    /\ pc = "policy" => policy
    /\ pc \in {"mechanism", "query", "answered", "keypolicy"} /\ policy =>
          call.now \in 0 .. MaxTime /\ PolicyOK(call.tags, call.now)
    /\ pc \in {"query", "answered", "keypolicy"} => Prepared
    /\ pc \in {"answered", "keypolicy"} => call.answer \in Answers(call.name)
    /\ pc = "keypolicy" => Checked

IInv == Shape /\ Counted /\ InCall /\ Staged /\ NoCrossTalk
-------------------------------------------------------------------------------
LEMMA SameCardinality ==
    ASSUME NEW S
    PROVE  Promise!Cardinality(S) = Cardinality(S)
  BY DEF Promise!Cardinality, Cardinality

(* What Append makes of a sequence.                                        *)
LEMMA Appended ==
    ASSUME NEW s, IsSeq(s), NEW e
    PROVE  /\ IsSeq(Append(s, e))
           /\ Len(s) \in Nat /\ Len(Append(s, e)) = Len(s) + 1
           /\ DOMAIN s = 1 .. Len(s) /\ DOMAIN Append(s, e) = 1 .. (Len(s) + 1)
           /\ \A j \in 1 .. Len(s) : Append(s, e)[j] = s[j]
           /\ Append(s, e)[Len(s) + 1] = e
  <1> DEFINE S == ToSet(s) \cup {e}
  <1>1. s \in Seq(S)
    BY DEF IsSeq
  <1>2. /\ Append(s, e) \in Seq(S) /\ Len(s) \in Nat
        /\ Len(Append(s, e)) = Len(s) + 1
        /\ DOMAIN s = 1 .. Len(s) /\ DOMAIN Append(s, e) = 1 .. (Len(s) + 1)
        /\ \A j \in 1 .. Len(s) : Append(s, e)[j] = s[j]
        /\ Append(s, e)[Len(s) + 1] = e
    BY <1>1
  <1>3. \A j \in 1 .. Len(Append(s, e)) : Append(s, e)[j] \in ToSet(Append(s, e))
    BY <1>2 DEF ToSet
  <1>4. Append(s, e) \in Seq(ToSet(Append(s, e)))
    BY <1>2, <1>3
  <1> QED BY <1>2, <1>4 DEF IsSeq

(* The fields in front of the next one hold one signature more, or none.   *)
LEMMA CountStep ==
    ASSUME IsSeq(headers), NEW p \in 1 .. Len(headers)
    PROVE  /\ headers[p].name = "dkim-signature" =>
                Cardinality(Promise!SignaturesUpto(p))
                  = Cardinality(Promise!SignaturesUpto(p - 1)) + 1
           /\ headers[p].name # "dkim-signature" =>
                Promise!SignaturesUpto(p) = Promise!SignaturesUpto(p - 1)
  <1>1. p \in Nat \ {0} /\ p - 1 \in Nat
    BY DEF IsSeq
  <1>2. IsFiniteSet(Promise!SignaturesUpto(p - 1))
    <2>1. IsFiniteSet(1 .. (p - 1))
      BY <1>1, FS_Interval
    <2>2. Promise!SignaturesUpto(p - 1) \subseteq 1 .. (p - 1)
      BY DEF Promise!SignaturesUpto
    <2> QED BY <2>1, <2>2, FS_Subset
  <1>3. CASE headers[p].name = "dkim-signature"
    <2>1. /\ Promise!SignaturesUpto(p) = Promise!SignaturesUpto(p - 1) \cup {p}
          /\ p \notin Promise!SignaturesUpto(p - 1)
      BY <1>1, <1>3 DEF Promise!SignaturesUpto
    <2> QED BY <1>2, <1>3, <2>1, FS_AddElement
  <1>4. CASE headers[p].name # "dkim-signature"
    BY <1>1, <1>4 DEF Promise!SignaturesUpto
  <1> QED BY <1>3, <1>4

(* The stages of Verdict, for any reading and answer.                      *)
LEMMA VerdictByStage ==
    ASSUME NEW field, NEW clock, NEW answer
    PROVE
      LET tags  == ALabelTags(field.tags)
          fetch == Fetch(answer, KeyTypeOf(tags.a), "sha256")
          data  == BuildSignedHeaders(tags.h, headers, field, HeaderCanon(tags))
          v     == Verdict(headers, body, entry, field, clock, answer)
          begun == Parsed(entry, field) /\ (policy => PolicyOK(tags, clock))
          ready == /\ begun /\ MechanismOK(tags, body)
                   /\ HashedBody(tags, body) = tags.bh
      IN  /\ ~begun => v = "permerror"
          /\ ~MechanismOK(tags, body) => v = "permerror"
          /\ begun /\ MechanismOK(tags, body) /\ HashedBody(tags, body) # tags.bh => v = "fail"
          /\ ready /\ tags.b = Junk => v = "permerror"
          /\ ready /\ tags.b # Junk /\ fetch.res # "" => v = fetch.res
          /\ ready /\ tags.b # Junk /\ fetch.res = "" =>
                /\ ~VerifyHash(fetch.key, data, tags.b) => v = "fail"
                /\ VerifyHash(fetch.key, data, tags.b) =>
                      v = IF policy /\ ~KeyPolicyOK(tags, fetch.flags)
                          THEN "permerror" ELSE "pass"
  BY DEF Verdict, policy
-------------------------------------------------------------------------------
(* A call that returns what its field is worth is a step of Verdicts.      *)
LEMMA ReturnIsJudge ==
    ASSUME IInv, pc # "done", at <= Len(headers), Sig.name = "dkim-signature",
           UNCHANGED <<message, world>>,
           NEW locals, NEW result, Return(locals, result),
           locals.tags.d = (IF Parsed(entry, Sig) THEN ALabelTags(Sig.tags).d ELSE Empty),
           locals.tags.s = (IF Parsed(entry, Sig) THEN ALabelTags(Sig.tags).s ELSE Empty),
           result = Verdict(headers, body, entry, Sig, locals.now, locals.answer),
           NEW clock \in 0 .. MaxTime, NEW answer \in Answers(NameOf(Sig)),
           result = Verdict(headers, body, entry, Sig, clock, answer)
    PROVE  IInv' /\ Promise!Judge
  <1> DEFINE res == [domain |-> locals.tags.d, selector |-> locals.tags.s, result |-> result]
             ev  == [at |-> at, now |-> locals.now, name |-> locals.name,
                     answer |-> locals.answer]
  <1>1. /\ results' = Append(results, res) /\ seen' = Append(seen, ev)
        /\ at' = at + 1 /\ pc' = "scan"
        /\ UNCHANGED <<headers, body, entry, zone, now>>
    BY DEF Return, message, world
  <1>2. IsSeq(headers) /\ IsSeq(results) /\ IsSeq(seen) /\ Len(seen) = Len(results)
    BY DEF IInv, Shape
  <1>3. at \in 1 .. Len(headers) /\ DOMAIN headers = 1 .. Len(headers) /\ Len(headers) \in Nat
    BY <1>2 DEF IInv, Shape, IsSeq
  <1> HIDE DEF res, ev
  <1>4. Shape'
    BY <1>1, <1>2, <1>3, Appended DEF IInv, Shape
  <1>5. Counted'
    <2>1. Cardinality(Promise!SignaturesUpto(at)) = Len(results) + 1
      BY <1>2, <1>3, CountStep DEF IInv, Counted, Sig
    <2>2. (at + 1) - 1 = at
      BY <1>3
    <2>3. Promise!SignaturesUpto(at - 1)' = Promise!SignaturesUpto(at)
      BY <1>1, <2>2 DEF Promise!SignaturesUpto
    <2> QED BY <1>1, <1>2, <2>1, <2>3, Appended DEF Counted
  <1>6. NoCrossTalk'
    <2>1. \A j \in 1 .. Len(results) :
             results[j].result
               = Verdict(headers, body, entry, headers[seen[j].at], seen[j].now, seen[j].answer)
      BY <1>2, Appended DEF IInv, NoCrossTalk
    <2>2. res.result = Verdict(headers, body, entry, headers[ev.at], ev.now, ev.answer)
      BY DEF res, ev, Sig
    <2>3. \A j \in 1 .. (Len(results) + 1) :
             results'[j].result
               = Verdict(headers, body, entry, headers[seen'[j].at], seen'[j].now, seen'[j].answer)
      <3> TAKE j \in 1 .. (Len(results) + 1)
      <3>1. CASE j \in 1 .. Len(results)
        BY <1>1, <1>2, <2>1, <3>1, Appended
      <3>2. CASE j = Len(results) + 1
        BY <1>1, <1>2, <2>2, <3>2, Appended
      <3>3. Len(results) \in Nat
        BY <1>2, Appended
      <3> QED BY <3>1, <3>2, <3>3
    <2>4. DOMAIN results' = 1 .. (Len(results) + 1)
      BY <1>1, <1>2, Appended
    <2> QED BY <1>1, <2>3, <2>4 DEF NoCrossTalk
  <1>7. InCall' /\ Staged'
    BY <1>1 DEF InCall, Staged
  <1>8. Promise!Judge
    <2>1. res = ResultOf(headers, body, entry, Sig, clock, answer)
      BY DEF res, ResultOf
    <2>2. res \in Worth(headers, body, entry, headers[at])
      BY <2>1 DEF Worth, Sig
    <2>3. results' # results
      BY <1>1, <1>2, Appended
    <2>4. Cardinality(Promise!SignaturesUpto(at - 1)) = Len(results)
      BY DEF IInv, Counted
    <2>5. ~(pc = "done") /\ UNCHANGED <<headers, body, entry, pc = "done">>
      BY <1>1
    <2>6. Promise!Cardinality(Promise!SignaturesUpto(at - 1)) = Len(results)
      BY <2>4, SameCardinality
    <2> QED BY <1>1, <1>3, <2>2, <2>3, <2>5, <2>6 DEF Promise!Judge, Sig
  <1> QED BY <1>4, <1>5, <1>6, <1>7, <1>8 DEF IInv

(* A stage that goes on changes nothing Verdicts sees.                     *)
LEMMA GoOnStutters ==
    ASSUME IInv, pc # "done", at <= Len(headers), UNCHANGED <<message, world>>,
           NEW stage \in {"policy", "mechanism", "query", "answered", "keypolicy"},
           NEW locals, GoOn(stage, locals)
    PROVE  /\ Shape' /\ Counted' /\ NoCrossTalk'
           /\ UNCHANGED Promise!verdictVars
           /\ pc' = stage /\ call' = locals /\ Sig' = Sig
           /\ UNCHANGED <<headers, body, entry, at>>
  <1>1. /\ UNCHANGED <<headers, body, entry, zone, now, at, results, seen>>
        /\ pc' = stage /\ call' = locals
    BY DEF GoOn, message, world
  <1>2. Shape' /\ NoCrossTalk'
    BY <1>1 DEF IInv, Shape, NoCrossTalk
  <1>3. Promise!SignaturesUpto(at - 1)' = Promise!SignaturesUpto(at - 1)
    BY <1>1 DEF Promise!SignaturesUpto
  <1>4. Counted'
    BY <1>1, <1>3 DEF IInv, Counted
  <1>5. UNCHANGED Promise!verdictVars
    BY <1>1 DEF Promise!verdictVars
  <1> QED BY <1>1, <1>2, <1>4, <1>5 DEF Sig
-------------------------------------------------------------------------------
(* The steps of the verifier, one lemma each. *)

LEMMA SkipFieldKeeps ==
    ASSUME IInv, SkipField
    PROVE  IInv' /\ UNCHANGED Promise!verdictVars
  <1>1. /\ pc = "scan" /\ at' = at + 1 /\ headers[at].name # "dkim-signature"
        /\ UNCHANGED <<headers, body, entry, zone, now, pc, call, results, seen>>
    BY DEF SkipField, message, world, Sig
  <1>2. at \in 1 .. Len(headers) /\ IsSeq(headers) /\ Len(headers) \in Nat
    BY DEF SkipField, IInv, Shape, IsSeq
  <1>3. Shape'
    BY <1>1, <1>2 DEF IInv, Shape
  <1>4. Promise!SignaturesUpto(at - 1)' = Promise!SignaturesUpto(at - 1)
    <2>1. Promise!SignaturesUpto(at - 1)' = Promise!SignaturesUpto(at)
      BY <1>1, <1>2 DEF Promise!SignaturesUpto
    <2> QED BY <2>1, <1>1, <1>2, CountStep
  <1>5. Counted'
    BY <1>1, <1>4 DEF IInv, Counted
  <1>6. InCall' /\ Staged' /\ NoCrossTalk'
    BY <1>1 DEF IInv, InCall, Staged, NoCrossTalk
  <1>7. UNCHANGED Promise!verdictVars
    BY <1>1 DEF Promise!verdictVars
  <1> QED BY <1>3, <1>5, <1>6, <1>7 DEF IInv

LEMMA ParseKeeps ==
    ASSUME IInv, Parse
    PROVE  IInv' /\ [Promise!Judge]_(Promise!verdictVars)
  <1>1. /\ pc = "scan" /\ at <= Len(headers) /\ Sig.name = "dkim-signature"
        /\ UNCHANGED <<message, world>>
    BY DEF Parse
  <1>2. CASE Parsed(entry, Sig)
    <2> DEFINE stage  == IF policy THEN "policy" ELSE "mechanism"
               locals == [NoCall EXCEPT !.tags = ALabelTags(Sig.tags)]
    <2>1. GoOn(stage, locals)
      BY <1>2 DEF Parse, Parsed
    <2>2. locals = [ tags |-> ALabelTags(Sig.tags), data |-> locals.data, now |-> locals.now,
                     name |-> locals.name, answer |-> locals.answer, flags |-> locals.flags ]
      BY DEF NoCall
    <2>3. stage \in {"policy", "mechanism"} /\ (stage = "policy" <=> policy)
      OBVIOUS
    <2> HIDE DEF stage, locals
    <2>4. /\ Shape' /\ Counted' /\ NoCrossTalk' /\ UNCHANGED Promise!verdictVars
          /\ pc' = stage /\ call' = locals /\ Sig' = Sig
          /\ UNCHANGED <<headers, body, entry, at>>
      BY <1>1, <2>1, <2>3, GoOnStutters
    <2>5. InCall'
      BY <1>1, <1>2, <2>2, <2>4 DEF InCall, Parsed
    <2>6. Staged'
      BY <2>3, <2>4 DEF Staged, policy
    <2> QED BY <2>4, <2>5, <2>6 DEF IInv
  <1>3. CASE ~Parsed(entry, Sig)
    <2>1. Return(NoCall, "permerror")
      BY <1>3 DEF Parse, Parsed
    <2>2. \A c, a : Verdict(headers, body, entry, Sig, c, a) = "permerror"
      BY <1>3, VerdictByStage
    <2>3. NoCall.tags.d = Empty /\ NoCall.tags.s = Empty
      BY DEF NoCall
    <2>4. 0 \in 0 .. MaxTime /\ TempError \in Answers(NameOf(Sig))
      BY ClockAssumption DEF Answers
    <2> QED BY <1>1, <1>3, <2>1, <2>2, <2>3, <2>4, ReturnIsJudge
  <1> QED BY <1>2, <1>3

LEMMA CheckPolicyKeeps ==
    ASSUME IInv, CheckPolicy
    PROVE  IInv' /\ [Promise!Judge]_(Promise!verdictVars)
  <1> DEFINE locals == [call EXCEPT !.now = now]
  <1>1. /\ pc = "policy" /\ policy /\ at <= Len(headers) /\ Sig.name = "dkim-signature"
        /\ Parsed(entry, Sig) /\ UNCHANGED <<message, world>> /\ now \in 0 .. MaxTime
    BY DEF CheckPolicy, IInv, Shape, InCall, Staged
  <1>2. /\ locals = [ tags |-> ALabelTags(Sig.tags), data |-> call.data, now |-> now,
                      name |-> call.name, answer |-> call.answer, flags |-> call.flags ]
        /\ call.tags = ALabelTags(Sig.tags)
    BY <1>1 DEF IInv, InCall
  <1>3. /\ locals.tags = ALabelTags(Sig.tags) /\ locals.now = now
        /\ locals = [ tags |-> ALabelTags(Sig.tags), data |-> locals.data, now |-> locals.now,
                      name |-> locals.name, answer |-> locals.answer, flags |-> locals.flags ]
    BY <1>2
  <1>4. IF PolicyOK(call.tags, now) THEN GoOn("mechanism", locals)
        ELSE Return(locals, "permerror")
    BY DEF CheckPolicy
  <1> HIDE DEF locals
  <1>5. CASE PolicyOK(call.tags, now)
    <2>1. /\ Shape' /\ Counted' /\ NoCrossTalk' /\ UNCHANGED Promise!verdictVars
          /\ pc' = "mechanism" /\ call' = locals /\ Sig' = Sig
          /\ UNCHANGED <<headers, body, entry, at>>
      BY <1>1, <1>4, <1>5, GoOnStutters
    <2>2. InCall'
      BY <1>1, <1>3, <2>1 DEF InCall, Parsed
    <2>3. Staged'
      BY <1>1, <1>2, <1>3, <1>5, <2>1 DEF Staged
    <2> QED BY <2>1, <2>2, <2>3 DEF IInv
  <1>6. CASE ~PolicyOK(call.tags, now)
    <2>1. Return(locals, "permerror")
      BY <1>4, <1>6
    <2>2. \A a : Verdict(headers, body, entry, Sig, now, a) = "permerror"
      BY <1>1, <1>2, <1>6, VerdictByStage
    <2>3. TempError \in Answers(NameOf(Sig))
      BY DEF Answers
    <2> QED BY <1>1, <1>3, <2>1, <2>2, <2>3, ReturnIsJudge
  <1> QED BY <1>5, <1>6

(* A clock reading to stand for one that was not needed.                   *)
LEMMA SomeClock ==
    ASSUME IInv, pc \in {"mechanism", "query", "answered", "keypolicy"}
    PROVE  \E clock \in 0 .. MaxTime :
              /\ policy => clock = call.now
              /\ policy => PolicyOK(call.tags, clock)
  <1>1. CASE policy
    BY <1>1 DEF IInv, Staged
  <1>2. CASE ~policy
    BY <1>2, ClockAssumption
  <1> QED BY <1>1, <1>2

(* What a stage may return: the verdict for its own reading and answer.    *)
LEMMA CallFacts ==
    ASSUME IInv, pc \in {"mechanism", "query", "answered", "keypolicy"}
    PROVE  /\ at <= Len(headers) /\ Sig.name = "dkim-signature" /\ Parsed(entry, Sig)
           /\ call.tags = ALabelTags(Sig.tags)
           /\ policy => PolicyOK(call.tags, call.now)
  BY DEF IInv, InCall, Staged

LEMMA PrepareMechanismKeeps ==
    ASSUME IInv, PrepareMechanism
    PROVE  IInv' /\ [Promise!Judge]_(Promise!verdictVars)
  <1>1. pc = "mechanism" /\ UNCHANGED <<message, world>>
    BY DEF PrepareMechanism
  <1>2. PICK clock \in 0 .. MaxTime : policy => PolicyOK(call.tags, clock)
    BY <1>1, SomeClock
  <1>3. TempError \in Answers(NameOf(Sig))
    BY DEF Answers
  <1>4. ASSUME NEW result, Return(call, result),
               \A c, a : (policy => PolicyOK(call.tags, c)) =>
                           Verdict(headers, body, entry, Sig, c, a) = result
        PROVE  IInv' /\ Promise!Judge
    BY <1>1, <1>2, <1>3, <1>4, CallFacts, ReturnIsJudge
  <1>5. CASE ~MechanismOK(call.tags, body)
    <2>1. Return(call, "permerror")
      BY <1>5 DEF PrepareMechanism
    <2> QED BY <1>1, <1>4, <1>5, <2>1, CallFacts, VerdictByStage, ZenonT(60)
  <1>6. CASE MechanismOK(call.tags, body) /\ HashedBody(call.tags, body) # call.tags.bh
    <2>1. Return(call, "fail")
      BY <1>6 DEF PrepareMechanism
    <2> QED BY <1>1, <1>4, <1>6, <2>1, CallFacts, VerdictByStage, ZenonT(60)
  <1>7. CASE MechanismOK(call.tags, body) /\ HashedBody(call.tags, body) = call.tags.bh
                /\ call.tags.b = Junk
    <2>1. Return(call, "permerror")
      BY <1>7 DEF PrepareMechanism
    <2> QED BY <1>1, <1>4, <1>7, <2>1, CallFacts, VerdictByStage, ZenonT(60)
  <1>8. CASE MechanismOK(call.tags, body) /\ HashedBody(call.tags, body) = call.tags.bh
                /\ call.tags.b # Junk
    <2> DEFINE data   == BuildSignedHeaders(call.tags.h, headers, Sig, HeaderCanon(call.tags))
               locals == [call EXCEPT !.data = data,
                                      !.name = RecordName(call.tags.s, call.tags.d)]
    <2>1. GoOn("query", locals)
      BY <1>8 DEF PrepareMechanism
    <2>2. locals = [ tags |-> ALabelTags(Sig.tags), data |-> data, now |-> call.now,
                     name |-> NameOf(Sig), answer |-> call.answer, flags |-> call.flags ]
      <3>1. call = [ tags |-> ALabelTags(Sig.tags), data |-> call.data, now |-> call.now,
                     name |-> call.name, answer |-> call.answer, flags |-> call.flags ]
        BY <1>1 DEF IInv, InCall
      <3>2. NameOf(Sig) = RecordName(call.tags.s, call.tags.d)
        BY <1>1, CallFacts DEF NameOf
      <3> HIDE DEF data
      <3> DEFINE first == [call EXCEPT !.data = data]
      <3>3. first = [ tags |-> ALabelTags(Sig.tags), data |-> data, now |-> call.now,
                      name |-> call.name, answer |-> call.answer, flags |-> call.flags ]
        BY <3>1
      <3>4. locals = [first EXCEPT !.name = NameOf(Sig)]
        BY <3>2
      <3> HIDE DEF first
      <3>5. [first EXCEPT !.name = NameOf(Sig)]
              = [ tags |-> ALabelTags(Sig.tags), data |-> data, now |-> call.now,
                  name |-> NameOf(Sig), answer |-> call.answer, flags |-> call.flags ]
        BY <3>3
      <3> QED BY <3>4, <3>5
    <2>3. /\ locals.tags = call.tags /\ locals.now = call.now
          /\ locals.data = data /\ locals.name = NameOf(Sig)
          /\ locals = [ tags |-> ALabelTags(Sig.tags), data |-> locals.data, now |-> locals.now,
                        name |-> locals.name, answer |-> locals.answer, flags |-> locals.flags ]
      BY <1>1, <2>2, CallFacts
    <2> HIDE DEF locals
    <2>4. /\ Shape' /\ Counted' /\ NoCrossTalk' /\ UNCHANGED Promise!verdictVars
          /\ pc' = "query" /\ call' = locals /\ Sig' = Sig
          /\ UNCHANGED <<headers, body, entry, at>>
      BY <1>1, <2>1, CallFacts, GoOnStutters
    <2>5. InCall'
      BY <1>1, <2>3, <2>4, CallFacts DEF InCall, Parsed
    <2>6. Prepared'
      BY <1>8, <2>3, <2>4 DEF Prepared, NameOf
    <2>7. Staged'
      BY <1>1, <2>3, <2>4, <2>6 DEF IInv, Staged, policy
    <2> QED BY <2>4, <2>5, <2>7 DEF IInv
  <1> QED BY <1>5, <1>6, <1>7, <1>8

LEMMA AnswerKeeps ==
    ASSUME IInv, Answer
    PROVE  IInv' /\ UNCHANGED Promise!verdictVars
  <1>1. pc = "query" /\ UNCHANGED <<message, world>> /\ zone \in Zones
    BY DEF Answer, IInv, Shape
  <1>2. PICK answer \in {TempError, Held(call.name, zone)} :
           GoOn("answered", [call EXCEPT !.answer = answer])
    BY DEF Answer
  <1> DEFINE locals == [call EXCEPT !.answer = answer]
  <1>3. /\ locals = [ tags |-> ALabelTags(Sig.tags), data |-> call.data, now |-> call.now,
                      name |-> call.name, answer |-> answer, flags |-> call.flags ]
    BY <1>1 DEF IInv, InCall
  <1>4. /\ locals.tags = call.tags /\ locals.now = call.now /\ locals.answer = answer
        /\ locals.data = call.data /\ locals.name = call.name
        /\ locals = [ tags |-> ALabelTags(Sig.tags), data |-> locals.data, now |-> locals.now,
                      name |-> locals.name, answer |-> locals.answer, flags |-> locals.flags ]
    BY <1>1, <1>3, CallFacts
  <1>5. answer \in Answers(call.name)
    BY <1>1 DEF Answers
  <1>6. GoOn("answered", locals)
    BY <1>2
  <1> HIDE DEF locals
  <1>7. /\ Shape' /\ Counted' /\ NoCrossTalk' /\ UNCHANGED Promise!verdictVars
        /\ pc' = "answered" /\ call' = locals /\ Sig' = Sig
        /\ UNCHANGED <<headers, body, entry, at>>
    BY <1>1, <1>6, CallFacts, GoOnStutters
  <1>8. InCall'
    BY <1>1, <1>4, <1>7, CallFacts DEF InCall, Parsed
  <1>9. Prepared'
    BY <1>1, <1>4, <1>7 DEF IInv, Staged, Prepared, NameOf
  <1>10. call'.answer \in Answers(call'.name)
    BY <1>4, <1>5, <1>7
  <1>11. Staged'
    BY <1>1, <1>4, <1>7, <1>9, <1>10 DEF IInv, Staged, policy, Answers, Held
  <1> QED BY <1>7, <1>8, <1>11 DEF IInv

LEMMA CheckSignatureKeeps ==
    ASSUME IInv, CheckSignature
    PROVE  IInv' /\ [Promise!Judge]_(Promise!verdictVars)
  <1> DEFINE fetch == Fetch(call.answer, KeyTypeOf(call.tags.a), "sha256")
             good  == VerifyHash(fetch.key, call.data, call.tags.b)
  <1>1. /\ pc = "answered" /\ UNCHANGED <<message, world>>
        /\ Prepared /\ call.answer \in Answers(NameOf(Sig))
    BY DEF CheckSignature, IInv, Staged, Prepared
  <1>2. PICK clock \in 0 .. MaxTime : policy => PolicyOK(call.tags, clock)
    BY <1>1, SomeClock
  <1>3. ASSUME NEW result, Return(call, result),
               \A c : (policy => PolicyOK(call.tags, c)) =>
                        Verdict(headers, body, entry, Sig, c, call.answer) = result
        PROVE  IInv' /\ Promise!Judge
    BY <1>1, <1>2, <1>3, CallFacts, ReturnIsJudge
  <1>4. IF fetch.res # "" THEN Return(call, fetch.res)
        ELSE IF ~good THEN Return(call, "fail")
        ELSE IF policy THEN GoOn("keypolicy", [call EXCEPT !.flags = fetch.flags])
        ELSE Return(call, "pass")
    BY DEF CheckSignature
  <1>5. \A c : (policy => PolicyOK(call.tags, c)) =>
          LET v == Verdict(headers, body, entry, Sig, c, call.answer)
          IN  /\ fetch.res # "" => v = fetch.res
              /\ fetch.res = "" /\ ~good => v = "fail"
              /\ fetch.res = "" /\ good =>
                    v = IF policy /\ ~KeyPolicyOK(call.tags, fetch.flags)
                        THEN "permerror" ELSE "pass"
    <2> TAKE c
    <2> HAVE policy => PolicyOK(call.tags, c)
    <2>1. /\ call.tags = ALabelTags(Sig.tags) /\ Parsed(entry, Sig)
          /\ MechanismOK(call.tags, body) /\ HashedBody(call.tags, body) = call.tags.bh
          /\ call.tags.b # Junk
          /\ call.data = BuildSignedHeaders(call.tags.h, headers, Sig, HeaderCanon(call.tags))
      BY <1>1, CallFacts DEF Prepared
    <2> QED BY <2>1, VerdictByStage
  <1> HIDE DEF fetch, good
  <1>6. CASE fetch.res # ""
    BY <1>3, <1>4, <1>5, <1>6
  <1>7. CASE fetch.res = "" /\ ~good
    BY <1>3, <1>4, <1>5, <1>7
  <1>8. CASE fetch.res = "" /\ good /\ ~policy
    BY <1>3, <1>4, <1>5, <1>8
  <1>9. CASE fetch.res = "" /\ good /\ policy
    <2> DEFINE locals == [call EXCEPT !.flags = fetch.flags]
    <2>1. GoOn("keypolicy", locals)
      BY <1>4, <1>9
    <2>2. call = [ tags |-> ALabelTags(Sig.tags), data |-> call.data, now |-> call.now,
                   name |-> call.name, answer |-> call.answer, flags |-> call.flags ]
      BY <1>1 DEF IInv, InCall
    <2>3. locals = [ tags |-> ALabelTags(Sig.tags), data |-> call.data, now |-> call.now,
                     name |-> call.name, answer |-> call.answer, flags |-> fetch.flags ]
      BY <2>2
    <2>4. /\ locals.tags = call.tags /\ locals.now = call.now /\ locals.answer = call.answer
          /\ locals.data = call.data /\ locals.name = call.name /\ locals.flags = fetch.flags
          /\ locals = [ tags |-> ALabelTags(Sig.tags), data |-> locals.data, now |-> locals.now,
                        name |-> locals.name, answer |-> locals.answer, flags |-> locals.flags ]
      BY <1>1, <2>3, CallFacts
    <2> HIDE DEF locals
    <2>5. /\ Shape' /\ Counted' /\ NoCrossTalk' /\ UNCHANGED Promise!verdictVars
          /\ pc' = "keypolicy" /\ call' = locals /\ Sig' = Sig
          /\ UNCHANGED <<headers, body, entry, at>>
      BY <1>1, <2>1, CallFacts, GoOnStutters
    <2>6. InCall'
      BY <1>1, <2>4, <2>5, CallFacts DEF InCall, Parsed
    <2>7. Prepared'
      BY <1>1, <2>4, <2>5 DEF Prepared, NameOf
    <2>8. Checked'
      BY <1>9, <2>4, <2>5 DEF Checked, policy, fetch, good
    <2>9. call'.answer \in Answers(call'.name)
      BY <1>1, <2>4, <2>5 DEF Prepared
    <2>10. Staged'
      BY <1>1, <2>4, <2>5, <2>7, <2>8, <2>9 DEF IInv, Staged, policy, Answers, Held
    <2> QED BY <2>5, <2>6, <2>10 DEF IInv
  <1> QED BY <1>6, <1>7, <1>8, <1>9

LEMMA CheckKeyPolicyKeeps ==
    ASSUME IInv, CheckKeyPolicy
    PROVE  IInv' /\ Promise!Judge
  <1> DEFINE result == IF KeyPolicyOK(call.tags, call.flags) THEN "pass" ELSE "permerror"
             fetch  == Fetch(call.answer, KeyTypeOf(call.tags.a), "sha256")
  <1>1. /\ pc = "keypolicy" /\ UNCHANGED <<message, world>> /\ Return(call, result)
        /\ Prepared /\ Checked /\ call.answer \in Answers(NameOf(Sig))
        /\ policy /\ call.now \in 0 .. MaxTime /\ PolicyOK(call.tags, call.now)
    BY DEF CheckKeyPolicy, IInv, Staged, Prepared, Checked
  <1>2. Verdict(headers, body, entry, Sig, call.now, call.answer) = result
    <2>1. /\ call.tags = ALabelTags(Sig.tags) /\ Parsed(entry, Sig)
      BY <1>1, CallFacts
    <2>2. /\ MechanismOK(call.tags, body) /\ HashedBody(call.tags, body) = call.tags.bh
          /\ call.tags.b # Junk
          /\ call.data = BuildSignedHeaders(call.tags.h, headers, Sig, HeaderCanon(call.tags))
          /\ fetch.res = "" /\ call.flags = fetch.flags
          /\ VerifyHash(fetch.key, call.data, call.tags.b)
      BY <1>1 DEF Prepared, Checked
    <2>3. Verdict(headers, body, entry, Sig, call.now, call.answer)
            = IF policy /\ ~KeyPolicyOK(call.tags, fetch.flags) THEN "permerror" ELSE "pass"
      BY <1>1, <2>1, <2>2, VerdictByStage, ZenonT(60)
    <2> QED BY <1>1, <2>2, <2>3
  <1> HIDE DEF result, fetch
  <1> QED BY <1>1, <1>2, CallFacts, ReturnIsJudge

LEMMA FinishKeeps ==
    ASSUME IInv, Finish
    PROVE  IInv' /\ Promise!Close
  <1>1. /\ pc = "scan" /\ pc' = "done" /\ at = Len(headers) + 1 /\ Len(headers) \in Nat
        /\ UNCHANGED <<headers, body, entry, zone, now, at, call, results, seen>>
    BY DEF Finish, message, world, IInv, Shape, IsSeq
  <1>2. Promise!SignaturesUpto(at - 1)' = Promise!SignaturesUpto(at - 1)
    BY <1>1 DEF Promise!SignaturesUpto
  <1>3. Shape' /\ Counted' /\ InCall' /\ Staged' /\ NoCrossTalk'
    BY <1>1, <1>2 DEF IInv, Shape, Counted, InCall, Staged, NoCrossTalk
  <1>4. at - 1 = Len(headers)
    BY <1>1
  <1>5. Promise!Cardinality(Promise!SignaturesUpto(Len(headers))) = Len(results)
    BY <1>4, SameCardinality DEF IInv, Counted
  <1> QED BY <1>1, <1>3, <1>5 DEF IInv, Promise!Close

(* The world's steps, and none.                                            *)
LEMMA WorldKeeps ==
    ASSUME IInv, UNCHANGED <<message, progress>>,
           zone' \in Zones, now' \in 0 .. MaxTime
    PROVE  IInv' /\ UNCHANGED Promise!verdictVars
  <1>1. UNCHANGED <<headers, body, entry, pc, at, call, results, seen>>
    BY DEF message, progress
  <1>2. Promise!SignaturesUpto(at - 1)' = Promise!SignaturesUpto(at - 1)
    BY <1>1 DEF Promise!SignaturesUpto
  <1>3. Shape' /\ Counted' /\ NoCrossTalk'
    BY <1>1, <1>2 DEF IInv, Shape, Counted, NoCrossTalk
  <1>4. Sig' = Sig
    BY <1>1 DEF Sig
  <1>5. InCall'
    BY <1>1, <1>4 DEF IInv, InCall, Parsed
  <1>6. Prepared' <=> Prepared
    BY <1>1, <1>4 DEF Prepared, NameOf
  <1>7. Checked' <=> Checked
    BY <1>1 DEF Checked, policy
  <1>8. Staged'
    BY <1>1, <1>6, <1>7 DEF IInv, Staged, policy, Answers, Held
  <1>9. UNCHANGED Promise!verdictVars
    BY <1>1 DEF Promise!verdictVars
  <1> QED BY <1>3, <1>5, <1>8, <1>9 DEF IInv

LEMMA InitOK ==
    ASSUME CallInit
    PROVE  IInv /\ Promise!VerdictInit
  <1>1. /\ IsSeq(headers) /\ pc = "scan" /\ at = 1 /\ results = <<>> /\ seen = <<>>
        /\ entry \in Entries /\ zone \in Zones /\ now \in 0 .. MaxTime
    BY DEF CallInit, Called, IsSeq
  <1>2. Shape
    BY <1>1 DEF Shape, IsSeq
  <1>3. Promise!SignaturesUpto(at - 1) = {}
    BY <1>1 DEF Promise!SignaturesUpto
  <1>4. Counted
    BY <1>1, <1>3, FS_EmptySet DEF Counted
  <1>5. InCall /\ Staged /\ NoCrossTalk /\ Promise!VerdictInit
    BY <1>1 DEF InCall, Staged, NoCrossTalk, Promise!VerdictInit
  <1> QED BY <1>2, <1>4, <1>5 DEF IInv

LEMMA StepKeeps ==
    ASSUME IInv, [Next]_vars
    PROVE  IInv' /\ [Promise!VerdictNext]_(Promise!verdictVars)
  <1> USE DEF Promise!VerdictNext
  <1>1. CASE SkipField
    BY <1>1, SkipFieldKeeps
  <1>2. CASE Parse
    BY <1>2, ParseKeeps
  <1>3. CASE CheckPolicy
    BY <1>3, CheckPolicyKeeps
  <1>4. CASE PrepareMechanism
    BY <1>4, PrepareMechanismKeeps
  <1>5. CASE Answer
    BY <1>5, AnswerKeeps
  <1>6. CASE CheckSignature
    BY <1>6, CheckSignatureKeeps
  <1>7. CASE CheckKeyPolicy
    BY <1>7, CheckKeyPolicyKeeps
  <1>8. CASE Finish
    BY <1>8, FinishKeeps
  <1>9. CASE Tick
    BY <1>9, ClockAssumption, WorldKeeps DEF Tick, message, IInv, Shape
  <1>10. CASE Publish
    BY <1>10, WorldKeeps DEF Publish, message, IInv, Shape
  <1>11. CASE UNCHANGED vars
    BY <1>11, WorldKeeps DEF vars, world, IInv, Shape
  <1> QED BY <1>1, <1>2, <1>3, <1>4, <1>5, <1>6, <1>7, <1>8, <1>9, <1>10, <1>11
          DEF Next, VerifierStep
-------------------------------------------------------------------------------
LEMMA Invariance == CallSpec => []IInv
  BY InitOK, StepKeeps, PTL DEF CallSpec

LEMMA VerdictIsResult ==
    ASSUME NEW theHeaders, NEW theBody, NEW theEntry, NEW field, NEW clock, NEW answer
    PROVE  Verdict(theHeaders, theBody, theEntry, field, clock, answer) \in Results
  <1> DEFINE fetch == Fetch(answer, KeyTypeOf(ALabelTags(field.tags).a), "sha256")
  <1>1. fetch.res \in {"", "permerror", "temperror"}
    BY DEF Fetch, Found, Failed, ErrorResult
  <1> QED BY <1>1 DEF Verdict, Results

(* The variables keep their types, every result is one of the four, and    *)
(* there are as many of them as of readings (verify.go:34-67).             *)
THEOREM TypeCorrect == CallSpec => []TypeOK
  <1>1. IInv => TypeOK
    BY VerdictIsResult DEF IInv, Shape, NoCrossTalk, TypeOK
  <1> QED BY <1>1, Invariance, PTL

(* Each result is the verdict of its own field for the one clock reading   *)
(* and the one answer of its own call (verify.go:41-46, 104-423), for      *)
(* every message, zone and entry point.                                    *)
THEOREM NoCrossTalkHolds == CallSpec => []NoCrossTalk
  <1>1. IInv => NoCrossTalk
    BY DEF IInv
  <1> QED BY <1>1, Invariance, PTL

(* Verify returns one result per signature field, in header order, and     *)
(* each is one its own field may be given (verify.go:28, 31-48): every     *)
(* behaviour of Verify is one of Verdicts.                                 *)
THEOREM VerifyImplementsVerdicts == CallSpec => ImplementsVerdicts
  BY InitOK, StepKeeps, Invariance, PTL
     DEF CallSpec, ImplementsVerdicts, Promise!VerdictSpec
-------------------------------------------------------------------------------
(* What the parser hands on stays what it is.                              *)
LEMMA ParsedInvariance == ParsedSpec => [](IInv /\ WellFormed(headers, body))
  <1>1. CallInit /\ WellFormed(headers, body) => IInv /\ WellFormed(headers, body)
    BY InitOK
  <1>2. IInv /\ WellFormed(headers, body) /\ [Next]_vars => (IInv /\ WellFormed(headers, body))'
    <2> SUFFICES ASSUME IInv, WellFormed(headers, body), [Next]_vars
                 PROVE  IInv' /\ WellFormed(headers, body)'
      OBVIOUS
    <2>1. UNCHANGED message
      BY DEF Next, VerifierStep, SkipField, Parse, CheckPolicy, PrepareMechanism,
             CheckSignature, CheckKeyPolicy, Finish, Answer, Tick, Publish, vars
    <2> QED BY <2>1, StepKeeps DEF message
  <1> QED BY <1>1, <1>2, PTL DEF ParsedSpec

(* Tags keep their values through the conversion to A-labels, but for the  *)
(* names converted.                                                        *)
LEMMA ALabelFields ==
    ASSUME NEW tags, TagRecord(tags)
    PROVE  ALabelTags(tags) =
             [ strict |-> tags.strict, v |-> tags.v, a |-> tags.a, b |-> tags.b,
               bh |-> tags.bh, c |-> tags.c, d |-> ToALabels(tags.d), s |-> ToALabels(tags.s),
               h |-> tags.h, i |-> ToALabels(tags.i), l |-> tags.l, q |-> tags.q,
               t |-> tags.t, x |-> tags.x ]
  <1> DEFINE one == [tags EXCEPT !.d = ToALabels(@)]
             two == [one EXCEPT !.s = ToALabels(@)]
  <1>1. one = [ strict |-> tags.strict, v |-> tags.v, a |-> tags.a, b |-> tags.b,
                bh |-> tags.bh, c |-> tags.c, d |-> ToALabels(tags.d), s |-> tags.s,
                h |-> tags.h, i |-> tags.i, l |-> tags.l, q |-> tags.q,
                t |-> tags.t, x |-> tags.x ]
    BY DEF TagRecord
  <1>2. ALabelTags(tags) = [two EXCEPT !.i = ToALabels(@)]
    BY DEF ALabelTags
  <1> HIDE DEF one
  <1>3. two = [ strict |-> tags.strict, v |-> tags.v, a |-> tags.a, b |-> tags.b,
                bh |-> tags.bh, c |-> tags.c, d |-> ToALabels(tags.d), s |-> ToALabels(tags.s),
                h |-> tags.h, i |-> tags.i, l |-> tags.l, q |-> tags.q,
                t |-> tags.t, x |-> tags.x ]
    BY <1>1
  <1> HIDE DEF two
  <1> QED BY <1>2, <1>3

-------------------------------------------------------------------------------
(* What a result tells: a pass names the domain, the selector and the key  *)
(* record of the field it is about.                                        *)
Told ==
    \A j \in DOMAIN results :
        /\ seen[j].at \in DOMAIN headers
        /\ headers[seen[j].at].name = "dkim-signature"
        /\ results[j].result = "pass" =>
              LET field == headers[seen[j].at]
              IN  /\ results[j].domain   = ALabelTags(field.tags).d
                  /\ results[j].selector = ALabelTags(field.tags).s
                  /\ seen[j].name = NameOf(field)

LEMMA ReturnTold ==
    ASSUME IInv, Told, at <= Len(headers), Sig.name = "dkim-signature", UNCHANGED message,
           NEW locals, NEW result, Return(locals, result),
           result = "pass" => locals.tags = ALabelTags(Sig.tags) /\ locals.name = NameOf(Sig)
    PROVE  Told'
  <1> DEFINE res == [domain |-> locals.tags.d, selector |-> locals.tags.s, result |-> result]
             ev  == [at |-> at, now |-> locals.now, name |-> locals.name,
                     answer |-> locals.answer]
             tells(r, e) ==
                /\ e.at \in DOMAIN headers
                /\ headers[e.at].name = "dkim-signature"
                /\ r.result = "pass" =>
                      /\ r.domain   = ALabelTags(headers[e.at].tags).d
                      /\ r.selector = ALabelTags(headers[e.at].tags).s
                      /\ e.name = NameOf(headers[e.at])
  <1>1. results' = Append(results, res) /\ seen' = Append(seen, ev) /\ headers' = headers
    BY DEF Return, message
  <1>2. IsSeq(results) /\ IsSeq(seen) /\ Len(seen) = Len(results) /\ Len(results) \in Nat
    BY Appended DEF IInv, Shape
  <1>3. tells(res, ev)
    <2>1. at \in DOMAIN headers
      BY DEF IInv, Shape, IsSeq
    <2> QED BY <2>1 DEF Sig
  <1>4. \A j \in 1 .. Len(results) : tells(results[j], seen[j])
    BY <1>2, Appended DEF Told
  <1> HIDE DEF res, ev, tells
  <1>5. \A j \in DOMAIN results' : tells(results'[j], seen'[j])
    <2> TAKE j \in DOMAIN results'
    <2>1. j \in 1 .. (Len(results) + 1)
      BY <1>1, <1>2, Appended
    <2>2. CASE j \in 1 .. Len(results)
      BY <1>1, <1>2, <1>4, <2>2, Appended
    <2>3. CASE j = Len(results) + 1
      BY <1>1, <1>2, <1>3, <2>3, Appended
    <2> QED BY <1>2, <2>1, <2>2, <2>3
  <1> QED BY <1>1, <1>5 DEF Told, tells, NameOf

LEMMA SameTold ==
    ASSUME Told, UNCHANGED <<headers, results, seen>>
    PROVE  Told'
  BY DEF Told, NameOf

LEMMA FetchOutcomes ==
    ASSUME NEW answer, NEW keyType
    PROVE  Fetch(answer, keyType, "sha256").res \in {"", "permerror", "temperror"}
  BY DEF Fetch, Found, Failed, ErrorResult

LEMMA ToldStep ==
    ASSUME IInv, Told, [Next]_vars
    PROVE  Told'
  <1>1. CASE SkipField
    BY <1>1, SameTold DEF SkipField, message
  <1>2. CASE Parse
    <2>1. CASE Sig.tags.strict \/ entry = "VerifySignatureBareTags"
      BY <1>2, <2>1, SameTold DEF Parse, GoOn, message
    <2>2. CASE ~(Sig.tags.strict \/ entry = "VerifySignatureBareTags")
      BY <1>2, <2>2, ReturnTold DEF Parse
    <2> QED BY <2>1, <2>2
  <1>3. CASE CheckPolicy
    <2>1. at <= Len(headers) /\ Sig.name = "dkim-signature"
      BY <1>3 DEF CheckPolicy, IInv, InCall
    <2>2. CASE PolicyOK(call.tags, now)
      BY <1>3, <2>2, SameTold DEF CheckPolicy, GoOn, message
    <2>3. CASE ~PolicyOK(call.tags, now)
      BY <1>3, <2>1, <2>3, ReturnTold DEF CheckPolicy
    <2> QED BY <2>2, <2>3
  <1>4. CASE PrepareMechanism
    <2>1. at <= Len(headers) /\ Sig.name = "dkim-signature"
      BY <1>4 DEF PrepareMechanism, IInv, InCall
    <2>2. CASE UNCHANGED <<headers, results, seen>>
      BY <2>2, SameTold
    <2>3. CASE ~UNCHANGED <<headers, results, seen>>
      <3>1. Return(call, "permerror") \/ Return(call, "fail")
        BY <1>4, <2>3 DEF PrepareMechanism, GoOn, message
      <3>2. UNCHANGED message
        BY <1>4 DEF PrepareMechanism
      <3> QED BY <2>1, <3>1, <3>2, ReturnTold
    <2> QED BY <2>2, <2>3
  <1>5. CASE Answer
    BY <1>5, SameTold DEF Answer, GoOn, message
  <1>6. CASE CheckSignature
    <2> DEFINE fetch == Fetch(call.answer, KeyTypeOf(call.tags.a), "sha256")
    <2>1. /\ at <= Len(headers) /\ Sig.name = "dkim-signature" /\ UNCHANGED message
          /\ call.tags = ALabelTags(Sig.tags) /\ call.name = NameOf(Sig)
      BY <1>6, CallFacts DEF CheckSignature, IInv, Staged, Prepared
    <2>2. \/ fetch.res # "" /\ Return(call, fetch.res)
          \/ Return(call, "fail") \/ Return(call, "pass")
          \/ GoOn("keypolicy", [call EXCEPT !.flags = fetch.flags])
      BY <1>6 DEF CheckSignature
    <2>3. fetch.res # "pass"
      BY FetchOutcomes
    <2> HIDE DEF fetch
    <2>4. CASE GoOn("keypolicy", [call EXCEPT !.flags = fetch.flags])
      BY <2>1, <2>4, SameTold DEF GoOn, message
    <2> QED BY <2>1, <2>2, <2>3, <2>4, ReturnTold
  <1>7. CASE CheckKeyPolicy
    <2>1. /\ at <= Len(headers) /\ Sig.name = "dkim-signature" /\ UNCHANGED message
          /\ call.tags = ALabelTags(Sig.tags) /\ call.name = NameOf(Sig)
      BY <1>7, CallFacts DEF CheckKeyPolicy, IInv, Staged, Prepared
    <2>2. \E result : Return(call, result)
      BY <1>7 DEF CheckKeyPolicy
    <2> QED BY <2>1, <2>2, ReturnTold
  <1>8. CASE Finish
    BY <1>8, SameTold DEF Finish, message
  <1>9. CASE Tick \/ Publish \/ UNCHANGED vars
    BY <1>9, SameTold DEF Tick, Publish, vars, message, progress
  <1> QED BY <1>1, <1>2, <1>3, <1>4, <1>5, <1>6, <1>7, <1>8, <1>9 DEF Next, VerifierStep

LEMMA ToldInvariance == CallSpec => []Told
  <1>1. CallInit => Told
    BY DEF CallInit, Called, Told
  <1> QED BY <1>1, ToldStep, Invariance, PTL DEF CallSpec

(* A name converted is a name, and no other value becomes one.             *)
LEMMA ConvertedName ==
    ASSUME NEW name, IsName(name) => name \in Seq(STRING)
    PROVE  /\ ToALabels(name) = Absent <=> name = Absent
           /\ ~IsName(name) => ToALabels(name) = name
  <1>1. CASE IsName(name)
    <2>1. ToALabels(name) = [j \in DOMAIN name |->
              IF name[j] \in DOMAIN ALabelOf THEN ALabelOf[name[j]] ELSE name[j]]
      BY <1>1 DEF ToALabels
    <2>2. ToALabels(name) \in Seq(STRING)
      <3>1. name \in Seq(STRING) /\ DOMAIN name = 1 .. Len(name) /\ Len(name) \in Nat
        BY <1>1
      <3>2. \A j \in 1 .. Len(name) :
               (IF name[j] \in DOMAIN ALabelOf THEN ALabelOf[name[j]] ELSE name[j]) \in STRING
        BY <3>1, NamesAreValues
      <3>3. ToALabels(name) \in [1 .. Len(name) -> STRING]
        BY <2>1, <3>1, <3>2
      <3> QED BY <3>1, <3>3
    <2>3. ToALabels(name) # Absent
      BY <2>2, NamesAreValues
    <2> QED BY <1>1, <2>3 DEF IsName
  <1>2. CASE ~IsName(name)
    BY <1>2 DEF ToALabels
  <1> QED BY <1>1, <1>2

(* The key of a fetch, and where it comes from.                            *)
LEMMA FetchedRecord ==
    ASSUME NEW answer, NEW keyType, Fetch(answer, keyType, "sha256").res = ""
    PROVE  \E rec \in ToSet(answer.records) :
              /\ Usable(rec, keyType, "sha256")
              /\ Fetch(answer, keyType, "sha256") = Found(rec, keyType)
  <1>1. answer.err = "none"
    BY DEF Fetch, ErrorResult, Failed
  <1> DEFINE isIt(i) == IsFirstUsable(i, answer.records, keyType, "sha256")
             first   == CHOOSE i \in DOMAIN answer.records : isIt(i)
  <1>2. (\E i \in DOMAIN answer.records : isIt(i))
    BY <1>1 DEF Fetch, Failed
  <1>3. first \in DOMAIN answer.records /\ isIt(first)
    BY <1>2
  <1>4. Fetch(answer, keyType, "sha256") = Found(answer.records[first], keyType)
    BY <1>1, <1>2 DEF Fetch
  <1>5. Usable(answer.records[first], keyType, "sha256")
    BY <1>3 DEF IsFirstUsable
  <1> HIDE DEF first
  <1> QED BY <1>3, <1>4, <1>5 DEF ToSet

LEMMA UsableKey ==
    ASSUME NEW rec, NEW keyType, Usable(rec, keyType, "sha256")
    PROVE  parsePublicKey(keyType, rec.p) = [kind |-> keyType, id |-> rec.p.id]
  <1>1. parsePublicKey(keyType, rec.p) # NoKey
    BY DEF Usable
  <1> QED BY <1>1 DEF parsePublicKey

(* What a verdict of pass says of the field, the reading and the answer.   *)
LEMMA PassedChecks ==
    ASSUME NEW field, NEW clock, NEW answer,
           Verdict(headers, body, entry, field, clock, answer) = "pass"
    PROVE  LET tags == ALabelTags(field.tags)
               data == BuildSignedHeaders(tags.h, headers, field, HeaderCanon(tags))
           IN  /\ MechanismOK(tags, body) /\ HashedBody(tags, body) = tags.bh
               /\ policy => PolicyOK(tags, clock)
               /\ \E rec \in ToSet(answer.records) :
                     /\ Usable(rec, KeyTypeOf(tags.a), "sha256")
                     /\ VerifyHash(parsePublicKey(KeyTypeOf(tags.a), rec.p), data, tags.b)
                     /\ policy => KeyPolicyOK(tags, FlagsOf(rec))
  <1> DEFINE tags  == ALabelTags(field.tags)
             data  == BuildSignedHeaders(tags.h, headers, field, HeaderCanon(tags))
             fetch == Fetch(answer, KeyTypeOf(tags.a), "sha256")
  <1>1. fetch.res \in {"", "permerror", "temperror"}
    BY FetchOutcomes
  <1>2. /\ MechanismOK(tags, body) /\ HashedBody(tags, body) = tags.bh
        /\ policy => PolicyOK(tags, clock) /\ KeyPolicyOK(tags, fetch.flags)
        /\ fetch.res = "" /\ VerifyHash(fetch.key, data, tags.b)
    <2> HIDE DEF tags, data, fetch
    <2>1. Verdict(headers, body, entry, field, clock, answer)
            = IF \/ ~Parsed(entry, field)
                 \/ policy /\ ~PolicyOK(tags, clock)
                 \/ ~MechanismOK(tags, body)           THEN "permerror"
              ELSE IF HashedBody(tags, body) # tags.bh THEN "fail"
              ELSE IF tags.b = Junk                    THEN "permerror"
              ELSE IF fetch.res # ""                   THEN fetch.res
              ELSE IF ~VerifyHash(fetch.key, data, tags.b) THEN "fail"
              ELSE IF policy /\ ~KeyPolicyOK(tags, fetch.flags) THEN "permerror"
              ELSE "pass"
      BY DEF Verdict, policy, tags, data, fetch
    <2> QED BY <1>1, <2>1
  <1>3. PICK rec \in ToSet(answer.records) :
           /\ Usable(rec, KeyTypeOf(tags.a), "sha256")
           /\ fetch = Found(rec, KeyTypeOf(tags.a))
    BY <1>2, FetchedRecord
  <1> HIDE DEF tags, data, fetch
  <1>4. fetch.key = parsePublicKey(KeyTypeOf(tags.a), rec.p) /\ fetch.flags = FlagsOf(rec)
    BY <1>3 DEF Found
  <1>5. /\ VerifyHash(parsePublicKey(KeyTypeOf(tags.a), rec.p), data, tags.b)
        /\ policy => KeyPolicyOK(tags, FlagsOf(rec))
    BY <1>2, <1>4
  <1> QED BY <1>2, <1>3, <1>5 DEF tags, data

-------------------------------------------------------------------------------
(* SIGNING, RELAYING AND VERIFYING *)

FieldShape(f) == f = [name |-> f.name, text |-> f.text, ws |-> f.ws, tags |-> f.tags]

(* A field as it is written: a signature has a tag list with a b= in it,   *)
(* no other field has one.                                                 *)
WireField(f) ==
    /\ FieldShape(f)
    /\ f.name = "dkim-signature" => "b" \in DOMAIN f.tags
    /\ f.name # "dkim-signature" => f.tags = Absent

(* A field as it is read: a line that continues a signature spoils its b=. *)
ReadFrom(h, f) ==
    /\ FieldShape(h)
    /\ h.name = f.name
    /\ \/ h.tags = f.tags
       \/ h.name = "dkim-signature" /\ "b" \in DOMAIN h.tags /\ h.tags.b = Junk

FieldsOf(ls) == { ls[p].field : p \in { q \in DOMAIN ls : ls[q].kind = "field" } }

ReadOff(hs, ls) ==
    /\ IsSeq(hs)
    /\ \A p \in DOMAIN hs : \E f \in FieldsOf(ls) : ReadFrom(hs[p], f)

LEMMA PlainSeq ==
    ASSUME NEW n \in Nat, NEW s, s = [j \in 1 .. n |-> s[j]]
    PROVE  IsSeq(s) /\ Len(s) = n /\ DOMAIN s = 1 .. n
  <1>1. DOMAIN s = 1 .. n
    BY SMT
  <1>2. \A j \in 1 .. n : s[j] \in ToSet(s)
    BY <1>1 DEF ToSet
  <1>3. s \in [1 .. n -> ToSet(s)]
    BY <1>1, <1>2
  <1> QED BY <1>1, <1>3 DEF IsSeq
-------------------------------------------------------------------------------
(* What parseHeaders reads off the lines. *)

ParseEquation(ls, f, n) ==
    f = [k \in 0 .. n |-> IF k = 0 THEN <<<<>>, FALSE>>
                          ELSE parseLine(f[k - 1][1], f[k - 1][2], ls[k])]

LEMMA ParseExists ==
    ASSUME NEW ls, NEW N \in Nat
    PROVE  \E f : ParseEquation(ls, f, N)
  <1> DEFINE S == { n \in Nat : \E f : ParseEquation(ls, f, n) }
  <1>1. 0 \in S
    <2>1. ParseEquation(ls, [k \in 0 .. 0 |-> <<<<>>, FALSE>>], 0)
      BY DEF ParseEquation
    <2> QED BY <2>1
  <1>2. ASSUME NEW n \in Nat, n \in S PROVE n + 1 \in S
    <2>1. PICK f : ParseEquation(ls, f, n)
      BY <1>2
    <2> DEFINE last == parseLine(f[n][1], f[n][2], ls[n + 1])
               g == [k \in 0 .. (n + 1) |-> IF k = n + 1 THEN last ELSE f[k]]
    <2>2. \A k \in 0 .. n : g[k] = f[k]
      OBVIOUS
    <2>3. g[n + 1] = last
      OBVIOUS
    <2>4. \A k \in 0 .. n : f[k] = IF k = 0 THEN <<<<>>, FALSE>>
                                   ELSE parseLine(f[k - 1][1], f[k - 1][2], ls[k])
      BY <2>1 DEF ParseEquation
    <2>5. ASSUME NEW k \in 0 .. (n + 1)
          PROVE  g[k] = IF k = 0 THEN <<<<>>, FALSE>>
                        ELSE parseLine(g[k - 1][1], g[k - 1][2], ls[k])
      <3>1. CASE k = n + 1
        <4>1. g[k - 1] = f[n] /\ k # 0
          BY <2>2, <3>1
        <4> HIDE DEF g
        <4> QED BY <2>3, <3>1, <4>1
      <3>2. CASE k # n + 1
        <4>1. k \in 0 .. n /\ (k # 0 => k - 1 \in 0 .. n)
          BY <3>2
        <4> HIDE DEF g, last
        <4> QED BY <2>2, <2>4, <4>1
      <3> QED BY <3>1, <3>2
    <2>6. g = [k \in 0 .. (n + 1) |-> g[k]]
      OBVIOUS
    <2> HIDE DEF g
    <2>7. ParseEquation(ls, g, n + 1)
      BY <2>5, <2>6 DEF ParseEquation
    <2> QED BY <2>7
  <1> HIDE DEF S
  <1>3. \A n \in Nat : n \in S
    BY <1>1, <1>2, NatInductionOnSet
  <1> QED BY <1>3 DEF S

LEMMA ParseUnfolds ==
    ASSUME NEW ls, Len(ls) \in Nat
    PROVE  \E f : ParseEquation(ls, f, Len(ls)) /\ parseHeaders(ls) = f[Len(ls)][1]
  <1>1. \E f : ParseEquation(ls, f, Len(ls))
    BY ParseExists
  <1> QED BY <1>1 DEF parseHeaders, ParseEquation

LEMMA ParseSteps ==
    ASSUME NEW ls, NEW g, NEW n \in Nat, ParseEquation(ls, g, n)
    PROVE  /\ g[0] = <<<<>>, FALSE>>
           /\ \A k \in 1 .. n : g[k] = parseLine(g[k - 1][1], g[k - 1][2], ls[k])
  <1>1. \A k \in 0 .. n : g[k] = IF k = 0 THEN <<<<>>, FALSE>>
                                 ELSE parseLine(g[k - 1][1], g[k - 1][2], ls[k])
    BY DEF ParseEquation
  <1>2. g[0] = <<<<>>, FALSE>>
    <2>1. 0 \in 0 .. n
      OBVIOUS
    <2> QED BY <1>1, <2>1, Zenon
  <1>3. ASSUME NEW k \in 1 .. n
        PROVE  g[k] = parseLine(g[k - 1][1], g[k - 1][2], ls[k])
    <2>1. k \in 0 .. n /\ k # 0
      OBVIOUS
    <2> QED BY <1>1, <2>1
  <1> QED BY <1>2, <1>3

LEMMA ContinuedReads ==
    ASSUME NEW h, NEW f, ReadFrom(h, f), WireField(f), NEW line
    PROVE  ReadFrom(Continued(h, line), f)
  <1>1. FieldShape(h) /\ h.name = f.name
    BY DEF ReadFrom
  <1>2. CASE h.tags = Absent
    <2> DEFINE more == h.text \o line.text
               wide == h.ws + line.ws
               g == [h EXCEPT !.text = more, !.ws = wide]
    <2>1. Continued(h, line) = g
      BY <1>2 DEF Continued
    <2> HIDE DEF more, wide
    <2>2. g.name = h.name /\ g.tags = h.tags /\ FieldShape(g)
      <3> DEFINE g1 == [h EXCEPT !.text = more]
      <3>1. g1.name = h.name /\ g1.tags = h.tags /\ FieldShape(g1)
        BY <1>1 DEF FieldShape
      <3>2. g = [g1 EXCEPT !.ws = wide]
        BY <1>1 DEF FieldShape
      <3> HIDE DEF g1, g
      <3> QED BY <3>1, <3>2 DEF FieldShape
    <2> HIDE DEF g
    <2> QED BY <1>1, <2>1, <2>2 DEF ReadFrom
  <1>3. CASE h.tags # Absent /\ line.text = <<>>
    BY <1>3 DEF Continued
  <1>4. CASE h.tags # Absent /\ line.text # <<>>
    <2> DEFINE spoilt == [h.tags EXCEPT !.b = Junk]
               g == [h EXCEPT !.tags = spoilt]
    <2>1. h.name = "dkim-signature" /\ "b" \in DOMAIN h.tags
      BY <1>4 DEF ReadFrom, WireField
    <2>2. "b" \in DOMAIN spoilt /\ spoilt.b = Junk
      BY <2>1
    <2>3. Continued(h, line) = g
      BY <1>1, <1>4 DEF Continued, FieldShape
    <2> HIDE DEF spoilt
    <2>4. g.name = h.name /\ g.tags = spoilt /\ FieldShape(g)
      BY <1>1 DEF FieldShape
    <2> HIDE DEF g
    <2> QED BY <1>1, <2>1, <2>2, <2>3, <2>4 DEF ReadFrom
  <1> QED BY <1>2, <1>3, <1>4

LEMMA ParseLineReads ==
    ASSUME NEW ls, \A f \in FieldsOf(ls) : WireField(f), NEW p \in DOMAIN ls,
           NEW hs, ReadOff(hs, ls), NEW skips
    PROVE  ReadOff(parseLine(hs, skips, ls[p])[1], ls)
  <1> DEFINE n == Len(hs)
  <1>1. hs \in Seq(ToSet(hs)) /\ n \in Nat /\ DOMAIN hs = 1 .. n
    BY DEF ReadOff, IsSeq
  <1>2. CASE ls[p].kind = "field"
    <2> DEFINE f == ls[p].field
    <2>1. parseLine(hs, skips, ls[p])[1] = Append(hs, f)
      BY <1>2 DEF parseLine
    <2>2. f \in FieldsOf(ls) /\ ReadFrom(f, f)
      <3>1. f \in FieldsOf(ls)
        BY <1>2 DEF FieldsOf
      <3> QED BY <3>1 DEF ReadFrom, WireField
    <2> HIDE DEF f
    <2>3. IsSeq(Append(hs, f)) /\ DOMAIN Append(hs, f) = 1 .. (n + 1)
             /\ (\A j \in 1 .. n : Append(hs, f)[j] = hs[j]) /\ Append(hs, f)[n + 1] = f
      BY Appended DEF ReadOff
    <2>4. ASSUME NEW j \in DOMAIN Append(hs, f)
          PROVE  \E g \in FieldsOf(ls) : ReadFrom(Append(hs, f)[j], g)
      <3>1. CASE j = n + 1
        BY <2>2, <2>3, <3>1
      <3>2. CASE j # n + 1
        <4>1. j \in 1 .. n
          BY <1>1, <2>3, <3>2
        <4> QED BY <1>1, <2>3, <4>1 DEF ReadOff
      <3> QED BY <3>1, <3>2
    <2> QED BY <2>1, <2>3, <2>4 DEF ReadOff
  <1>3. CASE ls[p].kind # "field" /\ (ls[p].kind = "other" \/ hs = <<>> \/ skips)
    <2>1. parseLine(hs, skips, ls[p])[1] = hs
      BY <1>3 DEF parseLine
    <2> QED BY <2>1
  <1>4. CASE ls[p].kind # "field" /\ ~(ls[p].kind = "other" \/ hs = <<>> \/ skips)
    <2> DEFINE g  == Continued(hs[n], ls[p])
               gs == [hs EXCEPT ![n] = g]
    <2>1. parseLine(hs, skips, ls[p])[1] = gs
      BY <1>4 DEF parseLine
    <2>2. n \in DOMAIN hs
      BY <1>1, <1>4
    <2>3. PICK f \in FieldsOf(ls) : ReadFrom(hs[n], f)
      BY <2>2 DEF ReadOff
    <2>4. ReadFrom(g, f)
      BY <2>3, ContinuedReads
    <2> HIDE DEF g
    <2>5. DOMAIN gs = 1 .. n /\ gs[n] = g /\ \A j \in 1 .. n : j # n => gs[j] = hs[j]
      BY <1>1, <2>2
    <2>6. gs = [j \in 1 .. n |-> gs[j]]
      BY <2>5
    <2> HIDE DEF gs
    <2>7. IsSeq(gs)
      BY <1>1, <2>5, <2>6, PlainSeq
    <2>8. \A j \in 1 .. n : \E h \in FieldsOf(ls) : ReadFrom(gs[j], h)
      BY <1>1, <2>3, <2>4, <2>5 DEF ReadOff
    <2> QED BY <2>1, <2>5, <2>7, <2>8 DEF ReadOff
  <1> QED BY <1>2, <1>3, <1>4

(* The fields parsed are fields of the lines, as their continuations leave *)
(* them.                                                                   *)
LEMMA ParseReads ==
    ASSUME NEW ls, IsSeq(ls), \A f \in FieldsOf(ls) : WireField(f)
    PROVE  ReadOff(parseHeaders(ls), ls)
  <1> DEFINE n == Len(ls)
  <1>1. n \in Nat /\ DOMAIN ls = 1 .. n
    BY DEF IsSeq
  <1>2. PICK f : ParseEquation(ls, f, n) /\ parseHeaders(ls) = f[n][1]
    BY <1>1, ParseUnfolds
  <1> HIDE DEF n
  <1>3. f[0] = <<<<>>, FALSE>>
    BY <1>1, <1>2, ParseSteps
  <1>4. \A k \in 1 .. n : f[k] = parseLine(f[k - 1][1], f[k - 1][2], ls[k])
    BY <1>1, <1>2, ParseSteps
  <1> DEFINE T == { k \in 0 .. n : ReadOff(f[k][1], ls) }
  <1>5. 0 \in T
    <2>1. f[0][1] = <<>>
      BY <1>3
    <2>2. ReadOff(<<>>, ls)
      BY DEF ReadOff, IsSeq
    <2> QED BY <1>1, <2>1, <2>2
  <1>6. ASSUME NEW k \in 0 .. (n - 1), k \in T PROVE k + 1 \in T
    <2>1. k + 1 \in 1 .. n /\ (k + 1) - 1 = k /\ k + 1 \in 0 .. n
      BY <1>1
    <2>2. f[k + 1] = parseLine(f[k][1], f[k][2], ls[k + 1])
      BY <1>4, <2>1
    <2>3. ReadOff(f[k + 1][1], ls)
      BY <1>1, <1>6, <2>1, <2>2, ParseLineReads
    <2> QED BY <2>1, <2>3
  <1> HIDE DEF T
  <1>7. \A k \in 0 .. n : k \in T
    BY <1>1, <1>5, <1>6, IntervalInduction
  <1>8. n \in T
    BY <1>1, <1>7
  <1> QED BY <1>2, <1>8 DEF T
-------------------------------------------------------------------------------
(* Which fields a list of names selects. *)

NamesIn(hs) == [p \in DOMAIN hs |-> hs[p].name]

Times(names, name) == Cardinality(Met(names, name, Len(names)))

LEMMA BelowIsLater ==
    ASSUME NEW hs, IsSeq(hs)
    PROVE  /\ DOMAIN hs = 1 .. Len(hs) /\ Len(hs) \in Nat
           /\ NamesIn(hs) \in Seq(ToSet(NamesIn(hs)))
           /\ Len(NamesIn(hs)) = Len(hs) /\ DOMAIN NamesIn(hs) = DOMAIN hs
           /\ \A p \in DOMAIN hs : /\ NamesIn(hs)[p] = hs[p].name
                                  /\ Below(hs, p) = Later(NamesIn(hs), p)
                                  /\ Rank(hs, p) = Cardinality(Later(NamesIn(hs), p))
  <1>1. DOMAIN hs = 1 .. Len(hs) /\ Len(hs) \in Nat
    BY DEF IsSeq
  <1>2. NamesIn(hs) = [p \in 1 .. Len(hs) |-> NamesIn(hs)[p]]
    BY <1>1 DEF NamesIn
  <1>3. /\ NamesIn(hs) \in Seq(ToSet(NamesIn(hs)))
        /\ Len(NamesIn(hs)) = Len(hs) /\ DOMAIN NamesIn(hs) = DOMAIN hs
    BY <1>1, <1>2, PlainSeq DEF IsSeq
  <1>4. \A p \in DOMAIN hs : NamesIn(hs)[p] = hs[p].name
    BY DEF NamesIn
  <1>5. \A p \in DOMAIN hs : Below(hs, p) = Later(NamesIn(hs), p)
    BY <1>3, <1>4 DEF Below, Later
  <1> QED BY <1>1, <1>3, <1>4, <1>5 DEF Rank

LEMMA RankFacts ==
    ASSUME NEW hs, IsSeq(hs), NEW p \in DOMAIN hs
    PROVE  /\ IsFiniteSet(Below(hs, p)) /\ Rank(hs, p) \in Nat
           /\ \A q \in Below(hs, p) : Rank(hs, q) < Rank(hs, p)
           /\ \A q \in DOMAIN hs :
                 hs[q].name = hs[p].name /\ Rank(hs, q) = Rank(hs, p) => q = p
  <1>1. IsFiniteSet(Below(hs, p)) /\ Rank(hs, p) \in Nat
    BY BelowIsLater, LaterFinite
  <1>2. ASSUME NEW q \in Below(hs, p) PROVE Rank(hs, q) < Rank(hs, p)
    <2>1. q \in DOMAIN hs
      BY DEF Below
    <2> QED BY <2>1, BelowIsLater, LaterDecreases
  <1>3. ASSUME NEW q \in DOMAIN hs, hs[q].name = hs[p].name, Rank(hs, q) = Rank(hs, p)
        PROVE  q = p
    BY <1>3, BelowIsLater, LaterDetermines
  <1> QED BY <1>1, <1>2, <1>3

(* What nthFromBottom returns.                                             *)
LEMMA NthIsThere ==
    ASSUME NEW hs, IsSeq(hs), NEW name, NEW n \in Nat
    PROVE  LET p == nthFromBottom(hs, name, n)
           IN  /\ p # 0 => p \in DOMAIN hs /\ hs[p].name = name /\ Rank(hs, p) = n
               /\ p = 0 => \A q \in DOMAIN hs : ~(hs[q].name = name /\ Rank(hs, q) = n)
  <1>1. CASE \E q \in DOMAIN hs : IsNth(hs, name, n, q)
    <2>1. \E q \in DOMAIN hs : /\ IsNth(hs, name, n, q)
                              /\ nthFromBottom(hs, name, n) = q
      BY <1>1 DEF nthFromBottom
    <2>2. 0 \notin DOMAIN hs
      BY BelowIsLater
    <2> QED BY <2>1, <2>2 DEF IsNth
  <1>2. CASE ~\E q \in DOMAIN hs : IsNth(hs, name, n, q)
    <2>1. nthFromBottom(hs, name, n) = 0
      BY <1>2 DEF nthFromBottom
    <2> QED BY <1>2, <2>1 DEF IsNth
  <1> QED BY <1>1, <1>2

(* The selection made by the first n names.                                *)
SelUpTo(names, hs, n) == FlattenSeq([j \in 1 .. n |-> SelectedBy(names, hs, j)])

LEMMA SelMore ==
    ASSUME NEW names, NEW hs, NEW n \in Nat
    PROVE  SelUpTo(names, hs, n + 1) = SelUpTo(names, hs, n) \o SelectedBy(names, hs, n + 1)
  <1> DEFINE parts == [j \in 1 .. (n + 1) |-> SelectedBy(names, hs, j)]
             front == [j \in 1 .. n |-> SelectedBy(names, hs, j)]
             S     == { nthFromBottom(hs, names[j], ConsumedBefore(names, j)) : j \in 1 .. (n + 1) }
  <1>1. ASSUME NEW j \in 1 .. (n + 1) PROVE SelectedBy(names, hs, j) \in Seq(S)
    <2>1. nthFromBottom(hs, names[j], ConsumedBefore(names, j)) \in S
      OBVIOUS
    <2> HIDE DEF S
    <2> QED BY <2>1 DEF SelectedBy
  <1> HIDE DEF S
  <1>2. parts \in [1 .. (n + 1) -> Seq(S)] /\ parts[n + 1] = SelectedBy(names, hs, n + 1)
    BY <1>1
  <1>3. front = [j \in 1 .. n |-> parts[j]]
    OBVIOUS
  <1>4. SelUpTo(names, hs, n) = FlattenSeq(front) /\ SelUpTo(names, hs, n + 1) = FlattenSeq(parts)
    BY DEF SelUpTo
  <1> HIDE DEF parts, front
  <1>5. FlattenSeq(parts) = FlattenSeq(front) \o parts[n + 1]
    BY <1>2, <1>3, FlattenStep
  <1> QED BY <1>2, <1>4, <1>5

LEMMA SelStep ==
    ASSUME NEW names, NEW hs, NEW n \in Nat, IsSeq(hs),
           SelUpTo(names, hs, n) \in Seq(DOMAIN hs), names[n + 1] # Empty,
           NEW p, p = nthFromBottom(hs, names[n + 1], ConsumedBefore(names, n + 1)),
           p # 0 => p \in DOMAIN hs
    PROVE  SelUpTo(names, hs, n + 1) = IF p = 0 THEN SelUpTo(names, hs, n)
                                       ELSE Append(SelUpTo(names, hs, n), p)
  <1> DEFINE old == SelUpTo(names, hs, n)
  <1>1. SelUpTo(names, hs, n + 1) = old \o SelectedBy(names, hs, n + 1)
    BY SelMore
  <1>2. SelectedBy(names, hs, n + 1) = IF p = 0 THEN <<>> ELSE <<p>>
    BY DEF SelectedBy
  <1>3. old \in Seq(DOMAIN hs)
    OBVIOUS
  <1> HIDE DEF old
  <1>4. old \o <<>> = old /\ (p # 0 => old \o <<p>> = Append(old, p))
    BY <1>3
  <1> QED BY <1>1, <1>2, <1>4 DEF old

(* A name selects its instances from the bottom up, as many as it is       *)
(* listed, so the jth selected has as many of its name before it as it has *)
(* below it.                                                               *)
ByRank(names, hs, n, sel) ==
    /\ sel \in Seq(DOMAIN hs)
    /\ \A p \in DOMAIN hs : p \in ToSet(sel)
                             <=> Rank(hs, p) < Cardinality(Met(names, hs[p].name, n))
    /\ \A i, j \in DOMAIN sel : sel[i] = sel[j] => i = j
    /\ \A j \in DOMAIN sel :
          Rank(hs, sel[j]) = Cardinality({ i \in 1 .. (j - 1) : hs[sel[i]].name = hs[sel[j]].name })

(* As many are selected of a name as lie below its next instance.          *)
LEMMA SelectedBelow ==
    ASSUME NEW names, NEW hs, IsSeq(hs), NEW n \in Nat, NEW sel, ByRank(names, hs, n, sel),
           NEW p \in DOMAIN hs, Rank(hs, p) = Cardinality(Met(names, hs[p].name, n))
    PROVE  Cardinality({ i \in DOMAIN sel : hs[sel[i]].name = hs[p].name }) = Rank(hs, p)
  <1> DEFINE mine == { i \in DOMAIN sel : hs[sel[i]].name = hs[p].name }
             g == [i \in mine |-> sel[i]]
  <1>1. /\ sel \in Seq(DOMAIN hs) /\ Len(sel) \in Nat /\ DOMAIN sel = 1 .. Len(sel)
        /\ DOMAIN hs = 1 .. Len(hs) /\ Len(hs) \in Nat
    BY BelowIsLater DEF ByRank
  <1>2. ASSUME NEW i \in mine PROVE sel[i] \in Below(hs, p)
    <2> DEFINE q == sel[i]
    <2>1. q \in DOMAIN hs /\ hs[q].name = hs[p].name /\ q \in ToSet(sel)
      BY <1>1 DEF ToSet
    <2>2. Rank(hs, q) < Rank(hs, p)
      BY <2>1 DEF ByRank
    <2>3. Rank(hs, q) \in Nat /\ Rank(hs, p) \in Nat
      BY <2>1, RankFacts
    <2>4. ~(p \in Below(hs, q)) /\ q # p
      BY <2>1, <2>2, <2>3, RankFacts
    <2> HIDE DEF q
    <2>5. q > p
      BY <1>1, <2>1, <2>4 DEF Below
    <2>6. q \in Below(hs, p)
      BY <2>1, <2>5 DEF Below
    <2> QED BY <2>6 DEF q
  <1>3. ASSUME NEW q \in Below(hs, p) PROVE \E i \in mine : g[i] = q
    <2>1. q \in DOMAIN hs /\ hs[q].name = hs[p].name /\ Rank(hs, q) < Rank(hs, p)
      BY RankFacts DEF Below
    <2>2. q \in ToSet(sel)
      BY <2>1 DEF ByRank
    <2>3. PICK i \in DOMAIN sel : sel[i] = q
      BY <2>2 DEF ToSet
    <2> QED BY <2>1, <2>3
  <1>4. \A i, j \in mine : g[i] = g[j] => i = j
    BY DEF ByRank
  <1>5. g \in [mine -> Below(hs, p)]
    BY <1>2
  <1>6. g \in Bijection(mine, Below(hs, p))
    <2> HIDE DEF g, mine
    <2> QED BY <1>3, <1>4, <1>5 DEF Bijection, Injection, IsInjective, Surjection
  <1>7. IsFiniteSet(mine)
    <2>1. IsFiniteSet(1 .. Len(sel)) /\ mine \in SUBSET (1 .. Len(sel))
      BY <1>1, FS_Interval
    <2> HIDE DEF mine
    <2> QED BY <2>1, FS_Subset
  <1> HIDE DEF mine
  <1>8. ExistsBijection(mine, Below(hs, p))
    BY <1>6 DEF ExistsBijection
  <1>9. Cardinality(Below(hs, p)) = Cardinality(mine)
    BY <1>7, <1>8, FS_Bijection
  <1> QED BY <1>9 DEF mine, Rank

LEMMA ByRankStep ==
    ASSUME NEW names, NEW hs, IsSeq(hs), NEW n \in Nat, NEW sel, ByRank(names, hs, n, sel),
           NEW name, name = names[n + 1],
           NEW p, p = nthFromBottom(hs, name, Cardinality(Met(names, name, n))),
           NEW more, more = IF p = 0 THEN sel ELSE Append(sel, p)
    PROVE  ByRank(names, hs, n + 1, more)
  <1> DEFINE c == Cardinality(Met(names, name, n))
             m == Len(sel)
  <1>1. c \in Nat
    BY MetOneMore
  <1>2. /\ p # 0 => p \in DOMAIN hs /\ hs[p].name = name /\ Rank(hs, p) = c
        /\ p = 0 => \A q \in DOMAIN hs : ~(hs[q].name = name /\ Rank(hs, q) = c)
    BY <1>1, NthIsThere
  <1>3. /\ sel \in Seq(DOMAIN hs) /\ m \in Nat /\ DOMAIN sel = 1 .. m
    BY DEF ByRank
  <1>4. /\ more \in Seq(DOMAIN hs)
        /\ p # 0 => /\ DOMAIN more = 1 .. (m + 1) /\ more[m + 1] = p
                    /\ \A i \in 1 .. m : more[i] = sel[i]
        /\ p = 0 => more = sel
    <2>1. CASE p = 0
      BY <1>3, <2>1
    <2>2. CASE p # 0
      <3>1. p \in DOMAIN hs /\ more = Append(sel, p)
        BY <1>2, <2>2
      <3> HIDE DEF m
      <3>2. more \in Seq(DOMAIN hs)
        <4>1. sel \in Seq(DOMAIN hs)
          BY <1>3
        <4> QED BY ONLY <3>1, <4>1, AppendProperties
      <3>3. Len(more) = m + 1 /\ DOMAIN more = 1 .. (m + 1)
        BY <1>3, <3>1 DEF m
      <3>4. more[m + 1] = p /\ \A i \in 1 .. m : more[i] = sel[i]
        BY <1>3, <3>1 DEF m
      <3> QED BY <2>2, <3>2, <3>3, <3>4
    <2> QED BY <2>1, <2>2
  <1> HIDE DEF c, m
  <1>5. ToSet(more) = IF p = 0 THEN ToSet(sel) ELSE ToSet(sel) \cup {p}
    <2>1. CASE p = 0
      BY <1>4, <2>1
    <2>2. CASE p # 0
      <3>1. DOMAIN more = 1 .. (m + 1) /\ more[m + 1] = p /\ \A i \in 1 .. m : more[i] = sel[i]
        BY <1>4, <2>2
      <3>2. ASSUME NEW x \in ToSet(more) PROVE x \in ToSet(sel) \cup {p}
        <4>1. PICK i \in 1 .. (m + 1) : x = more[i]
          BY <3>1 DEF ToSet
        <4>2. CASE i = m + 1
          BY <3>1, <4>1, <4>2
        <4>3. CASE i # m + 1
          <5>1. i \in 1 .. m
            BY <1>3, <4>3
          <5> QED BY <1>3, <3>1, <4>1, <5>1 DEF ToSet
        <4> QED BY <4>2, <4>3
      <3>3. ASSUME NEW x \in ToSet(sel) \cup {p} PROVE x \in ToSet(more)
        <4>1. CASE x = p
          <5>1. m + 1 \in DOMAIN more
            BY <1>3, <3>1
          <5> QED BY <3>1, <4>1, <5>1 DEF ToSet
        <4>2. CASE x # p
          <5>1. PICK i \in 1 .. m : x = sel[i]
            BY <1>3, <4>2 DEF ToSet
          <5>2. i \in DOMAIN more
            BY <1>3, <3>1
          <5> QED BY <3>1, <5>1, <5>2 DEF ToSet
        <4> QED BY <4>1, <4>2
      <3>4. ToSet(more) = ToSet(sel) \cup {p}
        BY <3>2, <3>3
      <3> QED BY <2>2, <3>4
    <2> QED BY <2>1, <2>2
  <1>6. \A q \in DOMAIN hs : q \in ToSet(more)
                              <=> Rank(hs, q) < Cardinality(Met(names, hs[q].name, n + 1))
    <2> TAKE q \in DOMAIN hs
    <2> DEFINE old == Cardinality(Met(names, hs[q].name, n))
               new == Cardinality(Met(names, hs[q].name, n + 1))
               inside == q \in ToSet(more)
    <2>1. /\ Rank(hs, q) \in Nat /\ old \in Nat
          /\ new = IF hs[q].name = name THEN old + 1 ELSE old
      BY MetOneMore, RankFacts
    <2>2. q \in ToSet(sel) <=> Rank(hs, q) < old
      BY DEF ByRank
    <2>3. hs[q].name = name => old = c
      BY DEF c
    <2> HIDE DEF old, new
    <2>8. inside <=> (q \in ToSet(sel) \/ (p # 0 /\ q = p))
      BY <1>5
    <2> HIDE DEF inside
    <2> SUFFICES inside <=> Rank(hs, q) < new
      BY DEF inside, new
    <2>4. CASE hs[q].name # name
      BY <1>2, <2>8, <2>1, <2>2, <2>4
    <2>5. CASE hs[q].name = name /\ Rank(hs, q) = c
      <3>1. p # 0
        BY <1>2, <2>5
      <3>2. q = p
        BY <1>2, <2>5, <3>1, RankFacts
      <3> QED BY <1>1, <2>8, <2>1, <2>3, <2>5, <3>1, <3>2
    <2>6. CASE hs[q].name = name /\ Rank(hs, q) # c
      <3>1. p # 0 => q # p
        BY <1>2, <2>6
      <3> QED BY <1>1, <2>8, <2>1, <2>2, <2>3, <2>6, <3>1
    <2> QED BY <2>4, <2>5, <2>6
  <1>7. CASE p = 0
    BY <1>4, <1>6, <1>7 DEF ByRank
  <1>8. CASE p # 0
    <2>1. p \notin ToSet(sel)
      BY <1>1, <1>2, <1>8 DEF ByRank, c
    <2>2. \A i, j \in DOMAIN more : more[i] = more[j] => i = j
      <3>1. \A i \in 1 .. m : sel[i] # p
        BY <1>3, <2>1 DEF ToSet
      <3>2. \A i, j \in 1 .. m : sel[i] = sel[j] => i = j
        BY <1>3 DEF ByRank
      <3> QED BY <1>3, <1>4, <1>8, <3>1, <3>2
    <2>3. \A j \in DOMAIN more :
             Rank(hs, more[j]) = Cardinality({ i \in 1 .. (j - 1) : hs[more[i]].name = hs[more[j]].name })
      <3> TAKE j \in DOMAIN more
      <3>1. CASE j = m + 1
        <4>1. Cardinality({ i \in DOMAIN sel : hs[sel[i]].name = hs[p].name }) = Rank(hs, p)
          BY <1>2, <1>8, SelectedBelow DEF c
        <4>2. { i \in 1 .. (j - 1) : hs[more[i]].name = hs[more[j]].name }
                = { i \in DOMAIN sel : hs[sel[i]].name = hs[p].name }
          BY <1>3, <1>4, <1>8, <3>1
        <4> QED BY <1>4, <1>8, <3>1, <4>1, <4>2
      <3>2. CASE j # m + 1
        <4>1. j \in 1 .. m /\ \A i \in 1 .. (j - 1) : i \in 1 .. m
          BY <1>3, <1>4, <1>8, <3>2
        <4>2. { i \in 1 .. (j - 1) : hs[more[i]].name = hs[more[j]].name }
                = { i \in 1 .. (j - 1) : hs[sel[i]].name = hs[sel[j]].name }
          BY <1>4, <1>8, <4>1
        <4>3. Rank(hs, sel[j]) = Cardinality({ i \in 1 .. (j - 1) : hs[sel[i]].name = hs[sel[j]].name })
          BY <1>3, <4>1 DEF ByRank
        <4> QED BY <1>4, <1>8, <4>1, <4>2, <4>3
      <3> QED BY <3>1, <3>2
    <2> QED BY <1>4, <1>6, <2>2, <2>3 DEF ByRank
  <1> QED BY <1>7, <1>8

(* The whole selection.                                                    *)
LEMMA SelectionByRank ==
    ASSUME NEW hs, IsSeq(hs), NEW names, IsSeq(names), Empty \notin ToSet(names)
    PROVE  ByRank(names, hs, Len(names), Selected(names, hs))
  <1> DEFINE N == Len(names)
             T == { n \in 0 .. N : ByRank(names, hs, n, SelUpTo(names, hs, n)) }
  <1>1. N \in Nat /\ DOMAIN names = 1 .. N
    BY DEF IsSeq
  <1>2. Selected(names, hs) = SelUpTo(names, hs, N)
    BY <1>1 DEF Selected, SelUpTo
  <1> HIDE DEF N
  <1>3. 0 \in T
    <2>1. SelUpTo(names, hs, 0) = <<>>
      <3>1. [j \in 1 .. 0 |-> SelectedBy(names, hs, j)] = <<>>
        OBVIOUS
      <3> QED BY <3>1, FlattenEmpty DEF SelUpTo
    <2>2. ASSUME NEW p \in DOMAIN hs
          PROVE  ~(Rank(hs, p) < Cardinality(Met(names, hs[p].name, 0)))
      <3>1. Met(names, hs[p].name, 0) = {}
        BY DEF Met
      <3>2. Cardinality(Met(names, hs[p].name, 0)) = 0
        BY <3>1, FS_EmptySet
      <3> QED BY <3>2, RankFacts
    <2>3. ByRank(names, hs, 0, <<>>)
      BY <2>2 DEF ByRank, ToSet
    <2> QED BY <1>1, <2>1, <2>3
  <1>4. ASSUME NEW n \in 0 .. (N - 1), n \in T PROVE n + 1 \in T
    <2> DEFINE sel == SelUpTo(names, hs, n)
               p   == nthFromBottom(hs, names[n + 1], ConsumedBefore(names, n + 1))
    <2>1. n \in Nat /\ n + 1 \in 1 .. N /\ (n + 1) - 1 = n /\ n + 1 \in 0 .. N
      BY <1>1
    <2>2. names[n + 1] # Empty
      BY <1>1, <2>1 DEF ToSet
    <2>3. ConsumedBefore(names, n + 1) = Cardinality(Met(names, names[n + 1], n))
      BY <2>1 DEF ConsumedBefore, Met
    <2>4. p # 0 => p \in DOMAIN hs
      BY <2>1, <2>3, NthIsThere, MetOneMore
    <2>5. ByRank(names, hs, n, sel) /\ sel \in Seq(DOMAIN hs)
      BY <1>4 DEF ByRank
    <2> HIDE DEF p
    <2>6. SelUpTo(names, hs, n + 1) = IF p = 0 THEN sel ELSE Append(sel, p)
      BY <2>1, <2>2, <2>4, <2>5, SelStep DEF p
    <2> HIDE DEF sel
    <2>7. ByRank(names, hs, n + 1, IF p = 0 THEN sel ELSE Append(sel, p))
      BY <2>1, <2>3, <2>5, ByRankStep DEF p
    <2> QED BY <2>1, <2>6, <2>7
  <1> HIDE DEF T
  <1>5. \A n \in 0 .. N : n \in T
    BY <1>1, <1>3, <1>4, IntervalInduction
  <1>6. N \in T
    BY <1>1, <1>5
  <1> QED BY <1>2, <1>6 DEF T, N
-------------------------------------------------------------------------------
(* The instances of a name are its fields in their order, so the one with  *)
(* r more below it stands r places before the last.                        *)

OfName(name, hs, p) == IF hs[p].name = name THEN <<hs[p]>> ELSE <<>>

InstUpTo(name, hs, n) == FlattenSeq([p \in 1 .. n |-> OfName(name, hs, p)])

MetWithin(name, hs, n) == Cardinality(Met(NamesIn(hs), name, n))

CountedUp(name, hs, n, found) ==
    /\ found \in Seq(ToSet(hs))
    /\ Len(found) = MetWithin(name, hs, n)
    /\ \A p \in 1 .. n : hs[p].name = name =>
          MetWithin(name, hs, p) \in 1 .. Len(found) /\ found[MetWithin(name, hs, p)] = hs[p]
    /\ \A i \in 1 .. Len(found) : \E p \in 1 .. n : hs[p].name = name /\ MetWithin(name, hs, p) = i

LEMMA InstMore ==
    ASSUME NEW hs, NEW name, NEW n \in Nat
    PROVE  InstUpTo(name, hs, n + 1) = InstUpTo(name, hs, n) \o OfName(name, hs, n + 1)
  <1> DEFINE parts == [p \in 1 .. (n + 1) |-> OfName(name, hs, p)]
             front == [p \in 1 .. n |-> OfName(name, hs, p)]
             S     == { hs[p] : p \in 1 .. (n + 1) }
  <1>1. ASSUME NEW p \in 1 .. (n + 1) PROVE OfName(name, hs, p) \in Seq(S)
    <2>1. hs[p] \in S
      OBVIOUS
    <2> HIDE DEF S
    <2> QED BY <2>1 DEF OfName
  <1> HIDE DEF S
  <1>2. parts \in [1 .. (n + 1) -> Seq(S)] /\ parts[n + 1] = OfName(name, hs, n + 1)
    BY <1>1
  <1>3. front = [p \in 1 .. n |-> parts[p]]
    OBVIOUS
  <1>4. InstUpTo(name, hs, n) = FlattenSeq(front) /\ InstUpTo(name, hs, n + 1) = FlattenSeq(parts)
    BY DEF InstUpTo
  <1> HIDE DEF parts, front
  <1>5. FlattenSeq(parts) = FlattenSeq(front) \o parts[n + 1]
    BY <1>2, <1>3, FlattenStep
  <1> QED BY <1>2, <1>4, <1>5

LEMMA InstStep ==
    ASSUME NEW hs, IsSeq(hs), NEW name, NEW n \in Nat, n + 1 \in DOMAIN hs,
           InstUpTo(name, hs, n) \in Seq(ToSet(hs))
    PROVE  InstUpTo(name, hs, n + 1) = IF hs[n + 1].name = name
                                       THEN Append(InstUpTo(name, hs, n), hs[n + 1])
                                       ELSE InstUpTo(name, hs, n)
  <1> DEFINE old == InstUpTo(name, hs, n)
  <1>1. old \in Seq(ToSet(hs)) /\ hs[n + 1] \in ToSet(hs)
    BY DEF ToSet
  <1>2. InstUpTo(name, hs, n + 1) = old \o OfName(name, hs, n + 1)
    BY InstMore
  <1> HIDE DEF old
  <1>3. old \o <<hs[n + 1]>> = Append(old, hs[n + 1]) /\ old \o <<>> = old
    BY <1>1
  <1> QED BY <1>2, <1>3 DEF OfName, old

LEMMA MetWithinStep ==
    ASSUME NEW hs, IsSeq(hs), NEW name, NEW n \in Nat, n + 1 \in DOMAIN hs,
           NEW found, CountedUp(name, hs, n, found),
           NEW more, more = IF hs[n + 1].name = name THEN Append(found, hs[n + 1]) ELSE found
    PROVE  CountedUp(name, hs, n + 1, more)
  <1> DEFINE m == Len(found)
  <1>1. found \in Seq(ToSet(hs)) /\ m \in Nat /\ m = MetWithin(name, hs, n)
        /\ hs[n + 1] \in ToSet(hs)
    BY DEF CountedUp, ToSet
  <1>2. MetWithin(name, hs, n + 1) = IF hs[n + 1].name = name THEN m + 1 ELSE m
    <2>1. NamesIn(hs)[n + 1] = hs[n + 1].name
      BY BelowIsLater
    <2> DEFINE names == NamesIn(hs)
    <2>2. MetWithin(name, hs, n + 1) = Cardinality(Met(names, name, n + 1))
          /\ m = Cardinality(Met(names, name, n))
      BY <1>1 DEF MetWithin
    <2> HIDE DEF names
    <2>3. Cardinality(Met(names, name, n + 1))
            = IF names[n + 1] = name THEN Cardinality(Met(names, name, n)) + 1
              ELSE Cardinality(Met(names, name, n))
      BY ONLY n \in Nat, MetOneMore
    <2> QED BY <2>1, <2>2, <2>3 DEF names
  <1>3. /\ \A p \in 1 .. n : hs[p].name = name =>
              MetWithin(name, hs, p) \in 1 .. m /\ found[MetWithin(name, hs, p)] = hs[p]
        /\ \A i \in 1 .. m : \E p \in 1 .. n : hs[p].name = name /\ MetWithin(name, hs, p) = i
    BY DEF CountedUp
  <1>4. CASE hs[n + 1].name # name
    <2>1. more = found
      BY <1>4
    <2>2. \A p \in 1 .. (n + 1) : hs[p].name = name => p \in 1 .. n
      BY <1>4
    <2>3. \A p \in 1 .. n : p \in 1 .. (n + 1)
      OBVIOUS
    <2> HIDE DEF m
    <2> QED BY <1>1, <1>2, <1>3, <1>4, <2>1, <2>2, <2>3 DEF CountedUp, m
  <1>5. CASE hs[n + 1].name = name
    <2>1. /\ more \in Seq(ToSet(hs)) /\ Len(more) = m + 1
          /\ more[m + 1] = hs[n + 1] /\ \A i \in 1 .. m : more[i] = found[i]
      BY <1>1, <1>5, AppendProperties
    <2> HIDE DEF m
    <2>2. ASSUME NEW p \in 1 .. (n + 1), hs[p].name = name
          PROVE  MetWithin(name, hs, p) \in 1 .. (m + 1) /\ more[MetWithin(name, hs, p)] = hs[p]
      <3>1. CASE p = n + 1
        BY <1>1, <1>2, <1>5, <2>1, <3>1
      <3>2. CASE p # n + 1
        <4>1. p \in 1 .. n
          BY <3>2
        <4>2. MetWithin(name, hs, p) \in 1 .. m /\ found[MetWithin(name, hs, p)] = hs[p]
          BY <1>3, <2>2, <4>1
        <4> QED BY <1>1, <2>1, <4>2
      <3> QED BY <3>1, <3>2
    <2>3. ASSUME NEW i \in 1 .. (m + 1)
          PROVE  \E p \in 1 .. (n + 1) : hs[p].name = name /\ MetWithin(name, hs, p) = i
      <3>1. CASE i = m + 1
        <4>1. n + 1 \in 1 .. (n + 1) /\ MetWithin(name, hs, n + 1) = i
          BY <1>2, <1>5, <3>1
        <4> QED BY <1>5, <4>1
      <3>2. CASE i # m + 1
        <4>1. i \in 1 .. m
          BY <1>1, <3>2
        <4>2. \E p \in 1 .. n : hs[p].name = name /\ MetWithin(name, hs, p) = i
          BY <1>3, <4>1
        <4>3. \A p \in 1 .. n : p \in 1 .. (n + 1)
          OBVIOUS
        <4> QED BY <4>2, <4>3
      <3> QED BY <3>1, <3>2
    <2> QED BY <1>2, <1>5, <2>1, <2>2, <2>3 DEF CountedUp
  <1> QED BY <1>4, <1>5

LEMMA InstancesByRank ==
    ASSUME NEW hs, IsSeq(hs), NEW name
    PROVE  LET all == Instances(name, hs)
               N   == Times(NamesIn(hs), name)
           IN  /\ all \in Seq(ToSet(hs)) /\ N \in Nat /\ Len(all) = N
               /\ \A p \in DOMAIN hs : hs[p].name = name =>
                     Rank(hs, p) \in 0 .. (N - 1) /\ all[N - Rank(hs, p)] = hs[p]
               /\ \A r \in 0 .. (N - 1) : \E p \in DOMAIN hs :
                     hs[p].name = name /\ Rank(hs, p) = r
  <1> DEFINE M   == Len(hs)
             all == Instances(name, hs)
             N   == Times(NamesIn(hs), name)
             T   == { n \in 0 .. M : CountedUp(name, hs, n, InstUpTo(name, hs, n)) }
  <1>1. M \in Nat /\ DOMAIN hs = 1 .. M
    BY DEF IsSeq
  <1>2. all = InstUpTo(name, hs, M)
    BY <1>1 DEF Instances, InstUpTo, OfName
  <1> HIDE DEF M
  <1>3. 0 \in T
    <2>1. InstUpTo(name, hs, 0) = <<>>
      <3>1. [p \in 1 .. 0 |-> OfName(name, hs, p)] = <<>>
        OBVIOUS
      <3> QED BY <3>1, FlattenEmpty DEF InstUpTo
    <2>2. MetWithin(name, hs, 0) = 0
      <3>1. Met(NamesIn(hs), name, 0) = {}
        BY DEF Met
      <3> QED BY <3>1, FS_EmptySet DEF MetWithin
    <2>3. CountedUp(name, hs, 0, <<>>)
      BY <2>2 DEF CountedUp
    <2> QED BY <1>1, <2>1, <2>3
  <1>4. ASSUME NEW n \in 0 .. (M - 1), n \in T PROVE n + 1 \in T
    <2> DEFINE found == InstUpTo(name, hs, n)
    <2>1. n \in Nat /\ n + 1 \in DOMAIN hs /\ n + 1 \in 0 .. M
      BY <1>1
    <2>2. CountedUp(name, hs, n, found) /\ found \in Seq(ToSet(hs))
      BY <1>4 DEF CountedUp
    <2>3. InstUpTo(name, hs, n + 1) = IF hs[n + 1].name = name
                                      THEN Append(found, hs[n + 1]) ELSE found
      BY <2>1, <2>2, InstStep
    <2> HIDE DEF found
    <2>4. CountedUp(name, hs, n + 1, IF hs[n + 1].name = name
                                     THEN Append(found, hs[n + 1]) ELSE found)
      BY <2>1, <2>2, MetWithinStep
    <2> QED BY <2>1, <2>3, <2>4
  <1> HIDE DEF T
  <1>5. \A n \in 0 .. M : n \in T
    BY <1>1, <1>3, <1>4, IntervalInduction
  <1>6. M \in T
    BY <1>1, <1>5
  <1>7. CountedUp(name, hs, M, all)
    BY <1>2, <1>6 DEF T
  <1>8. N = MetWithin(name, hs, M) /\ N \in Nat
    BY <1>1, BelowIsLater, MetOneMore DEF MetWithin, Times, M
  <1>9. ASSUME NEW p \in DOMAIN hs, hs[p].name = name
        PROVE  Rank(hs, p) = N - MetWithin(name, hs, p)
    <2>1. NamesIn(hs)[p] = name /\ Len(NamesIn(hs)) = M /\ p \in DOMAIN NamesIn(hs)
          /\ NamesIn(hs) \in Seq(ToSet(NamesIn(hs)))
          /\ Rank(hs, p) = Cardinality(Later(NamesIn(hs), p))
      BY <1>9, BelowIsLater DEF M
    <2> QED BY <1>8, <2>1, LaterIsUnmet DEF MetWithin
  <1> HIDE DEF all, N
  <1>10. all \in Seq(ToSet(hs)) /\ Len(all) = N
    BY <1>7, <1>8 DEF CountedUp
  <1>11. ASSUME NEW p \in DOMAIN hs, hs[p].name = name
         PROVE  Rank(hs, p) \in 0 .. (N - 1) /\ all[N - Rank(hs, p)] = hs[p]
    <2>1. MetWithin(name, hs, p) \in 1 .. N /\ all[MetWithin(name, hs, p)] = hs[p]
      BY <1>1, <1>7, <1>10, <1>11 DEF CountedUp
    <2>2. N - Rank(hs, p) = MetWithin(name, hs, p)
      BY <1>8, <1>9, <1>11, <2>1
    <2> QED BY <1>8, <1>9, <1>11, <2>1, <2>2
  <1>12. ASSUME NEW r \in 0 .. (N - 1)
         PROVE  \E p \in DOMAIN hs : hs[p].name = name /\ Rank(hs, p) = r
    <2>1. N - r \in 1 .. N /\ N - (N - r) = r
      BY <1>8
    <2>2. PICK p \in 1 .. M : hs[p].name = name /\ MetWithin(name, hs, p) = N - r
      BY <1>7, <1>10, <2>1 DEF CountedUp
    <2> QED BY <1>1, <1>9, <2>1, <2>2
  <1> QED BY <1>8, <1>10, <1>11, <1>12 DEF all, N
-------------------------------------------------------------------------------
(* Two blocks from which a list selects the same are, to the list, the     *)
(* same: the last instances of each of its names are, as many as it lists. *)

LEMMA CanonKeeps ==
    ASSUME NEW f, FieldShape(f), NEW g, FieldShape(g), NEW canon,
           CanonicalizeHeader(f, canon) = CanonicalizeHeader(g, canon)
    PROVE  f.name = g.name /\ f.text = g.text /\ f.tags = g.tags
  <1>1. CASE canon = "relaxed"
    <2>1. [f EXCEPT !.ws = 0] = [g EXCEPT !.ws = 0]
      BY <1>1 DEF CanonicalizeHeader
    <2>2. ASSUME NEW h, FieldShape(h), NEW k, k = [h EXCEPT !.ws = 0]
          PROVE  h.name = k.name /\ h.text = k.text /\ h.tags = k.tags
      BY <2>2 DEF FieldShape
    <2> DEFINE fc == [f EXCEPT !.ws = 0]
               gc == [g EXCEPT !.ws = 0]
    <2>3. f.name = fc.name /\ f.text = fc.text /\ f.tags = fc.tags
      BY <2>2
    <2>4. g.name = gc.name /\ g.text = gc.text /\ g.tags = gc.tags
      BY <2>2
    <2> QED BY <2>1, <2>3, <2>4
  <1>2. CASE canon # "relaxed"
    BY <1>2 DEF CanonicalizeHeader
  <1> QED BY <1>1, <1>2

Alike(names, A, B, canon) ==
    LET SA == Selected(names, A)
        SB == Selected(names, B)
    IN  /\ Len(SA) = Len(SB)
        /\ \A j \in 1 .. Len(SA) :
              CanonicalizeHeader(A[SA[j]], canon) = CanonicalizeHeader(B[SB[j]], canon)

Shaped(hs) == IsSeq(hs) /\ \A p \in DOMAIN hs : FieldShape(hs[p])

LEMMA AgreeOneWay ==
    ASSUME NEW A, Shaped(A), NEW B, Shaped(B),
           NEW names, IsSeq(names), Empty \notin ToSet(names), NEW canon,
           Alike(names, A, B, canon),
           NEW name, NEW r \in Nat, r < Times(names, name), r < Times(NamesIn(A), name)
    PROVE  /\ r < Times(NamesIn(B), name)
           /\ CanonicalizeHeader(Instances(name, A)[Times(NamesIn(A), name) - r], canon)
                = CanonicalizeHeader(Instances(name, B)[Times(NamesIn(B), name) - r], canon)
  <1> DEFINE SA == Selected(names, A)
             SB == Selected(names, B)
             NA == Times(NamesIn(A), name)
             NB == Times(NamesIn(B), name)
             IA == Instances(name, A)
             IB == Instances(name, B)
             N  == Len(names)
             L  == Len(SA)
  <1>1. ByRank(names, A, N, SA) /\ ByRank(names, B, N, SB)
    BY SelectionByRank DEF Shaped
  <1>2. /\ NA \in Nat /\ NB \in Nat
        /\ \A p \in DOMAIN A : A[p].name = name => IA[NA - Rank(A, p)] = A[p]
        /\ \A q \in 0 .. (NA - 1) : \E p \in DOMAIN A : A[p].name = name /\ Rank(A, p) = q
        /\ \A p \in DOMAIN B : B[p].name = name =>
              Rank(B, p) \in 0 .. (NB - 1) /\ IB[NB - Rank(B, p)] = B[p]
    BY InstancesByRank DEF Shaped
  <1>3. /\ L \in Nat /\ SA \in Seq(DOMAIN A) /\ SB \in Seq(DOMAIN B)
        /\ DOMAIN SA = 1 .. L /\ DOMAIN SB = 1 .. L
        /\ \A j \in 1 .. L : CanonicalizeHeader(A[SA[j]], canon) = CanonicalizeHeader(B[SB[j]], canon)
    <2>1. SA \in Seq(DOMAIN A) /\ SB \in Seq(DOMAIN B)
      BY <1>1 DEF ByRank
    <2>2. /\ Len(SA) = Len(SB)
          /\ \A j \in 1 .. Len(SA) :
                CanonicalizeHeader(A[SA[j]], canon) = CanonicalizeHeader(B[SB[j]], canon)
      BY DEF Alike
    <2> HIDE DEF SA, SB
    <2> QED BY <2>1, <2>2
  <1> HIDE DEF SA, SB, NA, NB, IA, IB, N, L
  <1>4. \A j \in 1 .. L : /\ SA[j] \in DOMAIN A /\ SB[j] \in DOMAIN B
                         /\ A[SA[j]].name = B[SB[j]].name
    <2> TAKE j \in 1 .. L
    <2>1. SA[j] \in DOMAIN A /\ SB[j] \in DOMAIN B
      BY <1>3
    <2>2. CanonicalizeHeader(A[SA[j]], canon) = CanonicalizeHeader(B[SB[j]], canon)
      BY <1>3
    <2>3. FieldShape(A[SA[j]]) /\ FieldShape(B[SB[j]])
      BY <2>1 DEF Shaped
    <2> QED BY <2>1, <2>2, <2>3, CanonKeeps
  <1>5. r \in 0 .. (NA - 1)
    BY <1>2 DEF NA
  <1>6. PICK p \in DOMAIN A : A[p].name = name /\ Rank(A, p) = r
    BY <1>2, <1>5
  <1>7. p \in ToSet(SA)
    <2>1. Times(names, name) = Cardinality(Met(names, A[p].name, N))
      BY <1>6 DEF Times, N
    <2> QED BY <1>1, <1>6, <2>1 DEF ByRank
  <1>8. PICK j \in 1 .. L : SA[j] = p
    BY <1>3, <1>7 DEF ToSet
  <1>9. SB[j] \in DOMAIN B /\ B[SB[j]].name = name
    BY <1>4, <1>6, <1>8
  <1>10. { i \in 1 .. (j - 1) : A[SA[i]].name = A[SA[j]].name }
           = { i \in 1 .. (j - 1) : B[SB[i]].name = B[SB[j]].name }
    <2>1. \A i \in 1 .. (j - 1) : i \in 1 .. L
      BY <1>3
    <2> QED BY <1>4, <2>1
  <1>11. Rank(B, SB[j]) = r
    <2>1. Rank(A, SA[j]) = Cardinality({ i \in 1 .. (j - 1) : A[SA[i]].name = A[SA[j]].name })
      BY <1>1, <1>3 DEF ByRank
    <2>2. Rank(B, SB[j]) = Cardinality({ i \in 1 .. (j - 1) : B[SB[i]].name = B[SB[j]].name })
      BY <1>1, <1>3 DEF ByRank
    <2> QED BY <1>6, <1>8, <1>10, <2>1, <2>2
  <1>12. r < NB /\ IB[NB - r] = B[SB[j]]
    BY <1>2, <1>9, <1>11
  <1>13. IA[NA - r] = A[SA[j]]
    BY <1>2, <1>6, <1>8
  <1>14. CanonicalizeHeader(A[SA[j]], canon) = CanonicalizeHeader(B[SB[j]], canon)
    BY <1>3
  <1> QED BY <1>12, <1>13, <1>14 DEF NA, NB, IA, IB

(* The last m of them, or all. *)
Kept(all, m) == IF Len(all) <= m THEN all ELSE SubSeq(all, Len(all) - m + 1, Len(all))

KeptLen(all, m) == IF Len(all) <= m THEN Len(all) ELSE m

LEMMA KeptIs ==
    ASSUME NEW S, NEW all \in Seq(S), NEW m \in Nat
    PROVE  /\ KeptLen(all, m) \in Nat /\ DOMAIN Kept(all, m) = 1 .. KeptLen(all, m)
           /\ \A j \in 1 .. KeptLen(all, m) :
                 Kept(all, m)[j] = all[Len(all) - (KeptLen(all, m) - j)]
  <1> DEFINE kept == Kept(all, m)
             K    == KeptLen(all, m)
             N    == Len(all)
  <1>1. N \in Nat
    OBVIOUS
  <1>2. CASE N <= m
    <2>1. kept = all /\ K = N /\ DOMAIN all = 1 .. N
      BY <1>2 DEF Kept, KeptLen
    <2>2. \A j \in 1 .. N : N - (N - j) = j
      BY <1>1
    <2> QED BY <1>1, <2>1, <2>2
  <1>3. CASE ~(N <= m)
    <2>1. kept = SubSeq(all, N - m + 1, N) /\ K = m
      BY <1>3 DEF Kept, KeptLen
    <2>2. N - m + 1 \in 1 .. (N + 1) /\ N - (N - m + 1) + 1 = m
      BY <1>1, <1>3
    <2>3. DOMAIN kept = 1 .. m /\ \A j \in 1 .. m : kept[j] = all[N - m + 1 + j - 1]
      BY <1>1, <2>1, <2>2
    <2>4. \A j \in 1 .. m : N - m + 1 + j - 1 = N - (m - j)
      BY <1>1
    <2> QED BY <2>1, <2>3, <2>4
  <1> QED BY <1>2, <1>3

LEMMA CoveredAgree ==
    ASSUME NEW A, Shaped(A), NEW B, Shaped(B),
           NEW names, IsSeq(names), Empty \notin ToSet(names), NEW canon,
           Alike(names, A, B, canon), NEW name
    PROVE  Covered(name, Times(names, name), A, canon)
             = Covered(name, Times(names, name), B, canon)
  <1> DEFINE m  == Times(names, name)
             NA == Times(NamesIn(A), name)
             NB == Times(NamesIn(B), name)
             IA == Instances(name, A)
             IB == Instances(name, B)
             KA == KeptLen(IA, m)
             KB == KeptLen(IB, m)
             keptA == Kept(IA, m)
             keptB == Kept(IB, m)
  <1>1. m \in Nat
    <2>1. Len(names) \in Nat
      BY DEF IsSeq
    <2> QED BY <2>1, MetOneMore DEF Times
  <1>2. /\ IA \in Seq(ToSet(A)) /\ NA \in Nat /\ Len(IA) = NA
        /\ IB \in Seq(ToSet(B)) /\ NB \in Nat /\ Len(IB) = NB
    BY InstancesByRank DEF Shaped
  <1>3. Alike(names, B, A, canon)
    BY DEF Alike
  <1>4. ASSUME NEW r \in Nat, r < m
        PROVE  /\ r < NA <=> r < NB
               /\ r < NA => CanonicalizeHeader(IA[NA - r], canon)
                              = CanonicalizeHeader(IB[NB - r], canon)
    <2>1. r < NA => /\ r < NB
                    /\ CanonicalizeHeader(IA[NA - r], canon) = CanonicalizeHeader(IB[NB - r], canon)
      BY <1>4, AgreeOneWay
    <2>2. r < NB => r < NA
      BY <1>3, <1>4, AgreeOneWay
    <2> QED BY <2>1, <2>2
  <1>5. /\ KA \in Nat /\ DOMAIN keptA = 1 .. KA
        /\ \A j \in 1 .. KA : keptA[j] = IA[Len(IA) - (KA - j)]
    BY <1>1, <1>2, KeptIs
  <1>6. /\ KB \in Nat /\ DOMAIN keptB = 1 .. KB
        /\ \A j \in 1 .. KB : keptB[j] = IB[Len(IB) - (KB - j)]
    BY <1>1, <1>2, KeptIs
  <1>7. /\ Covered(name, m, A, canon) = [j \in DOMAIN keptA |-> CanonicalizeHeader(keptA[j], canon)]
        /\ Covered(name, m, B, canon) = [j \in DOMAIN keptB |-> CanonicalizeHeader(keptB[j], canon)]
    BY DEF Covered, Kept
  <1>8. /\ KA = IF NA <= m THEN NA ELSE m
        /\ KB = IF NB <= m THEN NB ELSE m
    BY <1>2 DEF KeptLen
  <1> HIDE DEF m, NA, NB, IA, IB, KA, KB, keptA, keptB
  <1>9. KA = KB
    <2>1. \A r \in Nat : r < m => (r < NA <=> r < NB)
      BY <1>4
    <2>2. NA < m => NB <= NA
      <3>1. NA < m => (NA < NA <=> NA < NB)
        BY <1>2, <2>1
      <3> QED BY <1>1, <1>2, <3>1
    <2>3. NB < m => NA <= NB
      <3>1. NB < m => (NB < NA <=> NB < NB)
        BY <1>2, <2>1
      <3> QED BY <1>1, <1>2, <3>1
    <2> QED BY <1>1, <1>2, <1>8, <2>2, <2>3
  <1>10. \A j \in 1 .. KA : CanonicalizeHeader(keptA[j], canon) = CanonicalizeHeader(keptB[j], canon)
    <2> TAKE j \in 1 .. KA
    <2>1. KA - j \in Nat /\ KA - j < m /\ KA - j < NA
      BY <1>1, <1>2, <1>5, <1>8
    <2>2. CanonicalizeHeader(IA[NA - (KA - j)], canon) = CanonicalizeHeader(IB[NB - (KA - j)], canon)
      BY <1>4, <2>1
    <2>3. keptA[j] = IA[NA - (KA - j)] /\ keptB[j] = IB[NB - (KA - j)]
      BY <1>2, <1>5, <1>6, <1>9
    <2> QED BY <2>2, <2>3
  <1> QED BY <1>5, <1>6, <1>7, <1>9, <1>10 DEF m
-------------------------------------------------------------------------------
(* Taking a field out of a block takes it out of the instances of its name.*)
LEMMA InstType ==
    ASSUME NEW S, NEW hs \in Seq(S), NEW name, NEW n \in 0 .. Len(hs)
    PROVE  InstUpTo(name, hs, n) \in Seq(S)
  <1> DEFINE parts == [p \in 1 .. n |-> OfName(name, hs, p)]
  <1>1. ASSUME NEW p \in 1 .. n PROVE OfName(name, hs, p) \in Seq(S)
    <2>1. hs[p] \in S
      OBVIOUS
    <2> QED BY <2>1 DEF OfName
  <1>2. parts \in [1 .. n -> Seq(S)] /\ n \in Nat
    BY <1>1
  <1>3. InstUpTo(name, hs, n) = FlattenSeq(parts)
    BY DEF InstUpTo
  <1> HIDE DEF parts
  <1> QED BY <1>2, <1>3, FlattenType

LEMMA InstancesSplit ==
    ASSUME NEW S, NEW A \in Seq(S), NEW B \in Seq(S), NEW name
    PROVE  /\ Instances(name, Then(A, B)) = Then(Instances(name, A), Instances(name, B))
           /\ Instances(name, A) \in Seq(S) /\ Instances(name, B) \in Seq(S)
  <1> DEFINE H  == A \o B
             a  == Len(A)
             b  == Len(B)
             IA == Instances(name, A)
             T  == { k \in 0 .. b : InstUpTo(name, H, a + k) = IA \o InstUpTo(name, B, k) }
  <1>1. /\ a \in Nat /\ b \in Nat /\ H \in Seq(S) /\ Len(H) = a + b
        /\ DOMAIN A = 1 .. a /\ DOMAIN B = 1 .. b /\ DOMAIN H = 1 .. (a + b)
        /\ \A p \in 1 .. a : H[p] = A[p]
        /\ \A p \in 1 .. b : H[a + p] = B[p]
    BY SMT
  <1>2. IsSeq(H) /\ IsSeq(B)
    <2> HIDE DEF H, a, b
    <2>1. H = [p \in 1 .. (a + b) |-> H[p]] /\ a + b \in Nat
      BY <1>1
    <2>2. B = [p \in 1 .. b |-> B[p]]
      BY <1>1
    <2> QED BY <1>1, <2>1, <2>2, PlainSeq
  <1>3. IA = InstUpTo(name, A, a) /\ Instances(name, B) = InstUpTo(name, B, b)
        /\ Instances(name, H) = InstUpTo(name, H, a + b)
    <2> HIDE DEF H, a, b
    <2> QED BY <1>1 DEF Instances, InstUpTo, OfName
  <1>4. IA \in Seq(S)
    BY <1>1, <1>3, InstType
  <1>5. InstUpTo(name, H, a) = IA
    <2> HIDE DEF H, a, b, IA
    <2>1. \A p \in 1 .. a : OfName(name, H, p) = OfName(name, A, p)
      BY <1>1 DEF OfName
    <2> QED BY <1>3, <2>1 DEF InstUpTo
  <1> HIDE DEF H, a, b, IA
  <1>6. 0 \in T
    <2>1. InstUpTo(name, B, 0) = <<>>
      <3>1. [p \in 1 .. 0 |-> OfName(name, B, p)] = <<>>
        OBVIOUS
      <3> QED BY <3>1, FlattenEmpty DEF InstUpTo
    <2>2. IA \o <<>> = IA /\ a + 0 = a
      BY <1>1, <1>4
    <2>3. InstUpTo(name, H, a + 0) = IA \o InstUpTo(name, B, 0)
      BY <1>5, <2>1, <2>2, Zenon
    <2>4. 0 \in 0 .. b
      BY <1>1
    <2> QED BY <2>3, <2>4, Zenon
  <1>7. ASSUME NEW k \in 0 .. (b - 1), k \in T PROVE k + 1 \in T
    <2> DEFINE old  == InstUpTo(name, B, k)
               next == OfName(name, B, k + 1)
    <2>1. /\ k \in Nat /\ k + 1 \in 0 .. b /\ k + 1 \in 1 .. b /\ k \in 0 .. Len(B)
          /\ a + k \in Nat /\ (a + k) + 1 = a + (k + 1)
      BY <1>1 DEF b
    <2>2. H[a + (k + 1)] = B[k + 1] /\ B[k + 1] \in S
      BY <1>1, <2>1
    <2>3. OfName(name, H, a + (k + 1)) = next /\ next \in Seq(S)
      BY <2>2 DEF OfName
    <2>4. old \in Seq(S)
      BY <2>1, InstType
    <2>5. InstUpTo(name, H, a + (k + 1)) = (IA \o old) \o next
      <3>1. InstUpTo(name, H, (a + k) + 1)
              = InstUpTo(name, H, a + k) \o OfName(name, H, (a + k) + 1)
        BY <2>1, InstMore
      <3>2. InstUpTo(name, H, a + k) = IA \o old
        BY <1>7
      <3> QED BY <2>1, <2>3, <3>1, <3>2
    <2>6. InstUpTo(name, B, k + 1) = old \o next
      BY <2>1, InstMore
    <2> HIDE DEF old, next
    <2>7. (IA \o old) \o next = IA \o (old \o next)
      <3>1. IA \in Seq(S) /\ old \in Seq(S) /\ next \in Seq(S)
        BY <1>4, <2>3, <2>4
      <3> HIDE DEF IA
      <3>2. Then(Then(IA, old), next) = Then(IA, Then(old, next))
        BY ONLY <3>1, ThenAssociative
      <3> QED BY ONLY <3>2 DEF Then
    <2>8. InstUpTo(name, H, a + (k + 1)) = IA \o InstUpTo(name, B, k + 1)
      BY <2>5, <2>6, <2>7
    <2> QED BY <2>1, <2>8
  <1> HIDE DEF T
  <1>8. \A k \in 0 .. b : k \in T
    BY <1>1, <1>6, <1>7, IntervalInduction
  <1>9. b \in T
    BY <1>1, <1>8
  <1>10. Instances(name, B) \in Seq(S)
    BY <1>1, <1>3, InstType DEF b
  <1> QED BY <1>3, <1>4, <1>9, <1>10 DEF T, H, IA, Then

LEMMA SelfIsThere ==
    ASSUME NEW hs, IsSeq(hs), NEW here \in DOMAIN hs
    PROVE  /\ SelfAt(hs, hs[here]) \in 1 .. here
           /\ hs[SelfAt(hs, hs[here])] = hs[here]
  <1> DEFINE B == { p \in DOMAIN hs : hs[p] = hs[here] }
  <1>1. DOMAIN hs = 1 .. Len(hs) /\ Len(hs) \in Nat
    BY DEF IsSeq
  <1>2. B \in SUBSET Nat /\ here \in B
    BY <1>1
  <1>3. PICK q \in B : \A p \in B : q <= p
    <2> HIDE DEF B
    <2> QED BY <1>2, LeastElement
  <1>4. IsSelf(hs, hs[here], q)
    <2>1. ASSUME NEW p \in 1 .. (q - 1) PROVE hs[p] # hs[here]
      <3>1. p \in DOMAIN hs /\ ~(q <= p)
        BY <1>1
      <3> QED BY <1>3, <3>1
    <2> QED BY <2>1 DEF IsSelf
  <1>5. \E p \in DOMAIN hs : IsSelf(hs, hs[here], p) /\ SelfAt(hs, hs[here]) = p
    BY <1>4 DEF SelfAt
  <1>6. PICK p \in DOMAIN hs : IsSelf(hs, hs[here], p) /\ SelfAt(hs, hs[here]) = p
    BY <1>5
  <1>7. ~(here \in 1 .. (p - 1)) /\ hs[p] = hs[here]
    BY <1>6 DEF IsSelf
  <1> QED BY <1>1, <1>6, <1>7

LEMMA Joined ==
    ASSUME NEW S, NEW P \in Seq(S), NEW Y \in Seq(S)
    PROVE  /\ Then(P, Y) \in Seq(S) /\ Len(Then(P, Y)) = Len(P) + Len(Y)
           /\ Len(P) \in Nat /\ Len(Y) \in Nat
           /\ \A j \in 1 .. Len(P) : Then(P, Y)[j] = P[j]
           /\ \A j \in 1 .. Len(Y) : Then(P, Y)[Len(P) + j] = Y[j]
  BY DEF Then

LEMMA KeptTail ==
    ASSUME NEW S, NEW P \in Seq(S), NEW Q \in Seq(S), NEW Y \in Seq(S),
           Len(P) = Len(Q), NEW m \in Nat, m <= Len(Y)
    PROVE  LET kept == Kept(Then(P, Y), m)
               left == Kept(Then(Q, Y), m)
           IN  DOMAIN kept = DOMAIN left /\ \A j \in DOMAIN kept : kept[j] = left[j]
  <1> DEFINE n     == Len(P) + Len(Y)
             all   == Then(P, Y)
             other == Then(Q, Y)
             kept  == Kept(all, m)
             left  == Kept(other, m)
             K     == KeptLen(all, m)
             L     == KeptLen(other, m)
  <1>1. /\ all \in Seq(S) /\ other \in Seq(S) /\ Len(all) = n /\ Len(other) = n
        /\ Len(P) \in Nat /\ Len(Y) \in Nat
        /\ \A j \in 1 .. Len(Y) : all[Len(P) + j] = Y[j] /\ other[Len(P) + j] = Y[j]
    <2>1. /\ all \in Seq(S) /\ Len(all) = Len(P) + Len(Y)
          /\ Len(P) \in Nat /\ Len(Y) \in Nat
          /\ \A j \in 1 .. Len(Y) : all[Len(P) + j] = Y[j]
      <3>1. P \in Seq(S) /\ Y \in Seq(S)
        OBVIOUS
      <3>2. all \in Seq(S)
        BY ONLY <3>1, Joined
      <3>3. Len(all) = Len(P) + Len(Y)
        BY ONLY <3>1, Joined
      <3>4. Len(P) \in Nat /\ Len(Y) \in Nat
        BY <3>1
      <3>5. \A j \in 1 .. Len(Y) : all[Len(P) + j] = Y[j]
        BY ONLY <3>1, Joined
      <3> QED BY <3>2, <3>3, <3>4, <3>5
    <2>2. /\ other \in Seq(S) /\ Len(other) = Len(Q) + Len(Y)
          /\ \A j \in 1 .. Len(Y) : other[Len(Q) + j] = Y[j]
      BY Joined
    <2> HIDE DEF all, other
    <2> QED BY <2>1, <2>2
  <1> HIDE DEF all, other
  <1>2. /\ K \in Nat /\ DOMAIN kept = 1 .. K
        /\ \A j \in 1 .. K : kept[j] = all[Len(all) - (K - j)]
    <2>1. all \in Seq(S)
      BY <1>1
    <2> QED BY <2>1, KeptIs
  <1>3. /\ L \in Nat /\ DOMAIN left = 1 .. L
        /\ \A j \in 1 .. L : left[j] = other[Len(other) - (L - j)]
    <2>1. other \in Seq(S)
      BY <1>1
    <2> QED BY <2>1, KeptIs
  <1> HIDE DEF kept, left
  <1>4. K = m /\ L = m
    BY <1>1 DEF KeptLen
  <1>5. ASSUME NEW j \in 1 .. m PROVE all[n - (m - j)] = other[n - (m - j)]
    <2>1. /\ Len(Y) - (m - j) \in 1 .. Len(Y)
          /\ n - (m - j) = Len(P) + (Len(Y) - (m - j))
      BY <1>1
    <2> QED BY <1>1, <2>1
  <1> HIDE DEF n, K, L
  <1>6. DOMAIN kept = DOMAIN left /\ \A j \in DOMAIN kept : kept[j] = left[j]
    BY <1>1, <1>2, <1>3, <1>4, <1>5
  <1> QED BY <1>6 DEF kept, left, all, other

LEMMA InstancesOfOne ==
    ASSUME NEW f, NEW name
    PROVE  Instances(name, <<f>>) = IF f.name = name THEN <<f>> ELSE <<>>
  <1> DEFINE parts == [p \in 1 .. 1 |-> OfName(name, <<f>>, p)]
  <1>1. Instances(name, <<f>>) = FlattenSeq(parts)
    <2>1. DOMAIN <<f>> = 1 .. 1
      OBVIOUS
    <2> QED BY <2>1 DEF Instances, OfName
  <1>2. parts = <<OfName(name, <<f>>, 1)>>
    OBVIOUS
  <1>3. OfName(name, <<f>>, 1) = IF f.name = name THEN <<f>> ELSE <<>>
    BY DEF OfName
  <1>4. FlattenSeq(parts) = OfName(name, <<f>>, 1)
    <2>1. Len(parts) = 1
      BY <1>2
    <2> QED BY <1>2, <2>1 DEF FlattenSeq
  <1> QED BY <1>1, <1>3, <1>4

(* f is among the last m instances of the name.                            *)
Shows(name, m, block, f) ==
    \E r \in Nat : /\ r < m /\ r < Len(Instances(name, block))
                   /\ Instances(name, block)[Len(Instances(name, block)) - r] = f

(* Blocks that keep the other of two copies of f.                          *)
Swapped(x, z, y, f, W, O) ==
    /\ W = Then(x, Then(z, Then(<<f>>, y)))
    /\ O = Then(Then(x, Then(<<f>>, z)), y)

(* Their last instances of a name are the same, up to the copy kept.       *)
LEMMA CopiesSwap ==
    ASSUME NEW S, NEW x \in Seq(S), NEW z \in Seq(S), NEW y \in Seq(S), NEW f \in S,
           NEW name, NEW m \in Nat, NEW canon, NEW W, NEW O, Swapped(x, z, y, f, W, O)
    PROVE  \/ Covered(name, m, W, canon) = Covered(name, m, O, canon)
           \/ Shows(name, m, W, f)
  <1> DEFINE X == Instances(name, x)
             Z == Instances(name, z)
             Y == Instances(name, y)
             one == <<f>>
             F == Instances(name, one)
             P == Then(X, Then(Z, F))
             Q == Then(X, Then(F, Z))
  <1>1. one \in Seq(S) /\ Then(one, y) \in Seq(S) /\ Then(z, Then(one, y)) \in Seq(S)
        /\ Then(one, z) \in Seq(S) /\ Then(x, Then(one, z)) \in Seq(S)
    <2>1. one \in Seq(S)
      OBVIOUS
    <2> QED BY <2>1, ThenType
  <1>12. W = Then(x, Then(z, Then(one, y))) /\ O = Then(Then(x, Then(one, z)), y)
    BY DEF Swapped
  <1> HIDE DEF one
  <1>2. X \in Seq(S) /\ Z \in Seq(S) /\ Y \in Seq(S) /\ F \in Seq(S)
    BY <1>1, <1>12, InstancesSplit
  <1>3. Instances(name, W) = Then(X, Then(Z, Then(F, Y)))
    <2>1. Instances(name, W) = Then(X, Instances(name, Then(z, Then(one, y))))
      BY <1>1, <1>12, InstancesSplit
    <2>2. Instances(name, Then(z, Then(one, y))) = Then(Z, Instances(name, Then(one, y)))
      BY <1>1, <1>12, InstancesSplit
    <2>3. Instances(name, Then(one, y)) = Then(F, Y)
      BY <1>1, <1>12, InstancesSplit
    <2> QED BY <2>1, <2>2, <2>3
  <1>4. Instances(name, O) = Then(Q, Y)
    <2>1. Instances(name, O) = Then(Instances(name, Then(x, Then(one, z))), Y)
      BY <1>1, <1>12, InstancesSplit
    <2>2. Instances(name, Then(x, Then(one, z))) = Then(X, Instances(name, Then(one, z)))
      BY <1>1, <1>12, InstancesSplit
    <2>3. Instances(name, Then(one, z)) = Then(F, Z)
      BY <1>1, <1>12, InstancesSplit
    <2> QED BY <2>1, <2>2, <2>3
  <1>5. F = IF f.name = name THEN <<f>> ELSE <<>>
    BY InstancesOfOne DEF one
  <1> HIDE DEF X, Y, Z, F
  <1>6. Then(Z, F) \in Seq(S) /\ Then(F, Z) \in Seq(S) /\ P \in Seq(S) /\ Q \in Seq(S)
    BY <1>2, ThenType
  <1>7. Then(X, Then(Z, Then(F, Y))) = Then(P, Y)
    <2>1. Then(F, Y) \in Seq(S)
      BY <1>2, ThenType
    <2>2. Then(P, Y) = Then(X, Then(Then(Z, F), Y))
      BY <1>2, <1>6, ThenAssociative
    <2>3. Then(Then(Z, F), Y) = Then(Z, Then(F, Y))
      BY <1>2, ThenAssociative
    <2> QED BY <2>2, <2>3
  <1>8. /\ Len(P) = Len(X) + (Len(Z) + Len(F)) /\ Len(Q) = Len(X) + (Len(F) + Len(Z))
        /\ Len(X) \in Nat /\ Len(Z) \in Nat /\ Len(F) \in Nat /\ Len(Y) \in Nat
    <2>1. Len(P) = Len(X) + Len(Then(Z, F)) /\ Len(X) \in Nat
      BY <1>2, <1>6, Joined
    <2>2. Len(Q) = Len(X) + Len(Then(F, Z))
      BY <1>2, <1>6, Joined
    <2>3. Len(Then(Z, F)) = Len(Z) + Len(F) /\ Len(Z) \in Nat /\ Len(F) \in Nat
      BY <1>2, Joined
    <2>4. Len(Then(F, Z)) = Len(F) + Len(Z)
      BY <1>2, Joined
    <2>5. Len(Y) \in Nat
      BY <1>2
    <2> HIDE DEF P, Q
    <2> QED BY <2>1, <2>2, <2>3, <2>4, <2>5
  <1>9. CASE f.name # name
    <2>1. Then(Z, F) = Z /\ Then(F, Z) = Z
      BY <1>2, <1>5, <1>9 DEF Then
    <2>2. Instances(name, W) = Instances(name, O)
      BY <1>3, <1>4, <1>7, <2>1
    <2> QED BY <2>2 DEF Covered
  <1>10. CASE f.name = name /\ m <= Len(Y)
    <2> DEFINE all   == Instances(name, W)
               other == Instances(name, O)
    <2>1. all = Then(P, Y) /\ other = Then(Q, Y)
      BY <1>3, <1>4, <1>7
    <2>2. Len(P) = Len(Q)
      BY <1>8
    <2> HIDE DEF P, Q, all, other
    <2>3. /\ DOMAIN Kept(all, m) = DOMAIN Kept(other, m)
          /\ \A j \in DOMAIN Kept(all, m) : Kept(all, m)[j] = Kept(other, m)[j]
      BY <1>2, <1>6, <1>10, <2>1, <2>2, KeptTail
    <2>4. /\ Covered(name, m, W, canon)
               = [j \in DOMAIN Kept(all, m) |-> CanonicalizeHeader(Kept(all, m)[j], canon)]
          /\ Covered(name, m, O, canon)
               = [j \in DOMAIN Kept(other, m) |-> CanonicalizeHeader(Kept(other, m)[j], canon)]
      BY DEF Covered, Kept, all, other
    <2> QED BY <2>3, <2>4
  <1>11. CASE f.name = name /\ ~(m <= Len(Y))
    <2> DEFINE ZF == Then(Z, F)
    <2>1. F = <<f>> /\ Len(F) = 1 /\ F[1] = f
      BY <1>5, <1>11
    <2>2. ZF[Len(Z) + 1] = f /\ Len(ZF) = Len(Z) + 1
      <3>1. /\ Len(ZF) = Len(Z) + Len(F)
            /\ \A j \in 1 .. Len(F) : ZF[Len(Z) + j] = F[j]
        BY <1>2, Joined
      <3>2. 1 \in 1 .. Len(F)
        BY <2>1
      <3> HIDE DEF ZF
      <3> QED BY <2>1, <3>1, <3>2
    <2> HIDE DEF ZF
    <2>3. P[Len(X) + (Len(Z) + 1)] = f
      <3>1. ZF \in Seq(S) /\ P = Then(X, ZF) /\ Len(Z) + 1 \in 1 .. Len(ZF)
        BY <1>6, <1>8, <2>2 DEF ZF
      <3>2. P[Len(X) + (Len(Z) + 1)] = ZF[Len(Z) + 1]
        BY <1>2, <3>1, Joined
      <3> QED BY <2>2, <3>2
    <2>4. Len(P) = Len(X) + (Len(Z) + 1) /\ Len(P) \in 1 .. Len(P)
      BY <1>8, <2>1
    <2> HIDE DEF P
    <2>5. Then(P, Y)[Len(P)] = f /\ Len(Then(P, Y)) = Len(P) + Len(Y)
      <3>1. /\ Len(Then(P, Y)) = Len(P) + Len(Y)
            /\ \A j \in 1 .. Len(P) : Then(P, Y)[j] = P[j]
        BY <1>2, <1>6, Joined
      <3>2. Then(P, Y)[Len(P)] = P[Len(P)]
        BY <2>4, <3>1
      <3> QED BY <2>3, <2>4, <3>1, <3>2
    <2>6. /\ Len(Y) < m /\ Len(Y) < Len(P) + Len(Y)
          /\ (Len(P) + Len(Y)) - Len(Y) = Len(P)
      BY <1>8, <1>11, <2>4
    <2> QED BY <1>3, <1>7, <1>8, <2>5, <2>6 DEF Shows
  <1> QED BY <1>9, <1>10, <1>11

LEMMA SeqIsSeq ==
    ASSUME NEW S, NEW s \in Seq(S)
    PROVE  IsSeq(s) /\ \A j \in DOMAIN s : s[j] \in S
  <1>1. Len(s) \in Nat /\ DOMAIN s = 1 .. Len(s) /\ s = [j \in 1 .. Len(s) |-> s[j]]
        /\ \A j \in DOMAIN s : s[j] \in S
    OBVIOUS
  <1> QED BY <1>1, PlainSeq

LEMMA WithoutType ==
    ASSUME NEW hs, IsSeq(hs), NEW here \in DOMAIN hs
    PROVE  WithoutSelf(hs, hs[here]) \in Seq(ToSet(hs))
  <1> DEFINE M == Len(hs)
             q == SelfAt(hs, hs[here])
  <1>1. M \in Nat /\ DOMAIN hs = 1 .. M /\ hs \in Seq(ToSet(hs)) /\ q \in 1 .. here
    BY SelfIsThere DEF IsSeq
  <1>2. WithoutSelf(hs, hs[here]) = Then(SubSeq(hs, 1, q - 1), SubSeq(hs, q + 1, M))
    <2>1. q # 0
      BY <1>1
    <2>2. WithoutSelf(hs, hs[here])
            = IF q = 0 THEN hs ELSE Then(SubSeq(hs, 1, q - 1), SubSeq(hs, q + 1, M))
      BY DEF WithoutSelf, Then
    <2> QED BY <2>1, <2>2
  <1> HIDE DEF q, M
  <1>3. q - 1 \in 0 .. M /\ q + 1 \in Nat \ {0} /\ 1 \in Nat \ {0} /\ M \in 0 .. M
    BY <1>1
  <1>4. SubSeq(hs, 1, q - 1) \in Seq(ToSet(hs)) /\ SubSeq(hs, q + 1, M) \in Seq(ToSet(hs))
    BY <1>1, <1>3, StretchType DEF M
  <1> QED BY <1>2, <1>4, ThenType

LEMMA OneStretch ==
    ASSUME NEW S, NEW s \in Seq(S), NEW p \in 1 .. Len(s)
    PROVE  SubSeq(s, p, p) = <<s[p]>>
  <1> DEFINE t == SubSeq(s, p, p)
  <1>1. /\ p \in Nat \ {0} /\ p \in 0 .. Len(s) /\ p <= p /\ p - p + 1 = 1
        /\ p + 1 - 1 = p /\ s[p] \in S
    OBVIOUS
  <1>2. /\ t \in Seq(S) /\ Len(t) = 1
        /\ \A j \in 1 .. 1 : t[j] = s[p + j - 1]
    <2>1. /\ t \in Seq(S)
          /\ Len(t) = IF p <= p THEN p - p + 1 ELSE 0
          /\ \A j \in 1 .. (p - p + 1) : t[j] = s[p + j - 1]
      BY ONLY <1>1, s \in Seq(S), StretchType, SMTT(20)
    <2> HIDE DEF t
    <2> QED BY <1>1, <2>1
  <1> HIDE DEF t
  <1>3. t[1] = s[p]
    BY <1>1, <1>2
  <1>4. <<s[p]>> \in Seq(S) /\ Len(<<s[p]>>) = 1 /\ <<s[p]>>[1] = s[p]
    BY <1>1
  <1>5. t = <<s[p]>>
    BY <1>2, <1>3, <1>4, SameSequence
  <1> QED BY <1>5 DEF t

LEMMA OthersCovered ==
    ASSUME NEW hs, IsSeq(hs), NEW here \in DOMAIN hs, NEW name, NEW m \in Nat, NEW canon,
           NEW W, W = WithoutSelf(hs, hs[here]), NEW O, O = RemoveAt(hs, here)
    PROVE  \/ Covered(name, m, W, canon) = Covered(name, m, O, canon)
           \/ Shows(name, m, W, hs[here])
  <1> DEFINE M == Len(hs)
             f == hs[here]
             q == SelfAt(hs, f)
             S == ToSet(hs)
             x == SubSeq(hs, 1, q - 1)
             z == SubSeq(hs, q + 1, here - 1)
             y == SubSeq(hs, here + 1, M)
             e == SubSeq(hs, q + 1, M)
             d == SubSeq(hs, 1, here - 1)
             self == SubSeq(hs, here, here)
             copy == SubSeq(hs, q, q)
  <1>1. M \in Nat /\ DOMAIN hs = 1 .. M /\ hs \in Seq(S) /\ q \in 1 .. here /\ hs[q] = f
        /\ here \in 1 .. M /\ f \in S
    BY SelfIsThere DEF IsSeq, ToSet
  <1>2. W = x \o e /\ O = d \o y
    <2>1. q # 0
      BY <1>1
    <2>2. W = IF q = 0 THEN hs ELSE x \o e
      BY DEF WithoutSelf
    <2>3. O = d \o y
      BY DEF RemoveAt
    <2> QED BY <2>1, <2>2, <2>3
  <1> HIDE DEF M, f, q, S
  <1>3. CASE q = here
    <2>1. W = O
      BY <1>2, <1>3
    <2> QED BY <2>1
  <1>4. CASE q # here
    <2>1. /\ q - 1 \in 0 .. M /\ q + 1 \in Nat \ {0} /\ q \in Nat \ {0} /\ here - 1 \in 0 .. M
          /\ here + 1 \in Nat \ {0} /\ M \in 0 .. M /\ here \in Nat \ {0} /\ 1 \in Nat \ {0}
          /\ here \in 0 .. M /\ q \in 0 .. M
          /\ q + 1 <= (here - 1) + 1 /\ here - 1 <= M /\ here <= M /\ here <= here + 1
          /\ 1 <= (q - 1) + 1 /\ q - 1 <= here - 1 /\ q <= q + 1 /\ q <= here - 1
          /\ (here - 1) + 1 = here /\ (q - 1) + 1 = q
      BY <1>1, <1>4
    <2>2. x \in Seq(S) /\ z \in Seq(S) /\ y \in Seq(S)
      BY <1>1, <2>1, StretchType DEF M
    <2>3. self = <<f>> /\ copy = <<f>>
      <3>1. self = <<hs[here]>> /\ copy = <<hs[q]>>
        BY <1>1, OneStretch DEF M
      <3> QED BY <1>1, <3>1 DEF f
    <2>4. e = z \o (self \o y)
      <3>1. SubSeq(hs, here, here) \o SubSeq(hs, here + 1, M) = SubSeq(hs, here, M)
        BY <1>1, <2>1, StretchJoin DEF M
      <3>2. SubSeq(hs, q + 1, here - 1) \o SubSeq(hs, (here - 1) + 1, M) = SubSeq(hs, q + 1, M)
        BY <1>1, <2>1, StretchJoin DEF M
      <3>3. SubSeq(hs, (here - 1) + 1, M) = SubSeq(hs, here, M)
        BY <2>1
      <3> QED BY <3>1, <3>2, <3>3
    <2>5. d = x \o (copy \o z)
      <3>1. SubSeq(hs, q, q) \o SubSeq(hs, q + 1, here - 1) = SubSeq(hs, q, here - 1)
        BY <1>1, <2>1, StretchJoin DEF M
      <3>2. SubSeq(hs, 1, q - 1) \o SubSeq(hs, (q - 1) + 1, here - 1) = SubSeq(hs, 1, here - 1)
        BY <1>1, <2>1, StretchJoin DEF M
      <3>3. SubSeq(hs, (q - 1) + 1, here - 1) = SubSeq(hs, q, here - 1)
        BY <2>1
      <3> QED BY <3>1, <3>2, <3>3
    <2> HIDE DEF x, y, z, d, e, self, copy
    <2>6. W = Then(x, Then(z, Then(<<f>>, y)))
      BY <1>2, <2>3, <2>4 DEF Then
    <2>7. O = Then(Then(x, Then(<<f>>, z)), y)
      BY <1>2, <2>3, <2>5 DEF Then
    <2>8. f \in S
      BY <1>1
    <2>9. \/ Covered(name, m, W, canon) = Covered(name, m, O, canon)
          \/ Shows(name, m, W, f)
      <3>1. Swapped(x, z, y, f, W, O)
        BY <2>6, <2>7 DEF Swapped
      <3> QED BY <2>2, <2>8, <3>1, CopiesSwap
    <2> QED BY <2>9 DEF f
  <1> QED BY <1>3, <1>4
-------------------------------------------------------------------------------
(* What is signed determines the content it was signed over.               *)

DataOver(names, block, sig, canon, data) ==
    LET n == Len(Selected(names, block))
    IN  /\ n \in Nat /\ Len(data) = n + 1
        /\ \A j \in 1 .. n : data[j] = CanonicalizeHeader(block[Selected(names, block)[j]], canon)
        /\ data[n + 1] = CanonicalizeHeader(RemoveBValue(sig), canon)

LEMMA DataIs ==
    ASSUME NEW names, IsSeq(names), Empty \notin ToSet(names), NEW hs, NEW sig, NEW canon,
           NEW W, W = WithoutSelf(hs, sig), IsSeq(W)
    PROVE  DataOver(names, W, sig, canon, BuildSignedHeaders(names, hs, sig, canon))
  <1> DEFINE SA     == Selected(names, W)
             n      == Len(SA)
             data   == BuildSignedHeaders(names, hs, sig, canon)
             fields == [j \in 1 .. n |-> CanonicalizeHeader(W[SA[j]], canon)]
             last   == CanonicalizeHeader(RemoveBValue(sig), canon)
             V      == ToSet(fields) \cup {last}
  <1>1. SA \in Seq(DOMAIN W)
    BY SelectionByRank DEF ByRank
  <1>2. n \in Nat /\ DOMAIN SA = 1 .. n
    <2> HIDE DEF SA
    <2> QED BY <1>1
  <1> HIDE DEF SA, last, n
  <1>3. data = Then(fields, <<last>>)
    <2>1. DOMAIN SelectedFields(names, W) = 1 .. n
          /\ \A j \in 1 .. n : SelectedFields(names, W)[j] = W[SA[j]]
      BY <1>2 DEF SelectedFields, SA
    <2>2. [j \in DOMAIN SelectedFields(names, W) |->
              CanonicalizeHeader(SelectedFields(names, W)[j], canon)] = fields
      BY <2>1
    <2> QED BY <2>2 DEF BuildSignedHeaders, Then, last
  <1>4. IsSeq(fields) /\ Len(fields) = n
    <2>1. fields = [j \in 1 .. n |-> fields[j]]
      OBVIOUS
    <2> HIDE DEF fields
    <2> QED BY <1>2, <2>1, PlainSeq
  <1>5. \A j \in 1 .. n : fields[j] = CanonicalizeHeader(W[SA[j]], canon)
    OBVIOUS
  <1> HIDE DEF fields
  <1>6. fields \in Seq(V) /\ <<last>> \in Seq(V) /\ Len(<<last>>) = 1 /\ <<last>>[1] = last
    <2>1. fields \in Seq(ToSet(fields))
      BY <1>4 DEF IsSeq
    <2> QED BY <2>1
  <1> HIDE DEF V
  <1> DEFINE one == <<last>>
  <1>7. one \in Seq(V) /\ Len(one) = 1 /\ one[1] = last /\ data = Then(fields, one)
    BY <1>3, <1>6
  <1> HIDE DEF one
  <1>8. /\ Len(data) = Len(fields) + Len(one)
        /\ \A j \in 1 .. Len(fields) : data[j] = fields[j]
        /\ \A j \in 1 .. Len(one) : data[Len(fields) + j] = one[j]
    <2>1. /\ Then(fields, one) \in Seq(V) /\ Len(Then(fields, one)) = Len(fields) + Len(one)
          /\ Len(fields) \in Nat /\ Len(one) \in Nat
          /\ \A j \in 1 .. Len(fields) : Then(fields, one)[j] = fields[j]
          /\ \A j \in 1 .. Len(one) : Then(fields, one)[Len(fields) + j] = one[j]
      <3>1. fields \in Seq(V) /\ one \in Seq(V)
        BY <1>6, <1>7
      <3>2. Then(fields, one) \in Seq(V)
        BY <3>1, Joined
      <3>3. Len(Then(fields, one)) = Len(fields) + Len(one)
        BY <3>1, Joined
      <3>4. Len(fields) \in Nat /\ Len(one) \in Nat
        BY <3>1
      <3>5. \A j \in 1 .. Len(fields) : Then(fields, one)[j] = fields[j]
        BY <3>1, Joined
      <3>6. \A j \in 1 .. Len(one) : Then(fields, one)[Len(fields) + j] = one[j]
        BY <3>1, Joined
      <3> QED BY <3>2, <3>3, <3>4, <3>5, <3>6
    <2> QED BY <1>7, <2>1
  <1> HIDE DEF data
  <1>9. data[n + 1] = last
    BY <1>4, <1>7, <1>8
  <1>10. /\ n \in Nat /\ Len(data) = n + 1
         /\ \A j \in 1 .. n : data[j] = CanonicalizeHeader(W[SA[j]], canon)
         /\ data[n + 1] = last
    BY <1>2, <1>4, <1>5, <1>7, <1>8, <1>9
  <1> QED BY <1>10 DEF SA, last, n, data, DataOver

LEMMA NoSelf ==
    ASSUME NEW hs, NEW sig, \A p \in DOMAIN hs : hs[p] # sig
    PROVE  WithoutSelf(hs, sig) = hs
  <1>1. SelfAt(hs, sig) = 0
    BY DEF SelfAt, IsSelf
  <1> QED BY <1>1 DEF WithoutSelf

LEMMA SameSignedData ==
    ASSUME NEW names, IsSeq(names), Empty \notin ToSet(names), NEW canon,
           NEW hs, Shaped(hs), NEW here \in DOMAIN hs, NEW before, Shaped(before),
           NEW unsigned, \A p \in DOMAIN before : before[p] # unsigned,
           \A p \in DOMAIN before : before[p].name = hs[here].name =>
                                       before[p].tags # hs[here].tags,
           BuildSignedHeaders(names, hs, hs[here], canon)
             = BuildSignedHeaders(names, before, unsigned, canon)
    PROVE  /\ CanonicalizeHeader(RemoveBValue(hs[here]), canon)
                = CanonicalizeHeader(RemoveBValue(unsigned), canon)
           /\ \A name : Covered(name, Times(names, name), RemoveAt(hs, here), canon)
                          = Covered(name, Times(names, name), before, canon)
  <1> DEFINE f    == hs[here]
             W    == WithoutSelf(hs, f)
             data == BuildSignedHeaders(names, hs, f, canon)
             n    == Len(Selected(names, W))
             k    == Len(Selected(names, before))
  <1>1. Shaped(W)
    <2>1. W \in Seq(ToSet(hs))
      BY WithoutType DEF Shaped
    <2>2. IsSeq(W) /\ \A j \in DOMAIN W : W[j] \in ToSet(hs)
      <3> HIDE DEF W
      <3> QED BY <2>1, SeqIsSeq
    <2>3. \A x \in ToSet(hs) : FieldShape(x)
      BY DEF Shaped, ToSet
    <2> HIDE DEF W
    <2> QED BY <2>2, <2>3 DEF Shaped
  <1>2. WithoutSelf(before, unsigned) = before /\ IsSeq(before)
    BY NoSelf DEF Shaped
  <1>9. DataOver(names, W, f, canon, data)
    BY <1>1, DataIs DEF Shaped
  <1>10. DataOver(names, before, unsigned, canon, data)
    BY <1>2, DataIs
  <1> HIDE DEF data
  <1>3. /\ n \in Nat /\ Len(data) = n + 1
        /\ \A j \in 1 .. n : data[j] = CanonicalizeHeader(W[Selected(names, W)[j]], canon)
        /\ data[n + 1] = CanonicalizeHeader(RemoveBValue(f), canon)
    BY <1>9 DEF DataOver
  <1>4. /\ k \in Nat /\ Len(data) = k + 1
        /\ \A j \in 1 .. k : data[j] = CanonicalizeHeader(before[Selected(names, before)[j]], canon)
        /\ data[k + 1] = CanonicalizeHeader(RemoveBValue(unsigned), canon)
    BY <1>10 DEF DataOver
  <1>5. n = k
    <2> HIDE DEF n, k, data
    <2> QED BY <1>3, <1>4
  <1>6. CanonicalizeHeader(RemoveBValue(f), canon) = CanonicalizeHeader(RemoveBValue(unsigned), canon)
    BY <1>3, <1>4, <1>5
  <1>7. Alike(names, W, before, canon)
    <2> HIDE DEF data, W
    <2> QED BY <1>3, <1>4, <1>5 DEF Alike
  <1>8. ASSUME NEW name
        PROVE  Covered(name, Times(names, name), RemoveAt(hs, here), canon)
                 = Covered(name, Times(names, name), before, canon)
    <2> DEFINE m  == Times(names, name)
               IW == Instances(name, W)
               IB == Instances(name, before)
    <2>1. m \in Nat
      <3>1. Len(names) \in Nat
        BY DEF IsSeq
      <3> QED BY <3>1, MetOneMore DEF Times
    <2>2. Covered(name, m, W, canon) = Covered(name, m, before, canon)
      BY <1>1, <1>7, CoveredAgree
    <2>3. ~Shows(name, m, W, f)
      <3> SUFFICES ASSUME NEW r \in Nat, r < m, r < Len(IW), IW[Len(IW) - r] = f
                   PROVE  FALSE
        BY DEF Shows
      <3>1. /\ Len(IW) = Times(NamesIn(W), name) /\ Len(IB) = Times(NamesIn(before), name)
            /\ IB \in Seq(ToSet(before)) /\ Len(IB) \in Nat
        BY <1>1, <1>2, InstancesByRank DEF Shaped
      <3>2. /\ r < Times(NamesIn(before), name)
            /\ CanonicalizeHeader(IW[Times(NamesIn(W), name) - r], canon)
                 = CanonicalizeHeader(IB[Times(NamesIn(before), name) - r], canon)
        BY <1>1, <1>7, <3>1, AgreeOneWay
      <3> DEFINE g == IB[Len(IB) - r]
      <3>3. g \in ToSet(before)
        <4>1. Len(IB) - r \in 1 .. Len(IB)
          BY <3>1, <3>2
        <4> HIDE DEF IB
        <4> QED BY <3>1, <4>1
      <3>4. CanonicalizeHeader(f, canon) = CanonicalizeHeader(g, canon)
        BY <3>1, <3>2
      <3>5. FieldShape(g) /\ FieldShape(f) /\ (g.name = f.name => g.tags # f.tags)
        BY <3>3 DEF Shaped, ToSet
      <3> HIDE DEF f, g
      <3> QED BY <3>4, <3>5, CanonKeeps
    <2>4. Covered(name, m, W, canon) = Covered(name, m, RemoveAt(hs, here), canon)
      BY <2>1, <2>3, OthersCovered DEF Shaped
    <2> QED BY <2>2, <2>4
  <1> QED BY <1>6, <1>8
-------------------------------------------------------------------------------
(* What Sign writes. *)

LEMMA DefaultLists ==
    IsSeq(DefaultSignedHeaders) /\ IsSeq(DefaultOversignedHeaders)
  <1>1. ASSUME NEW s, NEW S, s \in Seq(S) PROVE IsSeq(s)
    BY <1>1, SeqIsSeq
  <1>2. DefaultSignedHeaders \in
          Seq({ "from", "reply-to", "subject", "date", "to", "cc",
                "resent-date", "resent-from", "resent-to", "resent-cc",
                "in-reply-to", "references", "list-id", "list-help", "list-unsubscribe",
                "list-subscribe", "list-post", "list-owner", "list-archive", "message-id",
                "sender", "mime-version", "content-type", "content-transfer-encoding" })
    BY DEF DefaultSignedHeaders
  <1>3. DefaultOversignedHeaders \in
          Seq({ "from", "to", "cc", "subject", "reply-to", "date", "message-id",
                "content-type", "mime-version" })
    BY DEF DefaultOversignedHeaders
  <1> QED BY <1>1, <1>2, <1>3

(* The options with their defaults filled in.                              *)
LEMMA DefaultedIs ==
    ASSUME NEW opt \in OptionSets
    PROVE  LET full == Defaulted(opt)
           IN  /\ full = [ domain |-> opt.domain, selector |-> opt.selector, key |-> opt.key,
                           headers |-> full.headers, oversign |-> full.oversign,
                           headerCanon |-> full.headerCanon, bodyCanon |-> full.bodyCanon,
                           time |-> opt.time, expiration |-> opt.expiration ]
               /\ IsSeq(full.headers) /\ IsSeq(full.oversign)
  <1> DEFINE hc == IF opt.headerCanon = Empty THEN "relaxed" ELSE opt.headerCanon
             bc == IF opt.bodyCanon = Empty THEN "relaxed" ELSE opt.bodyCanon
             bare == opt.headers = <<>> /\ opt.oversign = <<>>
             hs == IF bare THEN DefaultSignedHeaders ELSE opt.headers
             os == IF bare THEN DefaultOversignedHeaders ELSE opt.oversign
             one == [opt EXCEPT !.headerCanon = hc]
             two == [one EXCEPT !.bodyCanon = bc]
             three == [two EXCEPT !.headers = hs]
             four == [three EXCEPT !.oversign = os]
             filled(a, b, c, d) ==
                [ domain |-> opt.domain, selector |-> opt.selector, key |-> opt.key,
                  headers |-> a, oversign |-> b, headerCanon |-> c, bodyCanon |-> d,
                  time |-> opt.time, expiration |-> opt.expiration ]
  <1>1. /\ opt = filled(opt.headers, opt.oversign, opt.headerCanon, opt.bodyCanon)
        /\ opt.headers \in Seq(STRING) /\ opt.oversign \in Seq(STRING)
    BY OptionShape
  <1>2. Defaulted(opt) = four
    BY <1>1 DEF Defaulted
  <1>3. IsSeq(opt.headers) /\ IsSeq(opt.oversign)
    BY <1>1, SeqIsSeq
  <1>4. IsSeq(hs) /\ IsSeq(os)
    BY <1>3, DefaultLists
  <1> HIDE DEF hc, bc, hs, os
  <1>5. one = filled(opt.headers, opt.oversign, hc, opt.bodyCanon)
    BY <1>1
  <1> HIDE DEF one
  <1>6. two = filled(opt.headers, opt.oversign, hc, bc)
    BY <1>5
  <1> HIDE DEF two
  <1>7. three = filled(hs, opt.oversign, hc, bc)
    BY <1>6
  <1> HIDE DEF three
  <1>8. four = filled(hs, os, hc, bc)
    BY <1>7
  <1> HIDE DEF four
  <1> QED BY <1>2, <1>4, <1>8

LEMMA CountIsNat ==
    ASSUME NEW hs, IsSeq(hs), NEW name
    PROVE  CountOf(hs, name) \in Nat
  <1>1. IsFiniteSet(1 .. Len(hs)) /\ { p \in DOMAIN hs : hs[p].name = name } \in SUBSET (1 .. Len(hs))
    BY FS_Interval DEF IsSeq
  <1> QED BY <1>1, FS_Subset, FS_CardinalityType DEF CountOf

LEMMA ListedNames ==
    ASSUME NEW hs, IsSeq(hs), NEW want, IsSeq(want), NEW oversign, IsSeq(oversign), NEW S,
           ToSet(want \o oversign) \subseteq S
    PROVE  signedHeaderList(hs, want, oversign) \in Seq(S)
  <1> DEFINE names == want \o oversign
             order == FirstNamed(names)
             listed(name) == CountOf(hs, name) + (IF Contains(oversign, name) THEN 1 ELSE 0)
             part(j) == IF Contains(SubSeq(names, 1, j - 1), names[j]) THEN <<>> ELSE <<names[j]>>
             n == Len(names)
  <1>1. n \in Nat /\ DOMAIN names = 1 .. n /\ \A j \in 1 .. n : names[j] \in S
    <2> DEFINE R == ToSet(want) \cup ToSet(oversign)
    <2>1. want \in Seq(R) /\ oversign \in Seq(R)
      BY DEF IsSeq
    <2>2. names \in Seq(R)
      BY <2>1
    <2> HIDE DEF names, R
    <2> QED BY <2>2 DEF ToSet, names
  <1>2. order \in Seq(S)
    <2> DEFINE parts == [j \in 1 .. n |-> part(j)]
    <2>1. ASSUME NEW j \in 1 .. n PROVE part(j) \in Seq(S)
      <3>1. names[j] \in S
        BY <1>1
      <3> HIDE DEF names
      <3> QED BY <3>1
    <2>2. order = FlattenSeq(parts)
      BY <1>1 DEF FirstNamed
    <2> HIDE DEF part, names, order
    <2>3. parts \in [1 .. n -> Seq(S)]
      BY <2>1
    <2> HIDE DEF parts, n
    <2> QED BY <1>1, <2>2, <2>3, FlattenType
  <1> HIDE DEF names, order
  <1>3. ASSUME NEW name PROVE listed(name) \in Nat
    <2>1. CountOf(hs, name) \in Nat
      BY CountIsNat
    <2> QED BY <2>1
  <1> HIDE DEF listed
  <1> DEFINE parts == [j \in 1 .. Len(order) |-> [c \in 1 .. listed(order[j]) |-> order[j]]]
  <1>4. parts \in [1 .. Len(order) -> Seq(S)]
    <2>1. ASSUME NEW j \in 1 .. Len(order)
          PROVE  [c \in 1 .. listed(order[j]) |-> order[j]] \in Seq(S)
      <3>1. order[j] \in S /\ listed(order[j]) \in Nat
        BY <1>2, <1>3
      <3> QED BY <3>1
    <2> QED BY <2>1
  <1>5. signedHeaderList(hs, want, oversign) = FlattenSeq(parts)
    <2>1. DOMAIN order = 1 .. Len(order)
      BY <1>2
    <2> QED BY <2>1 DEF signedHeaderList, listed, order, names
  <1> HIDE DEF parts
  <1>6. Len(order) \in Nat
    BY <1>2
  <1> QED BY <1>4, <1>5, <1>6, FlattenType

(* What is written: a complete tag list over the data of the field as it   *)
(* stood with an empty b=.                                                 *)
Unsigned(f) == [name |-> "dkim-signature", text |-> <<>>, ws |-> 1,
                tags |-> [f.tags EXCEPT !.b = Empty]]

SignedField(f, hs, bd) ==
    LET T == f.tags
    IN  /\ f = [name |-> "dkim-signature", text |-> <<>>, ws |-> 1, tags |-> T]
        /\ TagRecord(T)
        /\ T.h \in Seq(FieldNames)
        /\ T.l = Absent /\ ToALabels(T.d) = T.d
        /\ HeaderCanon(T) = T.c[1] /\ BodyCanon(T) = T.c[2]
        /\ T.bh = CanonicalizeBody(bd, T.c[2])
        /\ T.b = [by |-> T.b.by, over |-> BuildSignedHeaders(T.h, hs, Unsigned(f), T.c[1])]

LEMMA ValidStays ==
    ASSUME NEW name, ValidDNSName(name), name \in Seq(STRING) \cup {Empty}
    PROVE  name \in Seq(STRING) /\ ToALabels(name) = name
  <1>1. IsName(name) /\ ToSet(name) \subseteq DNSLabels
    BY DEF ValidDNSName
  <1>2. name \in Seq(STRING)
    BY <1>1 DEF IsName
  <1>3. \A j \in DOMAIN name : name[j] \notin DOMAIN ALabelOf
    BY <1>1, LabelsStay DEF ToSet
  <1>4. ToALabels(name) = [j \in DOMAIN name |-> name[j]]
    BY <1>1, <1>3 DEF ToALabels
  <1> QED BY <1>2, <1>4

LEMMA SignMakes ==
    ASSUME NEW opt \in OptionSets, NEW hs, IsSeq(hs), NEW bd, ~SignError(hs, opt)
    PROVE  SignedField(Sign(hs, bd, opt), hs, bd)
  <1> DEFINE full == Defaulted(opt)
             list == signedHeaderList(hs, full.headers, full.oversign)
             tags == UnsignedTags(hs, bd, opt)
             hc   == full.headerCanon
             bc   == full.bodyCanon
             field == [name |-> "dkim-signature", text |-> <<>>, ws |-> 1, tags |-> tags]
             over  == BuildSignedHeaders(tags.h, hs, field, tags.c[1])
             by    == [kind |-> opt.key.kind, id |-> opt.key.id]
             sig   == [by |-> by, over |-> over]
             f     == [field EXCEPT !.tags.b = sig]
             T     == [tags EXCEPT !.b = sig]
  <1>1. /\ full.domain = opt.domain /\ full.selector = opt.selector
        /\ IsSeq(full.headers) /\ IsSeq(full.oversign)
    BY DefaultedIs
  <1>2. /\ ValidDNSName(opt.domain) /\ ValidDNSName(opt.selector)
        /\ hc \in {"simple", "relaxed"} /\ bc \in {"simple", "relaxed"}
        /\ ToSet(full.headers \o full.oversign) \subseteq FieldNames
    BY DEF SignError, HeaderListError
  <1>3. /\ opt.domain \in Seq(STRING) /\ ToALabels(opt.domain) = opt.domain
        /\ opt.selector \in Seq(STRING)
    BY <1>2, OptionShape, ValidStays
  <1> DEFINE hds == full.headers
             ovs == full.oversign
  <1>4. list \in Seq(FieldNames)
    <2>1. IsSeq(hds) /\ IsSeq(ovs) /\ ToSet(hds \o ovs) \subseteq FieldNames
      BY <1>1, <1>2
    <2>2. list = signedHeaderList(hs, hds, ovs)
      OBVIOUS
    <2> HIDE DEF hds, ovs, list
    <2> QED BY <2>1, <2>2, ListedNames
  <1>5. tags = [ strict |-> tags.strict, v |-> tags.v, a |-> tags.a, c |-> <<hc, bc>>,
                 d |-> opt.domain, s |-> opt.selector, t |-> tags.t, x |-> tags.x,
                 h |-> list, bh |-> CanonicalizeBody(bd, bc), b |-> Empty,
                 i |-> Absent, l |-> Absent, q |-> Absent ]
    <2>1. full.domain = opt.domain /\ full.selector = opt.selector
      BY <1>1
    <2> HIDE DEF full
    <2> QED BY <2>1 DEF UnsignedTags, full
  <1>6. Sign(hs, bd, opt) = f
    BY DEF Sign
  <1> HIDE DEF tags, list, hc, bc
  <1>7. over = BuildSignedHeaders(list, hs, field, hc)
    BY <1>5
  <1>8. f = [name |-> "dkim-signature", text |-> <<>>, ws |-> 1, tags |-> T]
    BY <1>5
  <1> HIDE DEF over, by
  <1>9. T = [ strict |-> tags.strict, v |-> tags.v, a |-> tags.a, c |-> <<hc, bc>>,
              d |-> opt.domain, s |-> opt.selector, t |-> tags.t, x |-> tags.x,
              h |-> list, bh |-> CanonicalizeBody(bd, bc), b |-> sig,
              i |-> Absent, l |-> Absent, q |-> Absent ]
    BY <1>5
  <1> HIDE DEF f
  <1>10. f.tags = T
    BY <1>8
  <1> HIDE DEF T
  <1>11. [T EXCEPT !.b = Empty] = tags
    BY <1>5, <1>9
  <1>12. Unsigned(f) = field
    BY <1>10, <1>11 DEF Unsigned
  <1> HIDE DEF field
  <1>13. /\ T.d = opt.domain /\ T.s = opt.selector /\ T.i = Absent /\ T.l = Absent
         /\ T.h = list /\ T.c = <<hc, bc>> /\ T.b = sig /\ T.bh = CanonicalizeBody(bd, bc)
    BY <1>9
  <1>14. TagRecord(T)
    <2>1. T = [ strict |-> T.strict, v |-> T.v, a |-> T.a, b |-> T.b,
                bh |-> T.bh, c |-> T.c, d |-> T.d, s |-> T.s, h |-> T.h,
                i |-> T.i, l |-> T.l, q |-> T.q, t |-> T.t, x |-> T.x ]
      BY <1>9
    <2>2. T.h \in Seq(ToSet(T.h))
      BY <1>4, <1>13, SeqIsSeq DEF IsSeq
    <2> QED BY <1>3, <1>13, <2>1, <2>2 DEF TagRecord, IsName
  <1>15. T.c \notin {Absent, Empty, Junk} /\ T.c[1] = hc /\ T.c[2] = bc /\ Len(T.c) = 2
    BY <1>2, <1>13, NamesAreValues
  <1>16. HeaderCanon(T) = T.c[1] /\ BodyCanon(T) = T.c[2]
    BY <1>15 DEF HeaderCanon, BodyCanon, Present, IsName
  <1>17. T.b = [by |-> T.b.by, over |-> BuildSignedHeaders(T.h, hs, Unsigned(f), T.c[1])]
    <2>1. T.b.by = by
      BY <1>13
    <2> QED BY <1>7, <1>12, <1>13, <1>15, <2>1
  <1>18. SignedField(f, hs, bd)
    BY <1>3, <1>4, <1>8, <1>10, <1>13, <1>14, <1>15, <1>16, <1>17 DEF SignedField
  <1> QED BY <1>6, <1>18
-------------------------------------------------------------------------------
(* A pass on a field that carries the tags of a signature made. *)

LEMMA NoBValue ==
    ASSUME NEW f, FieldShape(f), TagRecord(f.tags), f.tags.b # Absent
    PROVE  RemoveBValue(f) = [name |-> f.name, text |-> f.text, ws |-> f.ws,
                              tags |-> [f.tags EXCEPT !.b = Empty]]
  <1>1. RemoveBValue(f) = [f EXCEPT !.tags.b = Empty]
    BY DEF RemoveBValue
  <1> DEFINE emptied == [f.tags EXCEPT !.b = Empty]
  <1>2. RemoveBValue(f) = [f EXCEPT !.tags = emptied]
    BY <1>1 DEF FieldShape
  <1> HIDE DEF emptied
  <1>3. RemoveBValue(f) = [name |-> f.name, text |-> f.text, ws |-> f.ws, tags |-> emptied]
    BY <1>2 DEF FieldShape
  <1> QED BY <1>3 DEF emptied

LEMMA SameButB ==
    ASSUME NEW f, FieldShape(f), NEW g, FieldShape(g), f.tags = g.tags,
           TagRecord(f.tags), f.tags.b # Absent, NEW canon,
           CanonicalizeHeader(RemoveBValue(f), canon)
             = CanonicalizeHeader(RemoveBValue(g), canon)
    PROVE  CanonicalizeHeader(f, canon) = CanonicalizeHeader(g, canon)
  <1> DEFINE rest == [f.tags EXCEPT !.b = Empty]
             fb == [name |-> f.name, text |-> f.text, ws |-> f.ws, tags |-> rest]
             gb == [name |-> g.name, text |-> g.text, ws |-> g.ws, tags |-> rest]
  <1>1. RemoveBValue(f) = fb /\ RemoveBValue(g) = gb
    BY NoBValue
  <1>2. FieldShape(fb) /\ FieldShape(gb)
    BY DEF FieldShape
  <1>3. fb.name = f.name /\ fb.text = f.text /\ fb.ws = f.ws
        /\ gb.name = g.name /\ gb.text = g.text /\ gb.ws = g.ws
    OBVIOUS
  <1> HIDE DEF fb, gb
  <1>4. fb.name = gb.name /\ fb.text = gb.text
    BY <1>1, <1>2, CanonKeeps
  <1>5. CASE canon = "relaxed"
    <2>1. f.name = g.name /\ f.text = g.text
      BY <1>3, <1>4
    <2>2. [f EXCEPT !.ws = 0] = [g EXCEPT !.ws = 0]
      BY <2>1 DEF FieldShape
    <2> QED BY <1>5, <2>2 DEF CanonicalizeHeader
  <1>6. CASE canon # "relaxed"
    <2>1. fb = gb
      BY <1>1, <1>6 DEF CanonicalizeHeader
    <2>2. f = g
      BY <1>3, <2>1 DEF FieldShape
    <2> QED BY <2>2
  <1> QED BY <1>5, <1>6

(* A signature is none of the values a b= may have besides.                *)
SignaturesAreValues == \A by, over : [by |-> by, over |-> over] \notin {Absent, Empty}

(* The block a signature was made over does not hold it yet: a field of    *)
(* its tags is one whose b= has been spoilt.                               *)
Fresh(e) ==
    \A p \in DOMAIN e.headers :
       /\ e.headers[p].name = "dkim-signature" =>
             /\ e.headers[p].tags.b # Empty
             /\ e.headers[p].tags = e.field.tags => e.headers[p].tags.b = Junk

LEMMA PassOnSigned ==
    ASSUME Shaped(headers), NEW here \in DOMAIN headers,
           headers[here].name = "dkim-signature",
           NEW e, SignedField(e.field, e.headers, e.body), Shaped(e.headers), Fresh(e),
           headers[here].tags = e.field.tags,
           NEW clock, NEW answer,
           Verdict(headers, body, entry, headers[here], clock, answer) = "pass"
    PROVE  /\ SameField(e, headers[here])
           /\ ALabelTags(headers[here].tags).d = e.field.tags.d
           /\ SameContent(e, RemoveAt(headers, here), body)
  <1> DEFINE f    == headers[here]
             T    == e.field.tags
             sent == ALabelTags(T)
             data == BuildSignedHeaders(sent.h, headers, f, HeaderCanon(sent))
             U    == Unsigned(e.field)
             canon == T.c[1]
  <1>1. /\ TagRecord(T) /\ T.h \in Seq(FieldNames) /\ T.l = Absent /\ ToALabels(T.d) = T.d
        /\ HeaderCanon(T) = T.c[1] /\ BodyCanon(T) = T.c[2]
        /\ T.bh = CanonicalizeBody(e.body, T.c[2])
        /\ T.b.over = BuildSignedHeaders(T.h, e.headers, U, canon)
        /\ e.field = [name |-> "dkim-signature", text |-> <<>>, ws |-> 1, tags |-> T]
    <2> HIDE DEF T, U
    <2>1. T.b = [by |-> T.b.by, over |-> BuildSignedHeaders(T.h, e.headers, U, T.c[1])]
      BY DEF SignedField, T, U
    <2>2. T.b.over = BuildSignedHeaders(T.h, e.headers, U, canon)
      <3> DEFINE o == BuildSignedHeaders(T.h, e.headers, U, T.c[1])
      <3> HIDE DEF o
      <3>1. T.b = [by |-> T.b.by, over |-> o]
        BY <2>1 DEF o
      <3> QED BY <3>1 DEF o
    <2> QED BY <2>2 DEF SignedField, T, U
  <1>2. /\ sent.h = T.h /\ sent.l = T.l /\ sent.bh = T.bh /\ sent.b = T.b
        /\ sent.c = T.c /\ sent.d = ToALabels(T.d)
    BY <1>1, ALabelFields
  <1>3. HeaderCanon(sent) = canon /\ BodyCanon(sent) = T.c[2]
    BY <1>1, <1>2 DEF HeaderCanon, BodyCanon
  <1>4. Verdict(headers, body, entry, f, clock, answer) = "pass" /\ f.tags = T
    OBVIOUS
  <1>5. /\ MechanismOK(sent, body) /\ HashedBody(sent, body) = sent.bh
        /\ sent.b.over = data
    <2>1. MechanismOK(sent, body) /\ HashedBody(sent, body) = sent.bh
      BY <1>4, PassedChecks
    <2>2. \E key : VerifyHash(key, data, sent.b)
      <3> DEFINE stands(rec) == VerifyHash(parsePublicKey(KeyTypeOf(sent.a), rec.p), data, sent.b)
      <3>1. PICK rec \in ToSet(answer.records) : stands(rec)
        BY <1>4, PassedChecks
      <3> QED BY <3>1
    <2> QED BY <2>1, <2>2 DEF VerifyHash
  <1>6. sent.b # Junk
    BY <1>4, VerdictByStage
  <1>7. T.b \notin {Absent, Empty, Junk}
    BY <1>2, <1>5, <1>6 DEF MechanismOK, RequiredTags, NonEmpty
  <1> HIDE DEF sent
  <1>8. BuildSignedHeaders(T.h, headers, f, canon) = BuildSignedHeaders(T.h, e.headers, U, canon)
    BY <1>1, <1>2, <1>3, <1>5
  <1> HIDE DEF data
  <1>9. U = [name |-> "dkim-signature", text |-> <<>>, ws |-> 1, tags |-> [T EXCEPT !.b = Empty]]
    BY DEF Unsigned
  <1>10. U.name = "dkim-signature" /\ U.tags.b = Empty
    <2>1. [T EXCEPT !.b = Empty].b = Empty
      <3> HIDE DEF T
      <3> QED BY <1>1 DEF TagRecord
    <2> HIDE DEF U, T
    <2> QED BY <1>9, <2>1
  <1> HIDE DEF U
  <1>11. \A p \in DOMAIN e.headers : e.headers[p] # U
    BY <1>10 DEF Fresh
  <1>12. \A p \in DOMAIN e.headers : e.headers[p].name = f.name => e.headers[p].tags # f.tags
    BY <1>7 DEF Fresh
  <1>13. IsSeq(T.h) /\ Empty \notin ToSet(T.h)
    <2> HIDE DEF T
    <2> QED BY <1>1, SeqIsSeq, NoNameIsEmpty DEF ToSet
  <1> DEFINE names == T.h
             before == e.headers
  <1>14. /\ CanonicalizeHeader(RemoveBValue(f), canon) = CanonicalizeHeader(RemoveBValue(U), canon)
         /\ \A name : Covered(name, Times(names, name), RemoveAt(headers, here), canon)
                        = Covered(name, Times(names, name), before, canon)
    <2>1. /\ IsSeq(names) /\ Empty \notin ToSet(names) /\ Shaped(before)
          /\ \A p \in DOMAIN before : before[p] # U
          /\ \A p \in DOMAIN before : before[p].name = headers[here].name =>
                                       before[p].tags # headers[here].tags
          /\ BuildSignedHeaders(names, headers, headers[here], canon)
               = BuildSignedHeaders(names, before, U, canon)
      BY <1>8, <1>11, <1>12, <1>13
    <2> HIDE DEF names, before, canon, T
    <2> QED BY <2>1, SameSignedData
  <1>15. SameField(e, f)
    <2>1. FieldShape(f) /\ FieldShape(e.field)
      <3>1. FieldShape(e.field)
        <4> HIDE DEF T
        <4> QED BY <1>1 DEF FieldShape
      <3> QED BY <3>1 DEF Shaped
    <2>2. RemoveBValue(U) = RemoveBValue(e.field)
      <3>1. RemoveBValue(e.field) = U
        BY <1>1, <1>7, <1>9, <2>1, NoBValue
      <3>2. RemoveBValue(U) = U
        <4> DEFINE Z == [T EXCEPT !.b = Empty]
        <4>1. Z.b = Empty /\ [Z EXCEPT !.b = Empty] = Z
          <5> HIDE DEF T
          <5> QED BY <1>1 DEF TagRecord
        <4> HIDE DEF Z
        <4>2. U.tags = Z /\ U = [name |-> "dkim-signature", text |-> <<>>, ws |-> 1, tags |-> Z]
          BY <1>9 DEF Z
        <4>3. RemoveBValue(U) = [U EXCEPT !.tags.b = Empty]
          BY <1>10, SentinelsDiffer DEF RemoveBValue
        <4> QED BY <4>1, <4>2, <4>3
      <3> QED BY <3>1, <3>2
    <2>3. CanonicalizeHeader(RemoveBValue(f), canon)
            = CanonicalizeHeader(RemoveBValue(e.field), canon)
      BY <1>14, <2>2
    <2>4. f.tags = e.field.tags /\ TagRecord(f.tags) /\ f.tags.b # Absent
      BY <1>1, <1>4, <1>7
    <2>5. CanonicalizeHeader(f, canon) = CanonicalizeHeader(e.field, canon)
      <3> HIDE DEF f, canon, T
      <3> QED BY <2>1, <2>3, <2>4, SameButB
    <2> QED BY <1>4, <2>5 DEF SameField
  <1>16. SameContent(e, RemoveAt(headers, here), body)
    <2>1. ASSUME NEW name
          PROVE  Cardinality({ j \in DOMAIN names : names[j] = name }) = Times(names, name)
      <3>1. DOMAIN names = 1 .. Len(names)
        BY <1>13 DEF IsSeq
      <3>2. { j \in DOMAIN names : names[j] = name } = Met(names, name, Len(names))
        BY <3>1 DEF Met
      <3> QED BY <3>2 DEF Times
    <2>2. CanonicalizeBody(body, T.c[2]) = CanonicalizeBody(e.body, T.c[2])
      BY <1>1, <1>2, <1>3, <1>5 DEF HashedBody, Present
    <2>3. ASSUME NEW name
          PROVE  Covered(name, Cardinality({ j \in DOMAIN names : names[j] = name }),
                         RemoveAt(headers, here), canon)
                   = Covered(name, Cardinality({ j \in DOMAIN names : names[j] = name }),
                             before, canon)
      BY <1>14, <2>1
    <2> QED BY <2>2, <2>3 DEF SameContent
  <1>17. ALabelTags(f.tags).d = e.field.tags.d
    BY <1>1, <1>2, <1>4 DEF sent
  <1> QED BY <1>15, <1>16, <1>17
-------------------------------------------------------------------------------
(* The invariant.  A signature field on the wire, or as it was read off    *)
(* it, carries the tags of a signature made, unless its b= was spoilt; and *)
(* of the signatures of the same tags one was made before any stood there. *)

GoodLine(line, evs) ==
    line.kind = "field" =>
       /\ line = FieldLine(line.field)
       /\ WireField(line.field)
       /\ line.field.name = "dkim-signature" => \E ev \in evs : line.field.tags = ev.field.tags

OnWire(ls, evs) == IsSeq(ls) /\ \A p \in DOMAIN ls : GoodLine(ls[p], evs)

ReadWell(hs, evs) ==
    /\ Shaped(hs)
    /\ \A p \in DOMAIN hs : hs[p].name = "dkim-signature" =>
          \/ \E ev \in evs : hs[p].tags = ev.field.tags
          \/ "b" \in DOMAIN hs[p].tags /\ hs[p].tags.b = Junk

SignedWell(evs) ==
    \A ev \in evs :
       /\ SignedField(ev.field, ev.headers, ev.body) /\ Shaped(ev.headers)
       /\ \E e \in evs : e.field.tags = ev.field.tags /\ Fresh(e)

InTransit ==
    /\ pc = "transit" /\ results = <<>> /\ seen = <<>> /\ at = 1 /\ call = NoCall
    /\ entry = "VerifySignature" /\ zone \in Zones /\ now \in 0 .. MaxTime

AtReceiver == pc # "transit" /\ IInv /\ Told /\ ReadWell(headers, signed)

MailInv == OnWire(lines, signed) /\ SignedWell(signed) /\ (InTransit \/ AtReceiver)

LEMMA OnWireFrom ==
    ASSUME NEW evs, NEW S, NEW ls \in Seq(S), \A x \in S : GoodLine(x, evs)
    PROVE  OnWire(ls, evs)
  BY SeqIsSeq DEF OnWire

LEMMA GoodOf ==
    ASSUME NEW evs, NEW ls, OnWire(ls, evs)
    PROVE  ls \in Seq(ToSet(ls)) /\ \A x \in ToSet(ls) : GoodLine(x, evs)
  BY DEF OnWire, IsSeq, ToSet

LEMMA OnWireGrows ==
    ASSUME NEW evs, NEW more, evs \subseteq more, NEW ls, OnWire(ls, evs)
    PROVE  OnWire(ls, more)
  BY DEF OnWire, GoodLine

LEMMA OnTop ==
    ASSUME NEW evs, NEW ls, OnWire(ls, evs), NEW line, GoodLine(line, evs)
    PROVE  OnWire(<<line>> \o ls, evs)
  <1> DEFINE S == ToSet(ls) \cup {line}
             one == <<line>>
  <1>1. ls \in Seq(S) /\ one \in Seq(S)
    BY GoodOf
  <1>2. \A x \in S : GoodLine(x, evs)
    BY GoodOf
  <1> HIDE DEF S, one
  <1>3. one \o ls \in Seq(S)
    BY <1>1
  <1>4. OnWire(one \o ls, evs)
    BY <1>2, <1>3, OnWireFrom
  <1> QED BY <1>4 DEF one

LEMMA LineChanged ==
    ASSUME NEW evs, NEW ls, OnWire(ls, evs), NEW p \in DOMAIN ls, NEW line, GoodLine(line, evs)
    PROVE  OnWire([ls EXCEPT ![p] = line], evs)
  <1> DEFINE S == ToSet(ls) \cup {line}
  <1>1. ls \in Seq(S)
    BY GoodOf
  <1>2. \A x \in S : GoodLine(x, evs)
    BY GoodOf
  <1>3. line \in S
    OBVIOUS
  <1> HIDE DEF S
  <1>4. [ls EXCEPT ![p] = line] \in Seq(S)
    BY <1>1, <1>3
  <1> QED BY <1>2, <1>4, OnWireFrom

LEMMA LinesDropped ==
    ASSUME NEW evs, NEW ls, OnWire(ls, evs), NEW p \in DOMAIN ls, NEW q \in p .. Len(ls)
    PROVE  OnWire(SubSeq(ls, 1, p - 1) \o SubSeq(ls, q + 1, Len(ls)), evs)
  <1> DEFINE S == ToSet(ls)
             n == Len(ls)
             a == SubSeq(ls, 1, p - 1)
             z == SubSeq(ls, q + 1, n)
  <1>1. ls \in Seq(S) /\ n \in Nat /\ p \in 1 .. n /\ \A x \in S : GoodLine(x, evs)
    <2>1. ls \in Seq(S) /\ \A x \in S : GoodLine(x, evs)
      BY GoodOf
    <2> HIDE DEF S
    <2> QED BY <2>1
  <1> HIDE DEF S, n
  <1>2. p - 1 \in 0 .. n /\ n \in 0 .. n /\ 1 \in Nat \ {0} /\ q + 1 \in Nat \ {0}
    BY <1>1
  <1>3. a \in Seq(S) /\ z \in Seq(S)
    BY <1>1, <1>2, StretchType DEF n
  <1> HIDE DEF a, z
  <1>4. a \o z \in Seq(S)
    BY <1>3
  <1>5. OnWire(a \o z, evs)
    BY <1>1, <1>4, OnWireFrom
  <1> QED BY <1>5 DEF a, z, n

(* What the receiver's SplitMessage makes of what is on the wire.          *)
LEMMA ReadIsWell ==
    ASSUME NEW evs, NEW ls, OnWire(ls, evs)
    PROVE  ReadWell(parseHeaders(ls), evs)
  <1> DEFINE hs == parseHeaders(ls)
  <1>1. IsSeq(ls) /\ \A f \in FieldsOf(ls) :
           /\ WireField(f)
           /\ f.name = "dkim-signature" => \E ev \in evs : f.tags = ev.field.tags
    BY DEF OnWire, GoodLine, FieldsOf
  <1>2. ReadOff(hs, ls)
    BY <1>1, ParseReads
  <1> HIDE DEF hs
  <1>3. IsSeq(hs)
    BY <1>2 DEF ReadOff
  <1>4. ASSUME NEW p \in DOMAIN hs
        PROVE  /\ FieldShape(hs[p])
               /\ hs[p].name = "dkim-signature" =>
                     \/ \E ev \in evs : hs[p].tags = ev.field.tags
                     \/ "b" \in DOMAIN hs[p].tags /\ hs[p].tags.b = Junk
    <2>1. PICK f \in FieldsOf(ls) : ReadFrom(hs[p], f)
      BY <1>2 DEF ReadOff
    <2> QED BY <1>1, <2>1 DEF ReadFrom
  <1>5. ReadWell(hs, evs)
    BY <1>3, <1>4 DEF ReadWell, Shaped
  <1> QED BY <1>5 DEF hs

-------------------------------------------------------------------------------
(* The steps, one lemma each. *)

LEMMA DraftsStart ==
    ASSUME MailInit
    PROVE  MailInv
  <1>1. PICK draft \in Drafts : lines = draft.lines
    BY DEF MailInit
  <1>2. IsSeq(lines)
    BY <1>1, DraftShape DEF IsSeq
  <1>3. ASSUME NEW p \in DOMAIN lines, lines[p].kind = "field"
        PROVE  GoodLine(lines[p], signed)
    <2>1. lines[p] = FieldLine(lines[p].field) /\ PlainField(lines[p].field)
      BY <1>1, <1>3, DraftShape DEF FieldLine
    <2> QED BY <2>1 DEF GoodLine, PlainField, WireField, FieldShape
  <1>4. OnWire(lines, signed)
    BY <1>2, <1>3 DEF OnWire, GoodLine
  <1>5. SignedWell(signed)
    BY DEF MailInit, SignedWell
  <1>6. InTransit
    BY ClockAssumption, ClockStarts DEF MailInit, InTransit
  <1> QED BY <1>4, <1>5, <1>6 DEF MailInv

(* What a signer or a relay leaves alone.                                  *)
LEMMA HopStays ==
    ASSUME MailInv, Hop
    PROVE  InTransit'
  <1>1. UNCHANGED vars /\ pc = "transit"
    BY DEF Hop
  <1>2. InTransit
    BY <1>1 DEF MailInv, AtReceiver
  <1> QED BY <1>1, <1>2 DEF InTransit, vars, message, world, progress

LEMMA SignKeeps ==
    ASSUME SignaturesAreValues, MailInv, SignMessage
    PROVE  MailInv'
  <1> DEFINE parsed == parseHeaders(lines)
  <1>1. PICK opt \in OptionSets :
           LET field == Sign(parsed, text, opt)
           IN  /\ ~SignError(parsed, opt)
               /\ lines' = <<FieldLine(field)>> \o lines
               /\ signed' = signed \cup {[field |-> field, headers |-> parsed, body |-> text]}
    BY DEF SignMessage
  <1> DEFINE field == Sign(parsed, text, opt)
             made  == [field |-> field, headers |-> parsed, body |-> text]
  <1>2. ReadWell(parsed, signed) /\ Shaped(parsed)
    BY ReadIsWell DEF MailInv, ReadWell
  <1>3. SignedField(field, parsed, text)
    BY <1>1, <1>2, SignMakes DEF Shaped
  <1>4. made.field = field /\ made.headers = parsed /\ made.body = text
    OBVIOUS
  <1>5. lines' = <<FieldLine(field)>> \o lines /\ signed' = signed \cup {made}
    BY <1>1
  <1> HIDE DEF field, parsed, made
  <1>6. WireField(field) /\ field.name = "dkim-signature"
    <2>1. /\ field = [name |-> "dkim-signature", text |-> <<>>, ws |-> 1, tags |-> field.tags]
          /\ TagRecord(field.tags)
      BY <1>3 DEF SignedField
    <2>2. field.name = "dkim-signature" /\ FieldShape(field)
      BY <2>1 DEF FieldShape
    <2>3. "b" \in DOMAIN field.tags
      <3> DEFINE tags == field.tags
      <3> HIDE DEF tags
      <3>1. TagRecord(tags)
        BY <2>1 DEF tags
      <3>2. "b" \in DOMAIN tags
        BY <3>1 DEF TagRecord
      <3> QED BY <3>2 DEF tags
    <2> QED BY <2>2, <2>3 DEF WireField
  <1>7. GoodLine(FieldLine(field), signed')
    <2>1. FieldLine(field).field = field
      BY DEF FieldLine
    <2>2. \E ev \in signed' : field.tags = ev.field.tags
      BY <1>4, <1>5
    <2> QED BY <1>6, <2>1, <2>2 DEF GoodLine
  <1>8. OnWire(lines, signed') /\ OnWire(lines, signed)
    BY <1>5, OnWireGrows DEF MailInv
  <1>9. OnWire(lines', signed')
    BY <1>5, <1>7, <1>8, OnTop
  <1>10. \E e \in signed' : e.field.tags = made.field.tags /\ Fresh(e)
    <2>1. CASE \E ev \in signed : ev.field.tags = field.tags
      <3>1. PICK ev \in signed : ev.field.tags = field.tags
        BY <2>1
      <3>2. PICK e \in signed : e.field.tags = ev.field.tags /\ Fresh(e)
        BY DEF MailInv, SignedWell
      <3> QED BY <1>4, <1>5, <3>1, <3>2
    <2>2. CASE ~\E ev \in signed : ev.field.tags = field.tags
      <3>1. ASSUME NEW p \in DOMAIN parsed, parsed[p].name = "dkim-signature"
            PROVE  /\ parsed[p].tags.b # Empty
                   /\ parsed[p].tags = field.tags => parsed[p].tags.b = Junk
        <4>1. CASE parsed[p].tags.b = Junk
          BY <4>1, SentinelsDiffer
        <4>2. CASE parsed[p].tags.b # Junk
          <5>1. PICK ev \in signed : parsed[p].tags = ev.field.tags
            BY <1>2, <3>1, <4>2 DEF ReadWell
          <5>2. ev.field.tags.b = [by |-> ev.field.tags.b.by,
                                   over |-> BuildSignedHeaders(ev.field.tags.h, ev.headers,
                                              Unsigned(ev.field), ev.field.tags.c[1])]
            BY DEF MailInv, SignedWell, SignedField
          <5>3. ev.field.tags.b # Empty
            BY <5>2 DEF SignaturesAreValues
          <5> QED BY <2>2, <5>1, <5>3
        <4> QED BY <4>1, <4>2
      <3>2. Fresh(made)
        BY <1>4, <3>1 DEF Fresh
      <3> QED BY <1>5, <3>2
    <2> QED BY <2>1, <2>2
  <1>11. SignedWell(signed')
    <2>1. ASSUME NEW ev \in signed'
          PROVE  /\ SignedField(ev.field, ev.headers, ev.body) /\ Shaped(ev.headers)
                 /\ \E e \in signed' : e.field.tags = ev.field.tags /\ Fresh(e)
      <3>1. CASE ev = made
        BY <1>2, <1>3, <1>4, <1>10, <3>1
      <3>2. CASE ev \in signed
        BY <1>5, <3>2 DEF MailInv, SignedWell
      <3> QED BY <1>5, <3>1, <3>2
    <2> QED BY <2>1 DEF SignedWell
  <1>12. InTransit'
    BY HopStays DEF SignMessage
  <1> QED BY <1>9, <1>11, <1>12 DEF MailInv

(* A field whose folds or words a relay changes is still what it was.      *)
LEMMA FieldTouched ==
    ASSUME NEW evs, NEW line, GoodLine(line, evs), line.kind = "field",
           NEW touched, FieldShape(touched), touched.name = line.field.name,
           touched.tags = line.field.tags
    PROVE  GoodLine(FieldLine(touched), evs)
  <1>1. FieldLine(touched).field = touched
    BY DEF FieldLine
  <1> QED BY <1>1 DEF GoodLine, WireField

LEMMA RelayKeeps ==
    ASSUME MailInv, Relay
    PROVE  MailInv'
  <1>1. InTransit' /\ UNCHANGED signed
    BY HopStays DEF Relay, AddField, Refold, Reword, DropField, RepeatSignature, EditBody
  <1>2. OnWire(lines, signed) /\ SignedWell(signed')
    BY <1>1 DEF MailInv
  <1>3. \A p \in DOMAIN lines : GoodLine(lines[p], signed)
    BY <1>2 DEF OnWire
  <1>4. CASE AddField
    <2>1. PICK field \in TraceFields : lines' = <<FieldLine(field)>> \o lines
      BY <1>4 DEF AddField
    <2>2. FieldLine(field).field = field /\ PlainField(field)
      BY DraftShape DEF FieldLine
    <2>3. GoodLine(FieldLine(field), signed)
      BY <2>2 DEF GoodLine, PlainField, WireField, FieldShape
    <2>4. OnWire(lines', signed)
      BY <1>2, <2>1, <2>3, OnTop
    <2> QED BY <1>1, <1>2, <2>4 DEF MailInv
  <1>5. CASE Refold
    <2>1. PICK p \in DOMAIN lines : IsField(p) /\ lines' = [lines EXCEPT ![p].field.ws = 7]
      BY <1>5 DEF Refold
    <2> DEFINE field == lines[p].field
               touched == [field EXCEPT !.ws = 7]
    <2>2. lines[p].kind = "field" /\ lines[p] = FieldLine(field) /\ FieldShape(field)
      BY <1>3, <2>1 DEF IsField, GoodLine, WireField
    <2>3. [lines[p] EXCEPT !.field.ws = 7] = FieldLine(touched)
      <3> DEFINE line == lines[p]
      <3>1. line = [kind |-> "field", field |-> field]
        BY <2>2 DEF FieldLine
      <3>2. [line EXCEPT !.field.ws = 7] = [line EXCEPT !.field = touched]
        OBVIOUS
      <3> HIDE DEF line, touched, field
      <3> QED BY <3>1, <3>2 DEF FieldLine, line
    <2>4. lines' = [lines EXCEPT ![p] = FieldLine(touched)]
      BY <2>1, <2>3
    <2>5. FieldShape(touched) /\ touched.name = field.name /\ touched.tags = field.tags
      BY <2>2 DEF FieldShape
    <2> HIDE DEF touched
    <2>6. GoodLine(FieldLine(touched), signed)
      BY <1>3, <2>2, <2>5, FieldTouched
    <2>7. OnWire(lines', signed)
      BY <1>2, <2>4, <2>6, LineChanged
    <2> QED BY <1>1, <1>2, <2>7 DEF MailInv
  <1>6. CASE Reword
    <2>1. PICK p \in DOMAIN lines :
             IsField(p) /\ lines' = [lines EXCEPT ![p].field.text = << "changed" >>]
      BY <1>6 DEF Reword
    <2> DEFINE field == lines[p].field
               touched == [field EXCEPT !.text = << "changed" >>]
    <2>2. lines[p].kind = "field" /\ lines[p] = FieldLine(field) /\ FieldShape(field)
      BY <1>3, <2>1 DEF IsField, GoodLine, WireField
    <2>3. [lines[p] EXCEPT !.field.text = << "changed" >>] = FieldLine(touched)
      <3> DEFINE line == lines[p]
      <3>1. line = [kind |-> "field", field |-> field]
        BY <2>2 DEF FieldLine
      <3>2. [line EXCEPT !.field.text = << "changed" >>] = [line EXCEPT !.field = touched]
        OBVIOUS
      <3> HIDE DEF line, touched, field
      <3> QED BY <3>1, <3>2 DEF FieldLine, line
    <2>4. lines' = [lines EXCEPT ![p] = FieldLine(touched)]
      BY <2>1, <2>3
    <2>5. FieldShape(touched) /\ touched.name = field.name /\ touched.tags = field.tags
      BY <2>2 DEF FieldShape
    <2> HIDE DEF touched
    <2>6. GoodLine(FieldLine(touched), signed)
      BY <1>3, <2>2, <2>5, FieldTouched
    <2>7. OnWire(lines', signed)
      BY <1>2, <2>4, <2>6, LineChanged
    <2> QED BY <1>1, <1>2, <2>7 DEF MailInv
  <1>7. CASE DropField
    <2>1. PICK p \in DOMAIN lines : \E q \in p .. Len(lines) :
             lines' = SubSeq(lines, 1, p - 1) \o SubSeq(lines, q + 1, Len(lines))
      BY <1>7 DEF DropField
    <2>2. OnWire(lines', signed)
      BY <1>2, <2>1, LinesDropped
    <2> QED BY <1>1, <1>2, <2>2 DEF MailInv
  <1>8. CASE RepeatSignature
    <2>1. PICK p \in DOMAIN lines : lines' = <<lines[p]>> \o lines
      BY <1>8 DEF RepeatSignature
    <2>2. OnWire(lines', signed)
      BY <1>2, <1>3, <2>1, OnTop
    <2> QED BY <1>1, <1>2, <2>2 DEF MailInv
  <1>9. CASE EditBody
    <2>1. lines' = lines
      BY <1>9 DEF EditBody
    <2> QED BY <1>1, <1>2, <2>1 DEF MailInv
  <1> QED BY <1>4, <1>5, <1>6, <1>7, <1>8, <1>9 DEF Relay

LEMMA CallBegins == CallInit => IInv /\ Told
  <1>1. CallInit => Told
    BY DEF CallInit, Called, Told
  <1> QED BY <1>1, InitOK

LEMMA CallBegun == CallInit' => IInv' /\ Told'
  BY CallBegins, PTL

LEMMA DeliverKeeps ==
    ASSUME MailInv, Deliver
    PROVE  MailInv'
  <1>1. /\ headers' = parseHeaders(lines) /\ pc' = "scan" /\ pc = "transit"
        /\ UNCHANGED <<lines, signed, entry, zone, now, at, call, results, seen>>
    BY DEF Deliver, wire, world
  <1>2. InTransit
    BY <1>1 DEF MailInv, AtReceiver
  <1>3. ReadWell(headers', signed')
    BY <1>1, ReadIsWell DEF MailInv
  <1>4. CallInit'
    <2>1. headers' \in Seq(ToSet(headers'))
      BY <1>3 DEF ReadWell, Shaped, IsSeq
    <2>2. /\ pc' = "scan" /\ at' = 1 /\ call' = NoCall /\ results' = <<>> /\ seen' = <<>>
          /\ entry' \in Entries /\ zone' \in Zones /\ now' \in 0 .. MaxTime
      BY <1>1, <1>2 DEF InTransit, Entries
    <2> QED BY <2>1, <2>2 DEF CallInit, Called
  <1>5. IInv' /\ Told'
    BY <1>4, CallBegun
  <1>6. AtReceiver'
    BY <1>1, <1>3, <1>5 DEF AtReceiver
  <1> QED BY <1>1, <1>6 DEF MailInv

(* The receiver and the world: the message is delivered, or not yet.       *)
LEMMA ReceiveKeeps ==
    ASSUME MailInv, Receive \/ World
    PROVE  MailInv'
  <1>1. UNCHANGED <<lines, signed>>
    BY DEF Receive, World, wire
  <1>2. OnWire(lines', signed') /\ SignedWell(signed')
    BY <1>1 DEF MailInv
  <1>3. CASE InTransit
    <2>1. ~VerifierStep /\ ~Answer
      BY <1>3 DEF InTransit, VerifierStep, SkipField, Parse, CheckPolicy, PrepareMechanism,
                  CheckSignature, CheckKeyPolicy, Finish, Answer
    <2>2. Tick \/ Publish
      BY <2>1 DEF Receive, World
    <2>3. /\ UNCHANGED <<entry, pc, at, call, results, seen>>
          /\ zone' \in Zones /\ now' \in 0 .. MaxTime
      BY <1>3, <2>2, ClockAssumption DEF InTransit, Tick, Publish, message, progress
    <2>4. InTransit'
      BY <1>3, <2>3 DEF InTransit
    <2> QED BY <1>2, <2>4 DEF MailInv
  <1>4. CASE AtReceiver
    <2>1. Next
      BY DEF Receive, World, Next
    <2>2. IInv' /\ Told'
      BY <1>4, <2>1, StepKeeps, ToldStep DEF AtReceiver
    <2>3. UNCHANGED headers /\ pc' # "transit"
      <3>1. UNCHANGED headers
        BY <2>1 DEF Next, VerifierStep, SkipField, Parse, CheckPolicy, PrepareMechanism,
                    CheckSignature, CheckKeyPolicy, Finish, Answer, Tick, Publish, message
      <3>2. pc' # "transit"
        BY <2>2 DEF IInv, Shape
      <3> QED BY <3>1, <3>2
    <2>4. ReadWell(headers', signed')
      BY <1>1, <1>4, <2>3 DEF AtReceiver
    <2>5. AtReceiver'
      BY <2>2, <2>3, <2>4 DEF AtReceiver
    <2> QED BY <1>2, <2>5 DEF MailInv
  <1> QED BY <1>3, <1>4 DEF MailInv

LEMMA NothingMoves ==
    ASSUME MailInv, UNCHANGED mailVars
    PROVE  MailInv'
  <1>1. UNCHANGED <<lines, signed>> /\ UNCHANGED vars
    BY DEF mailVars, wire
  <1>2. CASE InTransit
    BY <1>1, <1>2 DEF MailInv, InTransit, vars, message, world, progress
  <1>3. CASE AtReceiver
    <2>1. IInv' /\ Told'
      BY <1>1, <1>3, StepKeeps, ToldStep DEF AtReceiver
    <2>2. AtReceiver'
      BY <1>1, <1>3, <2>1 DEF AtReceiver, vars, message, progress
    <2> QED BY <1>1, <2>2 DEF MailInv
  <1> QED BY <1>2, <1>3 DEF MailInv

LEMMA MailStep ==
    ASSUME SignaturesAreValues, MailInv, [MailNext]_mailVars
    PROVE  MailInv'
  BY SignKeeps, RelayKeeps, DeliverKeeps, ReceiveKeeps, NothingMoves DEF MailNext

(* What the invariant says of a result.                                    *)
LEMMA PassHasSigner ==
    ASSUME MailInv
    PROVE  PassIsAuthentic
  <1> SUFFICES ASSUME NEW j \in DOMAIN results, results[j].result = "pass"
               PROVE  \E ev \in signed :
                         /\ SameField(ev, headers[seen[j].at])
                         /\ results[j].domain = ev.field.tags.d
                         /\ SameContent(ev, RemoveAt(headers, seen[j].at), body)
    BY DEF PassIsAuthentic
  <1>1. AtReceiver
    BY DEF MailInv, InTransit
  <1> DEFINE here   == seen[j].at
             field  == headers[here]
             clock  == seen[j].now
             answer == seen[j].answer
  <1>2. /\ here \in DOMAIN headers /\ field.name = "dkim-signature"
        /\ results[j].domain = ALabelTags(field.tags).d
    BY <1>1 DEF AtReceiver, Told
  <1>3. Verdict(headers, body, entry, field, clock, answer) = "pass"
    BY <1>1 DEF AtReceiver, IInv, NoCrossTalk
  <1> HIDE DEF here, field, clock, answer
  <1>4. ALabelTags(field.tags).b # Junk
    BY <1>3, VerdictByStage
  <1>5. "b" \in DOMAIN field.tags => field.tags.b # Junk
    <2> DEFINE tags == field.tags
               one == [tags EXCEPT !.d = ToALabels(@)]
               two == [one EXCEPT !.s = ToALabels(@)]
               three == [two EXCEPT !.i = ToALabels(@)]
    <2> HIDE DEF tags
    <2>1. ALabelTags(tags) = three
      BY DEF ALabelTags
    <2>2. "b" \in DOMAIN tags => "b" \in DOMAIN one /\ one.b = tags.b
      OBVIOUS
    <2> HIDE DEF one
    <2>3. "b" \in DOMAIN one => "b" \in DOMAIN two /\ two.b = one.b
      OBVIOUS
    <2> HIDE DEF two
    <2>4. "b" \in DOMAIN two => three.b = two.b
      OBVIOUS
    <2> HIDE DEF three
    <2>5. ALabelTags(tags).b # Junk
      BY <1>4 DEF tags
    <2>6. "b" \in DOMAIN tags => tags.b # Junk
      BY <2>1, <2>2, <2>3, <2>4, <2>5
    <2> QED BY <2>6 DEF tags
  <1>6. PICK ev \in signed : field.tags = ev.field.tags
    BY <1>1, <1>2, <1>5 DEF AtReceiver, ReadWell, field
  <1>7. PICK e \in signed : e.field.tags = ev.field.tags /\ Fresh(e)
    BY DEF MailInv, SignedWell
  <1>8. SignedField(e.field, e.headers, e.body) /\ Shaped(e.headers) /\ Shaped(headers)
    BY <1>1 DEF MailInv, SignedWell, AtReceiver, ReadWell
  <1>9. /\ SameField(e, headers[here])
        /\ ALabelTags(headers[here].tags).d = e.field.tags.d
        /\ SameContent(e, RemoveAt(headers, here), body)
    <2>1. headers[here].name = "dkim-signature" /\ headers[here].tags = e.field.tags
          /\ Verdict(headers, body, entry, headers[here], clock, answer) = "pass"
      BY <1>2, <1>3, <1>6, <1>7 DEF field
    <2> QED BY <1>2, <1>7, <1>8, <2>1, PassOnSigned
  <1> QED BY <1>2, <1>9 DEF here, field

(* A result of pass is the word of a signer, for every draft, options,     *)
(* relays, zones and clock: somebody signed, under the domain of the       *)
(* result, the covered fields, the count of the oversigned ones and the    *)
(* body that were received, whatever was added, changed, dropped or        *)
(* repeated on the way (verify.go:25-29, 104-423, sign.go:52-58, 110-263). *)
THEOREM PassIsTheSignersWord ==
    ASSUME SignaturesAreValues
    PROVE  MailSpec => []PassIsAuthentic
  <1>1. MailInit => MailInv
    BY DraftsStart
  <1>2. MailInv /\ [MailNext]_mailVars => MailInv'
    BY MailStep
  <1>3. MailInv => PassIsAuthentic
    BY PassHasSigner
  <1> QED BY <1>1, <1>2, <1>3, PTL DEF MailSpec
-------------------------------------------------------------------------------
(* The other way round: where what is covered is the same, the same fields *)
(* are selected, and the same data is signed.                              *)

LEMMA MetGrows ==
    ASSUME NEW s, NEW value, NEW n \in Nat, NEW m \in Nat, n <= m
    PROVE  Cardinality(Met(s, value, n)) <= Cardinality(Met(s, value, m))
  <1>1. Met(s, value, n) \subseteq Met(s, value, m)
    BY DEF Met
  <1> QED BY <1>1, MetOneMore, FS_Subset

(* Covered alike, two blocks have as many of a name, up to the listings,   *)
(* and these agree from the bottom up.                                     *)
LEMMA CoveredBottomUp ==
    ASSUME NEW A, IsSeq(A), NEW B, IsSeq(B), NEW name, NEW m \in Nat, NEW canon,
           Covered(name, m, A, canon) = Covered(name, m, B, canon),
           NEW r \in Nat, r < m, r < Times(NamesIn(A), name)
    PROVE  /\ r < Times(NamesIn(B), name)
           /\ CanonicalizeHeader(Instances(name, A)[Times(NamesIn(A), name) - r], canon)
                = CanonicalizeHeader(Instances(name, B)[Times(NamesIn(B), name) - r], canon)
  <1> DEFINE NA == Times(NamesIn(A), name)
             NB == Times(NamesIn(B), name)
             IA == Instances(name, A)
             IB == Instances(name, B)
             KA == KeptLen(IA, m)
             KB == KeptLen(IB, m)
             keptA == Kept(IA, m)
             keptB == Kept(IB, m)
             CA == Covered(name, m, A, canon)
             CB == Covered(name, m, B, canon)
  <1>1. /\ IA \in Seq(ToSet(A)) /\ NA \in Nat /\ Len(IA) = NA
        /\ IB \in Seq(ToSet(B)) /\ NB \in Nat /\ Len(IB) = NB
    BY InstancesByRank
  <1>2. /\ KA \in Nat /\ DOMAIN keptA = 1 .. KA
        /\ \A j \in 1 .. KA : keptA[j] = IA[Len(IA) - (KA - j)]
    BY <1>1, KeptIs
  <1>3. /\ KB \in Nat /\ DOMAIN keptB = 1 .. KB
        /\ \A j \in 1 .. KB : keptB[j] = IB[Len(IB) - (KB - j)]
    BY <1>1, KeptIs
  <1>4. /\ CA = [j \in DOMAIN keptA |-> CanonicalizeHeader(keptA[j], canon)]
        /\ CB = [j \in DOMAIN keptB |-> CanonicalizeHeader(keptB[j], canon)]
        /\ CA = CB
    BY DEF Covered, Kept
  <1>5. /\ KA = IF NA <= m THEN NA ELSE m
        /\ KB = IF NB <= m THEN NB ELSE m
    BY <1>1 DEF KeptLen
  <1> HIDE DEF NA, NB, IA, IB, KA, KB, keptA, keptB, CA, CB
  <1>6. DOMAIN CA = 1 .. KA /\ DOMAIN CB = 1 .. KB
    BY <1>2, <1>3, <1>4
  <1>7. KA = KB
    <2>1. 1 .. KA = 1 .. KB
      BY <1>4, <1>6
    <2> QED BY <1>2, <1>3, <2>1
  <1>8. r < NA
    BY DEF NA
  <1>9. r < KA /\ r < NB
    BY <1>1, <1>5, <1>7, <1>8
  <1>10. KA - r \in 1 .. KA /\ KA - (KA - r) = r
    BY <1>2, <1>9
  <1>11. /\ CA[KA - r] = CanonicalizeHeader(IA[NA - r], canon)
         /\ CB[KA - r] = CanonicalizeHeader(IB[NB - r], canon)
    BY <1>1, <1>2, <1>3, <1>4, <1>7, <1>10
  <1> QED BY <1>4, <1>9, <1>11 DEF NA, NB, IA, IB

(* The nth instance from the bottom is there as long as there are more.    *)
LEMMA NthIsInstance ==
    ASSUME NEW hs, IsSeq(hs), NEW name, NEW n \in Nat,
           NEW p, p = nthFromBottom(hs, name, n)
    PROVE  /\ p # 0 <=> n < Times(NamesIn(hs), name)
           /\ p # 0 => p \in DOMAIN hs /\ Instances(name, hs)[Times(NamesIn(hs), name) - n] = hs[p]
  <1> DEFINE all == Instances(name, hs)
             N   == Times(NamesIn(hs), name)
  <1>1. /\ p # 0 => p \in DOMAIN hs /\ hs[p].name = name /\ Rank(hs, p) = n
        /\ p = 0 => \A q \in DOMAIN hs : ~(hs[q].name = name /\ Rank(hs, q) = n)
    BY NthIsThere
  <1>2. /\ N \in Nat
        /\ \A q \in DOMAIN hs : hs[q].name = name =>
              Rank(hs, q) \in 0 .. (N - 1) /\ all[N - Rank(hs, q)] = hs[q]
        /\ \A r \in 0 .. (N - 1) : \E q \in DOMAIN hs : hs[q].name = name /\ Rank(hs, q) = r
    BY InstancesByRank
  <1> HIDE DEF all, N
  <1>3. p # 0 => n < N /\ p \in DOMAIN hs /\ all[N - n] = hs[p]
    BY <1>1, <1>2
  <1>4. n < N => p # 0
    <2>1. n < N => n \in 0 .. (N - 1)
      BY <1>2
    <2> QED BY <1>1, <1>2, <2>1
  <1> QED BY <1>3, <1>4 DEF all, N

SameSelections(SA, SB, A, B, canon) ==
    /\ SA \in Seq(DOMAIN A) /\ SB \in Seq(DOMAIN B) /\ Len(SA) = Len(SB)
    /\ \A j \in 1 .. Len(SA) :
          CanonicalizeHeader(A[SA[j]], canon) = CanonicalizeHeader(B[SB[j]], canon)

LEMMA SelectionsGrow ==
    ASSUME NEW A, NEW B, NEW canon, NEW SA, NEW SB, SameSelections(SA, SB, A, B, canon),
           NEW p \in DOMAIN A, NEW q \in DOMAIN B,
           CanonicalizeHeader(A[p], canon) = CanonicalizeHeader(B[q], canon)
    PROVE  SameSelections(Append(SA, p), Append(SB, q), A, B, canon)
  <1> DEFINE MA == Append(SA, p)
             MB == Append(SB, q)
             n  == Len(SA)
  <1>1. /\ n \in Nat /\ Len(SB) = n
        /\ MA \in Seq(DOMAIN A) /\ Len(MA) = n + 1 /\ MA[n + 1] = p
        /\ \A j \in 1 .. n : MA[j] = SA[j]
        /\ MB \in Seq(DOMAIN B) /\ Len(MB) = n + 1 /\ MB[n + 1] = q
        /\ \A j \in 1 .. n : MB[j] = SB[j]
    BY DEF SameSelections
  <1>2. \A j \in 1 .. n : CanonicalizeHeader(A[SA[j]], canon) = CanonicalizeHeader(B[SB[j]], canon)
    BY DEF SameSelections
  <1> HIDE DEF MA, MB, n
  <1>3. ASSUME NEW j \in 1 .. (n + 1)
        PROVE  CanonicalizeHeader(A[MA[j]], canon) = CanonicalizeHeader(B[MB[j]], canon)
    <2>1. CASE j = n + 1
      BY <1>1, <2>1
    <2>2. CASE j # n + 1
      <3>1. j \in 1 .. n
        BY <1>1, <2>2
      <3> QED BY <1>1, <1>2, <3>1
    <2> QED BY <2>1, <2>2
  <1> QED BY <1>1, <1>3 DEF SameSelections, MA, MB

LEMMA AlikeIfCovered ==
    ASSUME NEW A, IsSeq(A), NEW B, IsSeq(B),
           NEW names, IsSeq(names), Empty \notin ToSet(names), NEW canon,
           \A name \in ToSet(names) :
              Covered(name, Times(names, name), A, canon) = Covered(name, Times(names, name), B, canon)
    PROVE  SameSelections(Selected(names, A), Selected(names, B), A, B, canon)
  <1> DEFINE N == Len(names)
             T == { n \in 0 .. N : SameSelections(SelUpTo(names, A, n), SelUpTo(names, B, n), A, B, canon) }
  <1>1. N \in Nat /\ DOMAIN names = 1 .. N
    BY DEF IsSeq
  <1>2. Selected(names, A) = SelUpTo(names, A, N) /\ Selected(names, B) = SelUpTo(names, B, N)
    BY <1>1 DEF Selected, SelUpTo
  <1> HIDE DEF N
  <1>3. 0 \in T
    <2>1. \A hs : [j \in 1 .. 0 |-> SelectedBy(names, hs, j)] = <<>>
      OBVIOUS
    <2>2. SelUpTo(names, A, 0) = <<>> /\ SelUpTo(names, B, 0) = <<>>
      BY <2>1, FlattenEmpty DEF SelUpTo
    <2>3. SameSelections(<<>>, <<>>, A, B, canon)
      BY DEF SameSelections
    <2> QED BY <1>1, <2>2, <2>3
  <1>4. ASSUME NEW n \in 0 .. (N - 1), n \in T PROVE n + 1 \in T
    <2> DEFINE name == names[n + 1]
               c    == ConsumedBefore(names, n + 1)
               p    == nthFromBottom(A, name, c)
               q    == nthFromBottom(B, name, c)
               SA   == SelUpTo(names, A, n)
               SB   == SelUpTo(names, B, n)
               MA   == SelUpTo(names, A, n + 1)
               MB   == SelUpTo(names, B, n + 1)
               m    == Times(names, name)
    <2>1. n \in Nat /\ n + 1 \in 1 .. N /\ n + 1 \in 0 .. N /\ n + 1 <= N
      BY <1>1
    <2>2. name \in ToSet(names) /\ name # Empty
      BY <1>1, <2>1 DEF ToSet
    <2>3. c = Cardinality(Met(names, name, n))
      <3>1. (n + 1) - 1 = n
        BY <2>1
      <3> QED BY <3>1 DEF ConsumedBefore, Met
    <2>4. c \in Nat /\ m \in Nat /\ c < m
      <3> DEFINE d == Cardinality(Met(names, name, n + 1))
      <3>1. c \in Nat /\ d = c + 1
        BY <2>1, <2>3, MetOneMore
      <3>2. d <= m /\ m \in Nat
        BY <1>1, <2>1, MetGrows, MetOneMore DEF Times, N
      <3> HIDE DEF c, d, m
      <3> QED BY <3>1, <3>2
    <2>5. SameSelections(SA, SB, A, B, canon)
      BY <1>4
    <2>6. Covered(name, m, A, canon) = Covered(name, m, B, canon)
      BY <2>2
    <2>7. /\ p # 0 <=> c < Times(NamesIn(A), name)
          /\ p # 0 => /\ p \in DOMAIN A
                      /\ Instances(name, A)[Times(NamesIn(A), name) - c] = A[p]
          /\ q # 0 <=> c < Times(NamesIn(B), name)
          /\ q # 0 => /\ q \in DOMAIN B
                      /\ Instances(name, B)[Times(NamesIn(B), name) - c] = B[q]
      <3> HIDE DEF c, name
      <3> QED BY <2>4, NthIsInstance
    <2>8. /\ MA = IF p = 0 THEN SA ELSE Append(SA, p)
          /\ MB = IF q = 0 THEN SB ELSE Append(SB, q)
      <3>1. SA \in Seq(DOMAIN A) /\ SB \in Seq(DOMAIN B)
        BY <2>5 DEF SameSelections
      <3> QED BY <2>1, <2>2, <2>7, <3>1, SelStep
    <2> HIDE DEF name, c, p, q, SA, SB, MA, MB, m
    <2>9. p # 0 <=> q # 0
      BY <2>4, <2>6, <2>7, CoveredBottomUp
    <2>10. CASE p = 0
      BY <2>1, <2>5, <2>8, <2>9, <2>10 DEF MA, MB
    <2>11. CASE p # 0
      <3>1. CanonicalizeHeader(A[p], canon) = CanonicalizeHeader(B[q], canon)
        BY <2>4, <2>6, <2>7, <2>9, <2>11, CoveredBottomUp
      <3>2. SameSelections(MA, MB, A, B, canon)
        BY <2>5, <2>7, <2>8, <2>9, <2>11, <3>1, SelectionsGrow
      <3> QED BY <2>1, <3>2 DEF MA, MB
    <2> QED BY <2>10, <2>11
  <1> HIDE DEF T
  <1>5. \A n \in 0 .. N : n \in T
    BY <1>1, <1>3, <1>4, IntervalInduction
  <1>6. N \in T
    BY <1>1, <1>5
  <1> QED BY <1>2, <1>6 DEF T

LEMMA DataThen ==
    ASSUME NEW names, NEW hs, NEW sig, NEW canon,
           NEW W, W = WithoutSelf(hs, sig), NEW SA, SA = Selected(names, W), SA \in Seq(DOMAIN W)
    PROVE  BuildSignedHeaders(names, hs, sig, canon)
             = Then([j \in 1 .. Len(SA) |-> CanonicalizeHeader(W[SA[j]], canon)],
                    <<CanonicalizeHeader(RemoveBValue(sig), canon)>>)
  <1> DEFINE chosen == SelectedFields(names, W)
  <1>1. DOMAIN SA = 1 .. Len(SA)
    OBVIOUS
  <1>2. DOMAIN chosen = 1 .. Len(SA) /\ \A j \in 1 .. Len(SA) : chosen[j] = W[SA[j]]
    BY <1>1 DEF SelectedFields
  <1> HIDE DEF chosen
  <1>3. [j \in DOMAIN chosen |-> CanonicalizeHeader(chosen[j], canon)]
          = [j \in 1 .. Len(SA) |-> CanonicalizeHeader(W[SA[j]], canon)]
    BY <1>2
  <1> QED BY <1>3 DEF BuildSignedHeaders, Then, chosen

CoveredAlike(names, hs, sig, before, unsigned, canon) ==
    LET A == WithoutSelf(hs, sig)
        B == WithoutSelf(before, unsigned)
    IN  /\ IsSeq(names) /\ Empty \notin ToSet(names) /\ IsSeq(A) /\ IsSeq(B)
        /\ \A name \in ToSet(names) :
              Covered(name, Times(names, name), A, canon) = Covered(name, Times(names, name), B, canon)
        /\ CanonicalizeHeader(RemoveBValue(sig), canon)
             = CanonicalizeHeader(RemoveBValue(unsigned), canon)

LEMMA SameDataIfCovered ==
    ASSUME NEW names, NEW hs, NEW sig, NEW before, NEW unsigned, NEW canon,
           CoveredAlike(names, hs, sig, before, unsigned, canon)
    PROVE  BuildSignedHeaders(names, hs, sig, canon) = BuildSignedHeaders(names, before, unsigned, canon)
  <1> DEFINE A  == WithoutSelf(hs, sig)
             B  == WithoutSelf(before, unsigned)
             SA == Selected(names, A)
             SB == Selected(names, B)
             fieldsA == [j \in 1 .. Len(SA) |-> CanonicalizeHeader(A[SA[j]], canon)]
             fieldsB == [j \in 1 .. Len(SB) |-> CanonicalizeHeader(B[SB[j]], canon)]
  <1>1. SameSelections(SA, SB, A, B, canon)
    <2>1. /\ IsSeq(A) /\ IsSeq(B)
          /\ IsSeq(names) /\ Empty \notin ToSet(names)
          /\ \A name \in ToSet(names) :
                Covered(name, Times(names, name), A, canon) = Covered(name, Times(names, name), B, canon)
      BY DEF CoveredAlike
    <2> HIDE DEF A, B
    <2> QED BY <2>1, AlikeIfCovered
  <1>0. A = WithoutSelf(hs, sig) /\ B = WithoutSelf(before, unsigned)
    OBVIOUS
  <1> HIDE DEF A, B
  <1>2. SA \in Seq(DOMAIN A) /\ SB \in Seq(DOMAIN B)
    BY <1>1 DEF SameSelections
  <1>3. fieldsA = fieldsB
    <2> HIDE DEF SA, SB
    <2> QED BY <1>1 DEF SameSelections
  <1>4. BuildSignedHeaders(names, hs, sig, canon)
          = Then(fieldsA, <<CanonicalizeHeader(RemoveBValue(sig), canon)>>)
    BY <1>0, <1>2, DataThen
  <1>5. BuildSignedHeaders(names, before, unsigned, canon)
          = Then(fieldsB, <<CanonicalizeHeader(RemoveBValue(unsigned), canon)>>)
    BY <1>0, <1>2, DataThen
  <1>6. CanonicalizeHeader(RemoveBValue(sig), canon) = CanonicalizeHeader(RemoveBValue(unsigned), canon)
    BY DEF CoveredAlike
  <1> HIDE DEF fieldsA, fieldsB
  <1> QED BY <1>3, <1>4, <1>5, <1>6

(* The upper-most copy is the one taken out.                               *)
LEMMA UpperMostTakenOut ==
    ASSUME NEW hs, IsSeq(hs), NEW here \in DOMAIN hs,
           \A q \in 1 .. (here - 1) : hs[q] # hs[here]
    PROVE  WithoutSelf(hs, hs[here]) = RemoveAt(hs, here)
  <1> DEFINE at0 == SelfAt(hs, hs[here])
  <1>1. at0 \in 1 .. here /\ hs[at0] = hs[here]
    BY SelfIsThere
  <1>2. here \in Nat \ {0}
    BY DEF IsSeq
  <1> HIDE DEF at0
  <1>3. at0 = here
    <2>1. at0 \notin 1 .. (here - 1)
      BY <1>1
    <2> QED BY <1>1, <1>2, <2>1
  <1>4. SelfAt(hs, hs[here]) = here
    BY <1>3 DEF at0
  <1> QED BY <1>2, <1>4 DEF WithoutSelf, RemoveAt

LEMMA SameWithoutB ==
    ASSUME NEW f, FieldShape(f), NEW g, FieldShape(g), f.tags = g.tags,
           TagRecord(f.tags), f.tags.b # Absent, NEW canon,
           CanonicalizeHeader(f, canon) = CanonicalizeHeader(g, canon)
    PROVE  CanonicalizeHeader(RemoveBValue(f), canon) = CanonicalizeHeader(RemoveBValue(g), canon)
  <1> DEFINE rest == [f.tags EXCEPT !.b = Empty]
             fb == [name |-> f.name, text |-> f.text, ws |-> f.ws, tags |-> rest]
             gb == [name |-> g.name, text |-> g.text, ws |-> g.ws, tags |-> rest]
  <1>1. RemoveBValue(f) = fb /\ RemoveBValue(g) = gb
    BY NoBValue
  <1>2. f.name = g.name /\ f.text = g.text
    BY CanonKeeps
  <1> HIDE DEF rest
  <1>3. CASE canon = "relaxed"
    <2>1. [fb EXCEPT !.ws = 0] = [gb EXCEPT !.ws = 0]
      BY <1>2
    <2> HIDE DEF fb, gb
    <2> QED BY <1>1, <1>3, <2>1 DEF CanonicalizeHeader
  <1>4. CASE canon # "relaxed"
    <2>1. f = g
      BY <1>4 DEF CanonicalizeHeader
    <2> QED BY <2>1
  <1> QED BY <1>3, <1>4
-------------------------------------------------------------------------------
(* What Sign writes, tag by tag, is what every check takes. *)

LEMMA FlattenHolds ==
    ASSUME NEW S, NEW n \in Nat, NEW parts \in [1 .. n -> Seq(S)],
           NEW p \in 1 .. n, NEW x \in ToSet(parts[p])
    PROVE  x \in ToSet(FlattenSeq(parts))
  <1> DEFINE upTo(m) == [i \in 1 .. m |-> parts[i]]
             text0(m) == FlattenSeq(upTo(m))
             P == { m \in 0 .. n : text0(m) \in Seq(S) /\ (m >= p => x \in ToSet(text0(m))) }
  <1>1. 0 \in P
    <2>1. upTo(0) = <<>>
      OBVIOUS
    <2>2. text0(0) = <<>>
      BY <2>1, FlattenEmpty
    <2>3. ~(0 >= p) /\ 0 \in 0 .. n
      OBVIOUS
    <2>4. text0(0) \in Seq(S)
      <3>1. <<>> \in Seq(S)
        OBVIOUS
      <3> QED BY <2>2, <3>1, Zenon
    <2> HIDE DEF text0
    <2> QED BY <2>3, <2>4
  <1>2. ASSUME NEW m \in 0 .. (n - 1), m \in P PROVE m + 1 \in P
    <2> DEFINE old == text0(m)
               more == parts[m + 1]
    <2>1. m \in Nat /\ m + 1 \in 1 .. n /\ m + 1 \in 0 .. n
      OBVIOUS
    <2>2. upTo(m + 1) \in [1 .. (m + 1) -> Seq(S)] /\ upTo(m + 1)[m + 1] = more
          /\ upTo(m) = [i \in 1 .. m |-> upTo(m + 1)[i]]
      BY <2>1
    <2>3. text0(m + 1) = old \o more
      <3> DEFINE all == upTo(m + 1)
                 front == upTo(m)
      <3>1. all \in [1 .. (m + 1) -> Seq(S)] /\ front = [i \in 1 .. m |-> all[i]] /\ all[m + 1] = more
        BY <2>2
      <3> HIDE DEF all, front, more
      <3>2. FlattenSeq(all) = FlattenSeq(front) \o more
        BY <2>1, <3>1, FlattenStep
      <3> QED BY <3>2 DEF all, front
    <2>4. old \in Seq(S) /\ (m >= p => x \in ToSet(old))
      BY <1>2
    <2>5. more \in Seq(S) /\ (m + 1 = p => x \in ToSet(more))
      BY <2>1
    <2> HIDE DEF old, more, upTo
    <2>6. old \o more \in Seq(S) /\ ToSet(old \o more) = ToSet(old) \cup ToSet(more)
      <3> DEFINE j == old \o more
      <3>1. /\ j \in Seq(S) /\ Len(j) = Len(old) + Len(more) /\ DOMAIN j = 1 .. Len(j)
            /\ Len(old) \in Nat /\ Len(more) \in Nat
            /\ DOMAIN old = 1 .. Len(old) /\ DOMAIN more = 1 .. Len(more)
            /\ \A k \in 1 .. Len(old) : j[k] = old[k]
            /\ \A k \in 1 .. Len(more) : j[Len(old) + k] = more[k]
        BY <2>4, <2>5
      <3> HIDE DEF j
      <3>2. \A k \in DOMAIN j : j[k] \in ToSet(old) \cup ToSet(more)
        <4> TAKE k \in DOMAIN j
        <4>1. CASE k \in 1 .. Len(old)
          BY <3>1, <4>1 DEF ToSet
        <4>2. CASE k \notin 1 .. Len(old)
          <5>1. k - Len(old) \in 1 .. Len(more) /\ k = Len(old) + (k - Len(old))
            BY <3>1, <4>2
          <5> QED BY <3>1, <5>1 DEF ToSet
        <4> QED BY <4>1, <4>2
      <3>3. \A k \in DOMAIN old : old[k] \in ToSet(j)
        BY <3>1 DEF ToSet
      <3>4. \A k \in DOMAIN more : more[k] \in ToSet(j)
        <4> TAKE k \in DOMAIN more
        <4>1. Len(old) + k \in DOMAIN j /\ j[Len(old) + k] = more[k]
          BY <3>1
        <4> QED BY <4>1 DEF ToSet
      <3>5. ToSet(j) = ToSet(old) \cup ToSet(more)
        BY ONLY <3>2, <3>3, <3>4 DEF ToSet
      <3>6. j \in Seq(S)
        BY ONLY <3>1
      <3> QED BY <3>5, <3>6 DEF j
    <2>7. m + 1 >= p => m >= p \/ m + 1 = p
      BY <2>1
    <2> QED BY <2>1, <2>3, <2>4, <2>5, <2>6, <2>7
  <1> HIDE DEF P
  <1>3. \A m \in 0 .. n : m \in P
    BY <1>1, <1>2, IntervalInduction
  <1>4. n \in P
    BY <1>3
  <1>5. upTo(n) = parts /\ n >= p
    OBVIOUS
  <1> QED BY <1>4, <1>5 DEF P

(* A name that is wanted and stands in the block is listed.                *)
LEMMA WantedIsListed ==
    ASSUME NEW hs, IsSeq(hs), NEW want, IsSeq(want), NEW oversign, IsSeq(oversign),
           NEW name, Contains(want \o oversign, name), CountOf(hs, name) # 0
    PROVE  name \in ToSet(signedHeaderList(hs, want, oversign))
  <1> DEFINE names == want \o oversign
             order == FirstNamed(names)
             listed(nm) == CountOf(hs, nm) + (IF Contains(oversign, nm) THEN 1 ELSE 0)
             part(j) == IF Contains(SubSeq(names, 1, j - 1), names[j]) THEN <<>> ELSE <<names[j]>>
             n == Len(names)
             S == ToSet(names)
  <1>1. n \in Nat /\ DOMAIN names = 1 .. n /\ names \in Seq(S)
    <2> DEFINE R == ToSet(want) \cup ToSet(oversign)
    <2>1. want \in Seq(R) /\ oversign \in Seq(R)
      BY DEF IsSeq
    <2>2. names \in Seq(R)
      BY <2>1
    <2> HIDE DEF names, R
    <2> QED BY <2>2 DEF ToSet
  <1>2. PICK f \in 1 .. n : names[f] = name /\ \A j \in 1 .. (f - 1) : names[j] # name
    <2> DEFINE B == { j \in 1 .. n : names[j] = name }
    <2>1. B \in SUBSET Nat /\ B # {}
      BY <1>1 DEF Contains
    <2> HIDE DEF names
    <2>2. PICK f \in B : \A j \in B : f <= j
      BY <2>1, LeastElement
    <2>3. \A j \in 1 .. (f - 1) : names[j] # name
      BY <1>1, <2>2
    <2> QED BY <2>2, <2>3
  <1>3. order \in Seq(S) /\ name \in ToSet(order)
    <2> DEFINE parts == [j \in 1 .. n |-> part(j)]
    <2>1. order = FlattenSeq(parts)
      BY <1>1 DEF FirstNamed
    <2> HIDE DEF names, order, S, n
    <2>2. \A j \in 1 .. n : part(j) \in Seq(S)
      <3> TAKE j \in 1 .. n
      <3>1. names[j] \in S
        BY <1>1
      <3> QED BY <3>1
    <2>3. parts \in [1 .. n -> Seq(S)]
      BY <2>2
    <2>4. name \in ToSet(parts[f])
      <3>1. SubSeq(names, 1, f - 1) \in Seq(S) /\ Len(SubSeq(names, 1, f - 1)) = f - 1
            /\ \A j \in 1 .. (f - 1) : SubSeq(names, 1, f - 1)[j] = names[j]
        BY <1>1, StretchType DEF n
      <3>2. ~Contains(SubSeq(names, 1, f - 1), names[f])
        BY <1>2, <3>1 DEF Contains
      <3>3. parts[f] = <<name>>
        BY <1>2, <3>2
      <3> HIDE DEF parts
      <3> QED BY <3>3 DEF ToSet
    <2> HIDE DEF parts
    <2> QED BY <1>1, <2>1, <2>3, <2>4, FlattenType, FlattenHolds
  <1> HIDE DEF names, order
  <1>4. ASSUME NEW nm PROVE listed(nm) \in Nat /\ (nm = name => listed(nm) >= 1)
    <2>2. CountOf(hs, nm) \in Nat
      BY CountIsNat
    <2>3. nm = name => CountOf(hs, nm) # 0
      OBVIOUS
    <2> QED BY <2>2, <2>3
  <1> HIDE DEF listed
  <1> DEFINE repeated(j) == [c \in 1 .. listed(order[j]) |-> order[j]]
             parts == [j \in 1 .. Len(order) |-> repeated(j)]
  <1>5. Len(order) \in Nat /\ DOMAIN order = 1 .. Len(order)
    BY <1>3
  <1>6. PICK g \in 1 .. Len(order) : order[g] = name
    BY <1>3, <1>5 DEF ToSet
  <1>7. parts \in [1 .. Len(order) -> Seq(S)]
    <2>1. ASSUME NEW j \in 1 .. Len(order) PROVE repeated(j) \in Seq(S)
      <3>1. order[j] \in S /\ listed(order[j]) \in Nat
        BY <1>3, <1>4
      <3> QED BY <3>1
    <2> QED BY <2>1
  <1>8. name \in ToSet(parts[g])
    <2>1. 1 \in 1 .. listed(order[g])
      BY <1>4, <1>6
    <2>2. DOMAIN repeated(g) = 1 .. listed(order[g]) /\ repeated(g)[1] = name
      BY <1>6, <2>1
    <2>3. parts[g] = repeated(g)
      OBVIOUS
    <2> HIDE DEF repeated, parts
    <2> QED BY <2>1, <2>2, <2>3 DEF ToSet
  <1>9. signedHeaderList(hs, want, oversign) = FlattenSeq(parts)
    BY <1>5 DEF signedHeaderList, listed, order, names
  <1> HIDE DEF parts
  <1> QED BY <1>5, <1>7, <1>8, <1>9, FlattenHolds

(* What the theorem takes for granted of the values: a sentinel is no      *)
(* algorithm, number, list of names, signature or body, and no answer.     *)
SentinelsApart ==
    /\ {Absent, Empty, Junk}
         \cap ({"rsa-sha256", "ed25519-sha256"} \cup Int \cup Seq(FieldNames)) = {}
    /\ \A by, over : [by |-> by, over |-> over] # Junk
    /\ \A theBody, canon : CanonicalizeBody(theBody, canon) \notin {Absent, Empty, Junk}
    /\ \A name : Absent \notin Answers(name)

(* No name is signed that ends the tag it is listed in.                    *)
NamesFitTheList ==
    \A opt \in OptionSets :
       ToSet(Defaulted(opt).headers \o Defaulted(opt).oversign) \cap SemicolonNames = {}

SignedAs(T, opt, hs) ==
    LET full == Defaulted(opt)
        list == signedHeaderList(hs, full.headers, full.oversign)
    IN  /\ T.strict = (ToSet(list) \cap SemicolonNames = {})
        /\ T.v = "1" /\ T.a = Algorithm(opt.key) /\ T.c = <<full.headerCanon, full.bodyCanon>>
        /\ T.d = opt.domain /\ T.s = opt.selector /\ T.h = list
        /\ T.t = (IF opt.time > 0 THEN opt.time ELSE Absent)
        /\ T.x = (IF opt.expiration > 0 THEN opt.expiration ELSE Absent)
        /\ T.i = Absent /\ T.l = Absent /\ T.q = Absent
        /\ T.b.by = [kind |-> opt.key.kind, id |-> opt.key.id]

LEMMA SignTags ==
    ASSUME NEW opt \in OptionSets, NEW hs, NEW bd
    PROVE  SignedAs(Sign(hs, bd, opt).tags, opt, hs)
  <1> DEFINE full == Defaulted(opt)
             list == signedHeaderList(hs, full.headers, full.oversign)
             tags == UnsignedTags(hs, bd, opt)
             field == [name |-> "dkim-signature", text |-> <<>>, ws |-> 1, tags |-> tags]
             by   == [kind |-> opt.key.kind, id |-> opt.key.id]
             over == BuildSignedHeaders(tags.h, hs, field, tags.c[1])
             sig  == [by |-> by, over |-> over]
             f    == [field EXCEPT !.tags.b = sig]
             T    == [tags EXCEPT !.b = sig]
             strict == ToSet(list) \cap SemicolonNames = {}
             t == IF opt.time > 0 THEN opt.time ELSE Absent
             x == IF opt.expiration > 0 THEN opt.expiration ELSE Absent
             a == Algorithm(opt.key)
             c == <<full.headerCanon, full.bodyCanon>>
             bh == CanonicalizeBody(bd, full.bodyCanon)
  <1>1. /\ full.domain = opt.domain /\ full.selector = opt.selector /\ full.key = opt.key
        /\ full.time = opt.time /\ full.expiration = opt.expiration
    BY DefaultedIs
  <1>2. tags = [ strict |-> strict, v |-> "1", a |-> a, c |-> c,
                 d |-> opt.domain, s |-> opt.selector, t |-> t, x |-> x,
                 h |-> list, bh |-> bh, b |-> Empty, i |-> Absent, l |-> Absent, q |-> Absent ]
    <2> HIDE DEF full
    <2> QED BY <1>1 DEF UnsignedTags, full
  <1>3. Sign(hs, bd, opt) = f
    BY DEF Sign
  <1> HIDE DEF tags, strict, t, x, a, c, bh, list, full
  <1>4. f = [name |-> "dkim-signature", text |-> <<>>, ws |-> 1, tags |-> T]
    BY <1>2
  <1> HIDE DEF sig, by
  <1>5. T = [ strict |-> strict, v |-> "1", a |-> a, c |-> c,
              d |-> opt.domain, s |-> opt.selector, t |-> t, x |-> x,
              h |-> list, bh |-> bh, b |-> sig, i |-> Absent, l |-> Absent, q |-> Absent ]
    BY <1>2
  <1>6. sig.by = by
    BY DEF sig
  <1> HIDE DEF T, f
  <1>7. f.tags = T
    BY <1>4
  <1>8. /\ T.strict = strict /\ T.v = "1" /\ T.a = a /\ T.c = c
        /\ T.d = opt.domain /\ T.s = opt.selector /\ T.h = list /\ T.t = t /\ T.x = x
        /\ T.i = Absent /\ T.l = Absent /\ T.q = Absent /\ T.b = sig
    BY <1>5
  <1>9. SignedAs(T, opt, hs)
    BY <1>6, <1>8 DEF SignedAs, strict, t, x, a, c, list, full, by
  <1> QED BY <1>3, <1>7, <1>9

(* The tags of a signature are their own A-labels.                         *)
LEMMA SentAsWritten ==
    ASSUME NEW T, TagRecord(T), T.d \in Seq(STRING), T.s \in Seq(STRING), T.i = Absent,
           ToALabels(T.d) = T.d, ToALabels(T.s) = T.s
    PROVE  ALabelTags(T) = T
  <1>1. ToALabels(T.i) = T.i
    BY DEF ToALabels, IsName
  <1>2. ALabelTags(T) = [ strict |-> T.strict, v |-> T.v, a |-> T.a, b |-> T.b,
                          bh |-> T.bh, c |-> T.c, d |-> T.d, s |-> T.s, h |-> T.h,
                          i |-> T.i, l |-> T.l, q |-> T.q, t |-> T.t, x |-> T.x ]
    BY <1>1, ALabelFields
  <1> QED BY <1>2 DEF TagRecord

Accepted(T, kind) ==
    /\ T.strict /\ ALabelTags(T) = T /\ T.b # Junk
    /\ \A clock \in Int : (T.x # Absent => clock < T.x) => PolicyOK(T, clock)
    /\ \A theBody : MechanismOK(T, theBody)
    /\ KeyTypeOf(T.a) = kind /\ KeyPolicyOK(T, NoFlags)

LEMMA SignIsAccepted ==
    ASSUME SignaturesAreValues, SentinelsApart, NamesFitTheList,
           NEW opt \in OptionSets, NEW hs, IsSeq(hs), NEW bd, ~SignError(hs, opt)
    PROVE  Accepted(Sign(hs, bd, opt).tags, opt.key.kind)
  <1> DEFINE T    == Sign(hs, bd, opt).tags
             full == Defaulted(opt)
             hds  == full.headers
             ovs  == full.oversign
             list == signedHeaderList(hs, hds, ovs)
             S    == ToSet(hds \o ovs)
  <1>1. /\ T.strict = (ToSet(list) \cap SemicolonNames = {})
        /\ T.v = "1" /\ T.a = Algorithm(opt.key) /\ T.c = <<full.headerCanon, full.bodyCanon>>
        /\ T.d = opt.domain /\ T.s = opt.selector /\ T.h = list
        /\ T.t = (IF opt.time > 0 THEN opt.time ELSE Absent)
        /\ T.x = (IF opt.expiration > 0 THEN opt.expiration ELSE Absent)
        /\ T.i = Absent /\ T.l = Absent /\ T.q = Absent
    <2>1. SignedAs(T, opt, hs)
      BY SignTags
    <2> HIDE DEF T
    <2> QED BY <2>1 DEF SignedAs
  <1>2. /\ SignedField(Sign(hs, bd, opt), hs, bd)
        /\ IsSeq(hds) /\ IsSeq(ovs)
    BY SignMakes, DefaultedIs
  <1>3. /\ TagRecord(T) /\ T.h \in Seq(FieldNames) /\ T.bh = CanonicalizeBody(bd, T.c[2])
        /\ HeaderCanon(T) = T.c[1] /\ BodyCanon(T) = T.c[2]
        /\ \E by, over : T.b = [by |-> by, over |-> over]
    BY <1>2 DEF SignedField
  <1>4. /\ ValidDNSName(opt.domain) /\ ValidDNSName(opt.selector)
        /\ full.headerCanon \in {"simple", "relaxed"} /\ full.bodyCanon \in {"simple", "relaxed"}
        /\ Contains(hds \o ovs, "from") /\ CountOf(hs, "from") # 0
        /\ ~KeyError(opt.key) /\ ~TimeError(opt)
    BY DEF SignError, HeaderListError
  <1>5. /\ opt.domain \in Seq(STRING) /\ ToALabels(opt.domain) = opt.domain
        /\ opt.selector \in Seq(STRING) /\ ToALabels(opt.selector) = opt.selector
        /\ opt.time \in Int /\ opt.expiration \in Int
    BY <1>4, OptionShape, ValidStays
  <1>6. list \in Seq(S) /\ S \cap SemicolonNames = {} /\ "from" \in ToSet(list)
    <2>1. S \cap SemicolonNames = {}
      BY DEF NamesFitTheList
    <2> HIDE DEF hds, ovs
    <2> QED BY <1>2, <1>4, <2>1, ListedNames, WantedIsListed
  <1> HIDE DEF T, full, hds, ovs, list, S
  <1>7. T.strict
    <2>1. ToSet(list) \subseteq S
      BY <1>6 DEF ToSet
    <2> QED BY <1>1, <1>6, <2>1
  <1>8. ALabelTags(T) = T
    BY <1>1, <1>3, <1>5, SentAsWritten
  <1>9. /\ opt.key.kind \in {"rsa", "ed25519"}
        /\ T.a \in {"rsa-sha256", "ed25519-sha256"} /\ KeyTypeOf(T.a) = opt.key.kind
    <2>1. Algorithm(opt.key) # "unsupported"
      BY <1>4 DEF KeyError
    <2>2. opt.key.kind = "rsa" \/ opt.key.kind = "ed25519"
      BY <2>1 DEF Algorithm
    <2>3. CASE opt.key.kind = "rsa"
      <3>1. T.a = "rsa-sha256"
        BY <1>1, <2>3 DEF Algorithm
      <3> QED BY <2>3, <3>1 DEF KeyTypeOf
    <2>4. CASE opt.key.kind = "ed25519"
      <3>1. T.a = "ed25519-sha256"
        BY <1>1, <2>4 DEF Algorithm
      <3> QED BY <2>4, <3>1 DEF KeyTypeOf
    <2> QED BY <2>2, <2>3, <2>4
  <1>10. T.b \notin {Absent, Empty, Junk} /\ T.bh \notin {Absent, Empty, Junk}
    BY <1>3 DEF SignaturesAreValues, SentinelsApart
  <1>11. NonEmpty(T.h) /\ HeaderListCoversFrom(T.h)
    <2>1. Len(list) \in Nat /\ DOMAIN list = 1 .. Len(list)
      BY <1>6
    <2>2. Contains(list, "from")
      BY <1>6, <2>1 DEF ToSet, Contains
    <2>3. list \notin {Absent, Empty}
      <3>1. list \in Seq(FieldNames)
        BY <1>1, <1>3
      <3> QED BY <3>1 DEF SentinelsApart
    <2> QED BY <1>1, <2>2, <2>3 DEF NonEmpty, HeaderListCoversFrom
  <1>12. RequiredTags(T)
    <2>1. NonEmpty(T.a)
      BY <1>9 DEF SentinelsApart, NonEmpty
    <2>2. NonEmpty(T.d) /\ NonEmpty(T.s)
      BY <1>1, <1>4 DEF ValidDNSName, IsName, NonEmpty
    <2>3. NonEmpty(T.b) /\ NonEmpty(T.bh)
      BY <1>10 DEF NonEmpty
    <2> QED BY <1>11, <2>1, <2>2, <2>3 DEF RequiredTags
  <1>13. ASSUME NEW clock \in Int, T.x # Absent => clock < T.x
         PROVE  PolicyOK(T, clock)
    <2>1. IdentityOK(T)
      BY <1>1 DEF IdentityOK, Present
    <2>2. /\ opt.time <= MaxTimestamp /\ opt.expiration <= MaxTimestamp
          /\ opt.expiration > 0 /\ opt.time > 0 => opt.expiration > opt.time
      BY <1>4, <1>5, LargestTime DEF TimeError
    <2>3. T.t # Absent => T.t = opt.time /\ opt.time > 0
      BY <1>1
    <2>4. T.x # Absent => T.x = opt.expiration /\ opt.expiration > 0
      BY <1>1
    <2>5. \A value \in Int : value > 0 /\ value <= MaxTimestamp => IsTime(value)
      BY LargestTime DEF IsTime, SentinelsApart
    <2>6. TimingOK(T, clock)
      <3>1. T.t # Absent => IsTime(T.t)
        BY <1>5, <2>2, <2>3, <2>5
      <3>2. T.x # Absent => IsTime(T.x) /\ clock < T.x
        BY <1>5, <1>13, <2>2, <2>4, <2>5
      <3>3. T.x # Absent /\ T.t # Absent => T.x > T.t
        BY <2>2, <2>3, <2>4
      <3> QED BY <3>1, <3>2, <3>3 DEF TimingOK, Present
    <2> QED BY <1>1, <1>11, <1>12, <2>1, <2>6 DEF PolicyOK
  <1>14. ASSUME NEW theBody
         PROVE  MechanismOK(T, theBody)
    <2>1. T.c[1] = full.headerCanon /\ T.c[2] = full.bodyCanon
      BY <1>1
    <2>2. {HeaderCanon(T), BodyCanon(T)} \subseteq {"simple", "relaxed"}
      BY <1>3, <1>4, <2>1
    <2>3. KeyTypeOf(T.a) # "unsupported"
      BY <1>9
    <2> QED BY <1>1, <1>4, <1>10, <1>12, <2>2, <2>3 DEF MechanismOK, Present
  <1>15. KeyPolicyOK(T, NoFlags)
    BY DEF KeyPolicyOK, NoFlags
  <1> QED BY <1>7, <1>8, <1>9, <1>10, <1>13, <1>14, <1>15 DEF Accepted, T
-------------------------------------------------------------------------------
LEMMA ListedTimes ==
    ASSUME NEW names, IsSeq(names), NEW name
    PROVE  Cardinality({ j \in DOMAIN names : names[j] = name }) = Times(names, name)
  <1>1. DOMAIN names = 1 .. Len(names)
    BY DEF IsSeq
  <1>2. { j \in DOMAIN names : names[j] = name } = Met(names, name, Len(names))
    BY <1>1 DEF Met
  <1> QED BY <1>2 DEF Times

(* A field accepted, on content that is the one signed, under a key that   *)
(* is served: every stage lets it through.                                 *)
LEMMA IntactPasses ==
    ASSUME Shaped(headers), NEW here \in DOMAIN headers,
           \A q \in 1 .. (here - 1) : headers[q] # headers[here],
           NEW e, SignedField(e.field, e.headers, e.body), Shaped(e.headers),
           \A p \in DOMAIN e.headers :
              e.headers[p].name = "dkim-signature" => e.headers[p].tags.b # Empty,
           SignaturesAreValues, SameField(e, headers[here]),
           SameContent(e, RemoveAt(headers, here), body),
           NEW kind, Accepted(e.field.tags, kind),
           NEW clock, policy => clock \in Int,
           e.field.tags.x # Absent => clock < e.field.tags.x,
           NEW answer,
           Fetch(answer, kind, "sha256")
             = [key |-> e.field.tags.b.by, flags |-> NoFlags, res |-> ""]
    PROVE  Verdict(headers, body, entry, headers[here], clock, answer) = "pass"
  <1> DEFINE f    == headers[here]
             T    == e.field.tags
             U    == Unsigned(e.field)
             canon == T.c[1]
             data == BuildSignedHeaders(T.h, headers, f, canon)
  <1>1. /\ e.field = [name |-> "dkim-signature", text |-> <<>>, ws |-> 1, tags |-> T]
        /\ TagRecord(T) /\ T.h \in Seq(FieldNames) /\ T.l = Absent
        /\ HeaderCanon(T) = canon /\ BodyCanon(T) = T.c[2]
        /\ T.bh = CanonicalizeBody(e.body, T.c[2])
        /\ T.b = [by |-> T.b.by, over |-> BuildSignedHeaders(T.h, e.headers, U, canon)]
    BY DEF SignedField
  <1>2. /\ T.strict /\ ALabelTags(T) = T /\ T.b # Junk
        /\ policy => PolicyOK(T, clock)
        /\ MechanismOK(T, body) /\ KeyTypeOf(T.a) = kind /\ KeyPolicyOK(T, NoFlags)
    BY DEF Accepted
  <1>3. f.tags = T /\ CanonicalizeHeader(f, canon) = CanonicalizeHeader(e.field, canon)
    BY DEF SameField
  <1>4. FieldShape(f) /\ FieldShape(e.field) /\ IsSeq(headers)
    <2>1. FieldShape(e.field)
      <3> HIDE DEF T
      <3> QED BY <1>1 DEF FieldShape
    <2> QED BY <2>1 DEF Shaped
  <1>5. T.b \notin {Absent, Empty}
    <2> DEFINE over == BuildSignedHeaders(T.h, e.headers, U, canon)
               by   == T.b.by
    <2>1. T.b = [by |-> by, over |-> over]
      BY <1>1
    <2> HIDE DEF over, by, T
    <2> QED BY <2>1 DEF SignaturesAreValues
  <1>6. RemoveBValue(e.field) = U
    BY <1>1, <1>4, <1>5, NoBValue DEF Unsigned
  <1>7. U.name = "dkim-signature" /\ U.tags.b = Empty
    <2> DEFINE Z == [T EXCEPT !.b = Empty]
    <2>1. Z.b = Empty
      <3> HIDE DEF T
      <3> QED BY <1>1 DEF TagRecord
    <2>2. U = [name |-> "dkim-signature", text |-> <<>>, ws |-> 1, tags |-> Z]
      BY DEF Unsigned
    <2> HIDE DEF Z, U
    <2> QED BY <2>1, <2>2
  <1>8. RemoveBValue(U) = U
    <2> DEFINE Z == [T EXCEPT !.b = Empty]
    <2>1. [Z EXCEPT !.b = Empty] = Z
      <3> HIDE DEF T
      <3> QED BY <1>1 DEF TagRecord
    <2>2. U = [name |-> "dkim-signature", text |-> <<>>, ws |-> 1, tags |-> Z]
      BY DEF Unsigned
    <2> HIDE DEF Z, U
    <2>3. RemoveBValue(U) = [U EXCEPT !.tags.b = Empty]
      BY <1>7, SentinelsDiffer DEF RemoveBValue
    <2> QED BY <2>1, <2>2, <2>3
  <1>9. CanonicalizeHeader(RemoveBValue(f), canon) = CanonicalizeHeader(RemoveBValue(U), canon)
    <2>1. CanonicalizeHeader(RemoveBValue(f), canon) = CanonicalizeHeader(RemoveBValue(e.field), canon)
      <3>1. f.tags = e.field.tags /\ TagRecord(f.tags) /\ f.tags.b # Absent
        BY <1>1, <1>3, <1>5
      <3> HIDE DEF f, canon, T
      <3> QED BY <1>3, <1>4, <3>1, SameWithoutB
    <2> QED BY <1>6, <1>8, <2>1
  <1> DEFINE names  == T.h
             before == e.headers
             others == RemoveAt(headers, here)
  <1>10. WithoutSelf(headers, f) = others /\ IsSeq(others)
    <2>1. WithoutSelf(headers, f) = others
      BY <1>4, UpperMostTakenOut
    <2>2. WithoutSelf(headers, f) \in Seq(ToSet(headers))
      BY <1>4, WithoutType
    <2> HIDE DEF others, f
    <2> QED BY <2>1, <2>2, SeqIsSeq
  <1>11. WithoutSelf(before, U) = before /\ IsSeq(before)
    <2>1. \A p \in DOMAIN before : before[p] # U
      <3> HIDE DEF U
      <3> QED BY <1>7
    <2> HIDE DEF U
    <2> QED BY <2>1, NoSelf DEF Shaped
  <1>12. IsSeq(names) /\ Empty \notin ToSet(names)
    <2> HIDE DEF T
    <2> QED BY <1>1, SeqIsSeq, NoNameIsEmpty DEF ToSet
  <1>13. \A name \in ToSet(names) :
            Covered(name, Times(names, name), others, canon)
              = Covered(name, Times(names, name), before, canon)
    <2>1. \A name : Cardinality({ j \in DOMAIN names : names[j] = name }) = Times(names, name)
      BY <1>12, ListedTimes
    <2>2. \A name \in ToSet(names) :
             Covered(name, Cardinality({ j \in DOMAIN names : names[j] = name }), others, canon)
               = Covered(name, Cardinality({ j \in DOMAIN names : names[j] = name }), before, canon)
      BY DEF SameContent
    <2> HIDE DEF names, others, before, canon
    <2> QED BY <2>1, <2>2
  <1>14. data = BuildSignedHeaders(T.h, e.headers, U, canon)
    <2>1. BuildSignedHeaders(names, headers, f, canon) = BuildSignedHeaders(names, before, U, canon)
      <3>1. /\ CanonicalizeHeader(RemoveBValue(f), canon)
                 = CanonicalizeHeader(RemoveBValue(U), canon)
            /\ IsSeq(others) /\ IsSeq(before) /\ IsSeq(names) /\ Empty \notin ToSet(names)
            /\ WithoutSelf(headers, f) = others /\ WithoutSelf(before, U) = before
            /\ \A name \in ToSet(names) :
                  Covered(name, Times(names, name), others, canon)
                    = Covered(name, Times(names, name), before, canon)
        BY <1>9, <1>10, <1>11, <1>12, <1>13
      <3> HIDE DEF T, names, others, before, canon, f, U, data
      <3>2. CoveredAlike(names, headers, f, before, U, canon)
        BY <3>1 DEF CoveredAlike
      <3> QED BY ONLY <3>2, SameDataIfCovered
    <2> QED BY <2>1
  <1>15. HashedBody(T, body) = T.bh
    <2>1. CanonicalizeBody(body, T.c[2]) = CanonicalizeBody(e.body, T.c[2])
      BY DEF SameContent
    <2> QED BY <1>1, <2>1 DEF HashedBody, Present
  <1>16. VerifyHash(T.b.by, data, T.b)
    <2> DEFINE sig == T.b
               by  == sig.by
    <2>1. sig = [by |-> by, over |-> data]
      BY <1>1, <1>14
    <2> HIDE DEF data, by, sig
    <2>2. sig.by = by /\ sig.over = data
      BY <2>1
    <2>3. VerifyHash(by, data, sig)
      BY <2>2 DEF VerifyHash
    <2> QED BY <2>3 DEF by, sig
  <1> DEFINE fetch == Fetch(answer, KeyTypeOf(T.a), "sha256")
  <1>17. fetch.key = T.b.by /\ fetch.flags = NoFlags /\ fetch.res = ""
    <2> DEFINE by == T.b.by
    <2>1. fetch = [key |-> by, flags |-> NoFlags, res |-> ""]
      BY <1>2
    <2> HIDE DEF by, fetch
    <2>2. fetch.key = by /\ fetch.flags = NoFlags /\ fetch.res = ""
      BY <2>1
    <2> QED BY <2>2 DEF by, fetch
  <1>18. /\ Parsed(entry, f) /\ ALabelTags(f.tags) = T
         /\ data = BuildSignedHeaders(T.h, headers, f, HeaderCanon(T))
    BY <1>1, <1>2, <1>3 DEF Parsed
  <1>19. Verdict(headers, body, entry, f, clock, answer)
           = IF policy /\ ~KeyPolicyOK(T, fetch.flags) THEN "permerror" ELSE "pass"
    <2> DEFINE v   == Verdict(headers, body, entry, f, clock, answer)
               bad == policy /\ ~KeyPolicyOK(T, fetch.flags)
    <2> HIDE DEF T, f, data, fetch
    <2>1. fetch.res = "" /\ VerifyHash(fetch.key, data, T.b)
      BY <1>16, <1>17
    <2>2. v = IF \/ ~Parsed(entry, f)
                 \/ policy /\ ~PolicyOK(T, clock)
                 \/ ~MechanismOK(T, body)            THEN "permerror"
              ELSE IF HashedBody(T, body) # T.bh     THEN "fail"
              ELSE IF T.b = Junk                     THEN "permerror"
              ELSE IF fetch.res # ""                 THEN fetch.res
              ELSE IF ~VerifyHash(fetch.key, data, T.b) THEN "fail"
              ELSE IF bad THEN "permerror"
              ELSE "pass"
      BY <1>18 DEF Verdict, policy, fetch
    <2>3. Parsed(entry, f) /\ ~(policy /\ ~PolicyOK(T, clock)) /\ MechanismOK(T, body)
      BY <1>2, <1>18
    <2> HIDE DEF v, bad
    <2>4. v = IF bad THEN "permerror" ELSE "pass"
      BY <1>2, <1>15, <2>1, <2>2, <2>3
    <2> QED BY <2>4 DEF v, bad
  <1>20. ~(policy /\ ~KeyPolicyOK(T, fetch.flags))
    BY <1>2, <1>17
  <1> QED BY <1>19, <1>20
-------------------------------------------------------------------------------
(* What a verdict rests on: an answer under the name of the field's own    *)
(* key record, unless the message or the clock alone refuse the field.     *)

RefusedUnread(field, clock) ==
    LET tags == ALabelTags(field.tags)
    IN  \/ ~Parsed(entry, field)
        \/ policy /\ ~PolicyOK(tags, clock)
        \/ ~MechanismOK(tags, body)
        \/ HashedBody(tags, body) # tags.bh
        \/ tags.b = Junk

Rests(field, e) ==
    /\ policy /\ Parsed(entry, field) => e.now \in 0 .. MaxTime
    /\ e.answer \in Answers(NameOf(field)) \/ RefusedUnread(field, e.now)

Reasoned == \A j \in DOMAIN seen : Rests(headers[seen[j].at], seen[j])

LEMMA ReturnReasoned ==
    ASSUME IInv, Reasoned, UNCHANGED message, NEW locals, NEW result, Return(locals, result),
           NEW field, field = Sig, Rests(field, locals)
    PROVE  Reasoned'
  <1> DEFINE ev == [at |-> at, now |-> locals.now, name |-> locals.name,
                    answer |-> locals.answer]
  <1>1. seen' = Append(seen, ev) /\ headers' = headers /\ IsSeq(seen)
    BY DEF Return, message, IInv, Shape
  <1>2. ev.at = at /\ ev.now = locals.now /\ ev.answer = locals.answer
    OBVIOUS
  <1> HIDE DEF ev
  <1>3. Rests(headers[ev.at], ev)
    BY <1>2 DEF Rests, Sig
  <1>4. \A j \in DOMAIN seen' : Rests(headers[seen'[j].at], seen'[j])
    <2> TAKE j \in DOMAIN seen'
    <2>1. j \in 1 .. (Len(seen) + 1) /\ Len(seen) \in Nat
      BY <1>1, Appended
    <2>2. CASE j \in 1 .. Len(seen)
      BY <1>1, <2>2, Appended DEF Reasoned
    <2>3. CASE j = Len(seen) + 1
      BY <1>1, <1>3, <2>3, Appended
    <2> QED BY <2>1, <2>2, <2>3
  <1>5. /\ policy' = policy /\ body' = body /\ entry' = entry
    BY DEF message, policy
  <1> QED BY <1>1, <1>4, <1>5 DEF Reasoned, Rests, RefusedUnread, NameOf

LEMMA SameReasoned ==
    ASSUME Reasoned, UNCHANGED message, UNCHANGED seen
    PROVE  Reasoned'
  <1>1. policy' = policy /\ body' = body /\ entry' = entry /\ headers' = headers
    BY DEF message, policy
  <1> QED BY <1>1 DEF Reasoned, Rests, RefusedUnread, NameOf

LEMMA ReasonedStep ==
    ASSUME IInv, Reasoned, [Next]_vars
    PROVE  Reasoned'
  <1>1. CASE SkipField
    BY <1>1, SameReasoned DEF SkipField
  <1>2. CASE Parse
    <2>1. CASE Sig.tags.strict \/ entry = "VerifySignatureBareTags"
      BY <1>2, <2>1, SameReasoned DEF Parse, GoOn
    <2>2. CASE ~(Sig.tags.strict \/ entry = "VerifySignatureBareTags")
      <3>1. Return(NoCall, "permerror") /\ UNCHANGED message
        BY <1>2, <2>2 DEF Parse
      <3>2. Rests(Sig, NoCall)
        BY <2>2 DEF Rests, RefusedUnread, Parsed
      <3> QED BY <3>1, <3>2, ReturnReasoned
    <2> QED BY <2>1, <2>2
  <1>3. CASE CheckPolicy
    <2> DEFINE locals == [call EXCEPT !.now = now]
    <2>1. CASE PolicyOK(call.tags, now)
      BY <1>3, <2>1, SameReasoned DEF CheckPolicy, GoOn
    <2>2. CASE ~PolicyOK(call.tags, now)
      <3>1. Return(locals, "permerror") /\ UNCHANGED message
        BY <1>3, <2>2 DEF CheckPolicy
      <3>2. locals.now = now /\ call.tags = ALabelTags(Sig.tags) /\ policy /\ now \in 0 .. MaxTime
        BY <1>3, CallFacts DEF CheckPolicy, IInv, Staged, Shape, InCall
      <3> HIDE DEF locals
      <3>3. Rests(Sig, locals)
        BY <2>2, <3>2 DEF Rests, RefusedUnread
      <3> QED BY <3>1, <3>3, ReturnReasoned
    <2> QED BY <2>1, <2>2
  <1>4. ASSUME pc \in {"mechanism", "answered", "keypolicy"}, policy
        PROVE  call.now \in 0 .. MaxTime
    BY <1>4 DEF IInv, Staged
  <1>5. CASE PrepareMechanism
    <2>1. pc = "mechanism" /\ UNCHANGED message /\ call.tags = ALabelTags(Sig.tags)
      BY <1>5, CallFacts DEF PrepareMechanism, IInv
    <2>2. CASE UNCHANGED seen
      BY <2>1, <2>2, SameReasoned
    <2>3. CASE ~UNCHANGED seen
      <3>1. /\ Return(call, "permerror") \/ Return(call, "fail")
            /\ \/ ~MechanismOK(call.tags, body) \/ HashedBody(call.tags, body) # call.tags.bh
               \/ call.tags.b = Junk
        BY <1>5, <2>3 DEF PrepareMechanism, GoOn
      <3>2. Rests(Sig, call)
        BY <1>4, <2>1, <3>1 DEF Rests, RefusedUnread
      <3> QED BY <2>1, <3>1, <3>2, ReturnReasoned
    <2> QED BY <2>2, <2>3
  <1>6. CASE Answer
    BY <1>6, SameReasoned DEF Answer, GoOn
  <1>7. ASSUME pc \in {"answered", "keypolicy"}
        PROVE  Rests(Sig, call)
    <2>1. call.answer \in Answers(NameOf(Sig))
      BY <1>7 DEF IInv, Staged, Prepared
    <2> QED BY <1>4, <1>7, <2>1 DEF Rests
  <1>8. CASE CheckSignature
    <2>1. UNCHANGED message /\ Rests(Sig, call)
      BY <1>7, <1>8 DEF CheckSignature
    <2>2. (\E result : Return(call, result)) \/ UNCHANGED seen
      BY <1>8 DEF CheckSignature, GoOn
    <2> QED BY <2>1, <2>2, ReturnReasoned, SameReasoned
  <1>9. CASE CheckKeyPolicy
    <2>1. UNCHANGED message /\ Rests(Sig, call)
      BY <1>7, <1>9 DEF CheckKeyPolicy
    <2>2. \E result : Return(call, result)
      BY <1>9 DEF CheckKeyPolicy
    <2> QED BY <2>1, <2>2, ReturnReasoned
  <1>10. CASE Finish \/ Tick \/ Publish \/ UNCHANGED vars
    BY <1>10, SameReasoned DEF Finish, Tick, Publish, vars, progress
  <1> QED BY <1>1, <1>2, <1>3, <1>5, <1>6, <1>8, <1>9, <1>10 DEF Next, VerifierStep
-------------------------------------------------------------------------------
(* WHAT A RESULT STANDS FOR, IN THE TERMS OF RFC 6376 *)

(* The checks of the code up to the body hash refuse exactly what RFC 6376 *)
(* has a verifier refuse.                                                  *)
LEMMA AdmissibleIs ==
    ASSUME NEW field, TagRecord(field.tags), NEW clock
    PROVE  LET sent == ALabelTags(field.tags)
           IN  Admissible(field, clock)
                 <=> /\ Parsed(entry, field) /\ MechanismOK(sent, body)
                     /\ policy => PolicyOK(sent, clock)
  <1> DEFINE tags == field.tags
             sent == ALabelTags(tags)
             d    == ToALabels(tags.d)
             s    == ToALabels(tags.s)
             idom == ToALabels(tags.i)
             whole == CanonicalizeBody(body, BodyCanon(tags))
  <1>1. /\ sent.strict = tags.strict /\ sent.v = tags.v /\ sent.a = tags.a /\ sent.b = tags.b
        /\ sent.bh = tags.bh /\ sent.c = tags.c /\ sent.d = d /\ sent.s = s /\ sent.h = tags.h
        /\ sent.i = idom /\ sent.l = tags.l /\ sent.q = tags.q /\ sent.t = tags.t /\ sent.x = tags.x
    BY ALabelFields
  <1>2. HeaderCanon(sent) = HeaderCanon(tags) /\ BodyCanon(sent) = BodyCanon(tags)
    BY <1>1 DEF HeaderCanon, BodyCanon
  <1>3. idom = Absent <=> tags.i = Absent
    BY ConvertedName DEF TagRecord
  <1> DEFINE mechanism ==
               /\ NonEmpty(tags.b) /\ NonEmpty(tags.bh) /\ NonEmpty(tags.h)
               /\ tags.a \in {"rsa-sha256", "ed25519-sha256"}
               /\ ValidDNSName(d) /\ ValidDNSName(s)
               /\ tags.q = Absent \/ "dns/txt" \in tags.q
               /\ HeaderCanon(tags) \in {"simple", "relaxed"}
               /\ BodyCanon(tags) \in {"simple", "relaxed"}
               /\ tags.bh # Junk
               /\ \/ tags.l = Absent
                  \/ tags.l \notin {Empty, Junk} /\ tags.l <= Len(whole)
             signer(at0) ==
               /\ tags.v = "1"
               /\ \E k \in DOMAIN tags.h : tags.h[k] = "from"
               /\ tags.i = Absent \/ (ValidDNSName(idom) /\ IsSuffix(d, idom))
               /\ tags.t = Absent \/ IsTime(tags.t)
               /\ \/ tags.x = Absent
                  \/ /\ IsTime(tags.x) /\ at0 < tags.x
                     /\ tags.t = Absent \/ tags.t < tags.x
  <1>4. Admissible(field, clock) <=> /\ Parsed(entry, field) /\ mechanism
                                     /\ policy => signer(clock)
    BY DEF Admissible, Parsed
  <1>5. MechanismOK(sent, body) <=> mechanism /\ NonEmpty(tags.a)
    <2>1. (KeyTypeOf(tags.a) # "unsupported") <=> tags.a \in {"rsa-sha256", "ed25519-sha256"}
      BY DEF KeyTypeOf
    <2>2. \A name : ValidDNSName(name) => NonEmpty(name)
      BY DEF ValidDNSName, IsName, NonEmpty
    <2>3. MechanismOK(sent, body)
            <=> /\ NonEmpty(tags.a) /\ NonEmpty(tags.b) /\ NonEmpty(tags.bh)
                /\ NonEmpty(d) /\ NonEmpty(s) /\ NonEmpty(tags.h)
                /\ KeyTypeOf(tags.a) # "unsupported"
                /\ ValidDNSName(d) /\ ValidDNSName(s)
                /\ tags.q # Absent => "dns/txt" \in tags.q
                /\ {HeaderCanon(tags), BodyCanon(tags)} \subseteq {"simple", "relaxed"}
                /\ tags.l # Absent => tags.l \notin {Empty, Junk} /\ tags.l <= Len(whole)
                /\ tags.bh # Junk
      <3> HIDE DEF sent, d, s, idom
      <3> QED BY <1>1, <1>2 DEF MechanismOK, RequiredTags, Present, ListContains
    <2> HIDE DEF tags, sent, d, s, whole
    <2> QED BY <2>1, <2>2, <2>3
  <1>6. ASSUME policy, MechanismOK(sent, body) PROVE PolicyOK(sent, clock) <=> signer(clock)
    <2>1. NonEmpty(tags.h) /\ ValidDNSName(d) /\ RequiredTags(sent)
      <3> HIDE DEF sent, d
      <3> QED BY <1>1, <1>6 DEF MechanismOK, RequiredTags
    <2>2. IsSeq(tags.h)
      BY <2>1 DEF TagRecord, IsSeq
    <2>3. HeaderListCoversFrom(tags.h) <=> \E k \in DOMAIN tags.h : tags.h[k] = "from"
      <3> HIDE DEF tags
      <3> QED BY <2>2 DEF HeaderListCoversFrom, Contains, IsSeq
    <2>4. IdentityOK(sent) <=> tags.i = Absent \/ (ValidDNSName(idom) /\ IsSuffix(d, idom))
      <3> HIDE DEF sent, d, idom, tags
      <3> QED BY <1>1, <1>3, <2>1 DEF IdentityOK, Present, ValidDNSName, DomainAligned
    <2>5. TimingOK(sent, clock)
            <=> /\ tags.t = Absent \/ IsTime(tags.t)
                /\ \/ tags.x = Absent
                   \/ /\ IsTime(tags.x) /\ clock < tags.x
                      /\ tags.t = Absent \/ tags.t < tags.x
      <3>1. TimingOK(sent, clock)
              <=> /\ tags.t # Absent => IsTime(tags.t)
                  /\ tags.x # Absent => /\ IsTime(tags.x)
                                        /\ tags.t # Absent => tags.x > tags.t
                                        /\ clock < tags.x
        <4> HIDE DEF sent, tags
        <4> QED BY <1>1 DEF TimingOK, Present
      <3>2. IsTime(tags.t) /\ IsTime(tags.x) => (tags.x > tags.t <=> tags.t < tags.x)
        BY LargestTime DEF IsTime
      <3> HIDE DEF sent, tags
      <3> QED BY <3>1, <3>2
    <2> HIDE DEF sent, d, idom, tags
    <2> QED BY <1>1, <2>1, <2>3, <2>4, <2>5 DEF PolicyOK
  <1>7. mechanism => NonEmpty(tags.a)
    BY NamesAreValues DEF NonEmpty
  <1> HIDE DEF mechanism, signer, sent
  <1> QED BY <1>4, <1>5, <1>6, <1>7 DEF sent

(* What is hashed and compared with bh= is the body up to l=.              *)
LEMMA BodySignedIs ==
    ASSUME NEW field, TagRecord(field.tags)
    PROVE  LET sent == ALabelTags(field.tags)
           IN  BodySigned(field.tags) <=> HashedBody(sent, body) = sent.bh
  <1> DEFINE tags == field.tags
             sent == ALabelTags(tags)
  <1>1. sent.c = tags.c /\ sent.l = tags.l /\ sent.bh = tags.bh
    BY ALabelFields
  <1>2. BodyCanon(sent) = BodyCanon(tags)
    BY <1>1 DEF BodyCanon
  <1> HIDE DEF sent, tags
  <1> QED BY <1>1, <1>2 DEF BodySigned, HashedBody, Present, sent, tags

(* The records Fetch does not skip are those that serve the algorithm.     *)
LEMMA ServesIs ==
    ASSUME NEW rec, NEW a \in {"rsa-sha256", "ed25519-sha256"}
    PROVE  Serves(rec, a) <=> Usable(rec, KeyTypeOf(a), "sha256")
  <1>1. /\ VersionOK(rec) <=> rec.v = Absent \/ (rec.v = "DKIM1" /\ rec.vfirst)
        /\ keyRecordAllowsHash(rec, "sha256") <=> rec.h = Absent \/ "sha256" \in rec.h
        /\ NonEmpty(rec.p) /\ rec.p # Junk <=> rec.p \notin {Absent, Empty, Junk}
    BY DEF VersionOK, keyRecordAllowsHash, NonEmpty, Present, ListContains
  <1>2. CASE a = "rsa-sha256"
    <2>1. KeyTypeOf(a) = "rsa"
      BY <1>2 DEF KeyTypeOf
    <2>2. KeyType(rec) = "rsa" <=> rec.k \in {Absent, "rsa"}
      BY AbsentIsNoWord DEF KeyType, Present
    <2>3. parsePublicKey("rsa", rec.p) # NoKey <=> rec.p.kind = "rsa" /\ rec.p.bits >= MinRSABits
      <3> DEFINE key == [kind |-> "rsa", id |-> rec.p.id]
      <3>1. key.kind = "rsa" /\ NoKey.kind = "none"
        BY DEF NoKey
      <3>2. key # NoKey
        BY <3>1
      <3>3. parsePublicKey("rsa", rec.p)
              = IF rec.p.kind = "rsa" /\ rec.p.bits >= MinRSABits THEN key ELSE NoKey
        BY DEF parsePublicKey
      <3> HIDE DEF key
      <3> QED BY <3>2, <3>3
    <2> QED BY <1>1, <1>2, <2>1, <2>2, <2>3 DEF Serves, Usable
  <1>3. CASE a = "ed25519-sha256"
    <2>1. KeyTypeOf(a) = "ed25519"
      BY <1>3 DEF KeyTypeOf
    <2>2. KeyType(rec) = "ed25519" <=> rec.k = "ed25519"
      BY AbsentIsNoWord DEF KeyType, Present
    <2>3. parsePublicKey("ed25519", rec.p) # NoKey
            <=> rec.p.kind = "raw" /\ rec.p.bits = Ed25519Bits
      <3> DEFINE key == [kind |-> "ed25519", id |-> rec.p.id]
      <3>1. key.kind = "ed25519" /\ NoKey.kind = "none"
        BY DEF NoKey
      <3>2. key # NoKey
        BY <3>1
      <3>3. parsePublicKey("ed25519", rec.p)
              = IF rec.p.kind = "raw" /\ rec.p.bits = Ed25519Bits THEN key ELSE NoKey
        BY DEF parsePublicKey
      <3> HIDE DEF key
      <3> QED BY <3>2, <3>3
    <2> QED BY <1>1, <1>3, <2>1, <2>2, <2>3 DEF Serves, Usable
  <1> QED BY <1>2, <1>3

LEMMA FirstServingIs ==
    ASSUME NEW r, NEW answer, NEW a \in {"rsa-sha256", "ed25519-sha256"}
    PROVE  FirstServing(r, answer, a)
             <=> answer.err = "none" /\ IsFirstUsable(r, answer.records, KeyTypeOf(a), "sha256")
  BY ServesIs DEF FirstServing, IsFirstUsable

(* The first record is one: records come in a slice.                       *)
LEMMA OnlyFirst ==
    ASSUME NEW records, IsSeq(records), NEW keyType,
           NEW q, IsFirstUsable(q, records, keyType, "sha256"),
           NEW r, IsFirstUsable(r, records, keyType, "sha256")
    PROVE  q = r
  <1>1. q \in 1 .. Len(records) /\ r \in 1 .. Len(records)
    BY DEF IsFirstUsable, IsSeq
  <1>2. q \notin 1 .. (r - 1) /\ r \notin 1 .. (q - 1)
    BY DEF IsFirstUsable
  <1> QED BY <1>1, <1>2

(* A fetch by its outcome: the key and the flags of the first record that  *)
(* serves, permerror without one, temperror for a failure to look.         *)
LEMMA FetchIs ==
    ASSUME NEW answer, NEW a \in {"rsa-sha256", "ed25519-sha256"}
    PROVE  LET fetch == Fetch(answer, KeyTypeOf(a), "sha256")
           IN  /\ fetch.res = "" =>
                     \E r \in DOMAIN answer.records :
                        /\ FirstServing(r, answer, a)
                        /\ fetch = Found(answer.records[r], KeyTypeOf(a))
               /\ fetch.res = "permerror" =>
                     /\ answer.err # "temporary"
                     /\ \A r \in DOMAIN answer.records : ~FirstServing(r, answer, a)
               /\ fetch.res = "temperror" => answer.err \notin {"none", "notfound"}
  <1> DEFINE isIt(r) == IsFirstUsable(r, answer.records, KeyTypeOf(a), "sha256")
             fetch   == Fetch(answer, KeyTypeOf(a), "sha256")
             first   == CHOOSE r \in DOMAIN answer.records : isIt(r)
             there   == \E r \in DOMAIN answer.records : isIt(r)
  <1>1. \A r : FirstServing(r, answer, a) <=> answer.err = "none" /\ isIt(r)
    BY FirstServingIs
  <1>2. fetch = IF answer.err # "none" THEN ErrorResult(answer.err)
                ELSE IF there THEN Found(answer.records[first], KeyTypeOf(a))
                ELSE Failed("permerror")
    BY DEF Fetch
  <1>3. there => first \in DOMAIN answer.records /\ isIt(first)
    OBVIOUS
  <1>4. /\ \A rec, keyType : Found(rec, keyType).res = ""
        /\ \A res : Failed(res).res = res
    BY DEF Found, Failed
  <1>5. ErrorResult(answer.err).res = IF answer.err = "notfound" THEN "permerror" ELSE "temperror"
    BY <1>4 DEF ErrorResult
  <1>6. ~there => \A r \in DOMAIN answer.records : ~isIt(r)
    OBVIOUS
  <1> HIDE DEF isIt, first, there, fetch
  <1>7. CASE answer.err # "none"
    BY <1>1, <1>2, <1>5, <1>7 DEF fetch
  <1>8. CASE answer.err = "none" /\ there
    BY <1>1, <1>2, <1>3, <1>4, <1>8 DEF fetch
  <1>9. CASE answer.err = "none" /\ ~there
    BY <1>1, <1>2, <1>4, <1>6, <1>9 DEF fetch
  <1> QED BY <1>7, <1>8, <1>9

(* The key fetched verifies what its owner signed, its flags allow mail.   *)
LEMMA FetchedKey ==
    ASSUME NEW tags, TagRecord(tags), NEW rec, NEW data,
           tags.a \in {"rsa-sha256", "ed25519-sha256"}, Serves(rec, tags.a)
    PROVE  /\ VerifyHash(Found(rec, KeyTypeOf(tags.a)).key, data, ALabelTags(tags).b)
                <=> SignedWith(rec, tags) /\ tags.b.over = data
           /\ KeyPolicyOK(ALabelTags(tags), Found(rec, KeyTypeOf(tags.a)).flags)
                <=> ForMail(rec, tags)
  <1> DEFINE sent == ALabelTags(tags)
             kind == KeyTypeOf(tags.a)
             found == Found(rec, kind)
  <1>1. /\ sent.a = tags.a /\ sent.b = tags.b /\ sent.d = ToALabels(tags.d)
        /\ sent.i = ToALabels(tags.i)
    BY ALabelFields
  <1>2. found.key = parsePublicKey(kind, rec.p) /\ found.flags = FlagsOf(rec)
    BY DEF Found
  <1>3. parsePublicKey(kind, rec.p) = [kind |-> kind, id |-> rec.p.id]
    <2>1. Usable(rec, kind, "sha256")
      BY ServesIs
    <2> HIDE DEF kind
    <2> QED BY <2>1, UsableKey
  <1>4. kind = IF tags.a = "rsa-sha256" THEN "rsa" ELSE "ed25519"
    BY DEF KeyTypeOf
  <1>5. VerifyHash(found.key, data, sent.b) <=> SignedWith(rec, tags) /\ tags.b.over = data
    <2> HIDE DEF found, kind, sent
    <2> QED BY <1>1, <1>2, <1>3, <1>4 DEF VerifyHash, SignedWith
  <1>6. sent.i = Absent <=> tags.i = Absent
    BY <1>1, ConvertedName DEF TagRecord
  <1>7. /\ FlagsOf(rec).noSubdomain <=> rec.t # Absent /\ "s" \in rec.t
        /\ ~FlagsOf(rec).notForEmail <=> rec.s = Absent \/ {"email", "*"} \cap rec.s # {}
    <2>1. /\ FlagsOf(rec).noSubdomain = (rec.t # Absent /\ "s" \in rec.t)
          /\ FlagsOf(rec).notForEmail = ~keyRecordAllowsService(rec)
      BY DEF FlagsOf, Present, ListContains
    <2>2. keyRecordAllowsService(rec) <=> rec.s = Absent \/ {"email", "*"} \cap rec.s # {}
      BY DEF keyRecordAllowsService, Present, ListContains
    <2> QED BY <2>1, <2>2
  <1>8. KeyPolicyOK(sent, found.flags) <=> ForMail(rec, tags)
    <2> HIDE DEF found, kind, sent
    <2> QED BY <1>1, <1>2, <1>6, <1>7 DEF KeyPolicyOK, ForMail, Present
  <1> QED BY <1>5, <1>8

(* What the first n names of h= list.                                      *)
ListUpTo(names, hs, canon, n) == FlattenSeq([k \in 1 .. n |-> ListedField(names, k, hs, canon)])

LEMMA ListMore ==
    ASSUME NEW names, NEW hs, NEW canon, NEW n \in Nat
    PROVE  ListUpTo(names, hs, canon, n + 1)
             = ListUpTo(names, hs, canon, n) \o ListedField(names, n + 1, hs, canon)
  <1> DEFINE listed(k) == ListedField(names, k, hs, canon)
             lowest(k) ==
                LET all == Instances(names[k], hs)
                    c   == Cardinality({ j \in 1 .. k : names[j] = names[k] })
                IN  CanonicalizeHeader(all[Len(all) - c + 1], canon)
             parts == [k \in 1 .. (n + 1) |-> listed(k)]
             front == [k \in 1 .. n |-> listed(k)]
             S     == { lowest(k) : k \in 1 .. (n + 1) }
  <1>1. ASSUME NEW k \in 1 .. (n + 1) PROVE listed(k) \in Seq(S)
    <2>1. lowest(k) \in S
      OBVIOUS
    <2>2. listed(k) = <<>> \/ listed(k) = <<lowest(k)>>
      BY DEF ListedField
    <2> HIDE DEF S, lowest, listed
    <2>3. <<>> \in Seq(S) /\ \A x \in S : <<x>> \in Seq(S)
      OBVIOUS
    <2> QED BY <2>1, <2>2, <2>3
  <1> HIDE DEF S
  <1>2. parts \in [1 .. (n + 1) -> Seq(S)] /\ parts[n + 1] = listed(n + 1)
    BY <1>1
  <1>3. front = [k \in 1 .. n |-> parts[k]]
    OBVIOUS
  <1>4. /\ ListUpTo(names, hs, canon, n) = FlattenSeq(front)
        /\ ListUpTo(names, hs, canon, n + 1) = FlattenSeq(parts)
    BY DEF ListUpTo
  <1> HIDE DEF parts, front, listed
  <1>5. FlattenSeq(parts) = FlattenSeq(front) \o parts[n + 1]
    BY <1>2, <1>3, FlattenStep
  <1> QED BY <1>2, <1>4, <1>5 DEF listed

CanonAt(sel, hs, canon) == [j \in 1 .. Len(sel) |-> CanonicalizeHeader(hs[sel[j]], canon)]

(* The first n names select, from the bottom up, what they list.           *)
Written(names, hs, canon, n) ==
    /\ SelUpTo(names, hs, n) \in Seq(DOMAIN hs)
    /\ ListUpTo(names, hs, canon, n) = CanonAt(SelUpTo(names, hs, n), hs, canon)

(* The kth name of h= picks the field the RFC lists for it.                *)
LEMMA ListedIsSelected ==
    ASSUME NEW names, IsSeq(names), NEW hs, IsSeq(hs), NEW canon, NEW k \in DOMAIN names
    PROVE  \/ /\ SelectedBy(names, hs, k) = <<>>
              /\ ListedField(names, k, hs, canon) = <<>>
           \/ \E p \in DOMAIN hs :
                 /\ SelectedBy(names, hs, k) = <<p>>
                 /\ ListedField(names, k, hs, canon) = <<CanonicalizeHeader(hs[p], canon)>>
  <1> DEFINE name == names[k]
             all  == Instances(name, hs)
             N    == Times(NamesIn(hs), name)
             c    == ConsumedBefore(names, k)
             n    == Cardinality({ j \in 1 .. k : names[j] = names[k] })
             p    == nthFromBottom(hs, name, c)
  <1>0. k \in Nat \ {0}
    BY DEF IsSeq
  <1>1. c \in Nat /\ n = c + 1
    <2> DEFINE m == k - 1
    <2>1. m \in Nat /\ m + 1 = k
      BY <1>0
    <2>2. c = Cardinality(Met(names, name, m)) /\ n = Cardinality(Met(names, name, m + 1))
      BY <2>1 DEF ConsumedBefore, Met
    <2> HIDE DEF m, c, n
    <2>3. names[m + 1] = name
      BY <2>1
    <2> HIDE DEF name
    <2> QED BY <2>1, <2>2, <2>3, MetOneMore
  <1>2. N \in Nat /\ Len(all) = N
    BY InstancesByRank
  <1>3. /\ p # 0 <=> c < N
        /\ p # 0 => p \in DOMAIN hs /\ all[N - c] = hs[p]
    <2> HIDE DEF c, name
    <2> QED BY <1>1, NthIsInstance
  <1>4. SelectedBy(names, hs, k) = IF name = Empty \/ p = 0 THEN <<>> ELSE <<p>>
    BY DEF SelectedBy
  <1>5. ListedField(names, k, hs, canon)
          = IF name = Empty \/ n > Len(all) THEN <<>>
            ELSE << CanonicalizeHeader(all[Len(all) - n + 1], canon) >>
    BY DEF ListedField
  <1> HIDE DEF name, all, N, c, n, p
  <1>6. (n > Len(all) <=> p = 0) /\ Len(all) - n + 1 = N - c
    BY <1>1, <1>2, <1>3
  <1> QED BY <1>3, <1>4, <1>5, <1>6

LEMMA WrittenStep ==
    ASSUME NEW names, IsSeq(names), NEW hs, IsSeq(hs), NEW canon,
           NEW n \in Nat, n + 1 \in DOMAIN names, Written(names, hs, canon, n)
    PROVE  Written(names, hs, canon, n + 1)
  <1> DEFINE sel  == SelUpTo(names, hs, n)
             more == SelUpTo(names, hs, n + 1)
             old  == ListUpTo(names, hs, canon, n)
             new  == ListUpTo(names, hs, canon, n + 1)
  <1>1. sel \in Seq(DOMAIN hs) /\ old = CanonAt(sel, hs, canon)
    BY DEF Written
  <1>2. /\ more = sel \o SelectedBy(names, hs, n + 1)
        /\ new = old \o ListedField(names, n + 1, hs, canon)
    BY SelMore, ListMore
  <1> HIDE DEF sel, more, old, new
  <1> DEFINE line(p) == CanonicalizeHeader(hs[p], canon)
             S == { line(p) : p \in DOMAIN hs }
  <1>3. /\ \A p \in DOMAIN hs : line(p) \in S
        /\ CanonAt(sel, hs, canon) = [j \in 1 .. Len(sel) |-> line(sel[j])]
        /\ CanonAt(more, hs, canon) = [j \in 1 .. Len(more) |-> line(more[j])]
    BY DEF CanonAt
  <1> HIDE DEF line, S
  <1>4. old \in Seq(S) /\ Len(old) = Len(sel) /\ \A j \in 1 .. Len(sel) : old[j] = line(sel[j])
    BY <1>1, <1>3
  <1>5. CASE SelectedBy(names, hs, n + 1) = <<>> /\ ListedField(names, n + 1, hs, canon) = <<>>
    <2>1. more = sel /\ new = old
      BY <1>1, <1>2, <1>4, <1>5
    <2> QED BY <1>1, <2>1 DEF Written, sel, more, old, new
  <1>6. ASSUME NEW p \in DOMAIN hs, SelectedBy(names, hs, n + 1) = <<p>>,
               ListedField(names, n + 1, hs, canon) = <<line(p)>>
        PROVE  Written(names, hs, canon, n + 1)
    <2>1. more = Append(sel, p) /\ new = Append(old, line(p))
      <3>1. more = sel \o <<p>> /\ new = old \o <<line(p)>>
        BY <1>2, <1>6
      <3>2. line(p) \in S
        BY <1>3
      <3>3. sel \o <<p>> = Append(sel, p) /\ old \o <<line(p)>> = Append(old, line(p))
        BY <1>1, <1>4, <3>2
      <3> QED BY <3>1, <3>3
    <2>2. /\ more \in Seq(DOMAIN hs) /\ Len(more) = Len(sel) + 1 /\ Len(sel) \in Nat
          /\ more[Len(sel) + 1] = p /\ \A j \in 1 .. Len(sel) : more[j] = sel[j]
      BY <1>1, <2>1
    <2>3. /\ new \in Seq(S) /\ Len(new) = Len(sel) + 1
          /\ new[Len(sel) + 1] = line(p) /\ \A j \in 1 .. Len(sel) : new[j] = line(sel[j])
      BY <1>3, <1>4, <2>1, <2>2
    <2>4. new = [j \in 1 .. Len(more) |-> line(more[j])]
      <3>1. \A j \in 1 .. Len(more) : new[j] = line(more[j])
        BY <2>2, <2>3
      <3> QED BY <2>2, <2>3, <3>1
    <2> QED BY <1>3, <2>2, <2>4 DEF Written, more, new
  <1> QED BY <1>5, <1>6, ListedIsSelected DEF line

LEMMA AllWritten ==
    ASSUME NEW names, IsSeq(names), NEW hs, IsSeq(hs), NEW canon
    PROVE  Written(names, hs, canon, Len(names))
  <1> DEFINE N == Len(names)
             T == { n \in 0 .. N : Written(names, hs, canon, n) }
  <1>1. N \in Nat /\ DOMAIN names = 1 .. N
    BY DEF IsSeq
  <1> HIDE DEF N
  <1>2. 0 \in T
    <2>1. /\ [j \in 1 .. 0 |-> SelectedBy(names, hs, j)] = <<>>
          /\ [k \in 1 .. 0 |-> ListedField(names, k, hs, canon)] = <<>>
      OBVIOUS
    <2>2. SelUpTo(names, hs, 0) = <<>> /\ ListUpTo(names, hs, canon, 0) = <<>>
      BY <2>1, FlattenEmpty DEF SelUpTo, ListUpTo
    <2>3. CanonAt(<<>>, hs, canon) = <<>> /\ <<>> \in Seq(DOMAIN hs)
      BY DEF CanonAt
    <2>4. Written(names, hs, canon, 0)
      BY <2>2, <2>3 DEF Written
    <2> QED BY <1>1, <2>4
  <1>3. \A n \in 0 .. (N - 1) : n \in T => n + 1 \in T
    BY <1>1, WrittenStep
  <1> HIDE DEF T
  <1>4. \A n \in 0 .. N : n \in T
    BY <1>1, <1>2, <1>3, IntervalInduction
  <1>5. N \in T
    BY <1>1, <1>4
  <1> QED BY <1>5 DEF T, N

(* The bytes the code builds for the upper-most copy of a field are the    *)
(* header data of RFC 6376 5.4.2.                                          *)
LEMMA HeaderDataIs ==
    ASSUME IsSeq(headers), NEW p \in DOMAIN headers,
           \A q \in 1 .. (p - 1) : headers[q] # headers[p],
           TagRecord(headers[p].tags), NonEmpty(headers[p].tags.h)
    PROVE  BuildSignedHeaders(ALabelTags(headers[p].tags).h, headers, headers[p],
                              HeaderCanon(ALabelTags(headers[p].tags))) = HeaderData(p)
  <1> DEFINE tags  == headers[p].tags
             sent  == ALabelTags(tags)
             canon == HeaderCanon(tags)
             names == tags.h
             W     == RemoveAt(headers, p)
             SA    == Selected(names, W)
             own   == CanonicalizeHeader(RemoveBValue(headers[p]), canon)
  <1>1. sent.h = names /\ HeaderCanon(sent) = canon
    BY ALabelFields DEF HeaderCanon
  <1>2. IsSeq(names) /\ DOMAIN names = 1 .. Len(names)
    BY DEF TagRecord, IsSeq
  <1>3. W = WithoutSelf(headers, headers[p]) /\ IsSeq(W)
    BY UpperMostTakenOut, WithoutType, SeqIsSeq
  <1>4. SA = SelUpTo(names, W, Len(names))
    BY <1>2 DEF Selected, SelUpTo
  <1>5. HeaderData(p) = ListUpTo(names, W, canon, Len(names)) \o <<own>>
    BY <1>2 DEF HeaderData, ListUpTo
  <1> HIDE DEF SA, W, canon, names, sent
  <1>6. SA \in Seq(DOMAIN W) /\ ListUpTo(names, W, canon, Len(names)) = CanonAt(SA, W, canon)
    BY <1>2, <1>3, <1>4, AllWritten DEF Written
  <1>7. BuildSignedHeaders(names, headers, headers[p], canon) = CanonAt(SA, W, canon) \o <<own>>
    <2>1. SA = Selected(names, W)
      BY DEF SA
    <2> DEFINE f == headers[p]
    <2>2. W = WithoutSelf(headers, f) /\ own = CanonicalizeHeader(RemoveBValue(f), canon)
      BY <1>3
    <2> HIDE DEF f, own
    <2>3. BuildSignedHeaders(names, headers, f, canon)
            = Then([j \in 1 .. Len(SA) |-> CanonicalizeHeader(W[SA[j]], canon)], <<own>>)
      <3>1. BuildSignedHeaders(names, headers, f, canon)
              = Then([j \in 1 .. Len(SA) |-> CanonicalizeHeader(W[SA[j]], canon)],
                     <<CanonicalizeHeader(RemoveBValue(f), canon)>>)
        BY ONLY <1>6, <2>1, <2>2, DataThen
      <3> QED BY <2>2, <3>1
    <2> QED BY <2>3 DEF Then, CanonAt, f
  <1>8. BuildSignedHeaders(names, headers, headers[p], canon) = HeaderData(p)
    <2> HIDE DEF own
    <2> QED BY <1>5, <1>6, <1>7
  <1>9. BuildSignedHeaders(sent.h, headers, headers[p], HeaderCanon(sent)) = HeaderData(p)
    BY <1>1, <1>8
  <1> QED BY <1>9 DEF sent

(* The upper-most of the copies of a field.                                *)
LEMMA FirstCopy ==
    ASSUME IsSeq(headers), NEW here \in DOMAIN headers
    PROVE  \E p \in Copies(headers[here]) :
              /\ p \in DOMAIN headers /\ headers[p] = headers[here]
              /\ \A q \in 1 .. (p - 1) : headers[q] # headers[p]
  <1> DEFINE B == Copies(headers[here])
  <1>1. DOMAIN headers = 1 .. Len(headers) /\ Len(headers) \in Nat
    BY DEF IsSeq
  <1>2. B \in SUBSET Nat /\ here \in B
    BY <1>1 DEF Copies
  <1> HIDE DEF B
  <1>3. PICK p \in B : \A m \in B : p <= m
    <2>1. B # {}
      BY <1>2
    <2> QED BY <1>2, <2>1, LeastElement
  <1>4. p \in DOMAIN headers /\ headers[p] = headers[here]
    BY DEF B, Copies
  <1>5. ASSUME NEW q \in 1 .. (p - 1), headers[q] = headers[p] PROVE FALSE
    <2>1. q \in DOMAIN headers /\ q < p /\ p \in Nat
      BY <1>1, <1>4
    <2>2. q \in B
      BY <1>4, <1>5, <2>1 DEF B, Copies
    <2> QED BY <1>3, <2>1, <2>2
  <1> QED BY <1>3, <1>4, <1>5 DEF B

(* What an answer can be: its records come in a slice.                     *)
LEMMA AnswerShape ==
    ASSUME NEW name, NEW answer \in Answers(name)
    PROVE  /\ answer # Absent /\ IsSeq(answer.records)
           /\ answer.err \in {"none", "notfound", "temporary"}
  <1>1. CASE answer \in {TempError, NotFound}
    <2>1. answer # Absent
      BY <1>1, AnswersAreThere
    <2>2. answer.records = <<>> /\ answer.err \in {"notfound", "temporary"}
      BY <1>1 DEF TempError, NotFound
    <2>3. IsSeq(<<>>)
      BY DEF IsSeq
    <2> QED BY <2>1, <2>2, <2>3
  <1>2. CASE answer \notin {TempError, NotFound}
    <2>1. PICK theZone \in Zones : answer = theZone[name] /\ name \in RecordNames
      BY <1>2 DEF Answers, Held
    <2> QED BY <2>1, AnswersAreThere DEF IsSeq
  <1> QED BY <1>1, <1>2

(* What a verdict says of the message alone, and of the answer.            *)
LEMMA VerdictSaid ==
    ASSUME NEW field, TagRecord(field.tags), NEW clock, NEW answer
    PROVE  LET tags  == field.tags
               sent  == ALabelTags(tags)
               fetch == Fetch(answer, KeyTypeOf(tags.a), "sha256")
               data  == BuildSignedHeaders(sent.h, headers, field, HeaderCanon(sent))
               sound == Admissible(field, clock) /\ BodySigned(tags) /\ tags.b # Junk
           IN  /\ Verdict(headers, body, entry, field, clock, answer)
                    = IF ~Admissible(field, clock)  THEN "permerror"
                      ELSE IF ~BodySigned(tags)     THEN "fail"
                      ELSE IF tags.b = Junk         THEN "permerror"
                      ELSE IF fetch.res # ""        THEN fetch.res
                      ELSE IF ~VerifyHash(fetch.key, data, sent.b) THEN "fail"
                      ELSE IF policy /\ ~KeyPolicyOK(sent, fetch.flags) THEN "permerror"
                      ELSE "pass"
               /\ RefusedUnread(field, clock) <=> ~sound
               /\ Admissible(field, clock) =>
                     tags.a \in {"rsa-sha256", "ed25519-sha256"} /\ NonEmpty(tags.h)
  <1> DEFINE tags  == field.tags
             sent  == ALabelTags(tags)
             fetch == Fetch(answer, KeyTypeOf(tags.a), "sha256")
             data  == BuildSignedHeaders(sent.h, headers, field, HeaderCanon(sent))
  <1>1. sent.a = tags.a /\ sent.b = tags.b
    BY ALabelFields
  <1>2. Admissible(field, clock) <=> /\ Parsed(entry, field) /\ MechanismOK(sent, body)
                                     /\ policy => PolicyOK(sent, clock)
    BY AdmissibleIs
  <1>3. BodySigned(tags) <=> HashedBody(sent, body) = sent.bh
    BY BodySignedIs
  <1>4. Admissible(field, clock) =>
           tags.a \in {"rsa-sha256", "ed25519-sha256"} /\ NonEmpty(tags.h)
    BY DEF Admissible
  <1>5. RefusedUnread(field, clock)
          <=> \/ ~Parsed(entry, field)
              \/ policy /\ ~PolicyOK(sent, clock)
              \/ ~MechanismOK(sent, body)
              \/ HashedBody(sent, body) # sent.bh
              \/ sent.b = Junk
    BY DEF RefusedUnread
  <1>6. Verdict(headers, body, entry, field, clock, answer)
          = IF \/ ~Parsed(entry, field)
               \/ policy /\ ~PolicyOK(sent, clock)
               \/ ~MechanismOK(sent, body)                     THEN "permerror"
            ELSE IF HashedBody(sent, body) # sent.bh           THEN "fail"
            ELSE IF sent.b = Junk                              THEN "permerror"
            ELSE IF fetch.res # ""                             THEN fetch.res
            ELSE IF ~VerifyHash(fetch.key, data, sent.b)       THEN "fail"
            ELSE IF policy /\ ~KeyPolicyOK(sent, fetch.flags)  THEN "permerror"
            ELSE "pass"
    <2> HIDE DEF tags
    <2> QED BY <1>1 DEF Verdict, policy, tags
  <1> HIDE DEF fetch, data, sent, tags
  <1>7. Verdict(headers, body, entry, field, clock, answer)
          = IF ~Admissible(field, clock)  THEN "permerror"
            ELSE IF ~BodySigned(tags)     THEN "fail"
            ELSE IF tags.b = Junk         THEN "permerror"
            ELSE IF fetch.res # ""        THEN fetch.res
            ELSE IF ~VerifyHash(fetch.key, data, sent.b) THEN "fail"
            ELSE IF policy /\ ~KeyPolicyOK(sent, fetch.flags) THEN "permerror"
            ELSE "pass"
    BY <1>1, <1>2, <1>3, <1>6
  <1>8. RefusedUnread(field, clock)
          <=> ~(Admissible(field, clock) /\ BodySigned(tags) /\ tags.b # Junk)
    BY <1>1, <1>2, <1>3, <1>5
  <1> QED BY <1>4, <1>7, <1>8 DEF fetch, data, sent, tags

(* Each verdict by its cause.  `over` is whether the header data are the   *)
(* ones signed.                                                            *)
CausesShown(field, clock, answer, over, v) ==
    LET tags  == field.tags
        sound == Admissible(field, clock) /\ BodySigned(tags) /\ tags.b # Junk
        records == answer.records
    IN  /\ v = "pass" =>
              /\ sound /\ over
              /\ \E r \in DOMAIN records :
                    /\ FirstServing(r, answer, tags.a) /\ SignedWith(records[r], tags)
                    /\ policy => ForMail(records[r], tags)
        /\ v = "temperror" => sound /\ answer # Absent /\ answer.err = "temporary"
        /\ v = "fail" =>
              /\ Admissible(field, clock)
              /\ BodySigned(tags) =>
                    /\ tags.b # Junk /\ answer # Absent
                    /\ \E r \in DOMAIN records :
                          FirstServing(r, answer, tags.a) /\ ~(SignedWith(records[r], tags) /\ over)
        /\ v = "permerror" =>
              \/ ~Admissible(field, clock)
              \/ BodySigned(tags) /\ tags.b = Junk
              \/ /\ BodySigned(tags) /\ answer # Absent /\ answer.err # "temporary"
                 /\ \A r \in DOMAIN records :
                       FirstServing(r, answer, tags.a) => policy /\ ~ForMail(records[r], tags)

LEMMA VerdictHasCause ==
    ASSUME IsSeq(headers), NEW p \in DOMAIN headers,
           \A q \in 1 .. (p - 1) : headers[q] # headers[p],
           NEW field, field = headers[p], TagRecord(field.tags), NEW clock, NEW answer,
           answer \in Answers(NameOf(field)) \/ RefusedUnread(field, clock)
    PROVE  CausesShown(field, clock, answer, field.tags.b.over = HeaderData(p),
                       Verdict(headers, body, entry, field, clock, answer))
  <1> DEFINE tags  == field.tags
             sent  == ALabelTags(tags)
             a     == tags.a
             fetch == Fetch(answer, KeyTypeOf(a), "sha256")
             data  == BuildSignedHeaders(sent.h, headers, field, HeaderCanon(sent))
             over  == tags.b.over = HeaderData(p)
             sound == Admissible(field, clock) /\ BodySigned(tags) /\ tags.b # Junk
             v     == Verdict(headers, body, entry, field, clock, answer)
             rec(r) == answer.records[r]
  <1>1. /\ v = IF ~Admissible(field, clock)  THEN "permerror"
               ELSE IF ~BodySigned(tags)     THEN "fail"
               ELSE IF tags.b = Junk         THEN "permerror"
               ELSE IF fetch.res # ""        THEN fetch.res
               ELSE IF ~VerifyHash(fetch.key, data, sent.b) THEN "fail"
               ELSE IF policy /\ ~KeyPolicyOK(sent, fetch.flags) THEN "permerror"
               ELSE "pass"
        /\ RefusedUnread(field, clock) <=> ~sound
        /\ Admissible(field, clock) => a \in {"rsa-sha256", "ed25519-sha256"} /\ NonEmpty(tags.h)
    <2> HIDE DEF v
    <2> QED BY VerdictSaid DEF v
  <1>2. CASE ~sound
    <2> HIDE DEF fetch, data, sent, v, over, tags
    <2> QED BY <1>1, <1>2 DEF CausesShown, v, over, tags
  <1>3. CASE sound
    <2>1. answer # Absent /\ IsSeq(answer.records)
          /\ answer.err \in {"none", "notfound", "temporary"}
      BY <1>1, <1>3, AnswerShape
    <2>2. fetch.res \in {"", "permerror", "temperror"}
      BY FetchOutcomes
    <2>3. /\ fetch.res = "" =>
                \E r \in DOMAIN answer.records :
                   FirstServing(r, answer, a) /\ fetch = Found(rec(r), KeyTypeOf(a))
          /\ fetch.res = "permerror" =>
                /\ answer.err # "temporary"
                /\ \A r \in DOMAIN answer.records : ~FirstServing(r, answer, a)
          /\ fetch.res = "temperror" => answer.err \notin {"none", "notfound"}
      BY <1>1, <1>3, FetchIs
    <2>4. CASE fetch.res # ""
      <3> HIDE DEF fetch, data, sent, v, over, tags, a
      <3>1. v = fetch.res
        BY <1>1, <1>3, <2>4
      <3> QED BY <1>3, <2>1, <2>2, <2>3, <2>4, <3>1 DEF CausesShown, v, over, tags, a
    <2>5. CASE fetch.res = ""
      <3>1. PICK r \in DOMAIN answer.records :
               FirstServing(r, answer, a) /\ fetch = Found(rec(r), KeyTypeOf(a))
        BY <2>3, <2>5
      <3>2. sent.a = a /\ data = HeaderData(p)
        <4>1. sent.a = a
          BY ALabelFields
        <4>2. TagRecord(headers[p].tags) /\ NonEmpty(headers[p].tags.h)
          BY <1>1, <1>3
        <4>3. BuildSignedHeaders(ALabelTags(headers[p].tags).h, headers, headers[p],
                                 HeaderCanon(ALabelTags(headers[p].tags))) = HeaderData(p)
          BY <4>2, HeaderDataIs
        <4> QED BY <4>1, <4>3
      <3>3. /\ VerifyHash(fetch.key, data, sent.b) <=> SignedWith(rec(r), tags) /\ over
            /\ KeyPolicyOK(sent, fetch.flags) <=> ForMail(rec(r), tags)
        <4>1. tags.a \in {"rsa-sha256", "ed25519-sha256"} /\ Serves(rec(r), tags.a)
          BY <1>1, <1>3, <3>1 DEF FirstServing
        <4> HIDE DEF data, rec, fetch, sent
        <4>2. /\ VerifyHash(Found(rec(r), KeyTypeOf(tags.a)).key, data, ALabelTags(tags).b)
                   <=> SignedWith(rec(r), tags) /\ tags.b.over = data
              /\ KeyPolicyOK(ALabelTags(tags), Found(rec(r), KeyTypeOf(tags.a)).flags)
                   <=> ForMail(rec(r), tags)
          BY <4>1, FetchedKey
        <4> QED BY <3>1, <3>2, <4>2 DEF sent
      <3>4. \A q \in DOMAIN answer.records : FirstServing(q, answer, a) => q = r
        <4>1. a \in {"rsa-sha256", "ed25519-sha256"}
          BY <1>1, <1>3
        <4> DEFINE t == KeyTypeOf(a)
                   isIt(q) == IsFirstUsable(q, answer.records, t, "sha256")
        <4>2. \A q : FirstServing(q, answer, a) => isIt(q)
          BY <4>1, FirstServingIs
        <4> HIDE DEF t
        <4>3. \A q : isIt(q) /\ isIt(r) => q = r
          BY <2>1, OnlyFirst
        <4> QED BY <3>1, <4>2, <4>3
      <3>5. answer.err # "temporary"
        BY <3>1 DEF FirstServing
      <3> HIDE DEF fetch, data, sent, v, over, tags, a
      <3>6. v = IF ~(SignedWith(rec(r), tags) /\ over) THEN "fail"
                ELSE IF policy /\ ~ForMail(rec(r), tags) THEN "permerror" ELSE "pass"
        BY <1>1, <1>3, <2>5, <3>3
      <3> QED BY <1>3, <2>1, <3>1, <3>4, <3>5, <3>6 DEF CausesShown, v, over, tags, a
    <2> QED BY <2>4, <2>5
  <1> QED BY <1>2, <1>3

LEMMA ReasonedInvariance == CallSpec => []Reasoned
  <1>1. CallInit => Reasoned
    BY DEF CallInit, Called, Reasoned
  <1>2. IInv /\ Reasoned /\ [Next]_vars => Reasoned'
    BY ReasonedStep
  <1> QED BY <1>1, <1>2, Invariance, PTL DEF CallSpec

(* A result of Verify by its cause.                                        *)
LEMMA ResultHasCause ==
    ASSUME IInv, Told, Reasoned, WellFormed(headers, body), NEW j \in DOMAIN results
    PROVE  LET field == headers[seen[j].at]
           IN  \E p \in Copies(field) :
                  CausesShown(field, seen[j].now, seen[j].answer,
                              field.tags.b.over = HeaderData(p), results[j].result)
  <1> DEFINE here   == seen[j].at
             field  == headers[here]
             clock  == seen[j].now
             answer == seen[j].answer
  <1>1. here \in DOMAIN headers /\ TagRecord(field.tags) /\ IsSeq(headers)
    BY DEF Told, WellFormed, IsSeq
  <1>2. results[j].result = Verdict(headers, body, entry, field, clock, answer)
    BY DEF IInv, NoCrossTalk
  <1>3. answer \in Answers(NameOf(field)) \/ RefusedUnread(field, clock)
    <2>1. j \in DOMAIN seen
      BY DEF IInv, Shape, IsSeq
    <2> QED BY <2>1 DEF Reasoned, Rests
  <1>4. PICK p \in Copies(field) :
           /\ p \in DOMAIN headers /\ headers[p] = field
           /\ \A q \in 1 .. (p - 1) : headers[q] # headers[p]
    BY <1>1, FirstCopy
  <1> HIDE DEF field, clock, answer, here
  <1>5. CausesShown(field, clock, answer, field.tags.b.over = HeaderData(p),
                    Verdict(headers, body, entry, field, clock, answer))
    BY <1>1, <1>3, <1>4, VerdictHasCause
  <1> QED BY <1>2, <1>4, <1>5 DEF field, clock, answer, here

(* The names in a result are those of its field.                           *)
LEMMA NamesOfField ==
    ASSUME NEW tags, TagRecord(tags), ValidDNSName(ToALabels(tags.s))
    PROVE  /\ ALabelTags(tags).d = ToALabels(tags.d) /\ ALabelTags(tags).s = ToALabels(tags.s)
           /\ RecordName(ALabelTags(tags).s, ALabelTags(tags).d)
                = <<ToALabels(tags.s), ToALabels(tags.d)>>
  <1>1. ALabelTags(tags).d = ToALabels(tags.d) /\ ALabelTags(tags).s = ToALabels(tags.s)
    BY ALabelFields
  <1>2. ToALabels(tags.s) # Empty
    BY DEF ValidDNSName, IsName
  <1> QED BY <1>1, <1>2 DEF RecordName

(* For every message the parser hands on, every zone, clock and entry      *)
(* point: a lookup goes out only for a signature whose tags, times and     *)
(* body the message does not refuse and whose b= can be decoded, under its *)
(* own names (verify.go:105-162, 334-408).                                 *)
THEOREM QueryJustified == ParsedSpec => []QueryOnlyIfVerifiable
  <1>1. IInv /\ WellFormed(headers, body) => QueryOnlyIfVerifiable
    <2> SUFFICES ASSUME IInv, WellFormed(headers, body), pc = "query"
                 PROVE  /\ Admissible(Sig, call.now) /\ BodySigned(Sig.tags)
                        /\ Sig.tags.b # Junk
                        /\ call.name = <<ToALabels(Sig.tags.s), ToALabels(Sig.tags.d)>>
      BY DEF QueryOnlyIfVerifiable
    <2>1. /\ Parsed(entry, Sig) /\ call.tags = ALabelTags(Sig.tags) /\ TagRecord(Sig.tags)
          /\ policy => PolicyOK(call.tags, call.now)
      <3>1. at \in DOMAIN headers
        BY CallFacts DEF IInv, Shape, IsSeq
      <3> QED BY <3>1, CallFacts DEF WellFormed, Sig
    <2>2. /\ MechanismOK(call.tags, body) /\ HashedBody(call.tags, body) = call.tags.bh
          /\ call.tags.b # Junk /\ call.name = NameOf(Sig)
      BY DEF IInv, Staged, Prepared
    <2>3. Admissible(Sig, call.now)
      BY <2>1, <2>2, AdmissibleIs
    <2>4. BodySigned(Sig.tags)
      BY <2>1, <2>2, BodySignedIs
    <2>5. Sig.tags.b # Junk
      BY <2>1, <2>2, ALabelFields
    <2>6. call.name = <<ToALabels(Sig.tags.s), ToALabels(Sig.tags.d)>>
      <3>1. ValidDNSName(ToALabels(Sig.tags.s))
        BY <2>3 DEF Admissible
      <3> QED BY <2>1, <2>2, <3>1, NamesOfField DEF NameOf
    <2> QED BY <2>3, <2>4, <2>5, <2>6
  <1> QED BY <1>1, ParsedInvariance, PTL

(* For every message the parser hands on, every zone, clock and entry      *)
(* point: behind a pass are an admissible tag list, the body bh= was made  *)
(* over, b= made over the fields h= selects and the field itself, with the *)
(* key of the first record that serves the algorithm, found under the      *)
(* names in the result (verify.go:104-423, 473-505).                       *)
THEOREM PassIsSound == ParsedSpec => []PassMeansVerified
  <1>1. IInv /\ Told /\ Reasoned /\ WellFormed(headers, body) => PassMeansVerified
    <2> SUFFICES ASSUME IInv, Told, Reasoned, WellFormed(headers, body),
                        NEW j \in DOMAIN results, results[j].result = "pass"
                 PROVE  LET field == headers[seen[j].at]
                        IN  /\ results[j].domain = ToALabels(field.tags.d)
                            /\ results[j].selector = ToALabels(field.tags.s)
                            /\ seen[j].name = <<results[j].selector, results[j].domain>>
                            /\ Vouched(field, seen[j].now, seen[j].answer)
      BY DEF PassMeansVerified
    <2> DEFINE field  == headers[seen[j].at]
               clock  == seen[j].now
               answer == seen[j].answer
    <2>1. /\ TagRecord(field.tags)
          /\ results[j].domain = ALabelTags(field.tags).d
          /\ results[j].selector = ALabelTags(field.tags).s
          /\ seen[j].name = NameOf(field)
      BY DEF Told, WellFormed
    <2>2. PICK p \in Copies(field) :
             CausesShown(field, clock, answer, field.tags.b.over = HeaderData(p), "pass")
      BY ResultHasCause
    <2> HIDE DEF field, clock, answer
    <2>3. Vouched(field, clock, answer)
      BY <2>2 DEF CausesShown, Vouched
    <2>4. ValidDNSName(ToALabels(field.tags.s))
      BY <2>3 DEF Vouched, Admissible
    <2>5. /\ results[j].domain = ToALabels(field.tags.d)
          /\ results[j].selector = ToALabels(field.tags.s)
          /\ seen[j].name = <<results[j].selector, results[j].domain>>
      BY <2>1, <2>4, NamesOfField DEF NameOf
    <2> QED BY <2>3, <2>5 DEF field, clock, answer
  <1>2. ParsedSpec => CallSpec
    BY PTL DEF ParsedSpec, CallSpec
  <1> QED BY <1>1, <1>2, ParsedInvariance, ToldInvariance, ReasonedInvariance, PTL

(* For every message the parser hands on, every zone, clock and entry      *)
(* point: each fail, permerror and temperror stands on its own cause, so   *)
(* that a failure of the lookup is told from what the message or the       *)
(* records say (verify.go:57-95, keyrecord.go:51-56).                      *)
THEOREM NonPassJustified == ParsedSpec => []NonPassHasCause
  <1>1. IInv /\ Told /\ Reasoned /\ WellFormed(headers, body) => NonPassHasCause
    <2> SUFFICES ASSUME IInv, Told, Reasoned, WellFormed(headers, body),
                        NEW j \in DOMAIN results
                 PROVE  LET field  == headers[seen[j].at]
                            tags   == field.tags
                            answer == seen[j].answer
                            admissible == Admissible(field, seen[j].now)
                            hashed     == BodySigned(tags)
                        IN  /\ results[j].result = "temperror" =>
                                  /\ admissible /\ hashed /\ tags.b # Junk
                                  /\ answer # Absent /\ answer.err = "temporary"
                            /\ results[j].result = "fail" =>
                                  /\ admissible
                                  /\ hashed => /\ tags.b # Junk /\ answer # Absent
                                               /\ \E r \in DOMAIN answer.records :
                                                     /\ FirstServing(r, answer, tags.a)
                                                     /\ \/ ~SignedWith(answer.records[r], tags)
                                                        \/ \E p \in Copies(field) : tags.b.over # HeaderData(p)
                            /\ results[j].result = "permerror" =>
                                  \/ ~admissible
                                  \/ hashed /\ tags.b = Junk
                                  \/ /\ hashed /\ answer # Absent
                                     /\ answer.err # "temporary"
                                     /\ \A r \in DOMAIN answer.records :
                                           FirstServing(r, answer, tags.a)
                                             => policy /\ ~ForMail(answer.records[r], tags)
      BY DEF NonPassHasCause
    <2> DEFINE field  == headers[seen[j].at]
               clock  == seen[j].now
               answer == seen[j].answer
               result == results[j].result
    <2>1. PICK p \in Copies(field) :
             CausesShown(field, clock, answer, field.tags.b.over = HeaderData(p), result)
      BY ResultHasCause
    <2> HIDE DEF field, clock, answer, result
    <2> QED BY <2>1 DEF CausesShown, field, clock, answer, result
  <1>2. ParsedSpec => CallSpec
    BY PTL DEF ParsedSpec, CallSpec
  <1> QED BY <1>1, <1>2, ParsedInvariance, ToldInvariance, ReasonedInvariance, PTL
-------------------------------------------------------------------------------
(* What a line that no line continues is to the block: a field of its own, *)
(* the last one of the block that ends with it; and the block is otherwise *)
(* the one without that line.                                              *)

Without(hs, at0, field, gs) ==
    /\ IsSeq(hs) /\ IsSeq(gs) /\ Len(hs) = Len(gs) + 1
    /\ at0 \in 1 .. Len(hs) /\ hs[at0] = field
    /\ \A j \in 1 .. (at0 - 1) : hs[j] = gs[j]
    /\ \A j \in at0 .. Len(gs) : hs[j + 1] = gs[j]

LEMMA AppendBoth ==
    ASSUME NEW hs, NEW at0, NEW field, NEW gs, Without(hs, at0, field, gs), NEW x
    PROVE  Without(Append(hs, x), at0, field, Append(gs, x))
  <1> DEFINE n  == Len(gs)
             hx == Append(hs, x)
             gx == Append(gs, x)
  <1>1. /\ n \in Nat /\ Len(hs) = n + 1 /\ at0 \in 1 .. (n + 1) /\ hs[at0] = field
        /\ \A j \in 1 .. (at0 - 1) : hs[j] = gs[j]
        /\ \A j \in at0 .. n : hs[j + 1] = gs[j]
    BY DEF Without, IsSeq
  <1>2. /\ IsSeq(hx) /\ Len(hx) = n + 2 /\ hx[n + 2] = x /\ \A j \in 1 .. (n + 1) : hx[j] = hs[j]
        /\ IsSeq(gx) /\ Len(gx) = n + 1 /\ gx[n + 1] = x /\ \A j \in 1 .. n : gx[j] = gs[j]
    BY <1>1, Appended DEF Without
  <1> HIDE DEF hx, gx, n
  <1>3. at0 \in 1 .. (n + 2) /\ hx[at0] = field
    BY <1>1, <1>2
  <1>4. \A j \in 1 .. (at0 - 1) : hx[j] = gx[j]
    BY <1>1, <1>2
  <1>5. ASSUME NEW j \in at0 .. (n + 1) PROVE hx[j + 1] = gx[j]
    <2>1. CASE j = n + 1
      <3>1. j + 1 = n + 2
        BY <1>1, <2>1
      <3> QED BY <1>2, <2>1, <3>1
    <2>2. CASE j # n + 1
      <3>1. j \in at0 .. n /\ j \in 1 .. n /\ j + 1 \in 1 .. (n + 1)
        BY <1>1, <2>2
      <3> QED BY <1>1, <1>2, <3>1
    <2> QED BY <2>1, <2>2
  <1>6. Len(hx) = Len(gx) + 1
    BY <1>1, <1>2
  <1> QED BY <1>2, <1>3, <1>4, <1>5, <1>6 DEF Without, hx, gx

(* A later field is continued in both.                                     *)
LEMMA LastOfBoth ==
    ASSUME NEW hs, NEW at0, NEW field, NEW gs, Without(hs, at0, field, gs),
           at0 <= Len(gs), NEW x
    PROVE  /\ hs[Len(hs)] = gs[Len(gs)]
           /\ Without([hs EXCEPT ![Len(hs)] = x], at0, field, [gs EXCEPT ![Len(gs)] = x])
  <1> DEFINE n  == Len(gs)
             hx == [hs EXCEPT ![Len(hs)] = x]
             gx == [gs EXCEPT ![Len(gs)] = x]
  <1>1. /\ n \in Nat /\ Len(hs) = n + 1 /\ at0 \in 1 .. n /\ hs[at0] = field
        /\ \A j \in 1 .. (at0 - 1) : hs[j] = gs[j]
        /\ \A j \in at0 .. n : hs[j + 1] = gs[j]
        /\ DOMAIN hs = 1 .. (n + 1) /\ DOMAIN gs = 1 .. n
    BY DEF Without, IsSeq
  <1>2. /\ DOMAIN hx = 1 .. (n + 1) /\ hx[n + 1] = x /\ \A j \in 1 .. n : hx[j] = hs[j]
        /\ DOMAIN gx = 1 .. n /\ gx[n] = x /\ \A j \in 1 .. (n - 1) : gx[j] = gs[j]
    BY <1>1
  <1>3. hx = [j \in 1 .. (n + 1) |-> hx[j]] /\ gx = [j \in 1 .. n |-> gx[j]]
    BY <1>1
  <1> HIDE DEF hx, gx, n
  <1>4. n + 1 \in Nat
    BY <1>1
  <1>5. IsSeq(hx) /\ Len(hx) = n + 1 /\ IsSeq(gx) /\ Len(gx) = n
    BY <1>1, <1>3, <1>4, PlainSeq
  <1>6. at0 \in 1 .. (n + 1) /\ hx[at0] = field
    BY <1>1, <1>2
  <1>7. \A j \in 1 .. (at0 - 1) : hx[j] = gx[j]
    BY <1>1, <1>2
  <1>8. ASSUME NEW j \in at0 .. n PROVE hx[j + 1] = gx[j]
    <2>1. CASE j = n
      BY <1>2, <2>1
    <2>2. CASE j # n
      <3>1. j \in 1 .. (n - 1) /\ j + 1 \in 1 .. n
        BY <1>1, <2>2
      <3> QED BY <1>1, <1>2, <3>1
    <2> QED BY <2>1, <2>2
  <1>9. Without(hx, at0, field, gx)
    BY <1>5, <1>6, <1>7, <1>8 DEF Without
  <1>10. hs[Len(hs)] = gs[Len(gs)]
    BY <1>1 DEF n
  <1> QED BY <1>9, <1>10 DEF hx, gx

(* One sequence after another.                                             *)
Joins(r, a, z) ==
    /\ IsSeq(r) /\ Len(r) = Len(a) + Len(z) /\ DOMAIN r = 1 .. Len(r)
    /\ \A j \in 1 .. Len(a) : r[j] = a[j]
    /\ \A j \in 1 .. Len(z) : r[Len(a) + j] = z[j]

LEMMA JoinedItems ==
    ASSUME NEW S, NEW a, NEW z, a \in Seq(S), z \in Seq(S)
    PROVE  Joins(a \o z, a, z)
  <1> DEFINE r == a \o z
  <1>1. /\ r \in Seq(S) /\ Len(r) = Len(a) + Len(z)
        /\ \A j \in 1 .. Len(a) : r[j] = a[j]
        /\ \A j \in 1 .. Len(z) : r[Len(a) + j] = z[j]
    OBVIOUS
  <1>2. IsSeq(r)
    BY <1>1, SeqIsSeq
  <1> QED BY <1>1, <1>2 DEF Joins

(* A sequence with a stretch cut out.                                      *)
IsCut(s, p, q, r) ==
    /\ IsSeq(r) /\ Len(r) = Len(s) - (q + 1 - p)
    /\ Len(s) \in Nat /\ Len(r) \in Nat /\ p \in 1 .. Len(s) /\ q \in p .. Len(s)
    /\ DOMAIN s = 1 .. Len(s) /\ DOMAIN r = 1 .. Len(r)
    /\ \A j \in 1 .. (p - 1) : r[j] = s[j]
    /\ \A j \in p .. Len(r) : r[j] = s[j + (q + 1 - p)]

LEMMA CutOut ==
    ASSUME NEW s, NEW p, NEW q, IsSeq(s), p \in DOMAIN s, q \in p .. Len(s)
    PROVE  IsCut(s, p, q, SubSeq(s, 1, p - 1) \o SubSeq(s, q + 1, Len(s)))
  <1> DEFINE S == ToSet(s)
             n == Len(s)
             a == SubSeq(s, 1, p - 1)
             z == SubSeq(s, q + 1, n)
             r == SubSeq(s, 1, p - 1) \o SubSeq(s, q + 1, Len(s))
  <1>1. s \in Seq(S) /\ n \in Nat /\ DOMAIN s = 1 .. n /\ p \in 1 .. n /\ q \in p .. n
    BY DEF IsSeq
  <1> HIDE DEF S, n
  <1>2. /\ p - 1 \in 0 .. n /\ n \in 0 .. n /\ 1 \in Nat \ {0} /\ q + 1 \in Nat \ {0}
        /\ n - q \in Nat /\ p - 1 \in Nat
    BY <1>1
  <1>3. a \in Seq(S) /\ Len(a) = p - 1 /\ \A j \in 1 .. (p - 1) : a[j] = s[1 + j - 1]
    <2>1. /\ a \in Seq(S) /\ Len(a) = IF 1 <= p - 1 THEN (p - 1) - 1 + 1 ELSE 0
          /\ \A j \in 1 .. ((p - 1) - 1 + 1) : a[j] = s[1 + j - 1]
      BY <1>1, <1>2, StretchType DEF n
    <2>2. (IF 1 <= p - 1 THEN (p - 1) - 1 + 1 ELSE 0) = p - 1 /\ (p - 1) - 1 + 1 = p - 1
      BY <1>1
    <2> HIDE DEF a
    <2> QED BY <2>1, <2>2
  <1>4. z \in Seq(S) /\ Len(z) = n - q /\ \A j \in 1 .. (n - q) : z[j] = s[(q + 1) + j - 1]
    <2>1. /\ z \in Seq(S) /\ Len(z) = IF q + 1 <= n THEN n - (q + 1) + 1 ELSE 0
          /\ \A j \in 1 .. (n - (q + 1) + 1) : z[j] = s[(q + 1) + j - 1]
      BY <1>1, <1>2, StretchType DEF n
    <2>2. (IF q + 1 <= n THEN n - (q + 1) + 1 ELSE 0) = n - q /\ n - (q + 1) + 1 = n - q
      BY <1>1
    <2> HIDE DEF z
    <2> QED BY <2>1, <2>2
  <1>5. r = a \o z
    BY DEF n
  <1> HIDE DEF a, z, r
  <1>6. /\ IsSeq(r) /\ Len(r) = Len(a) + Len(z) /\ DOMAIN r = 1 .. Len(r)
        /\ \A j \in 1 .. Len(a) : r[j] = a[j]
        /\ \A j \in 1 .. Len(z) : r[Len(a) + j] = z[j]
    <2>1. a \in Seq(S) /\ z \in Seq(S)
      BY <1>3, <1>4
    <2>2. Joins(a \o z, a, z)
      BY ONLY <2>1, JoinedItems
    <2> QED BY <1>5, <2>2 DEF Joins
  <1>7. Len(r) = n - (q + 1 - p) /\ Len(r) \in Nat
    BY <1>1, <1>2, <1>3, <1>4, <1>6
  <1>8. ASSUME NEW j \in 1 .. (p - 1) PROVE r[j] = s[j]
    <2>1. 1 + j - 1 = j
      BY <1>1
    <2> QED BY <1>3, <1>6, <2>1
  <1>9. ASSUME NEW j \in p .. Len(r) PROVE r[j] = s[j + (q + 1 - p)]
    <2> DEFINE i == j - p + 1
    <2>1. i \in 1 .. (n - q) /\ (p - 1) + i = j /\ (q + 1) + i - 1 = j + (q + 1 - p)
      <3>1. p \in Int /\ q \in Int /\ n \in Int /\ j \in Int /\ p <= j /\ j <= n - (q + 1 - p)
        BY <1>1, <1>7
      <3> QED BY ONLY <3>1 DEF i
    <2> HIDE DEF i
    <2>2. z[i] = s[(q + 1) + i - 1] /\ r[(p - 1) + i] = z[i]
      BY <1>3, <1>4, <1>6, <2>1
    <2> QED BY <2>1, <2>2
  <1>10. IsCut(s, p, q, r)
    BY <1>1, <1>6, <1>7, <1>8, <1>9 DEF n, IsCut
  <1> QED BY <1>10 DEF r

(* A sequence without one of its elements.                                 *)
LEMMA RemovedAt ==
    ASSUME NEW s, IsSeq(s), NEW p \in DOMAIN s, NEW r, r = RemoveAt(s, p)
    PROVE  /\ IsSeq(r) /\ Len(r) \in Nat /\ Len(s) = Len(r) + 1 /\ p \in 1 .. Len(s)
           /\ \A j \in 1 .. (p - 1) : r[j] = s[j]
           /\ \A j \in p .. Len(r) : r[j] = s[j + 1]
  <1>1. IsSeq(s) /\ p \in DOMAIN s /\ p \in p .. Len(s)
    BY DEF IsSeq
  <1>2. IsCut(s, p, p, SubSeq(s, 1, p - 1) \o SubSeq(s, p + 1, Len(s)))
    BY ONLY <1>1, CutOut
  <1>3. r = SubSeq(s, 1, p - 1) \o SubSeq(s, p + 1, Len(s))
    BY DEF RemoveAt
  <1>4. IsCut(s, p, p, r)
    BY ONLY <1>2, <1>3
  <1>5. /\ IsSeq(r) /\ Len(s) \in Nat /\ Len(r) \in Nat /\ p \in 1 .. Len(s)
        /\ Len(r) = Len(s) - (p + 1 - p)
        /\ \A j \in 1 .. (p - 1) : r[j] = s[j]
        /\ \A j \in p .. Len(r) : r[j] = s[j + (p + 1 - p)]
    BY ONLY <1>4 DEF IsCut
  <1>6. p + 1 - p = 1
    BY ONLY <1>5
  <1>7. Len(s) = Len(r) + 1
    <2>1. Len(s) \in Nat /\ Len(r) = Len(s) - 1
      BY <1>5, <1>6
    <2> QED BY ONLY <2>1
  <1>8. \A j \in p .. Len(r) : r[j] = s[j + 1]
    BY ONLY <1>5, <1>6
  <1> QED BY ONLY <1>5, <1>7, <1>8

LEMMA WithoutIs ==
    ASSUME NEW hs, NEW at0, NEW field, NEW gs, Without(hs, at0, field, gs)
    PROVE  RemoveAt(hs, at0) = gs
  <1> DEFINE r == RemoveAt(hs, at0)
  <1>1. /\ IsSeq(r) /\ Len(r) \in Nat /\ Len(hs) = Len(r) + 1
        /\ \A j \in 1 .. (at0 - 1) : r[j] = hs[j]
        /\ \A j \in at0 .. Len(r) : r[j] = hs[j + 1]
    <2>1. IsSeq(hs) /\ at0 \in DOMAIN hs
      BY DEF Without, IsSeq
    <2> QED BY <2>1, RemovedAt
  <1> HIDE DEF r
  <1>2. /\ IsSeq(gs) /\ Len(gs) \in Nat /\ Len(hs) = Len(gs) + 1 /\ at0 \in 1 .. Len(hs)
        /\ \A j \in 1 .. (at0 - 1) : hs[j] = gs[j]
        /\ \A j \in at0 .. Len(gs) : hs[j + 1] = gs[j]
    BY DEF Without, IsSeq
  <1>3. Len(r) = Len(gs)
    BY <1>1, <1>2
  <1>4. \A j \in 1 .. Len(r) : r[j] = gs[j]
    <2> TAKE j \in 1 .. Len(r)
    <2>1. j \in 1 .. (at0 - 1) \/ j \in at0 .. Len(r)
      BY <1>1, <1>2
    <2> QED BY <1>1, <1>2, <1>3, <2>1
  <1>5. r \in Seq(ToSet(r)) /\ gs \in Seq(ToSet(gs))
    BY <1>1, <1>2 DEF IsSeq
  <1>6. r = gs
    <2> DEFINE S == ToSet(r) \cup ToSet(gs)
    <2>1. r \in Seq(S) /\ gs \in Seq(S)
      BY <1>5
    <2> HIDE DEF S
    <2> QED BY <1>3, <1>4, <2>1, SameSequence
  <1> QED BY <1>6 DEF r

(* A run of the parser over the lines, and one over lines that begin as    *)
(* these do.                                                               *)
LEMMA ParsesAlike ==
    ASSUME NEW ls, NEW n \in Nat, NEW f, ParseEquation(ls, f, n),
           NEW ms, NEW m \in Nat, NEW g, ParseEquation(ms, g, m),
           NEW p \in Nat, p <= n, p <= m, \A k \in 1 .. p : ms[k] = ls[k]
    PROVE  \A k \in 0 .. p : g[k] = f[k]
  <1> DEFINE T == { k \in 0 .. p : g[k] = f[k] }
  <1>1. /\ f[0] = <<<<>>, FALSE>> /\ g[0] = <<<<>>, FALSE>>
        /\ \A k \in 1 .. n : f[k] = parseLine(f[k - 1][1], f[k - 1][2], ls[k])
        /\ \A k \in 1 .. m : g[k] = parseLine(g[k - 1][1], g[k - 1][2], ms[k])
    BY ParseSteps
  <1>2. 0 \in T
    <2>1. f[0] = <<<<>>, FALSE>>
      BY <1>1
    <2>2. g[0] = <<<<>>, FALSE>>
      BY <1>1
    <2>3. 0 \in 0 .. p
      OBVIOUS
    <2> QED BY <2>1, <2>2, <2>3, Zenon
  <1>3. ASSUME NEW k \in 0 .. (p - 1), k \in T PROVE k + 1 \in T
    <2>1. k + 1 \in 1 .. n /\ k + 1 \in 1 .. m /\ k + 1 \in 1 .. p /\ (k + 1) - 1 = k /\ k + 1 \in 0 .. p
      OBVIOUS
    <2>2. f[k + 1] = parseLine(f[k][1], f[k][2], ls[k + 1])
          /\ g[k + 1] = parseLine(g[k][1], g[k][2], ms[k + 1])
      BY <1>1, <2>1
    <2> QED BY <1>3, <2>1, <2>2
  <1> HIDE DEF T
  <1>4. \A k \in 0 .. p : k \in T
    BY <1>2, <1>3, IntervalInduction
  <1> QED BY <1>4 DEF T

LEMMA LineKeepsSeq ==
    ASSUME NEW hs, IsSeq(hs), NEW skips, NEW line
    PROVE  IsSeq(parseLine(hs, skips, line)[1])
  <1>1. CASE line.kind = "field"
    BY <1>1, Appended DEF parseLine
  <1>2. CASE line.kind # "field" /\ (line.kind = "other" \/ hs = <<>> \/ skips)
    BY <1>2 DEF parseLine
  <1>3. CASE line.kind # "field" /\ ~(line.kind = "other" \/ hs = <<>> \/ skips)
    <2> DEFINE n  == Len(hs)
               g  == Continued(hs[n], line)
               gs == [hs EXCEPT ![n] = g]
    <2>1. parseLine(hs, skips, line)[1] = gs
      BY <1>3 DEF parseLine
    <2>2. n \in Nat /\ DOMAIN hs = 1 .. n
      BY DEF IsSeq
    <2> HIDE DEF g
    <2>3. gs = [j \in 1 .. n |-> gs[j]]
      BY <2>2
    <2> HIDE DEF gs, n
    <2> QED BY <2>1, <2>2, <2>3, PlainSeq
  <1> QED BY <1>1, <1>2, <1>3

LEMMA ParseKeepsSeq ==
    ASSUME NEW ls, NEW n \in Nat, NEW f, ParseEquation(ls, f, n)
    PROVE  \A k \in 0 .. n : IsSeq(f[k][1])
  <1> DEFINE T == { k \in 0 .. n : IsSeq(f[k][1]) }
  <1>1. /\ f[0] = <<<<>>, FALSE>>
        /\ \A k \in 1 .. n : f[k] = parseLine(f[k - 1][1], f[k - 1][2], ls[k])
    BY ParseSteps
  <1>2. 0 \in T
    <2>1. f[0][1] = <<>> /\ 0 \in 0 .. n
      BY <1>1
    <2>2. IsSeq(<<>>)
      BY DEF IsSeq
    <2> QED BY <2>1, <2>2
  <1>3. ASSUME NEW k \in 0 .. (n - 1), k \in T PROVE k + 1 \in T
    <2>1. k + 1 \in 1 .. n /\ (k + 1) - 1 = k /\ k + 1 \in 0 .. n
      OBVIOUS
    <2>2. f[k + 1] = parseLine(f[k][1], f[k][2], ls[k + 1])
      BY <1>1, <2>1
    <2> QED BY <1>3, <2>1, <2>2, LineKeepsSeq
  <1> HIDE DEF T
  <1>4. \A k \in 0 .. n : k \in T
    BY <1>2, <1>3, IntervalInduction
  <1> QED BY <1>4 DEF T

(* Skipping alike, or else past the field that one block lacks.            *)
Level(s, t, at0, gs) == s \in BOOLEAN /\ s = t /\ (s = TRUE \/ at0 <= Len(gs))

(* One more line, read behind the block and behind the one without the     *)
(* field: it continues neither that field nor what is in front of it.      *)
LEMMA LineAlongside ==
    ASSUME NEW hs, NEW at0, NEW field, NEW gs, Without(hs, at0, field, gs),
           NEW s, NEW t, NEW line,
           line.kind \in {"field", "other"} \/ Level(s, t, at0, gs),
           NEW hx, hx = parseLine(hs, s, line), NEW gx, gx = parseLine(gs, t, line)
    PROVE  Without(hx[1], at0, field, gx[1]) /\ Level(hx[2], gx[2], at0, gx[1])
  <1>2. /\ Len(hs) \in Nat /\ Len(gs) \in Nat /\ Len(hs) = Len(gs) + 1 /\ at0 \in 1 .. Len(hs)
        /\ hs # <<>> /\ IsSeq(gs)
    BY DEF Without, IsSeq
  <1>4. CASE line.kind = "field"
    <2> DEFINE ha == Append(hs, line.field)
               ga == Append(gs, line.field)
    <2>1. hx = <<ha, FALSE>> /\ gx = <<ga, FALSE>>
      BY <1>4 DEF parseLine
    <2>2. Without(ha, at0, field, ga)
      BY AppendBoth
    <2>3. Len(ga) = Len(gs) + 1
      BY <1>2, Appended
    <2> HIDE DEF ha, ga
    <2>4. hx[1] = ha /\ hx[2] = FALSE /\ gx[1] = ga /\ gx[2] = FALSE
      BY <2>1
    <2>5. at0 <= Len(ga)
      BY <1>2, <2>3
    <2> QED BY <2>2, <2>4, <2>5 DEF Level
  <1>5. CASE line.kind = "other"
    <2>1. hx = <<hs, TRUE>> /\ gx = <<gs, TRUE>>
      BY <1>5 DEF parseLine
    <2>2. hx[1] = hs /\ hx[2] = TRUE /\ gx[1] = gs /\ gx[2] = TRUE
      BY <2>1
    <2> QED BY <2>2 DEF Level
  <1>6. CASE line.kind \notin {"field", "other"}
    <2>1. s \in BOOLEAN /\ s = t /\ (s = TRUE \/ at0 <= Len(gs))
      BY <1>6 DEF Level
    <2>2. CASE s = TRUE
      <3>1. hx = <<hs, TRUE>> /\ gx = <<gs, TRUE>>
        <4>1. hx = parseLine(hs, TRUE, line) /\ gx = parseLine(gs, TRUE, line)
          BY <2>1, <2>2
        <4> QED BY <1>6, <4>1 DEF parseLine
      <3>2. hx[1] = hs /\ hx[2] = TRUE /\ gx[1] = gs /\ gx[2] = TRUE
        BY <3>1
      <3> QED BY <3>2 DEF Level
    <2>3. CASE s = FALSE
      <3> DEFINE x == Continued(hs[Len(hs)], line)
                 y == Continued(gs[Len(gs)], line)
                 hc == [hs EXCEPT ![Len(hs)] = x]
                 gc == [gs EXCEPT ![Len(gs)] = y]
      <3>1. at0 <= Len(gs) /\ gs # <<>> /\ t = FALSE
        BY <1>2, <2>1, <2>3
      <3>2. hx = <<hc, FALSE>>
        BY <1>2, <1>6, <2>3 DEF parseLine
      <3>3. gx = <<gc, FALSE>>
        BY <1>6, <3>1 DEF parseLine
      <3>5. hs[Len(hs)] = gs[Len(gs)]
        BY <3>1, LastOfBoth
      <3>6. Without(hc, at0, field, [gs EXCEPT ![Len(gs)] = x])
        <4> HIDE DEF x
        <4> QED BY <3>1, LastOfBoth
      <3>7. Without(hc, at0, field, gc)
        BY <3>5, <3>6
      <3>8. Len(gc) = Len(gs)
        <4>1. DOMAIN gs = 1 .. Len(gs)
          BY <1>2 DEF IsSeq
        <4>2. gc = [j \in 1 .. Len(gs) |-> gc[j]]
          BY <4>1
        <4> HIDE DEF gc
        <4> QED BY <1>2, <4>2, PlainSeq
      <3> HIDE DEF hc, gc
      <3>9. hx[1] = hc /\ hx[2] = FALSE /\ gx[1] = gc /\ gx[2] = FALSE
        BY <3>2, <3>3
      <3> QED BY <3>1, <3>7, <3>8, <3>9 DEF Level
    <2> QED BY <2>1, <2>2, <2>3
  <1> QED BY <1>4, <1>5, <1>6

(* A run over the lines, and one over them without line p, from p on.      *)
Alongside(f, g, p, k, field) ==
    LET at0 == Len(f[p][1])
    IN  /\ Without(f[k][1], at0, field, g[k - 1][1])
        /\ k > p => Level(f[k][2], g[k - 1][2], at0, g[k - 1][1])

LEMMA AlongsideStep ==
    ASSUME NEW f, NEW g, NEW p \in Nat, NEW k \in Nat, k >= p, NEW field,
           Alongside(f, g, p, k, field), NEW line,
           k = p => line.kind \in {"field", "other"},
           f[k + 1] = parseLine(f[k][1], f[k][2], line),
           g[k] = parseLine(g[k - 1][1], g[k - 1][2], line)
    PROVE  Alongside(f, g, p, k + 1, field)
  <1> DEFINE at0 == Len(f[p][1])
             hs == f[k][1]
             gs == g[k - 1][1]
             s  == f[k][2]
             t  == g[k - 1][2]
             hx == f[k + 1]
             gx == g[k]
  <1>1. /\ Without(hs, at0, field, gs)
        /\ line.kind \in {"field", "other"} \/ Level(s, t, at0, gs)
        /\ hx = parseLine(hs, s, line) /\ gx = parseLine(gs, t, line)
    BY DEF Alongside
  <1>2. (k + 1) - 1 = k
    OBVIOUS
  <1> HIDE DEF at0, hs, gs, s, t, hx, gx
  <1>3. Without(hx[1], at0, field, gx[1]) /\ Level(hx[2], gx[2], at0, gx[1])
    BY ONLY <1>1, LineAlongside
  <1> QED BY <1>2, <1>3 DEF Alongside, at0, hx, gx

LEMMA ParseWithout ==
    ASSUME NEW ls, IsSeq(ls), NEW p \in DOMAIN ls, ls[p].kind = "field",
           p < Len(ls) => ls[p + 1].kind \in {"field", "other"}
    PROVE  Without(parseHeaders(ls), Len(parseHeaders(SubSeq(ls, 1, p))),
                   ls[p].field, parseHeaders(RemoveAt(ls, p)))
  <1> DEFINE n == Len(ls)
             rest == RemoveAt(ls, p)
             top == SubSeq(ls, 1, p)
             field == ls[p].field
  <1>1. n \in Nat /\ p \in 1 .. n /\ ls \in Seq(ToSet(ls))
    BY DEF IsSeq
  <1>2. /\ Len(rest) \in Nat /\ n = Len(rest) + 1
        /\ \A j \in 1 .. (p - 1) : rest[j] = ls[j]
        /\ \A j \in p .. Len(rest) : rest[j] = ls[j + 1]
    BY RemovedAt
  <1>3. Len(top) = p /\ \A j \in 1 .. p : top[j] = ls[j]
    <2>1. /\ 1 \in Nat \ {0} /\ p \in 0 .. Len(ls) /\ p - 1 + 1 = p /\ 1 <= p
      BY <1>1
    <2>2. /\ Len(top) = IF 1 <= p THEN p - 1 + 1 ELSE 0
          /\ \A j \in 1 .. (p - 1 + 1) : top[j] = ls[1 + j - 1]
      BY <1>1, <2>1, StretchType
    <2> HIDE DEF top
    <2>3. \A j \in 1 .. p : 1 + j - 1 = j
      BY <1>1
    <2> QED BY <2>1, <2>2, <2>3
  <1>4. PICK f : ParseEquation(ls, f, n) /\ parseHeaders(ls) = f[n][1]
    BY <1>1, ParseUnfolds
  <1>5. PICK g : ParseEquation(rest, g, Len(rest)) /\ parseHeaders(rest) = g[Len(rest)][1]
    BY <1>2, ParseUnfolds
  <1>6. PICK h : ParseEquation(top, h, p) /\ parseHeaders(top) = h[p][1]
    <2>1. Len(top) \in Nat
      BY <1>1, <1>3
    <2> HIDE DEF top
    <2> QED BY <1>3, <2>1, ParseUnfolds
  <1> HIDE DEF n, rest, top, field
  <1>7. h[p] = f[p]
    <2>1. p \in Nat /\ p <= n /\ p <= p /\ n \in Nat
      BY <1>1
    <2>2. ParseEquation(ls, f, n) /\ ParseEquation(top, h, p) /\ \A j \in 1 .. p : top[j] = ls[j]
      BY <1>3, <1>4, <1>6
    <2>3. \A k \in 0 .. p : h[k] = f[k]
      BY ONLY <2>1, <2>2, ParsesAlike
    <2> QED BY <2>1, <2>3
  <1>8. g[p - 1] = f[p - 1]
    <2> DEFINE q == p - 1
    <2>1. q \in Nat /\ q <= n /\ q <= Len(rest) /\ n \in Nat /\ Len(rest) \in Nat
      BY <1>1, <1>2
    <2>2. /\ ParseEquation(ls, f, n) /\ ParseEquation(rest, g, Len(rest))
          /\ \A j \in 1 .. q : rest[j] = ls[j]
      BY <1>2, <1>4, <1>5
    <2> HIDE DEF q, rest
    <2>3. \A k \in 0 .. q : g[k] = f[k]
      <3> DEFINE m == Len(rest)
      <3>1. q \in Nat /\ q <= n /\ q <= m /\ n \in Nat /\ m \in Nat
        BY ONLY <2>1
      <3>2. ParseEquation(ls, f, n) /\ ParseEquation(rest, g, m)
            /\ \A j \in 1 .. q : rest[j] = ls[j]
        BY ONLY <2>2
      <3> HIDE DEF m
      <3> QED BY ONLY <3>1, <3>2, ParsesAlike
    <2> QED BY <2>1, <2>3 DEF q
  <1>9. /\ \A k \in 1 .. n : f[k] = parseLine(f[k - 1][1], f[k - 1][2], ls[k])
        /\ \A k \in 1 .. Len(rest) : g[k] = parseLine(g[k - 1][1], g[k - 1][2], rest[k])
    <2>1. ParseEquation(ls, f, n) /\ n \in Nat
      BY <1>1, <1>4
    <2>2. ParseEquation(rest, g, Len(rest)) /\ Len(rest) \in Nat
      BY <1>2, <1>5
    <2>3. \A k \in 1 .. n : f[k] = parseLine(f[k - 1][1], f[k - 1][2], ls[k])
      BY ONLY <2>1, ParseSteps
    <2>4. \A k \in 1 .. Len(rest) : g[k] = parseLine(g[k - 1][1], g[k - 1][2], rest[k])
      BY ONLY <2>2, ParseSteps
    <2> QED BY <2>3, <2>4
  <1>10. Alongside(f, g, p, p, field)
    <2> DEFINE hs == f[p - 1][1]
    <2>1. f[p] = <<Append(hs, field), FALSE>>
      BY <1>1, <1>9 DEF parseLine, field
    <2>2. IsSeq(hs)
      <3>1. \A k \in 0 .. n : IsSeq(f[k][1])
        <4>1. ParseEquation(ls, f, n) /\ n \in Nat
          BY <1>1, <1>4
        <4> QED BY ONLY <4>1, ParseKeepsSeq
      <3> QED BY <1>1, <3>1
    <2>3. f[p][1] = Append(hs, field) /\ g[p - 1][1] = hs
      BY <1>8, <2>1
    <2> HIDE DEF hs
    <2>4. Without(Append(hs, field), Len(Append(hs, field)), field, hs)
      <3> DEFINE hx == Append(hs, field)
                 m == Len(hs)
      <3>1. /\ IsSeq(hx) /\ m \in Nat /\ Len(hx) = m + 1 /\ hx[m + 1] = field
            /\ \A j \in 1 .. m : hx[j] = hs[j]
        BY <2>2, Appended
      <3> HIDE DEF hx, m
      <3>2. Len(hx) \in 1 .. Len(hx) /\ hx[Len(hx)] = field
        BY <3>1
      <3>3. \A j \in 1 .. (Len(hx) - 1) : hx[j] = hs[j]
        BY <3>1
      <3>4. \A j \in Len(hx) .. m : hx[j + 1] = hs[j]
        BY <3>1
      <3> QED BY <2>2, <3>1, <3>2, <3>3, <3>4 DEF Without, hx, m
    <2>5. Alongside(f, g, p, p, field)
      BY <1>1, <2>3, <2>4 DEF Alongside
    <2> QED BY <2>5
  <1> DEFINE T == { k \in 0 .. n : k >= p => Alongside(f, g, p, k, field) }
  <1>11. 0 \in T
    BY <1>1
  <1>12. ASSUME NEW k \in 0 .. (n - 1), k \in T PROVE k + 1 \in T
    <2>1. k + 1 \in 0 .. n /\ k \in Nat /\ p \in Nat
      BY <1>1
    <2>2. CASE k + 1 < p
      BY <2>1, <2>2
    <2>3. CASE k + 1 = p
      BY <1>10, <2>1, <2>3
    <2>4. CASE k >= p
      <3> DEFINE line == ls[k + 1]
      <3>1. k + 1 \in 1 .. n /\ (k + 1) - 1 = k /\ k \in 1 .. Len(rest) /\ k \in p .. Len(rest)
        BY <1>1, <1>2, <2>4
      <3>2. f[k + 1] = parseLine(f[k][1], f[k][2], line)
            /\ g[k] = parseLine(g[k - 1][1], g[k - 1][2], line)
        BY <1>2, <1>9, <3>1
      <3>3. k = p => line.kind \in {"field", "other"}
        BY <1>1, <3>1 DEF n
      <3>4. Alongside(f, g, p, k, field)
        BY <1>12, <2>4
      <3> HIDE DEF line
      <3>5. Alongside(f, g, p, k + 1, field)
        BY ONLY <2>1, <2>4, <3>2, <3>3, <3>4, AlongsideStep
      <3> QED BY <2>1, <3>5
    <2> QED BY <2>1, <2>2, <2>3, <2>4
  <1> HIDE DEF T
  <1>13. Alongside(f, g, p, n, field)
    <2>1. \A k \in 0 .. n : k \in T
      BY <1>1, <1>11, <1>12, IntervalInduction
    <2>2. n \in T /\ n >= p
      BY <1>1, <2>1
    <2> QED BY <2>2 DEF T
  <1>14. n - 1 = Len(rest)
    BY <1>1, <1>2
  <1>15. Without(f[n][1], Len(f[p][1]), field, g[Len(rest)][1])
    BY <1>13, <1>14 DEF Alongside
  <1> QED BY <1>4, <1>5, <1>6, <1>7, <1>15 DEF rest, top, field
-------------------------------------------------------------------------------
(* No line continues a signature: a draft whose block begins with a field, *)
(* or with a line that is none, leaves nothing loose below a field that is *)
(* put on top, and a relay drops a field with its continuations.           *)

BlocksBegin == \A draft \in Drafts : draft.lines # <<>> => draft.lines[1].kind # "continuation"

IsSignature(line) == line.kind = "field" /\ line.field.name = "dkim-signature"

Whole(ls) ==
    /\ \A p \in DOMAIN ls : ls[p].kind \in {"field", "continuation", "other"}
    /\ 1 \in DOMAIN ls => ls[1].kind # "continuation"
    /\ \A p \in DOMAIN ls : IsSignature(ls[p]) /\ p + 1 \in DOMAIN ls =>
          ls[p + 1].kind # "continuation"

LEMMA WholeOnTop ==
    ASSUME NEW ls, IsSeq(ls), Whole(ls), NEW line, line.kind = "field"
    PROVE  Whole(<<line>> \o ls)
  <1> DEFINE n  == Len(ls)
             ms == <<line>> \o ls
  <1>1. n \in Nat /\ DOMAIN ls = 1 .. n
    BY DEF IsSeq
  <1>2. DOMAIN ms = 1 .. (n + 1) /\ ms[1] = line /\ \A j \in 2 .. (n + 1) : ms[j] = ls[j - 1]
    <2> DEFINE S == ToSet(ls) \cup {line}
               one == <<line>>
    <2>1. ls \in Seq(S) /\ one \in Seq(S) /\ Len(one) = 1 /\ one[1] = line /\ ms = one \o ls
      BY DEF IsSeq
    <2> HIDE DEF S, one, ms, n
    <2>2. /\ Len(ms) = Len(one) + Len(ls) /\ DOMAIN ms = 1 .. Len(ms)
          /\ \A j \in 1 .. Len(one) : ms[j] = one[j]
          /\ \A j \in 1 .. Len(ls) : ms[Len(one) + j] = ls[j]
      <3>1. one \in Seq(S) /\ ls \in Seq(S)
        BY <2>1
      <3>2. Joins(one \o ls, one, ls)
        BY ONLY <3>1, JoinedItems
      <3> QED BY <2>1, <3>2 DEF Joins
    <2>3. ms[1] = line /\ Len(ms) = n + 1
      BY <1>1, <2>1, <2>2 DEF n
    <2>4. ASSUME NEW j \in 2 .. (n + 1) PROVE ms[j] = ls[j - 1]
      <3>1. j - 1 \in 1 .. Len(ls) /\ 1 + (j - 1) = j
        BY <1>1 DEF n
      <3> QED BY <2>1, <2>2, <3>1
    <2> QED BY <2>2, <2>3, <2>4
  <1> HIDE DEF ms, n
  <1>3. ASSUME NEW j \in DOMAIN ms PROVE ms[j].kind \in {"field", "continuation", "other"}
    <2>1. j = 1 \/ (j \in 2 .. (n + 1) /\ j - 1 \in 1 .. n)
      BY <1>1, <1>2
    <2> QED BY <1>1, <1>2, <2>1 DEF Whole
  <1>4. ASSUME NEW j \in DOMAIN ms, IsSignature(ms[j]), j + 1 \in DOMAIN ms
        PROVE  ms[j + 1].kind # "continuation"
    <2>1. /\ j \in 1 .. n /\ j + 1 \in 2 .. (n + 1) /\ (j + 1) - 1 = j
          /\ j # 1 => j \in 2 .. (n + 1) /\ j - 1 \in 1 .. n /\ (j - 1) + 1 = j
      BY <1>1, <1>2, <1>4
    <2>2. ms[j + 1] = ls[j]
      BY <1>2, <2>1
    <2>3. CASE j = 1
      BY <1>1, <2>1, <2>2, <2>3 DEF Whole
    <2>4. CASE j # 1
      <3>1. IsSignature(ls[j - 1])
        BY <1>2, <1>4, <2>1, <2>4
      <3> QED BY <1>1, <2>1, <2>2, <2>4, <3>1 DEF Whole
    <2> QED BY <2>3, <2>4
  <1>5. ms[1].kind # "continuation"
    BY <1>2
  <1> QED BY <1>3, <1>4, <1>5 DEF Whole, ms

LEMMA WholeAsBefore ==
    ASSUME NEW ls, Whole(ls), NEW p \in DOMAIN ls, NEW line,
           line.kind = ls[p].kind, IsSignature(line) => IsSignature(ls[p])
    PROVE  Whole([ls EXCEPT ![p] = line])
  <1> DEFINE ms == [ls EXCEPT ![p] = line]
  <1>1. DOMAIN ms = DOMAIN ls
        /\ \A j \in DOMAIN ls : ms[j] = IF j = p THEN line ELSE ls[j]
    OBVIOUS
  <1> HIDE DEF ms
  <1>2. \A j \in DOMAIN ls : ms[j].kind = ls[j].kind /\ (IsSignature(ms[j]) => IsSignature(ls[j]))
    BY <1>1
  <1>3. Whole(ms)
    BY <1>1, <1>2 DEF Whole
  <1> QED BY <1>3 DEF ms

LEMMA WholeAfterDrop ==
    ASSUME NEW ls, IsSeq(ls), Whole(ls), NEW p \in DOMAIN ls, NEW q \in p .. Len(ls),
           q + 1 \in DOMAIN ls => ls[q + 1].kind # "continuation"
    PROVE  Whole(SubSeq(ls, 1, p - 1) \o SubSeq(ls, q + 1, Len(ls)))
  <1> DEFINE n  == Len(ls)
             ms == SubSeq(ls, 1, p - 1) \o SubSeq(ls, q + 1, n)
             m  == Len(ms)
             d  == q + 1 - p
  <1>1. /\ n \in Nat /\ m \in Nat /\ m = n - d /\ p \in 1 .. n /\ q \in p .. n
        /\ DOMAIN ls = 1 .. n /\ DOMAIN ms = 1 .. m
        /\ \A j \in 1 .. (p - 1) : ms[j] = ls[j]
        /\ \A j \in p .. m : ms[j] = ls[j + d]
    <2>1. IsSeq(ls) /\ p \in DOMAIN ls /\ q \in p .. Len(ls)
      OBVIOUS
    <2>2. IsCut(ls, p, q, SubSeq(ls, 1, p - 1) \o SubSeq(ls, q + 1, Len(ls)))
      BY ONLY <2>1, CutOut
    <2>3. IsCut(ls, p, q, ms)
      BY <2>2
    <2> HIDE DEF ms
    <2> QED BY <2>3 DEF IsCut
  <1> HIDE DEF n, ms, m
  <1>7. ASSUME NEW j \in DOMAIN ms
        PROVE  ms[j].kind \in {"field", "continuation", "other"}
    <2>1. CASE j \in 1 .. (p - 1)
      <3>1. j \in 1 .. n
        BY <1>1, <2>1
      <3> QED BY <1>1, <2>1, <3>1 DEF Whole
    <2>2. CASE j \notin 1 .. (p - 1)
      <3>1. j \in p .. m /\ j + d \in 1 .. n
        BY <1>1, <2>2
      <3> QED BY <1>1, <3>1 DEF Whole
    <2> QED BY <2>1, <2>2
  (* The line the dropped ones stood in front of is no continuation.       *)
  <1>8. p \in DOMAIN ms => ms[p].kind # "continuation"
    <2> HAVE p \in DOMAIN ms
    <2>1. p \in p .. m /\ p + d = q + 1 /\ q + 1 \in 1 .. n
      <3>1. /\ p \in Int /\ q \in Int /\ n \in Int /\ m \in Int
            /\ 1 <= p /\ p <= q /\ p <= m /\ m = n - (q + 1 - p)
        BY <1>1
      <3> QED BY ONLY <3>1 DEF d
    <2>2. ms[p] = ls[q + 1]
      BY <1>1, <2>1
    <2> QED BY <1>1, <2>1, <2>2
  <1>9. 1 \in DOMAIN ms => ms[1].kind # "continuation"
    <2>1. CASE p = 1
      BY <1>8, <2>1
    <2>2. CASE p # 1
      <3>1. 1 \in 1 .. (p - 1) /\ 1 \in 1 .. n
        BY <1>1, <2>2
      <3> QED BY <1>1, <3>1 DEF Whole
    <2> QED BY <2>1, <2>2
  <1>10. ASSUME NEW j \in DOMAIN ms, IsSignature(ms[j]), j + 1 \in DOMAIN ms
         PROVE  ms[j + 1].kind # "continuation"
    <2>1. CASE j + 1 < p
      <3>1. j \in 1 .. (p - 1) /\ j + 1 \in 1 .. (p - 1) /\ j \in 1 .. n /\ j + 1 \in 1 .. n
        BY <1>1, <2>1
      <3>2. ms[j] = ls[j] /\ ms[j + 1] = ls[j + 1]
        BY <1>1, <3>1
      <3> QED BY <1>1, <1>10, <3>1, <3>2 DEF Whole
    <2>2. CASE j + 1 = p
      BY <1>8, <1>10, <2>2
    <2>3. CASE j + 1 > p
      <3> DEFINE k == j + d
      <3>1. j \in p .. m /\ j + 1 \in p .. m
        BY <1>1, <1>10, <2>3
      <3>2. k \in 1 .. n /\ k + 1 \in 1 .. n /\ (j + 1) + d = k + 1
        <4>1. /\ p \in Int /\ q \in Int /\ n \in Int /\ j \in Int
              /\ 1 <= p /\ p <= q /\ p <= j /\ j + 1 <= n - (q + 1 - p)
          BY <1>1, <3>1
        <4> QED BY ONLY <4>1 DEF k, d
      <3>3. ms[j] = ls[k] /\ ms[j + 1] = ls[k + 1]
        BY <1>1, <3>1, <3>2
      <3> HIDE DEF k
      <3> QED BY <1>1, <1>10, <3>2, <3>3 DEF Whole
    <2>4. j \in Nat
      BY <1>1
    <2> QED BY <1>1, <2>1, <2>2, <2>3, <2>4
  <1>11. Whole(ms)
    BY <1>7, <1>9, <1>10 DEF Whole
  <1> QED BY <1>11 DEF ms, n
-------------------------------------------------------------------------------
(* What an intact signature rests on besides: no line on the wire          *)
(* continues a signature field, each signature is one Sign made, over a    *)
(* block where every b= had a value, and the receiver reads the block that *)
(* is on the wire.                                                         *)

Made(evs) ==
    \A ev \in evs :
       /\ \E opt \in OptionSets :
             ~SignError(ev.headers, opt) /\ ev.field = Sign(ev.headers, ev.body, opt)
       /\ \A p \in DOMAIN ev.headers :
             ev.headers[p].name = "dkim-signature" => ev.headers[p].tags.b # Empty

ReadHere ==
    pc # "transit" =>
       headers = parseHeaders(lines) /\ body = text /\ entry = "VerifySignature" /\ Reasoned

IntactInv == Whole(lines) /\ Made(signed) /\ ReadHere

LEMMA DraftsWhole ==
    ASSUME BlocksBegin, MailInit
    PROVE  IntactInv
  <1>1. PICK draft \in Drafts : lines = draft.lines
    BY DEF MailInit
  <1>2. IsSeq(lines) /\ \A p \in DOMAIN lines :
           /\ lines[p].kind \in {"field", "continuation", "other"}
           /\ lines[p].kind = "field" => PlainField(lines[p].field)
    BY <1>1, DraftShape DEF IsSeq
  <1>3. 1 \in DOMAIN lines => lines[1].kind # "continuation"
    BY <1>1, <1>2 DEF BlocksBegin, IsSeq
  <1>4. \A p \in DOMAIN lines : ~IsSignature(lines[p])
    BY <1>2 DEF IsSignature, PlainField
  <1>5. Whole(lines)
    BY <1>2, <1>3, <1>4 DEF Whole
  <1>6. Made(signed) /\ ReadHere
    BY DEF MailInit, Made, ReadHere
  <1> QED BY <1>5, <1>6 DEF IntactInv

(* The signatures in a block on the wire have a b= with a value, or with   *)
(* one that was spoilt.                                                    *)
LEMMA NoEmptyB ==
    ASSUME SignaturesAreValues, NEW evs, SignedWell(evs), NEW hs, ReadWell(hs, evs),
           NEW p \in DOMAIN hs, hs[p].name = "dkim-signature"
    PROVE  hs[p].tags.b # Empty
  <1>1. CASE hs[p].tags.b = Junk
    BY <1>1, SentinelsDiffer
  <1>2. CASE hs[p].tags.b # Junk
    <2>1. PICK ev \in evs : hs[p].tags = ev.field.tags
      BY <1>2 DEF ReadWell
    <2>2. ev.field.tags.b = [by |-> ev.field.tags.b.by,
                             over |-> BuildSignedHeaders(ev.field.tags.h, ev.headers,
                                        Unsigned(ev.field), ev.field.tags.c[1])]
      BY DEF SignedWell, SignedField
    <2>3. ev.field.tags.b # Empty
      BY <2>2 DEF SignaturesAreValues
    <2> QED BY <2>1, <2>3
  <1> QED BY <1>1, <1>2

LEMMA HopReads ==
    ASSUME Hop
    PROVE  ReadHere'
  BY DEF Hop, vars, progress, ReadHere

LEMMA SignIntact ==
    ASSUME SignaturesAreValues, MailInv, IntactInv, SignMessage
    PROVE  IntactInv'
  <1> DEFINE parsed == parseHeaders(lines)
  <1>1. PICK opt \in OptionSets :
           LET field == Sign(parsed, text, opt)
           IN  /\ ~SignError(parsed, opt)
               /\ lines' = <<FieldLine(field)>> \o lines
               /\ signed' = signed \cup {[field |-> field, headers |-> parsed, body |-> text]}
    BY DEF SignMessage
  <1> DEFINE field == Sign(parsed, text, opt)
             made  == [field |-> field, headers |-> parsed, body |-> text]
  <1>2. ReadWell(parsed, signed) /\ SignedWell(signed) /\ IsSeq(lines)
    BY ReadIsWell DEF MailInv, OnWire
  <1>3. made.field = field /\ made.headers = parsed /\ made.body = text
    OBVIOUS
  <1>4. /\ lines' = <<FieldLine(field)>> \o lines /\ signed' = signed \cup {made}
        /\ ~SignError(parsed, opt) /\ field = Sign(parsed, text, opt)
    BY <1>1
  <1> HIDE DEF field, parsed, made
  <1>5. Whole(lines')
    <2>1. FieldLine(field).kind = "field"
      BY DEF FieldLine
    <2> QED BY <1>2, <1>4, <2>1, WholeOnTop DEF IntactInv
  <1>6. \A p \in DOMAIN parsed : parsed[p].name = "dkim-signature" => parsed[p].tags.b # Empty
    BY <1>2, NoEmptyB
  <1>7. Made(signed')
    BY <1>3, <1>4, <1>6 DEF IntactInv, Made
  <1>8. ReadHere'
    BY HopReads DEF SignMessage
  <1> QED BY <1>5, <1>7, <1>8 DEF IntactInv

(* A relay that refolds or rewords a field leaves its name.                *)
LEMMA TouchedIntact ==
    ASSUME MailInv, IntactInv, NEW p \in DOMAIN lines, lines[p].kind = "field",
           NEW line, line.kind = "field", line.field.name = lines[p].field.name
    PROVE  Whole([lines EXCEPT ![p] = line])
  <1>1. line.kind = lines[p].kind /\ (IsSignature(line) => IsSignature(lines[p]))
    BY DEF IsSignature
  <1> QED BY <1>1, WholeAsBefore DEF IntactInv

LEMMA RelayIntact ==
    ASSUME MailInv, IntactInv, Relay
    PROVE  IntactInv'
  <1>1. Hop /\ UNCHANGED signed
    BY DEF Relay, AddField, Refold, Reword, DropField, RepeatSignature, EditBody
  <1>2. Made(signed') /\ ReadHere'
    BY <1>1, HopReads DEF IntactInv
  <1>3. OnWire(lines, signed) /\ IsSeq(lines) /\ Whole(lines)
    BY DEF MailInv, IntactInv, OnWire
  <1>4. CASE AddField
    <2>1. PICK field \in TraceFields : lines' = <<FieldLine(field)>> \o lines
      BY <1>4 DEF AddField
    <2>2. FieldLine(field).kind = "field"
      BY DEF FieldLine
    <2>3. Whole(lines')
      BY <1>3, <2>1, <2>2, WholeOnTop
    <2> QED BY <1>2, <2>3 DEF IntactInv
  <1>5. CASE Refold
    <2>1. PICK p \in DOMAIN lines : IsField(p) /\ lines' = [lines EXCEPT ![p].field.ws = 7]
      BY <1>5 DEF Refold
    <2> DEFINE line    == lines[p]
               touched == [line EXCEPT !.field.ws = 7]
    <2>2. line.kind = "field" /\ line = FieldLine(line.field) /\ FieldShape(line.field)
      BY <1>3, <2>1 DEF IsField, OnWire, GoodLine, WireField
    <2>3. lines' = [lines EXCEPT ![p] = touched]
      BY <2>1
    <2> HIDE DEF line
    <2>4. touched.kind = "field" /\ touched.field.name = line.field.name
      BY <2>2 DEF FieldLine, FieldShape
    <2> HIDE DEF touched
    <2>5. Whole(lines')
      BY <2>2, <2>3, <2>4, TouchedIntact DEF line
    <2> QED BY <1>2, <2>5 DEF IntactInv
  <1>6. CASE Reword
    <2>1. PICK p \in DOMAIN lines :
             IsField(p) /\ lines' = [lines EXCEPT ![p].field.text = << "changed" >>]
      BY <1>6 DEF Reword
    <2> DEFINE line    == lines[p]
               touched == [line EXCEPT !.field.text = << "changed" >>]
    <2>2. line.kind = "field" /\ line = FieldLine(line.field) /\ FieldShape(line.field)
      BY <1>3, <2>1 DEF IsField, OnWire, GoodLine, WireField
    <2>3. lines' = [lines EXCEPT ![p] = touched]
      BY <2>1
    <2> HIDE DEF line
    <2>4. touched.kind = "field" /\ touched.field.name = line.field.name
      BY <2>2 DEF FieldLine, FieldShape
    <2> HIDE DEF touched
    <2>5. Whole(lines')
      BY <2>2, <2>3, <2>4, TouchedIntact DEF line
    <2> QED BY <1>2, <2>5 DEF IntactInv
  <1>7. CASE DropField
    <2>1. PICK p \in DOMAIN lines : \E q \in p .. Len(lines) :
             /\ ~Continues(q + 1)
             /\ lines' = SubSeq(lines, 1, p - 1) \o SubSeq(lines, q + 1, Len(lines))
      BY <1>7 DEF DropField
    <2>2. PICK q \in p .. Len(lines) :
             /\ ~Continues(q + 1)
             /\ lines' = SubSeq(lines, 1, p - 1) \o SubSeq(lines, q + 1, Len(lines))
      BY <2>1
    <2>3. q + 1 \in DOMAIN lines => lines[q + 1].kind # "continuation"
      BY <2>2 DEF Continues
    <2>4. Whole(lines')
      BY <1>3, <2>2, <2>3, WholeAfterDrop
    <2> QED BY <1>2, <2>4 DEF IntactInv
  <1>8. CASE RepeatSignature
    <2>1. PICK p \in DOMAIN lines : IsField(p) /\ lines' = <<lines[p]>> \o lines
      BY <1>8 DEF RepeatSignature
    <2>2. lines[p].kind = "field"
      BY <2>1 DEF IsField
    <2>3. Whole(lines')
      BY <1>3, <2>1, <2>2, WholeOnTop
    <2> QED BY <1>2, <2>3 DEF IntactInv
  <1>9. CASE EditBody
    <2>1. lines' = lines
      BY <1>9 DEF EditBody
    <2> QED BY <1>2, <1>3, <2>1 DEF IntactInv
  <1> QED BY <1>4, <1>5, <1>6, <1>7, <1>8, <1>9 DEF Relay

LEMMA DeliverIntact ==
    ASSUME MailInv, IntactInv, Deliver
    PROVE  IntactInv'
  <1>1. /\ headers' = parseHeaders(lines) /\ body' = text /\ pc = "transit"
        /\ UNCHANGED <<lines, text, signed, entry, seen>>
    BY DEF Deliver, wire, world
  <1>2. seen = <<>> /\ entry = "VerifySignature"
    BY <1>1 DEF MailInv, AtReceiver, InTransit
  <1>3. Reasoned'
    BY <1>1, <1>2 DEF Reasoned
  <1>4. ReadHere'
    BY <1>1, <1>2, <1>3 DEF ReadHere
  <1> QED BY <1>1, <1>4 DEF IntactInv

LEMMA ReceiveIntact ==
    ASSUME MailInv, IntactInv, Receive \/ World
    PROVE  IntactInv'
  <1>1. UNCHANGED <<lines, text, signed>> /\ Next
    BY DEF Receive, World, wire, Next
  <1>2. UNCHANGED message
    BY <1>1 DEF Next, VerifierStep, SkipField, Parse, CheckPolicy, PrepareMechanism,
                CheckSignature, CheckKeyPolicy, Finish, Answer, Tick, Publish
  <1>3. ReadHere'
    <2>1. CASE pc = "transit"
      <3>1. ~VerifierStep /\ ~Answer
        BY <2>1 DEF VerifierStep, SkipField, Parse, CheckPolicy, PrepareMechanism,
                    CheckSignature, CheckKeyPolicy, Finish, Answer
      <3>2. pc' = pc
        BY <1>1, <3>1 DEF Next, Tick, Publish, progress
      <3> QED BY <2>1, <3>2 DEF ReadHere
    <2>2. CASE pc # "transit"
      <3>1. IInv /\ Reasoned
        BY <2>2 DEF MailInv, InTransit, AtReceiver, IntactInv, ReadHere
      <3>2. Reasoned'
        BY <1>1, <3>1, ReasonedStep
      <3> QED BY <1>1, <1>2, <2>2, <3>2 DEF IntactInv, ReadHere, message
    <2> QED BY <2>1, <2>2
  <1> QED BY <1>1, <1>3 DEF IntactInv

LEMMA IntactStep ==
    ASSUME SignaturesAreValues, MailInv, IntactInv, [MailNext]_mailVars
    PROVE  IntactInv'
  <1>1. CASE UNCHANGED mailVars
    <2>1. UNCHANGED <<lines, text, signed, pc, headers, body, entry>> /\ UNCHANGED message
          /\ UNCHANGED seen
      BY <1>1 DEF mailVars, wire, vars, message, progress
    <2>2. ReadHere'
      BY <2>1, SameReasoned DEF IntactInv, ReadHere
    <2> QED BY <2>1, <2>2 DEF IntactInv
  <1> QED BY <1>1, SignIntact, RelayIntact, DeliverIntact, ReceiveIntact DEF MailNext
-------------------------------------------------------------------------------
(* A field accepted, with the body that was signed, is not refused before  *)
(* its key is asked for.                                                   *)
LEMMA NotRefused ==
    ASSUME NEW e, SignedField(e.field, e.headers, e.body), NEW f, f.tags = e.field.tags,
           NEW kind, Accepted(e.field.tags, kind),
           CanonicalizeBody(body, e.field.tags.c[2]) = CanonicalizeBody(e.body, e.field.tags.c[2]),
           NEW clock \in Int, e.field.tags.x # Absent => clock < e.field.tags.x
    PROVE  ~RefusedUnread(f, clock)
  <1> DEFINE T == e.field.tags
  <1>1. /\ T.strict /\ ALabelTags(T) = T /\ T.b # Junk
        /\ PolicyOK(T, clock) /\ MechanismOK(T, body)
    BY DEF Accepted
  <1>2. T.l = Absent /\ BodyCanon(T) = T.c[2] /\ T.bh = CanonicalizeBody(e.body, T.c[2])
    BY DEF SignedField
  <1>3. HashedBody(T, body) = T.bh
    BY <1>2 DEF HashedBody, Present
  <1>4. ALabelTags(f.tags) = T /\ Parsed(entry, f)
    BY <1>1 DEF Parsed
  <1> HIDE DEF T
  <1> QED BY <1>1, <1>3, <1>4 DEF RefusedUnread

(* An answer that holds the key a signer published: that key is fetched.   *)
LEMMA PublishedIsFetched ==
    ASSUME NEW opt \in OptionSets, ~KeyError(opt.key), NEW name, NEW answer \in Answers(name),
           opt.key.id \in { rec.p.id : rec \in ToSet(answer.records) }
    PROVE  Fetch(answer, opt.key.kind, "sha256")
             = [ key |-> [kind |-> opt.key.kind, id |-> opt.key.id],
                 flags |-> NoFlags, res |-> "" ]
  <1>1. ToSet(answer.records) # {}
    OBVIOUS
  <1>2. answer.records # <<>>
    BY <1>1 DEF ToSet
  <1>3. answer # TempError /\ answer # NotFound
    BY <1>2 DEF TempError, NotFound
  <1>4. PICK theZone \in Zones : answer = Held(name, theZone)
    BY <1>3 DEF Answers
  <1>5. name \in RecordNames /\ answer = theZone[name]
    BY <1>3, <1>4 DEF Held
  <1> QED BY <1>5, PublishedKeysServe

(* What the two invariants say of a signature that stands as it was made.  *)
LEMMA IntactHolds ==
    ASSUME SignaturesAreValues, SentinelsApart, NamesFitTheList, MailInv, IntactInv
    PROVE  IntactVerifies
  <1> SUFFICES
        ASSUME NEW j \in DOMAIN results, NEW p \in DOMAIN lines, NEW ev \in signed,
               IsField(p), SameField(ev, lines[p].field),
               seen[j].at = Len(parseHeaders(SubSeq(lines, 1, p))),
               \A q \in 1 .. (seen[j].at - 1) : headers[q] # headers[seen[j].at],
               SameContent(ev, parseHeaders(RemoveAt(lines, p)), text),
               ev.field.tags.x # Absent => seen[j].now = Absent \/ seen[j].now < ev.field.tags.x,
               \/ seen[j].answer = Absent
               \/ ev.field.tags.b.by.id \in { rec.p.id : rec \in ToSet(seen[j].answer.records) }
        PROVE  results[j].result = "pass"
    BY DEF IntactVerifies
  <1> DEFINE here   == seen[j].at
             field  == headers[here]
             clock  == seen[j].now
             answer == seen[j].answer
             T      == ev.field.tags
  <1>1. pc # "transit" /\ IInv /\ Told /\ Shaped(headers)
    <2>1. MailInv /\ results # <<>>
      BY ONLY MailInv, j \in DOMAIN results
    <2> QED BY ONLY <2>1 DEF MailInv, InTransit, AtReceiver, ReadWell
  <1>2. headers = parseHeaders(lines) /\ body = text /\ policy /\ Reasoned
    BY <1>1 DEF IntactInv, ReadHere, policy
  <1>3. here \in DOMAIN headers /\ j \in DOMAIN seen
    <2>1. here \in DOMAIN headers
      BY <1>1 DEF Told
    <2>2. IsSeq(seen) /\ IsSeq(results) /\ Len(seen) = Len(results)
      BY <1>1 DEF IInv, Shape
    <2> HIDE DEF here
    <2>3. j \in DOMAIN seen
      BY ONLY <2>2, j \in DOMAIN results DEF IsSeq
    <2> QED BY <2>1, <2>3
  <1>4. SignedField(ev.field, ev.headers, ev.body) /\ Shaped(ev.headers)
    BY DEF MailInv, SignedWell
  <1>5. /\ IsSeq(lines) /\ lines[p].kind = "field" /\ FieldShape(lines[p].field)
    BY DEF MailInv, OnWire, GoodLine, WireField, IsField
  <1>6. FieldShape(ev.field) /\ ev.field.name = "dkim-signature"
    <2>1. ev.field = [name |-> "dkim-signature", text |-> <<>>, ws |-> 1, tags |-> T]
      BY <1>4 DEF SignedField
    <2> HIDE DEF T
    <2> QED BY <2>1 DEF FieldShape
  (* The line is a signature, so no line continues it.                     *)
  <1>7. IsSignature(lines[p])
    <2>1. CanonicalizeHeader(lines[p].field, T.c[1]) = CanonicalizeHeader(ev.field, T.c[1])
      BY DEF SameField
    <2>2. lines[p].field.name = ev.field.name
      <3> HIDE DEF T
      <3>1. FieldShape(lines[p].field) /\ FieldShape(ev.field)
        BY ONLY <1>5, <1>6
      <3> QED BY ONLY <2>1, <3>1, CanonKeeps
    <2> QED BY ONLY <1>5, <1>6, <2>2 DEF IsSignature
  <1>8. p < Len(lines) => lines[p + 1].kind \in {"field", "other"}
    <2> HAVE p < Len(lines)
    <2>1. p + 1 \in DOMAIN lines
      BY ONLY <1>5, p \in DOMAIN lines, p < Len(lines) DEF IsSeq
    <2>2. Whole(lines)
      BY DEF IntactInv
    <2> QED BY ONLY <1>7, <2>1, <2>2 DEF Whole
  <1>9. field = lines[p].field /\ RemoveAt(headers, here) = parseHeaders(RemoveAt(lines, p))
    <2> DEFINE gs == parseHeaders(RemoveAt(lines, p))
               at0 == Len(parseHeaders(SubSeq(lines, 1, p)))
    <2>1. Without(parseHeaders(lines), at0, lines[p].field, gs)
      BY <1>5, <1>8, ParseWithout
    <2>2. Without(headers, here, lines[p].field, gs)
      BY <1>2, <2>1
    <2> HIDE DEF gs, at0, here
    <2>3. RemoveAt(headers, here) = gs
      BY ONLY <2>2, WithoutIs
    <2>4. headers[here] = lines[p].field
      BY ONLY <2>2 DEF Without
    <2> QED BY <2>3, <2>4 DEF gs, here
  <1>10. SameField(ev, headers[here]) /\ SameContent(ev, RemoveAt(headers, here), body)
    BY <1>2, <1>9
  <1>11. PICK opt \in OptionSets :
            ~SignError(ev.headers, opt) /\ ev.field = Sign(ev.headers, ev.body, opt)
    BY DEF IntactInv, Made
  <1> DEFINE kind == opt.key.kind
  <1>12. Accepted(T, kind)
    <2>1. IsSeq(ev.headers)
      BY <1>4 DEF Shaped
    <2> QED BY <1>11, <2>1, SignIsAccepted
  <1>13. T.b.by = [kind |-> kind, id |-> opt.key.id] /\ ~KeyError(opt.key)
    <2>1. SignedAs(T, opt, ev.headers)
      BY <1>11, SignTags
    <2> HIDE DEF T
    <2> QED BY ONLY <1>11, <2>1 DEF SignedAs, SignError, kind
  <1> HIDE DEF here, field, clock, answer, T
  <1>14. field.tags = T /\ T.strict
    BY <1>10, <1>12 DEF SameField, Accepted, field, T
  <1>15. Rests(field, seen[j])
    BY <1>2, <1>3 DEF Reasoned, field, here
  <1>16. clock \in Int
    <2>1. clock \in 0 .. MaxTime
      BY ONLY <1>2, <1>14, <1>15 DEF Rests, Parsed, clock
    <2> QED BY ONLY <2>1, ClockAssumption
  <1>17. T.x # Absent => clock < T.x
    <2>1. Absent \notin Int
      BY DEF SentinelsApart
    <2> QED BY <1>16, <2>1 DEF T, clock
  <1>18. CanonicalizeBody(body, T.c[2]) = CanonicalizeBody(ev.body, T.c[2])
    BY <1>10 DEF SameContent, T
  <1>19. answer \in Answers(NameOf(field))
    <2>1. ~RefusedUnread(field, clock)
      BY <1>4, <1>12, <1>14, <1>16, <1>17, <1>18, NotRefused DEF T
    <2> QED BY <1>15, <2>1 DEF Rests, clock, answer
  <1>20. opt.key.id \in { rec.p.id : rec \in ToSet(answer.records) }
    <2>1. answer # Absent
      BY <1>19 DEF SentinelsApart
    <2>2. T.b.by.id = opt.key.id
      BY ONLY <1>13
    <2>3. answer = Absent \/ T.b.by.id \in { rec.p.id : rec \in ToSet(answer.records) }
      BY DEF answer, T
    <2> QED BY ONLY <2>1, <2>2, <2>3
  <1>21. Fetch(answer, kind, "sha256") = [key |-> T.b.by, flags |-> NoFlags, res |-> ""]
    <2>1. Fetch(answer, opt.key.kind, "sha256")
            = [ key |-> [kind |-> opt.key.kind, id |-> opt.key.id], flags |-> NoFlags, res |-> "" ]
      BY <1>13, <1>19, <1>20, PublishedIsFetched
    <2> QED BY <1>13, <2>1
  <1>22. Verdict(headers, body, entry, headers[here], clock, answer) = "pass"
    <2>1. \A q \in DOMAIN ev.headers :
             ev.headers[q].name = "dkim-signature" => ev.headers[q].tags.b # Empty
      BY DEF IntactInv, Made
    <2>2. \A q \in 1 .. (here - 1) : headers[q] # headers[here]
      BY DEF here
    <2>3. here \in DOMAIN headers
      BY <1>3 DEF here
    <2> HIDE DEF kind
    <2> QED BY ONLY <1>1, <1>4, <1>10, <1>12, <1>16, <1>17, <1>21, <2>1, <2>2, <2>3,
                    SignaturesAreValues, IntactPasses DEF T
  <1>23. results[j].result = Verdict(headers, body, entry, headers[seen[j].at], seen[j].now, seen[j].answer)
    BY <1>1 DEF IInv, NoCrossTalk
  <1> QED BY <1>22, <1>23 DEF here, clock, answer

(* A message signed here verifies here, for every draft, options, relays,  *)
(* zones and clock (sign.go:110): what Sign wrote, standing as written on  *)
(* the wire above its copies, with the fields and the body it covers as    *)
(* they were, passes while its key is published and it is not out of date, *)
(* provided that no name signed ends the tag it is listed in and that the  *)
(* draft does not begin with a line that continues nothing.                *)
THEOREM IntactPassesHere ==
    ASSUME SignaturesAreValues, SentinelsApart, NamesFitTheList, BlocksBegin
    PROVE  MailSpec => []IntactVerifies
  <1>1. MailInit => MailInv /\ IntactInv
    BY DraftsStart, DraftsWhole
  <1>2. MailInv /\ IntactInv /\ [MailNext]_mailVars => MailInv' /\ IntactInv'
    BY MailStep, IntactStep
  <1>3. MailInv /\ IntactInv => IntactVerifies
    BY IntactHolds
  <1> QED BY <1>1, <1>2, <1>3, PTL DEF MailSpec
===============================================================================

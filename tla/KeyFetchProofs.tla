---------------------------- MODULE KeyFetchProofs ----------------------------
(***************************************************************************)
(* For every set of records, answers, key types and hash names: Fetch      *)
(* returns what its first usable record says, and implements the atomic    *)
(* lookup.  The inductive invariant is the loop invariant                  *)
(* SkippedAreUnusable with the types of the loop's variables, and what     *)
(* `out` is once the call returned.                                        *)
(***************************************************************************)
EXTENDS KeyFetch, SequenceFacts, TLAPS

(* What the loop has established about the returned triple.                *)
OutOK ==
    Returned => out = Fetch(answer, want.keyType, want.hashAlg)

LoopTypeOK ==
    /\ pc \in {"asking", "answered", "returned"}
    /\ pc # "asking" => answer \in Answers
    /\ i \in Nat \ {0}
    /\ pc = "asking" => i = 1

(* The loop invariant: the records before the cursor are unusable.         *)
SkippedAreUnusable ==
    pc # "asking" =>
        /\ i <= Len(answer.records) + 1
        /\ \A j \in 1 .. (i - 1) :
              ~Usable(answer.records[j], want.keyType, want.hashAlg)

IInv == LoopTypeOK /\ SkippedAreUnusable /\ OutOK

-------------------------------------------------------------------------------
(* At most one position is the first usable one, so the CHOOSE of Fetch    *)
(* has one candidate.                                                      *)
LEMMA FirstUsableUnique ==
    ASSUME NEW records \in Seq(Records), NEW keyType, NEW hashAlg,
           NEW p, NEW q,
           IsFirstUsable(p, records, keyType, hashAlg),
           IsFirstUsable(q, records, keyType, hashAlg)
    PROVE  p = q
  <1>1. p \in 1 .. Len(records) /\ q \in 1 .. Len(records)
    BY DEF IsFirstUsable
  <1>2. ~(p < q)
    BY <1>1 DEF IsFirstUsable
  <1>3. ~(q < p)
    BY <1>1 DEF IsFirstUsable
  <1> QED BY <1>1, <1>2, <1>3

(* The value of Fetch on an answer whose first usable record is known.     *)
LEMMA FetchFound ==
    ASSUME NEW a \in Answers, a.err = "none", NEW keyType, NEW hashAlg,
           NEW p, IsFirstUsable(p, a.records, keyType, hashAlg)
    PROVE  Fetch(a, keyType, hashAlg) = Found(a.records[p], keyType)
  <1> DEFINE First(q) == IsFirstUsable(q, a.records, keyType, hashAlg)
             chosen   == CHOOSE q \in DOMAIN a.records : First(q)
  <1>1. a.records \in Seq(Records)
    BY AnswerShape
  <1>2. p \in DOMAIN a.records /\ First(p)
    BY DEF IsFirstUsable
  <1>3. First(chosen)
    BY <1>2
  <1>4. chosen = p
    <2> HIDE DEF chosen
    <2> QED BY <1>1, <1>2, <1>3, FirstUsableUnique
  <1> QED BY <1>2, <1>4 DEF Fetch

(* An answer without a usable record.                                      *)
LEMMA FetchNone ==
    ASSUME NEW a \in Answers, a.err = "none", NEW keyType, NEW hashAlg,
           \A j \in 1 .. Len(a.records) : ~Usable(a.records[j], keyType, hashAlg)
    PROVE  Fetch(a, keyType, hashAlg) = Failed("permerror")
  <1>1. DOMAIN a.records = 1 .. Len(a.records)
    BY AnswerShape
  <1> QED BY <1>1 DEF Fetch, IsFirstUsable

-------------------------------------------------------------------------------
LEMMA InitIInv == Init => IInv
  BY DEF Init, IInv, LoopTypeOK, SkippedAreUnusable, OutOK, Returned

LEMMA NextIInv == IInv /\ [Next]_vars => IInv'
  <1> SUFFICES ASSUME IInv, [Next]_vars PROVE IInv'
    OBVIOUS
  <1> USE DEF IInv
  <1>1. CASE Resolve
    <2>1. answer' \in Answers /\ i' = 1 /\ pc' = "answered"
      BY <1>1 DEF Resolve, LoopTypeOK
    <2>2. Len(answer'.records) \in Nat
      BY <2>1, AnswerShape
    <2> QED BY <2>1, <2>2 DEF LoopTypeOK, SkippedAreUnusable, OutOK, Returned
  <1>2. CASE ReturnError
    <2>1. out' = Fetch(answer, want.keyType, want.hashAlg)
      BY <1>2 DEF ReturnError, Return, Fetch
    <2> QED BY <1>2, <2>1
         DEF ReturnError, Return, LoopTypeOK, SkippedAreUnusable, OutOK, Returned
  <1>3. CASE SkipRecord
    <2>1. i \in Nat \ {0} /\ Len(answer.records) \in Nat
      BY <1>3, AnswerShape DEF SkipRecord, Looping, LoopTypeOK
    <2>2. SkippedAreUnusable'
      BY <1>3, <2>1 DEF SkipRecord, Looping, SkippedAreUnusable
    <2> QED BY <1>3, <2>1, <2>2 DEF SkipRecord, Looping, LoopTypeOK, OutOK, Returned
  <1>4. CASE TakeRecord
    <2>1. answer \in Answers /\ i \in Nat \ {0}
      BY <1>4 DEF TakeRecord, Looping, LoopTypeOK
    <2>2. IsFirstUsable(i, answer.records, want.keyType, want.hashAlg)
      <3>1. i \in DOMAIN answer.records
        BY <1>4, <2>1, AnswerShape DEF TakeRecord, Looping
      <3> QED BY <1>4, <3>1 DEF TakeRecord, Looping, IsFirstUsable, SkippedAreUnusable
    <2>3. out' = Fetch(answer, want.keyType, want.hashAlg)
      BY <1>4, <2>1, <2>2, FetchFound DEF TakeRecord, Looping, Return
    <2> QED BY <1>4, <2>3
         DEF TakeRecord, Looping, Return, LoopTypeOK, SkippedAreUnusable, OutOK, Returned
  <1>5. CASE ReturnNone
    <2>1. answer \in Answers /\ i \in Nat \ {0}
      BY <1>5 DEF ReturnNone, LoopTypeOK
    <2>2. Len(answer.records) \in Nat
      BY <2>1, AnswerShape
    <2>3. \A j \in 1 .. Len(answer.records) :
             ~Usable(answer.records[j], want.keyType, want.hashAlg)
      BY <1>5, <2>1, <2>2 DEF ReturnNone, SkippedAreUnusable
    <2>4. out' = Fetch(answer, want.keyType, want.hashAlg)
      BY <1>5, <2>1, <2>3, FetchNone DEF ReturnNone, Return
    <2> QED BY <1>5, <2>4
         DEF ReturnNone, Return, LoopTypeOK, SkippedAreUnusable, OutOK, Returned
  <1>6. CASE UNCHANGED vars
    BY <1>6 DEF vars, LoopTypeOK, SkippedAreUnusable, OutOK, Returned
  <1> QED BY <1>1, <1>2, <1>3, <1>4, <1>5, <1>6 DEF Next

(* Every reachable state satisfies the inductive invariant.                *)
THEOREM Invariance == Spec => []IInv
  BY InitIInv, NextIInv, PTL DEF Spec

LEMMA FetchResult ==
    ASSUME NEW a, NEW keyType, NEW hashAlg
    PROVE  Fetch(a, keyType, hashAlg).res \in {"", "permerror", "temperror"}
  <1>1. \A res : Failed(res).res = res
    BY DEF Failed
  <1>2. \A rec : Found(rec, keyType).res = ""
    BY DEF Found
  <1> QED BY <1>1, <1>2 DEF Fetch, ErrorResult

(* The variables keep their types: what is returned is a key, a permanent  *)
(* or a temporary error, for the arguments of the call.                    *)
THEOREM TypeCorrect == Spec => []TypeOK
  <1> DEFINE Arguments == want \in [keyType : KeyTypes, hashAlg : HashAlgs]
  <1>1. Init => Arguments
    BY DEF Init
  <1>2. Arguments /\ [Next]_vars => Arguments'
    BY DEF Next, vars, Resolve, ReturnError, SkipRecord, TakeRecord, ReturnNone, Return
  <1>3. IInv /\ Arguments => TypeOK
    <2> SUFFICES ASSUME IInv, Arguments PROVE TypeOK
      OBVIOUS
    <2>1. Returned => out.res \in {"", "permerror", "temperror"}
      <3>1. Returned => answer \in Answers /\ out = Fetch(answer, want.keyType, want.hashAlg)
        BY DEF IInv, LoopTypeOK, OutOK, Returned
      <3>2. want.keyType \in KeyTypes /\ want.hashAlg \in HashAlgs
        OBVIOUS
      <3> QED BY <3>1, <3>2, FetchResult
    <2> QED BY <2>1 DEF IInv, LoopTypeOK, TypeOK
  <1> QED BY <1>1, <1>2, <1>3, Invariance, PTL DEF Spec

-------------------------------------------------------------------------------
(* A usable record of key type t has a key of that type.                   *)
LEMMA UsableKey ==
    ASSUME NEW rec, NEW keyType, NEW hashAlg, Usable(rec, keyType, hashAlg)
    PROVE  parsePublicKey(keyType, rec.p) = [kind |-> keyType, id |-> rec.p.id]
  <1>1. parsePublicKey(keyType, rec.p) # NoKey
    BY DEF Usable
  <1> QED BY <1>1 DEF parsePublicKey

LEMMA FlagsFields ==
    ASSUME NEW rec
    PROVE  /\ FlagsOf(rec).noSubdomain = (Present(rec.t) /\ ListContains(rec.t, "s"))
           /\ FlagsOf(rec).notForEmail = ~keyRecordAllowsService(rec)
  BY DEF FlagsOf

(* Key and policy flags come from one record, the first usable one.        *)
THEOREM KeyAndFlags == Spec => []KeyAndFlagsOfFirstUsable
  <1>1. IInv => KeyAndFlagsOfFirstUsable
    <2> SUFFICES ASSUME IInv, Returned, out.res = ""
                 PROVE  KeyAndFlagsOfFirstUsable
      BY DEF KeyAndFlagsOfFirstUsable
    <2>1. answer \in Answers /\ out = Fetch(answer, want.keyType, want.hashAlg)
      BY DEF IInv, LoopTypeOK, OutOK, Returned
    <2>2. answer.err = "none"
      BY <2>1 DEF Fetch, ErrorResult, Failed
    <2>3. PICK r \in DOMAIN answer.records :
             IsFirstUsable(r, answer.records, want.keyType, want.hashAlg)
      BY <2>1, <2>2 DEF Fetch, Failed
    <2>4. out = Found(answer.records[r], want.keyType)
      BY <2>1, <2>2, <2>3, FetchFound
    <2>5. out.key = [kind |-> want.keyType, id |-> answer.records[r].p.id]
      BY <2>3, <2>4, UsableKey DEF Found, IsFirstUsable
    <2>6. out.flags = FlagsOf(answer.records[r])
      BY <2>4 DEF Found
    <2>7. out.flags.noSubdomain <=>
             answer.records[r].t # Absent /\ "s" \in answer.records[r].t
      BY <2>6, FlagsFields DEF ListContains, Present
    <2>8. out.flags.notForEmail <=>
             /\ answer.records[r].s # Absent
             /\ "email" \notin answer.records[r].s
             /\ "*" \notin answer.records[r].s
      BY <2>6, FlagsFields DEF keyRecordAllowsService, ListContains, Present
    <2> QED BY <2>3, <2>5, <2>7, <2>8 DEF KeyAndFlagsOfFirstUsable
  <1> QED BY <1>1, Invariance, PTL

(* The comments of Fetch and its code refuse the same records.             *)
LEMMA IgnorableIsUnusable ==
    ASSUME NEW rec \in Records, want.keyType \in {"rsa", "ed25519"}
    PROVE  Ignorable(rec) <=> ~Usable(rec, want.keyType, want.hashAlg)
  <1> DEFINE kt == want.keyType
  <1>1. VersionOK(rec) <=> /\ rec.v \in {Absent, "DKIM1"}
                           /\ ~(rec.v = "DKIM1" /\ ~rec.vfirst)
    BY AbsentIsNoWord DEF VersionOK, Present
  <1>2. keyRecordAllowsHash(rec, want.hashAlg) <=> ~(rec.h # Absent /\ want.hashAlg \notin rec.h)
    BY DEF keyRecordAllowsHash, Present, ListContains
  <1>3. CASE rec.p \in {Absent, Empty, Junk}
    BY <1>3 DEF Ignorable, Usable, NonEmpty
  <1>4. CASE rec.p \notin {Absent, Empty, Junk}
    <2>1. rec.p.bits \in Nat /\ MinRSABits \in Nat
      BY <1>4, RecordShape, KeySizes
    <2>2. CASE kt = "rsa"
      <3>1. KeyType(rec) = kt <=> rec.k \in {Absent, "rsa"}
        BY <2>2 DEF KeyType, Present
      <3>2. parsePublicKey(kt, rec.p) # NoKey
              <=> ~(rec.p.kind # "rsa" \/ rec.p.bits < MinRSABits)
        BY <2>1, <2>2 DEF parsePublicKey, NoKey
      <3> QED BY <1>1, <1>2, <1>4, <2>2, <3>1, <3>2 DEF Ignorable, Usable, NonEmpty
    <2>3. CASE kt = "ed25519"
      <3>1. KeyType(rec) = kt <=> rec.k = "ed25519"
        BY <2>3, AbsentIsNoWord DEF KeyType, Present
      <3>2. parsePublicKey(kt, rec.p) # NoKey
              <=> ~(rec.p.kind # "raw" \/ rec.p.bits # Ed25519Bits)
        BY <2>3 DEF parsePublicKey, NoKey
      <3> QED BY <1>1, <1>2, <1>4, <2>3, <3>1, <3>2 DEF Ignorable, Usable, NonEmpty
    <2> QED BY <2>2, <2>3
  <1> QED BY <1>3, <1>4

(* Without a first usable record there is none.                            *)
LEMMA NoFirstUsable ==
    ASSUME NEW records \in Seq(Records), NEW keyType, NEW hashAlg,
           \A p \in DOMAIN records : ~IsFirstUsable(p, records, keyType, hashAlg)
    PROVE  \A j \in 1 .. Len(records) : ~Usable(records[j], keyType, hashAlg)
  <1> DEFINE B == { j \in 1 .. Len(records) : Usable(records[j], keyType, hashAlg) }
  <1>1. SUFFICES ASSUME B # {} PROVE FALSE
    OBVIOUS
  <1>2. B \in SUBSET Nat
    OBVIOUS
  <1>3. PICK b \in B : \A m \in B : b <= m
    BY <1>1, <1>2, LeastElement
  <1>4. IsFirstUsable(b, records, keyType, hashAlg)
    <2>1. b \in 1 .. Len(records) /\ Usable(records[b], keyType, hashAlg)
      OBVIOUS
    <2>2. ASSUME NEW j \in 1 .. (b - 1) PROVE ~Usable(records[j], keyType, hashAlg)
      <3>1. j \in 1 .. Len(records) /\ ~(b <= j)
        BY <2>1
      <3> QED BY <1>3, <3>1
    <2> QED BY <2>1, <2>2 DEF IsFirstUsable
  <1> QED BY <1>4

(* What is kept of an answer, from its first usable record on.             *)
LEMMA KeptFirst ==
    ASSUME NEW records \in Seq(Records), want.keyType \in {"rsa", "ed25519"}
    PROVE  /\ \A p : IsFirstUsable(p, records, want.keyType, want.hashAlg)
                        => Kept(records) # <<>> /\ Kept(records)[1] = records[p]
           /\ (\A j \in 1 .. Len(records) : ~Usable(records[j], want.keyType, want.hashAlg))
                 => Kept(records) = <<>>
  <1> DEFINE n       == Len(records)
             part(r) == IF Ignorable(records[r]) THEN <<>> ELSE <<records[r]>>
             parts   == [r \in 1 .. n |-> part(r)]
  <1>1. n \in Nat /\ DOMAIN records = 1 .. n /\ \A r \in 1 .. n : records[r] \in Records
    OBVIOUS
  <1>2. Kept(records) = FlattenSeq(parts)
    BY <1>1 DEF Kept
  <1>3. \A r \in 1 .. n : Ignorable(records[r])
                             <=> ~Usable(records[r], want.keyType, want.hashAlg)
    BY <1>1, IgnorableIsUnusable
  <1>4. parts \in [1 .. n -> Seq(Records)]
    BY <1>1
  <1>5. ASSUME NEW p, IsFirstUsable(p, records, want.keyType, want.hashAlg)
        PROVE  Kept(records) # <<>> /\ Kept(records)[1] = records[p]
    <2>1. p \in 1 .. n /\ part(p) = <<records[p]>>
      BY <1>1, <1>3, <1>5 DEF IsFirstUsable
    <2>2. \A r \in 1 .. (p - 1) : part(r) = <<>>
      <3>1. ASSUME NEW r \in 1 .. (p - 1) PROVE r \in 1 .. n /\ Ignorable(records[r])
        BY <1>1, <1>3, <1>5, <2>1 DEF IsFirstUsable
      <3> QED BY <3>1
    <2> HIDE DEF part
    <2>3. parts[p] = <<records[p]>> /\ \A r \in 1 .. (p - 1) : parts[r] = <<>>
      BY <1>1, <2>1, <2>2
    <2> HIDE DEF parts
    <2>4. parts[p] # <<>> /\ parts[p][1] = records[p]
      BY <2>3
    <2>5. FlattenSeq(parts) # <<>> /\ FlattenSeq(parts)[1] = parts[p][1]
      BY <1>1, <1>4, <2>1, <2>3, <2>4, FlattenFirst
    <2> QED BY <1>2, <2>4, <2>5
  <1>6. ASSUME \A j \in 1 .. n : ~Usable(records[j], want.keyType, want.hashAlg)
        PROVE  Kept(records) = <<>>
    <2>1. parts = [r \in 1 .. n |-> <<>>]
      BY <1>3, <1>6
    <2> HIDE DEF parts
    <2> QED BY <1>1, <1>2, <2>1, FlattenNothing
  <1> QED BY <1>5, <1>6

LEMMA KeyId ==
    ASSUME NEW key, NEW kind, NEW id, key = [kind |-> kind, id |-> id]
    PROVE  key.id = id
  OBVIOUS

(* A record a signature cannot use is as good as not published: the        *)
(* outcome is that of the answer without it (keyrecord.go:64-111).         *)
THEOREM UnusableInvisible == Spec => []UnusableRecordsInvisible
  <1> DEFINE Arguments == want \in [keyType : KeyTypes, hashAlg : HashAlgs]
  <1>1. Init => Arguments
    BY DEF Init
  <1>2. Arguments /\ [Next]_vars => Arguments'
    BY DEF Next, vars, Resolve, ReturnError, SkipRecord, TakeRecord, ReturnNone, Return
  <1>3. IInv /\ Arguments => UnusableRecordsInvisible
    <2> SUFFICES ASSUME IInv, Arguments, Returned, answer.err = "none"
                 PROVE  IF Kept(answer.records) = <<>> THEN out = Failed("permerror")
                        ELSE /\ out.res = ""
                             /\ out.key.id = Kept(answer.records)[1].p.id
      BY DEF UnusableRecordsInvisible
    <2>1. answer \in Answers /\ out = Fetch(answer, want.keyType, want.hashAlg)
      BY DEF IInv, LoopTypeOK, OutOK, Returned
    <2>2. answer.records \in Seq(Records) /\ want.keyType \in {"rsa", "ed25519"}
      BY <2>1, AnswerShape, KeyTypeShape
    <2>3. CASE \E p \in DOMAIN answer.records :
                  IsFirstUsable(p, answer.records, want.keyType, want.hashAlg)
      <3>1. PICK p : IsFirstUsable(p, answer.records, want.keyType, want.hashAlg)
        BY <2>3
      <3>2. out = Found(answer.records[p], want.keyType)
        BY <2>1, <3>1, FetchFound
      <3>3. parsePublicKey(want.keyType, answer.records[p].p)
              = [kind |-> want.keyType, id |-> answer.records[p].p.id]
        BY <3>1, UsableKey DEF IsFirstUsable
      <3>4. out.res = "" /\ out.key.id = answer.records[p].p.id
        <4>1. out.key = parsePublicKey(want.keyType, answer.records[p].p) /\ out.res = ""
          BY <3>2 DEF Found
        <4>2. out.key = [kind |-> want.keyType, id |-> answer.records[p].p.id]
          BY <3>3, <4>1
        <4>3. out.key.id = answer.records[p].p.id
          BY <4>2, KeyId
        <4> QED BY <4>1, <4>3
      <3> QED BY <2>2, <3>1, <3>4, KeptFirst
    <2>4. CASE \A p \in DOMAIN answer.records :
                  ~IsFirstUsable(p, answer.records, want.keyType, want.hashAlg)
      <3>1. out = Failed("permerror")
        BY <2>1, <2>4 DEF Fetch
      <3>2. \A j \in 1 .. Len(answer.records) :
               ~Usable(answer.records[j], want.keyType, want.hashAlg)
        BY <2>2, <2>4, NoFirstUsable
      <3> QED BY <2>2, <3>1, <3>2, KeptFirst
    <2> QED BY <2>3, <2>4
  <1> QED BY <1>1, <1>2, <1>3, Invariance, PTL DEF Spec

(* Both modules read Fetch from KeyRecord; here its two copies are one.    *)
LEMMA SameFetch ==
    ASSUME NEW a, NEW keyType, NEW hashAlg
    PROVE  Fetch(a, keyType, hashAlg) = Lookup!Fetch(a, keyType, hashAlg)
  BY DEF Fetch, Lookup!Fetch, ErrorResult, Lookup!ErrorResult, Failed, Lookup!Failed,
         Found, Lookup!Found, IsFirstUsable, Lookup!IsFirstUsable, Usable, Lookup!Usable,
         VersionOK, Lookup!VersionOK, KeyType, Lookup!KeyType,
         keyRecordAllowsHash, Lookup!keyRecordAllowsHash,
         keyRecordAllowsService, Lookup!keyRecordAllowsService,
         FlagsOf, Lookup!FlagsOf, parsePublicKey, Lookup!parsePublicKey,
         NoKey, Lookup!NoKey, NoFlags, Lookup!NoFlags, Present, Lookup!Present,
         NonEmpty, Lookup!NonEmpty, ListContains, Lookup!ListContains

(* The loop implements the atomic lookup: a skipped record is a stutter,   *)
(* and every return decides as the whole answer does.                      *)
THEOREM Implements == Spec => ImplementsLookup
  <1> USE DEF Lookup!lookupVars, vars
  <1>1. Init => Lookup!LookupInit
    BY DEF Init, Lookup!LookupInit
  <1>2. IInv /\ IInv' /\ [Next]_vars => [Lookup!LookupNext]_Lookup!lookupVars
    <2> SUFFICES ASSUME IInv, IInv', [Next]_vars
                 PROVE  [Lookup!LookupNext]_Lookup!lookupVars
      OBVIOUS
    <2> USE DEF Lookup!LookupNext
    <2>1. CASE Resolve
      BY <2>1 DEF Resolve, Lookup!Answered
    <2>2. CASE SkipRecord
      BY <2>2 DEF SkipRecord
    <2>3. CASE ReturnError \/ TakeRecord \/ ReturnNone
      <3>1. pc = "answered" /\ pc' = "returned" /\ UNCHANGED <<want, answer>>
        BY <2>3 DEF ReturnError, TakeRecord, ReturnNone, Looping, Return
      <3>2. out' = Fetch(answer, want.keyType, want.hashAlg)
        BY <3>1 DEF IInv, OutOK, Returned
      <3>3. out' = Lookup!Fetch(answer, want.keyType, want.hashAlg)
        BY <3>2, SameFetch
      <3> QED BY <3>1, <3>3 DEF Lookup!Decided
    <2>4. CASE UNCHANGED vars
      BY <2>4
    <2> QED BY <2>1, <2>2, <2>3, <2>4 DEF Next
  <1> QED BY <1>1, <1>2, Invariance, PTL DEF Spec, ImplementsLookup, Lookup!LookupSpec
===============================================================================

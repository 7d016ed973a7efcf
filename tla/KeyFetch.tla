------------------------------- MODULE KeyFetch -------------------------------
(***************************************************************************)
(* keyrecord.Fetch, the loop over a resolver's answer: one step for the    *)
(* lookup, one per record inspected, one for the return that found none.   *)
(***************************************************************************)
EXTENDS KeyRecord, SequencesExt

CONSTANTS Records,     \* the TXT records that may be published
          Answers,     \* what the resolver may answer
          KeyTypes,    \* the key types a= can name
          HashAlgs     \* the hash names a caller can ask for

ASSUME AnswerShape ==
    Answers \subseteq [ err : {"none", "notfound", "temporary"}, records : Seq(Records) ]

(* Key bytes have a length; the key type is rsa or ed25519                 *)
(* (verify.go:323-331).                                                    *)
ASSUME RecordShape ==
    \A rec \in Records : rec.p \notin {Absent, Empty, Junk} => rec.p.bits \in Nat

ASSUME KeyTypeShape == KeyTypes \subseteq {"rsa", "ed25519"}

VARIABLES want,        \* the arguments [keyType, hashAlg] of the call
          pc,          \* "asking", "answered" (in the loop) or "returned"
          answer,      \* the resolver's answer
          out,         \* the returned triple
          i            \* the record the loop inspects next

vars == <<want, pc, answer, out, i>>

Init ==
    /\ want \in [keyType : KeyTypes, hashAlg : HashAlgs]
    /\ pc = "asking"
    /\ answer = Absent
    /\ out = Absent
    /\ i = 1

(* The resolver returns.                                                   *)
Resolve ==
    /\ pc = "asking"
    /\ answer' \in Answers
    /\ pc' = "answered"
    /\ UNCHANGED <<want, out, i>>

Return(triple) ==
    /\ out' = triple
    /\ pc' = "returned"
    /\ UNCHANGED <<want, answer, i>>

(* A resolver error is acted on before the loop.                           *)
ReturnError ==
    /\ pc = "answered"
    /\ answer.err # "none"
    /\ Return(ErrorResult(answer.err))

Looping ==
    /\ pc = "answered"
    /\ answer.err = "none"
    /\ i <= Len(answer.records)

(* Mutant: the cursor stays.                                               *)
SkipRecord_stays ==
    /\ Looping
    /\ ~Usable(answer.records[i], want.keyType, want.hashAlg)
    /\ UNCHANGED vars

(* One of the `continue`s.                                                 *)
SkipRecord ==
    /\ Looping
    /\ ~Usable(answer.records[i], want.keyType, want.hashAlg)
    /\ i' = i + 1
    /\ UNCHANGED <<want, pc, answer, out>>

(* Mutant: the flags are the first record's, the key this one's.           *)
TakeRecord_firstFlags ==
    /\ Looping
    /\ Usable(answer.records[i], want.keyType, want.hashAlg)
    /\ Return([Found(answer.records[i], want.keyType)
                 EXCEPT !.flags = FlagsOf(answer.records[1])])

(* The record passed every check: its key and its flags are returned.      *)
TakeRecord ==
    /\ Looping
    /\ Usable(answer.records[i], want.keyType, want.hashAlg)
    /\ Return(Found(answer.records[i], want.keyType))

(* Mutant: no usable record is taken for a transient failure.              *)
ReturnNone_temporary ==
    /\ pc = "answered"
    /\ answer.err = "none"
    /\ i > Len(answer.records)
    /\ Return(Failed("temperror"))

(* The loop ran out of records.                                            *)
ReturnNone ==
    /\ pc = "answered"
    /\ answer.err = "none"
    /\ i > Len(answer.records)
    /\ Return(Failed("permerror"))

Next == Resolve \/ ReturnError \/ SkipRecord \/ TakeRecord \/ ReturnNone

Spec == Init /\ [][Next]_vars

(* The resolver returns (its context carries the deadline), and the loop   *)
(* is sequential code.                                                     *)
FairSpec == Spec /\ WF_vars(Next)
-------------------------------------------------------------------------------
(* PROPERTIES *)

Returned == pc = "returned"

(* The values the variables may take.                                      *)
TypeOK ==
    /\ want \in [keyType : KeyTypes, hashAlg : HashAlgs]
    /\ pc \in {"asking", "answered", "returned"}
    /\ pc # "asking" => answer \in Answers
    /\ Returned => out.res \in {"", "permerror", "temperror"}
    /\ i \in Nat \ {0}

(* The key and the policy flags returned are those of one and the same     *)
(* record, the first usable one: a flag of a skipped record never attaches *)
(* to the key of another (keyrecord.go:112-121).                           *)
KeyAndFlagsOfFirstUsable ==
    Returned /\ out.res = "" =>
        \E r \in DOMAIN answer.records :
            LET rec == answer.records[r] IN
            /\ IsFirstUsable(r, answer.records, want.keyType, want.hashAlg)
            /\ out.key = [kind |-> want.keyType, id |-> rec.p.id]
            /\ out.flags.noSubdomain <=> rec.t # Absent /\ "s" \in rec.t
            /\ out.flags.notForEmail
                 <=> rec.s # Absent /\ "email" \notin rec.s /\ "*" \notin rec.s

(* A record a signature cannot use "MUST be treated as though it does not  *)
(* exist" (keyrecord.go:70): the outcome is the one of the same answer     *)
(* without its duplicated, foreign, revoked, malformed and short-keyed     *)
(* records.  Ignorable spells out the comments of Fetch clause by clause.  *)
Ignorable(rec) ==
    \/ ~rec.strict
    \/ rec.v \notin {Absent, "DKIM1"}
    \/ rec.v = "DKIM1" /\ ~rec.vfirst
    \/ rec.h # Absent /\ want.hashAlg \notin rec.h
    \/ rec.p \in {Absent, Empty, Junk}
    \/ want.keyType = "rsa"     /\ rec.k \notin {Absent, "rsa"}
    \/ want.keyType = "ed25519" /\ rec.k # "ed25519"
    \/ want.keyType = "rsa"     /\ (rec.p.kind # "rsa" \/ rec.p.bits < MinRSABits)
    \/ want.keyType = "ed25519" /\ (rec.p.kind # "raw" \/ rec.p.bits # Ed25519Bits)

Kept(records) ==
    FlattenSeq([r \in DOMAIN records |->
                    IF Ignorable(records[r]) THEN <<>> ELSE <<records[r]>>])

UnusableRecordsInvisible ==
    Returned /\ answer.err = "none" =>
        LET kept == Kept(answer.records)
        IN  IF kept = <<>> THEN out = Failed("permerror")
            ELSE out.res = "" /\ out.key.id = kept[1].p.id

(* Fetch implements the atomic lookup.                                     *)
Lookup == INSTANCE KeyLookup
ImplementsLookup == Lookup!LookupSpec

(* Once the resolver answers, the call returns.                            *)
AnsweredReturns == pc = "answered" ~> Returned
===============================================================================

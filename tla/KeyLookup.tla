------------------------------ MODULE KeyLookup ------------------------------
(***************************************************************************)
(* What a key lookup promises: the resolver answers once, and the outcome  *)
(* is the one that answer determines.  KeyFetch refines it.                *)
(***************************************************************************)
EXTENDS KeyRecord

CONSTANTS Records,     \* the TXT records that may be published
          Answers,     \* what the resolver may answer
          KeyTypes,    \* the key types a= can name
          HashAlgs     \* the hash names a caller can ask for

VARIABLES want,        \* the arguments [keyType, hashAlg] of the call
          pc,          \* "asking", "answered" or "returned"
          answer,      \* the resolver's answer
          out          \* the returned triple

lookupVars == <<want, pc, answer, out>>

LookupInit ==
    /\ want \in [keyType : KeyTypes, hashAlg : HashAlgs]
    /\ pc = "asking"
    /\ answer = Absent
    /\ out = Absent

Answered ==
    /\ pc = "asking"
    /\ answer' \in Answers
    /\ pc' = "answered"
    /\ UNCHANGED <<want, out>>

Decided ==
    /\ pc = "answered"
    /\ out' = Fetch(answer, want.keyType, want.hashAlg)
    /\ pc' = "returned"
    /\ UNCHANGED <<want, answer>>

LookupNext == Answered \/ Decided

LookupSpec == LookupInit /\ [][LookupNext]_lookupVars
=============================================================================

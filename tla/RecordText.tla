----------------------------- MODULE RecordText -----------------------------
(***************************************************************************)
(* Where tag lists come from and what becomes of their base64.  A key      *)
(* record is cut into strings a DNS TXT record can hold by RecordFragment, *)
(* joined again by the resolver, and parsed; a signature's list comes with *)
(* its header field.  p=, b= and bh= are decoded by DecodeTag.             *)
(***************************************************************************)
EXTENDS TagList, TagCodec

CONSTANTS MaxLen,        \* 255, the length of a TXT string
          Records        \* the record values published

ASSUME MaxLenAssumption == MaxLen \in Nat \ {0}

ASSUME RecordsAreSequences == \A s \in Records : s \in Seq(ToSet(s))

VARIABLES value,         \* the record published, or the signature's list
          chunks,        \* the strings of the fragment
          at             \* i of RecordFragment

recordVars == <<vars, value, chunks, at>>

RecordInit ==
    /\ chunks = <<>> /\ at = 0
    /\ i = 1 /\ tags = <<>> /\ out = <<>>
    /\ \/ value \in Records /\ text = <<>> /\ pc = "fragment"
       \/ value \in Texts /\ text = value /\ pc = "strict"

(* Mutant: the last string ends one short of the value.                    *)
WriteChunk_off ==
    /\ pc = "fragment" /\ at < Len(value)
    /\ LET end == Min({at + MaxLen, Len(value) - 1})
       IN  chunks' = Append(chunks, SubSeq(value, at + 1, end))
    /\ at' = at + MaxLen
    /\ UNCHANGED <<vars, value>>

WriteChunk ==
    /\ pc = "fragment" /\ at < Len(value)
    /\ LET end == Min({at + MaxLen, Len(value)})
       IN  chunks' = Append(chunks, SubSeq(value, at + 1, end))
    /\ at' = at + MaxLen
    /\ UNCHANGED <<vars, value>>

WriteFragment ==
    /\ pc = "fragment" /\ at >= Len(value)
    /\ chunks' = IF chunks = <<>> THEN << <<>> >> ELSE chunks
    /\ pc' = "published"
    /\ UNCHANGED <<text, i, tags, out, value, at>>

(* The resolver joins the strings of a TXT record.                         *)
Resolve ==
    /\ pc = "published"
    /\ text' = FlattenSeq(chunks)
    /\ pc' = "strict"
    /\ UNCHANGED <<i, tags, out, value, chunks, at>>

RecordNext == \/ WriteChunk \/ WriteFragment \/ Resolve
              \/ Next /\ UNCHANGED <<value, chunks, at>>

RecordSpec == RecordInit /\ [][RecordNext]_recordVars
-----------------------------------------------------------------------------
(* PROPERTIES *)

(* The strings of a published record are what a TXT record can hold, as    *)
(* few as that takes, none of them empty but the one of an empty value,    *)
(* and what the resolver hands the verifier is the record (dkim.go:79-93). *)
ChunksCarryTheRecord ==
    /\ \A k \in DOMAIN chunks : /\ Len(chunks[k]) <= MaxLen
                                /\ chunks[k] = <<>> => value = <<>>
    /\ pc = "published" => /\ FlattenSeq(chunks) = value
                           /\ Len(chunks) * MaxLen < Len(value) + MaxLen + (IF value = <<>> THEN 1 ELSE 0)
    /\ pc \notin {"fragment", "published"} => text = value

(* A value decodes to the octets of its base64 characters wherever it is   *)
(* folded and however much padding it has behind them, and is refused only *)
(* for a character that is no base64, padding within, or a character too   *)
(* many: the two attempts never differ on what both take (codec.go:20-41). *)
PaddingAndFoldsIgnored ==
    Accepted => \A name \in DOMAIN tags :
        LET solid == StripWSP(tags[name])
            pad   == IndexFrom(solid, 1, "=")
            run   == SubSeq(solid, 1, pad - 1)
        IN  DecodeTag(tags[name]) =
              IF /\ \A p \in pad .. Len(solid) : solid[p] = "="
                 /\ ToSet(run) \subseteq DOMAIN Sextet /\ Len(run) % 4 # 1
              THEN [ok |-> TRUE, octets |-> Octets(run)] ELSE Refused
=============================================================================

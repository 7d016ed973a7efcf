------------------------------ MODULE TagValues ------------------------------
(***************************************************************************)
(* The values a tag of a tag=value list can have, as the verifier tells    *)
(* them apart.  A Go map lookup tags[k] yields "" both for an absent tag   *)
(* and for an empty one, while `v, ok := tags[k]` distinguishes the two;   *)
(* the code uses both forms, so both values exist here.                    *)
(*                                                                         *)
(*   Absent   the tag is not in the list                                   *)
(*   Empty    the tag is there with an empty value                         *)
(*   Junk     the tag has a value its own grammar refuses (bad base64,     *)
(*            not a number, no "@", an unknown name ...)                   *)
(*                                                                         *)
(* Any other value is a proper one: a string, a number, a DNS name (a      *)
(* sequence of labels), a set of list members, a key, a signature.         *)
(***************************************************************************)
EXTENDS Naturals, Sequences, FiniteSets

CONSTANTS Absent, Empty, Junk

ASSUME SentinelsDiffer == Absent # Empty /\ Absent # Junk /\ Empty # Junk

Present(value)  == value # Absent
NonEmpty(value) == value \notin {Absent, Empty}

(* ListContains: a colon-separated tag value is the set of its members, so *)
(* an empty value is the empty set and contains nothing.                   *)
ListContains(list, want) == want \in list
=============================================================================

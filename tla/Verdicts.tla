------------------------------ MODULE Verdicts ------------------------------
(***************************************************************************)
(* What verifying a message promises: one result for every signature       *)
(* field, in header order, each a result its own field may be given, and   *)
(* nothing of another signature or of the order of the world's events in   *)
(* it.  Verify refines it.                                                 *)
(***************************************************************************)
EXTENDS Naturals, Sequences, FiniteSets

(* The results a field of a message may be given by the function called.   *)
CONSTANTS Worth(_, _, _, _)

VARIABLES headers, body, entry,   \* the message and the function called
          results,                \* the results so far
          closed                  \* the results are the caller's

verdictVars == <<headers, body, entry, results, closed>>

SignaturesUpto(p) == { s \in 1 .. p : headers[s].name = "dkim-signature" }

VerdictInit == results = <<>> /\ ~closed

(* The first signature without a result gets its own.                      *)
Judge ==
    /\ ~closed /\ results' # results
    /\ \E p \in DOMAIN headers :
          /\ headers[p].name = "dkim-signature"
          /\ Cardinality(SignaturesUpto(p - 1)) = Len(results)
          /\ \E result \in Worth(headers, body, entry, headers[p]) :
                results' = Append(results, result)
    /\ UNCHANGED <<headers, body, entry, closed>>

Close ==
    /\ ~closed
    /\ Cardinality(SignaturesUpto(Len(headers))) = Len(results)
    /\ closed' = TRUE
    /\ UNCHANGED <<headers, body, entry, results>>

VerdictNext == Judge \/ Close

VerdictSpec == VerdictInit /\ [][VerdictNext]_verdictVars
=============================================================================

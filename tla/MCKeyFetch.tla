------------------------------ MODULE MCKeyFetch ------------------------------
(***************************************************************************)
(* Answers of up to MaxRecords records drawn from records that each differ *)
(* from a good one in one respect, so every `continue` and both flags are  *)
(* reached in every position.                                              *)
(***************************************************************************)
EXTENDS KeyFetch

CONSTANT MaxRecords

RSAKey(bits, id) == [kind |-> "rsa", bits |-> bits, id |-> id]
RawKey(bits, id) == [kind |-> "raw", bits |-> bits, id |-> id]

Good == [ strict |-> TRUE, v |-> "DKIM1", vfirst |-> TRUE, h |-> Absent,
          k |-> "rsa", p |-> RSAKey(1024, "A"), t |-> Absent, s |-> Absent ]

MCRecords ==
    { Good,
      [Good EXCEPT !.p = RSAKey(2048, "B"), !.k = Absent, !.v = Absent,
                   !.vfirst = FALSE, !.h = {"sha1", "sha256"}],
      [Good EXCEPT !.strict = FALSE],
      [Good EXCEPT !.v = "DKIM2"],
      [Good EXCEPT !.vfirst = FALSE],
      [Good EXCEPT !.h = {"sha1"}],
      [Good EXCEPT !.h = {}],
      [Good EXCEPT !.p = Empty],
      [Good EXCEPT !.p = Junk],
      [Good EXCEPT !.p = RSAKey(1023, "C")],
      [Good EXCEPT !.p = [kind |-> "other", bits |-> 2048, id |-> "D"]],
      [Good EXCEPT !.k = "ed25519", !.p = RawKey(256, "E")],
      [Good EXCEPT !.k = "ed25519", !.p = RawKey(248, "F")],
      [Good EXCEPT !.p = RSAKey(2048, "G"), !.t = {"y", "s"}, !.s = {"email", "tlsa"}],
      [Good EXCEPT !.p = RSAKey(2048, "H"), !.t = {"y"}, !.s = {"tlsa"}] }

MCAnswers ==
    [err : {"notfound", "temporary"}, records : {<<>>}]
      \cup [err : {"none"}, records : UNION { [1 .. n -> MCRecords] : n \in 0 .. MaxRecords }]
===============================================================================

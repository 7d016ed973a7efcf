------------------------------ MODULE MCVerify ------------------------------
(***************************************************************************)
(* Messages with two signature fields: the first a good signature edited   *)
(* in one respect (before it was signed, so the edit is all that is wrong  *)
(* with it, or after), the second a good one, or one of another key type.  *)
(* The zone changes at will.                                               *)
(***************************************************************************)
EXTENDS Verify

Dom     == <<"example", "org">>
UDom    == <<"u-label", "org">>
ADom    == <<"xn--label", "org">>
Sub     == <<"mail", "example", "org">>
Lookalike == <<"badexample", "org">>

MCLabels   == {"example", "xn--label", "org", "mail", "badexample", "s1", "s2"}
MCALabelOf == [u \in {"u-label"} |-> "xn--label"]

RSA(id)    == [kind |-> "rsa", id |-> id]
Ed(id)     == [kind |-> "ed25519", id |-> id]

From == [name |-> "from", text |-> << "alice" >>, ws |-> 1, tags |-> Absent]
TheBody == << [text |-> "hello", ws |-> 1], [text |-> "", ws |-> 1] >>

Plain == [ strict |-> TRUE, v |-> "1", a |-> "rsa-sha256", b |-> Empty,
           bh |-> CanonicalizeBody(TheBody, "relaxed"), c |-> <<"relaxed", "relaxed">>,
           d |-> Dom, s |-> << "s1" >>, h |-> << "from", "from" >>,
           i |-> Absent, l |-> Absent, q |-> Absent, t |-> Absent, x |-> Absent ]

Field(tags) == [name |-> "dkim-signature", text |-> <<>>, ws |-> 0, tags |-> tags]

(* Signed on top of these fields.                                          *)
SignedBy(key, tags, others) ==
    LET canon == HeaderCanon(tags)
        data  == BuildSignedHeaders(tags.h, others, Field(tags), canon)
    IN  Field([tags EXCEPT !.b = [by |-> key, over |-> data]])

(* What DKIM's own policy looks at, and what the mechanism looks at.       *)
PolicyEdits ==
    { Plain,
      [Plain EXCEPT !.strict = FALSE],
      [Plain EXCEPT !.v = "2"],
      [Plain EXCEPT !.v = Absent],
      [Plain EXCEPT !.h = << "to" >>],
      [Plain EXCEPT !.i = Dom],
      [Plain EXCEPT !.i = Sub],
      [Plain EXCEPT !.i = Lookalike],
      [Plain EXCEPT !.i = Junk],
      [Plain EXCEPT !.t = 1, !.x = 2],
      [Plain EXCEPT !.t = 2, !.x = 2],
      [Plain EXCEPT !.t = Junk],
      [Plain EXCEPT !.x = Junk] }

MechanismEdits ==
    { [Plain EXCEPT !.a = "rsa-sha1"],
      [Plain EXCEPT !.a = "ed25519-sha256"],
      [Plain EXCEPT !.bh = Junk],
      [Plain EXCEPT !.bh = << >>],
      [Plain EXCEPT !.c = Absent, !.bh = CanonicalizeBody(TheBody, "simple")],
      [Plain EXCEPT !.c = <<"relaxed">>, !.bh = CanonicalizeBody(TheBody, "simple")],
      [Plain EXCEPT !.c = <<"nofws", "simple">>],
      [Plain EXCEPT !.c = Empty],
      [Plain EXCEPT !.d = UDom],
      [Plain EXCEPT !.d = <<"no dns name">>],
      [Plain EXCEPT !.h = << "from", Empty, "to", "dkim-signature" >>],
      [Plain EXCEPT !.l = 0, !.bh = << >>],
      [Plain EXCEPT !.l = 0],
      [Plain EXCEPT !.l = 1],
      [Plain EXCEPT !.l = 2],
      [Plain EXCEPT !.l = Junk],
      [Plain EXCEPT !.q = {"dns/other"}],
      [Plain EXCEPT !.q = {"dns/other", "dns/txt"}] }

SubSecond == SignedBy(RSA("A"), [Plain EXCEPT !.i = Sub], <<From>>)
EdSecond  == SignedBy(Ed("E"), [Plain EXCEPT !.a = "ed25519-sha256", !.s = << "s2" >>,
                                  !.c = <<"simple">>,
                                  !.bh = CanonicalizeBody(TheBody, "simple")], <<From>>)

(* The first signature, made when the second stood in the message.         *)
First(tags) == SignedBy(RSA("A"), tags, <<From, EdSecond>>)

FirstFields ==
    { First(tags) : tags \in PolicyEdits \cup MechanismEdits }
      \cup { Field([Plain EXCEPT !.b = Junk]), Field([Plain EXCEPT !.b = Absent]),
             Field([Plain EXCEPT !.b = [by |-> RSA("A"), over |-> << >>]]),
             [First(Plain) EXCEPT !.tags.h = << "from" >>] }

MCRecordNames == { << << "s1" >>, Dom >>, << << "s2" >>, Dom >>, << << "s1" >>, ADom >> }

Rec == [ strict |-> TRUE, v |-> "DKIM1", vfirst |-> TRUE, h |-> Absent, k |-> Absent,
         p |-> [kind |-> "rsa", bits |-> 1024, id |-> "A"], t |-> Absent, s |-> Absent ]
EdRec == [Rec EXCEPT !.k = "ed25519", !.p = [kind |-> "raw", bits |-> 256, id |-> "E"]]

Holds(records) == [err |-> "none", records |-> records]

(* Whole, barred for mail or for subdomains, rotated, or gone.              *)
Whole      == << EdRec, Rec >>
Restricted == << [Rec EXCEPT !.s = {"tlsa"}], [Rec EXCEPT !.t = {"s"}],
                 [EdRec EXCEPT !.t = {"s"}] >>
SubBarred  == << [Rec EXCEPT !.t = {"s"}], Rec, [EdRec EXCEPT !.s = {"*"}] >>
Rotated    == << [Rec EXCEPT !.p.id = "B"], EdRec >>

MCZones == { [name \in MCRecordNames |-> Holds(records)] :
               records \in {Whole, Restricted, SubBarred, Rotated} }
             \cup { [name \in MCRecordNames |-> [err |-> "notfound", records |-> <<>>]] }

(* Every first field with a second one of the other key type, and the      *)
(* untouched one with a second that names a subdomain; without the policy, *)
(* and with tag lists parsed elsewhere, the ones where that makes a        *)
(* difference.                                                             *)
Bare   == { First(tags) : tags \in PolicyEdits }
Strict == { First(Plain), First([Plain EXCEPT !.strict = FALSE]) }

Pairs == (FirstFields \X {EdSecond}) \cup { <<First(Plain), SubSecond>> }

Message(pair) == <<pair[1], From, pair[2]>>

ASSUME MessagesAreWellFormed == \A pair \in Pairs : WellFormed(Message(pair), TheBody)

Init ==
    /\ \E pair \in Pairs, theEntry \in Entries :
          /\ theEntry = "VerifySignatureBare" => pair[1] \in Bare
          /\ theEntry = "VerifySignatureBareTags" => pair[1] \in Strict
          /\ Called(Message(pair), TheBody, theEntry)
    /\ zone \in Zones
    /\ now = 1

Spec == Init /\ [][Next]_vars /\ Progress
=============================================================================

--------------------------------- MODULE Mail ---------------------------------
(***************************************************************************)
(* A message on its way: signers sign it, relays handle it, and a receiver *)
(* verifies what arrives, while keys rotate and time passes.               *)
(*                                                                         *)
(* The wire form (lines, text) is what the signers and relays see; the     *)
(* receiver's headers and body are what SplitMessage makes of it.  Each    *)
(* use of Sign is remembered in signed, to say later what was signed.      *)
(***************************************************************************)
EXTENDS Verify, Signing

CONSTANTS Drafts,        \* wire forms before anybody signs: [lines, text]
          OptionSets,    \* the SignOptions in use
          TraceFields,   \* the fields a relay may add on top
          MaxHops        \* bound on signing and relaying

(* A field of another name than DKIM-Signature, as a mail user agent or a  *)
(* relay writes it.                                                        *)
PlainField(field) ==
    /\ field = [name |-> field.name, text |-> field.text, ws |-> field.ws, tags |-> Absent]
    /\ field.name # "dkim-signature"

(* Nobody has signed a draft, and a relay that signs uses Sign.            *)
ASSUME DraftShape ==
    /\ \A draft \in Drafts :
          /\ draft.lines \in Seq(ToSet(draft.lines))
          /\ \A p \in DOMAIN draft.lines :
                /\ draft.lines[p].kind \in {"field", "continuation", "other"}
                /\ draft.lines[p].kind = "field" =>
                      draft.lines[p] = [kind |-> "field", field |-> draft.lines[p].field]
                         /\ PlainField(draft.lines[p].field)
    /\ \A field \in TraceFields : PlainField(field)

ASSUME OptionShape ==
    \A opt \in OptionSets :
       /\ opt = [ domain |-> opt.domain, selector |-> opt.selector, key |-> opt.key,
                  headers |-> opt.headers, oversign |-> opt.oversign,
                  headerCanon |-> opt.headerCanon, bodyCanon |-> opt.bodyCanon,
                  time |-> opt.time, expiration |-> opt.expiration ]
       /\ opt.domain \in Seq(STRING) \cup {Empty}
       /\ opt.selector \in Seq(STRING) \cup {Empty}
       /\ opt.headers \in Seq(STRING) /\ opt.oversign \in Seq(STRING)
       /\ opt.time \in Int /\ opt.expiration \in Int

(* Where a signer's key is published, no record before it is taken for a   *)
(* signature of its kind, and it comes without flags.                      *)
ASSUME PublishedKeysServe ==
    \A opt \in OptionSets, theZone \in Zones, name \in RecordNames :
       /\ ~KeyError(opt.key)
       /\ opt.key.id \in { rec.p.id : rec \in ToSet(theZone[name].records) }
       => Fetch(theZone[name], opt.key.kind, "sha256")
            = [ key |-> [kind |-> opt.key.kind, id |-> opt.key.id],
                flags |-> NoFlags, res |-> "" ]

ASSUME ClockStarts == MaxTime >= 1

VARIABLES lines,         \* the header block on the wire, line by line
          text,          \* the body on the wire
          hops,          \* signers and relays passed so far
          signed         \* history: one record per signature made

wire     == <<lines, text, hops, signed>>
mailVars == <<wire, vars>>

MailInit ==
    /\ \E draft \in Drafts : lines = draft.lines /\ text = draft.text
    /\ hops = 0 /\ signed = {}
    /\ headers = <<>> /\ body = <<>> /\ entry = "VerifySignature"
    /\ pc = "transit" /\ at = 1 /\ call = NoCall
    /\ results = <<>> /\ seen = <<>>
    /\ zone \in Zones /\ now = 1

FieldLine(field) == [kind |-> "field", field |-> field]
IsField(p)       == p \in DOMAIN lines /\ lines[p].kind = "field"
Continues(p)     == p \in DOMAIN lines /\ lines[p].kind = "continuation"

Hop ==
    /\ pc = "transit" /\ hops < MaxHops
    /\ hops' = hops + 1
    /\ UNCHANGED vars

(* Sign, and the caller who prepends the field as its comment says.        *)
SignMessage ==
    /\ Hop
    /\ \E opt \in OptionSets :
          LET parsed == parseHeaders(lines)
              field  == Sign(parsed, text, opt)
          IN  /\ ~SignError(parsed, opt)
              /\ lines' = <<FieldLine(field)>> \o lines
              /\ signed' = signed \cup
                   {[field |-> field, headers |-> parsed, body |-> text]}
    /\ UNCHANGED text

(* What relays do: add a field on top, refold one, change the text of one, *)
(* drop one whole, send a signature twice; respace the body, add to it.    *)
AddField ==
    /\ Hop
    /\ \E field \in TraceFields : lines' = <<FieldLine(field)>> \o lines
    /\ UNCHANGED <<text, signed>>

Refold ==
    /\ Hop
    /\ \E p \in DOMAIN lines : IsField(p) /\ lines' = [lines EXCEPT ![p].field.ws = 7]
    /\ UNCHANGED <<text, signed>>

Reword ==
    /\ Hop
    /\ \E p \in DOMAIN lines :
          IsField(p) /\ lines' = [lines EXCEPT ![p].field.text = << "changed" >>]
    /\ UNCHANGED <<text, signed>>

DropField ==
    /\ Hop
    /\ \E p \in DOMAIN lines : \E q \in p .. Len(lines) :
          /\ IsField(p) /\ \A k \in (p + 1) .. q : Continues(k)
          /\ ~Continues(q + 1)
          /\ lines' = SubSeq(lines, 1, p - 1) \o SubSeq(lines, q + 1, Len(lines))
    /\ UNCHANGED <<text, signed>>

RepeatSignature ==
    /\ Hop
    /\ \E p \in DOMAIN lines :
          /\ IsField(p) /\ lines[p].field.name = "dkim-signature"
          /\ lines' = <<lines[p]>> \o lines
    /\ UNCHANGED <<text, signed>>

EditBody ==
    /\ Hop
    /\ \/ \E p \in DOMAIN text : text' = [text EXCEPT ![p].ws = 7]
       \/ \E added \in {"", "footer"} : text' = Append(text, [text |-> added, ws |-> 0])
    /\ UNCHANGED <<lines, signed>>

Relay == AddField \/ Refold \/ Reword \/ DropField \/ RepeatSignature \/ EditBody

(* The receiver calls Verify, which begins with SplitMessage.              *)
Deliver ==
    /\ pc = "transit"
    /\ headers' = parseHeaders(lines)
    /\ body' = text
    /\ pc' = "scan"
    /\ UNCHANGED <<wire, entry, world, at, call, results, seen>>

Receive == (VerifierStep \/ Answer) /\ UNCHANGED wire
World   == (Tick \/ Publish) /\ UNCHANGED wire

MailNext == SignMessage \/ Relay \/ Deliver \/ Receive \/ World

MailSpec == MailInit /\ [][MailNext]_mailVars
-------------------------------------------------------------------------------
(* PROPERTIES *)

(* What a reader of RFC 6376 5.4.2 takes a signature to cover, said without*)
(* the code's selection: listed m times, a name covers the m bottom-most   *)
(* of its instances among the other fields, and that there are fewer.      *)
Covered(name, listed, block, canon) ==
    LET all  == Instances(name, block)
        kept == IF Len(all) <= listed THEN all
                ELSE SubSeq(all, Len(all) - listed + 1, Len(all))
    IN  [j \in DOMAIN kept |-> CanonicalizeHeader(kept[j], canon)]

(* The other fields of a block and a body are, to that signature, the ones *)
(* it was made over.                                                       *)
SameContent(ev, others, theBody) ==
    LET tags == ev.field.tags IN
    /\ \A name \in ToSet(tags.h) :
          LET listed == Cardinality({ j \in DOMAIN tags.h : tags.h[j] = name })
          IN  Covered(name, listed, others, tags.c[1])
                = Covered(name, listed, ev.headers, tags.c[1])
    /\ CanonicalizeBody(theBody, tags.c[2]) = CanonicalizeBody(ev.body, tags.c[2])

SameField(ev, field) ==
    /\ field.tags = ev.field.tags
    /\ CanonicalizeHeader(field, ev.field.tags.c[1])
         = CanonicalizeHeader(ev.field, ev.field.tags.c[1])

(* A pass is the word of a signer: someone signed, under the domain in the *)
(* result, a message whose covered fields, count of oversigned fields and  *)
(* body are those of the message received, wherever relays added, changed, *)
(* dropped or repeated others (verify.go:25-29, sign.go:52-58).            *)
PassIsAuthentic ==
    \A j \in DOMAIN results : results[j].result = "pass" =>
        \E ev \in signed :
            /\ SameField(ev, headers[seen[j].at])
            /\ results[j].domain = ev.field.tags.d
            /\ SameContent(ev, RemoveAt(headers, seen[j].at), body)

(* "a message signed here verifies here" (sign.go:110): a signature that   *)
(* stands on the wire as it was written, the upper-most of its copies,     *)
(* with its content as it was, passes while its key is published and it    *)
(* has not expired. Below an equal copy it need not: that copy is the one  *)
(* WithoutSelf takes out (verify.go:473-487).                              *)
IntactVerifies ==
    \A j \in DOMAIN results, p \in DOMAIN lines, ev \in signed :
        LET others == parseHeaders(RemoveAt(lines, p))
            keyIds == { rec.p.id : rec \in ToSet(seen[j].answer.records) }
        IN  /\ IsField(p) /\ SameField(ev, lines[p].field)
            /\ seen[j].at = Len(parseHeaders(SubSeq(lines, 1, p)))
            /\ \A q \in 1 .. (seen[j].at - 1) : headers[q] # headers[seen[j].at]
            /\ SameContent(ev, others, text)
            /\ ev.field.tags.x # Absent => seen[j].now = Absent \/ seen[j].now < ev.field.tags.x
            /\ seen[j].answer = Absent \/ ev.field.tags.b.by.id \in keyIds
            => results[j].result = "pass"
===============================================================================

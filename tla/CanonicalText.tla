---------------------------- MODULE CanonicalText ----------------------------
(***************************************************************************)
(* Canonicalization on characters, composed with the parser: a message is  *)
(* split and canonicalized by its signer, intermediaries store, refold and *)
(* respace it, write parsed fields out again and add to its end, and the   *)
(* verifier splits and canonicalizes what arrives.                         *)
(***************************************************************************)
EXTENDS MessageText

CONSTANTS LowerOf,       \* upper-case letter -> lower-case letter
          MaxEdits       \* bound on what intermediaries do

(* Both are letters, and a small one is its own.                           *)
ASSUME CaseAssumption ==
    \A ch \in DOMAIN LowerOf :
        {ch, LowerOf[ch]} \subseteq NameChars /\ LowerOf[ch] \notin DOMAIN LowerOf

VARIABLES first,         \* history: headers and body as the signer saw them
          edits,         \* history: what was changed since
          count          \* of changes

canonVars == <<vars, first, edits, count>>

ToLower(s) == [p \in DOMAIN s |-> IF s[p] \in DOMAIN LowerOf THEN LowerOf[s[p]] ELSE s[p]]

(* The loop both relaxed forms run: a run of whitespace becomes one SP     *)
(* before the next character, at the start only if leading, and is never   *)
(* flushed at the end.                                                     *)
SqueezeStep(st, ch, leading) ==
    CASE ch \in WSP -> [st EXCEPT !.inWSP = TRUE]
      [] ch \notin WSP /\ st.inWSP /\ (leading \/ st.out # <<>>) ->
            [out |-> st.out \o <<" ", ch>>, inWSP |-> FALSE]
      [] OTHER -> [out |-> Append(st.out, ch), inWSP |-> FALSE]

Squeezed(s, leading) ==
    LET after[p \in 0 .. Len(s)] ==
          IF p = 0 THEN [out |-> <<>>, inWSP |-> FALSE]
          ELSE SqueezeStep(after[p - 1], s[p], leading)
    IN  after

Squeeze(s, leading) == Squeezed(s, leading)[Len(s)].out

(* Mutant: the value is not unfolded.                                      *)
relaxHeaderValue_folded(v) == Squeeze(v, FALSE)

Unfold(v) == FlattenSeq([p \in DOMAIN v |-> IF v[p] = CRLF THEN <<>> ELSE <<v[p]>>])

relaxHeaderValue(v) == Squeeze(Unfold(v), FALSE)

relaxBodyLine(line) == Squeeze(line, TRUE)

CanonicalizeHeader(h, canon) ==
    IF canon = "relaxed"
    THEN ToLower(Trim(h.name, WSP)) \o << ":" >> \o relaxHeaderValue(h.value)
    ELSE h.raw

(* The parts up to the last that is not empty.                             *)
DropEmpty(parts) == SubSeq(parts, 1, Max({0} \cup { j \in DOMAIN parts : parts[j] # <<>> }))

(* Mutant: an empty body is one CRLF, as it is for simple.                 *)
RelaxedBody_crlf(text) ==
    LET parts == Split(text, CRLF)
        kept  == DropEmpty([j \in DOMAIN parts |-> relaxBodyLine(parts[j])])
    IN  Append(Join(kept, CRLF), CRLF)

RelaxedBody(text) ==
    LET parts == Split(text, CRLF)
        kept  == DropEmpty([j \in DOMAIN parts |-> relaxBodyLine(parts[j])])
    IN  IF kept = <<>> THEN <<>> ELSE Append(Join(kept, CRLF), CRLF)

(* Mutant: one line end is dropped, not all of them.                       *)
SimpleBody_once(text) ==
    Append(IF IsSuffix(<<CRLF>>, text) THEN Front(text) ELSE text, CRLF)

SimpleBody(text) ==
    Append(SubSeq(text, 1, Max({0} \cup { p \in DOMAIN text : text[p] # CRLF })), CRLF)

CanonicalizeBody(text, canon) ==
    IF canon = "relaxed" THEN RelaxedBody(text) ELSE SimpleBody(text)
------------------------------------------------------------------------------
(* What happens to a message between two parses. *)

CanonInit == Init /\ first = Absent /\ edits = {} /\ count = 0

Wire == Normalize(raw)

(* Where the body begins; behind the text when no empty line ends the      *)
(* header block.                                                           *)
BodyStart ==
    CASE IsPrefix(<<CRLF>>, Wire) -> 2
      [] ~IsPrefix(<<CRLF>>, Wire) /\ Gaps(Wire) # {} -> Min(Gaps(Wire)) + 2
      [] OTHER -> Len(Wire) + 2

LineEnd(p) == p \in DOMAIN Wire => Wire[p] = CRLF

(* The line of the header block position p is in, up to p.                 *)
LineBefore(p) ==
    SubSeq(Wire, Max({0} \cup { q \in 1 .. (p - 1) : Wire[q] = CRLF }) + 1, p - 1)

Edit(text, kind) ==
    /\ count' = count + 1
    /\ raw' = text /\ pc' = "split"
    /\ edits' = edits \cup kind
    /\ first' = IF first = Absent THEN [headers |-> headers, body |-> body] ELSE first
    /\ UNCHANGED parser

(* Stored with every line end CR LF or LF, or every one CR.                *)
Encodings(s) ==
    LET ends == { p \in DOMAIN s : s[p] = CRLF }
        with(f) == FlattenSeq([p \in DOMAIN s |-> IF p \in ends THEN f[p] ELSE <<s[p]>>])
    IN  { with(f) : f \in [ends -> {<<"CR", "LF">>, <<"LF">>}] }
          \cup { with([p \in ends |-> <<"CR">>]) }

Store == \E text \in Encodings(Wire) : Edit(text, {})

(* A caller writes the fields back from their Raw.                         *)
Rewrite ==
    Edit(IF headers = <<>> THEN <<CRLF>> \o body
         ELSE Join([j \in DOMAIN headers |-> headers[j].raw] \o << <<>>, body >>, CRLF), {})

(* More whitespace where there is some, or at the end of a line of the     *)
(* body or of a line that is not empty.                                    *)
Widen ==
    \E p \in 1 .. (Len(Wire) + 1), space \in WSP :
        /\ \/ LineBefore(p) # <<>> /\ Last(LineBefore(p)) \in WSP
           \/ LineEnd(p) /\ (p >= BodyStart \/ LineBefore(p) # <<>>)
        /\ Edit(InsertAt(Wire, p, space), {"space"})

(* A fold before whitespace inside a field's value.                        *)
Refold ==
    \E p \in 2 .. Min({BodyStart - 1, Len(Wire)}) :
        /\ Wire[p] \in WSP /\ LineBefore(p) # <<>>
        /\ Continues(LineBefore(p)) \/ Contains(LineBefore(p), ":")
        /\ Edit(InsertAt(Wire, p, CRLF), {"space"})

(* A capital in a field name made small.                                   *)
Recase ==
    \E p \in 1 .. Min({BodyStart - 1, Len(Wire)}) :
        /\ Wire[p] \in DOMAIN LowerOf /\ ToSet(LineBefore(p)) \subseteq NameChars
        /\ Edit([Wire EXCEPT ![p] = LowerOf[@]], {"space"})

AppendBlank == BodyStart <= Len(Wire) + 1 /\ Edit(Append(Wire, CRLF), {"blank"})

(* A further line of text at the end of the message.                       *)
AppendText ==
    /\ BodyStart <= Len(Wire) + 1
    /\ Edit(Wire \o (IF body # <<>> /\ Last(body) # CRLF THEN << CRLF, "v" >> ELSE << "v" >>),
            {"text"})

Edits ==
    /\ pc = "done" /\ count < MaxEdits
    /\ Store \/ Rewrite \/ Widen \/ Refold \/ Recase \/ AppendBlank \/ AppendText

CanonNext == \/ Next /\ UNCHANGED <<first, edits, count>>
             \/ Edits

CanonSpec == CanonInit /\ [][CanonNext]_canonVars
------------------------------------------------------------------------------
(* PROPERTIES *)

RelaxedFields(hs) == [j \in DOMAIN hs |-> CanonicalizeHeader(hs[j], "relaxed")]

(* Whatever intermediaries do to the line ends, the folds, the whitespace  *)
(* and the body, the fields found have the relaxed forms the signer        *)
(* hashed; where no whitespace, fold or capital was touched they are the   *)
(* same fields, byte for byte (canon.go:14-20, 71-104).                    *)
HeadersUnchanged ==
    pc = "done" /\ first # Absent =>
        /\ RelaxedFields(headers) = RelaxedFields(first.headers)
        /\ "space" \notin edits => headers = first.headers

(* Unless text was added, the relaxed body is what the signer hashed; the  *)
(* simple body is where only line ends and final empty lines changed, and  *)
(* line ends alone change nothing at all (canon.go:106-153).               *)
BodyUnchanged ==
    pc = "done" /\ first # Absent =>
        /\ "text" \notin edits =>
             CanonicalizeBody(body, "relaxed") = CanonicalizeBody(first.body, "relaxed")
        /\ edits \subseteq {"blank"} =>
             CanonicalizeBody(body, "simple") = CanonicalizeBody(first.body, "simple")
        /\ edits = {} => body = first.body

(* A signature over the first l= octets survives text added to the end:    *)
(* the canonical body signed is a prefix of the longer one's.  Simple      *)
(* makes an empty body one CRLF, which the first line added replaces       *)
(* (canon.go:110-132, verify.go:370-382).                                  *)
SignedPrefixKept ==
    pc = "done" /\ first # Absent =>
        /\ IsPrefix(RelaxedBody(first.body), RelaxedBody(body))
        /\ "space" \notin edits /\ first.body # <<>> =>
             IsPrefix(SimpleBody(first.body), SimpleBody(body))

(* The parser and the canonicalization over whole lines, on which the      *)
(* composition with signing and relaying rests, make the same fields and   *)
(* the same canonical bodies of the lines (canon.go:43-132).               *)
Lines == INSTANCE DkimMessage WITH DNSLabels <- {}, ALabelOf <- <<>>, MaxTimestamp <- 0,
                                   Empty <- Absent, Junk <- Absent

ClassifiedHeader(line) ==
    CASE Continues(line) -> [kind |-> "continuation", text |-> line, ws |-> 1]
      [] ~Continues(line) /\ IsFieldLine(line) ->
            [kind |-> "field", field |-> [name |-> NameOf(line), text |-> line,
                                          ws |-> 0, tags |-> Absent]]
      [] OTHER -> [kind |-> "other"]

ClassifiedLine(line) ==
    LET text == relaxBodyLine(line)
    IN  [text |-> IF text = <<>> THEN "" ELSE ToString(text),
         ws   |-> IF text = line THEN 0 ELSE 1]

ClassifiedBody(parts) == [k \in DOMAIN parts |-> ClassifiedLine(parts[k])]

LinewiseAgrees ==
    LET block == IF IsPrefix(<<CRLF>>, Wire) THEN <<>> ELSE HeaderBlock(Wire)
        parts == Split(block, CRLF)
        whole == Lines!parseHeaders([k \in DOMAIN parts |-> ClassifiedHeader(parts[k])])
        bodyLines(canon) == [j \in DOMAIN Front(Split(CanonicalizeBody(body, canon), CRLF)) |->
                               ClassifiedLine(Split(CanonicalizeBody(body, canon), CRLF)[j])]
    IN  pc = "done" =>
          /\ block # <<>> =>
               [j \in DOMAIN headers |-> <<headers[j].name,
                                           SelectSeq(headers[j].raw, LAMBDA ch : ch # CRLF)>>]
                 = [j \in DOMAIN whole |-> <<whole[j].name, whole[j].text>>]
          /\ \A canon \in {"simple", "relaxed"} :
               bodyLines(canon) = Lines!CanonicalizeBody(ClassifiedBody(Split(body, CRLF)), canon)
==============================================================================

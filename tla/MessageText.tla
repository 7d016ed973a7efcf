----------------------------- MODULE MessageText -----------------------------
(***************************************************************************)
(* SplitMessage and parseHeaders on a message as characters: the endings   *)
(* of its lines, the cut between header block and body, and the loop over  *)
(* the lines.                                                              *)
(***************************************************************************)
EXTENDS WireText

CONSTANTS Messages,      \* the raw messages considered
          NameChars,     \* characters of a field name
          Absent

(* A message is a text, whatever its characters.                           *)
ASSUME MessagesAreSequences == \A m \in Messages : m \in Seq(ToSet(m))

(* Printable, and not the colon.                                           *)
ASSUME NamesArePrintable == NameChars \cap (FWS \cup {"CR", "LF", ":"}) = {}

VARIABLES raw,
          pc,            \* "split", "parse" or "done"
          lines,         \* of the header block, still to parse
          headers, body, \* the two results
          skipping

parser == <<lines, headers, body, skipping>>
vars   == <<raw, pc, parser>>

(* One strings.ReplaceAll of a single character or of the pair CR LF.      *)
ReplaceEach(s, old, new) == [p \in DOMAIN s |-> IF s[p] = old THEN new ELSE s[p]]
ReplacePair(s) ==
    LET paired == { p \in 2 .. Len(s) : s[p - 1] = "CR" /\ s[p] = "LF" }
    IN  FlattenSeq([p \in DOMAIN s |-> IF p + 1 \in paired THEN <<>> ELSE <<s[p]>>])

Normalize(s) == ReplaceEach(ReplaceEach(ReplacePair(s), "CR", "LF"), "LF", CRLF)

(* Where the empty line is that ends the header block.                     *)
Gaps(s) == { p \in 1 .. (Len(s) - 1) : s[p] = CRLF /\ s[p + 1] = CRLF }

(* Mutant: no line end is trimmed from a message without a body.           *)
HeaderBlock_untrimmed(s) == SubSeq(s, 1, IF Gaps(s) = {} THEN Len(s) ELSE Min(Gaps(s)) - 1)

HeaderBlock(s) ==
    CASE Gaps(s) # {}                     -> SubSeq(s, 1, Min(Gaps(s)) - 1)
      [] Gaps(s) = {} /\ IsSuffix(<<CRLF>>, s) -> Front(s)
      [] OTHER                            -> s

TrimRightWSP(s) == SubSeq(s, 1, Max({0} \cup { p \in DOMAIN s : s[p] \notin WSP }))

NameOf(line)   == TrimRightWSP(SubSeq(line, 1, IndexFrom(line, 1, ":") - 1))
ValueOf(line)  == SubSeq(line, IndexFrom(line, 1, ":") + 1, Len(line))

ValidFieldName(name) == name # <<>> /\ ToSet(name) \subseteq NameChars

IsFieldLine(line) == Contains(line, ":") /\ ValidFieldName(NameOf(line))
Continues(line)   == line[1] \in WSP
------------------------------------------------------------------------------
Init ==
    /\ raw \in Messages
    /\ pc = "split"
    /\ lines = <<>> /\ headers = <<>> /\ body = <<>> /\ skipping = FALSE

SplitMessage ==
    /\ pc = "split"
    /\ LET s == Normalize(raw) IN
       IF IsPrefix(<<CRLF>>, s)
       THEN lines' = <<>> /\ body' = Tail(s)
       ELSE /\ lines' = IF HeaderBlock(s) = <<>> THEN <<>> ELSE Split(HeaderBlock(s), CRLF)
            /\ body' = IF Gaps(s) = {} THEN <<>> ELSE SubSeq(s, Min(Gaps(s)) + 2, Len(s))
    /\ headers' = <<>> /\ skipping' = FALSE
    /\ pc' = "parse"
    /\ UNCHANGED raw

Parsing == pc = "parse" /\ lines # <<>>
Advance == lines' = Tail(lines) /\ UNCHANGED <<raw, pc, body>>

DropContinuation ==
    /\ Parsing /\ Continues(Head(lines))
    /\ headers = <<>> \/ skipping
    /\ Advance /\ UNCHANGED <<headers, skipping>>

Grown(field, line) == [field EXCEPT !.raw = @ \o <<CRLF>> \o line,
                                    !.value = @ \o <<CRLF>> \o line]

ContinueField ==
    /\ Parsing /\ Continues(Head(lines))
    /\ headers # <<>> /\ ~skipping
    /\ headers' = [headers EXCEPT ![Len(headers)] = Grown(@, Head(lines))]
    /\ Advance /\ UNCHANGED skipping

(* Mutant: the next field does not end the skipping.                       *)
TakeField_stillSkipping ==
    /\ Parsing /\ ~Continues(Head(lines)) /\ IsFieldLine(Head(lines))
    /\ headers' = Append(headers, [name  |-> NameOf(Head(lines)),
                                   value |-> ValueOf(Head(lines)),
                                   raw   |-> Head(lines)])
    /\ Advance /\ UNCHANGED skipping

TakeField ==
    /\ Parsing /\ ~Continues(Head(lines)) /\ IsFieldLine(Head(lines))
    /\ headers' = Append(headers, [name  |-> NameOf(Head(lines)),
                                   value |-> ValueOf(Head(lines)),
                                   raw   |-> Head(lines)])
    /\ skipping' = FALSE
    /\ Advance

(* Mutant: the continuations of a skipped line are taken.                  *)
SkipLine_alone ==
    /\ Parsing /\ ~Continues(Head(lines)) /\ ~IsFieldLine(Head(lines))
    /\ Advance /\ UNCHANGED <<headers, skipping>>

SkipLine ==
    /\ Parsing /\ ~Continues(Head(lines)) /\ ~IsFieldLine(Head(lines))
    /\ skipping' = TRUE
    /\ Advance /\ UNCHANGED headers

Finish ==
    /\ pc = "parse" /\ lines = <<>>
    /\ pc' = "done"
    /\ UNCHANGED <<raw, parser>>

Next == \/ SplitMessage \/ DropContinuation \/ ContinueField \/ TakeField \/ SkipLine
        \/ Finish

Spec == Init /\ [][Next]_vars
------------------------------------------------------------------------------
(* PROPERTIES *)

(* "No line is empty: the block ends at the first empty line": line[0] is  *)
(* read of every line without a check (canon.go:50-51).                    *)
NoLineEmpty == \A k \in DOMAIN lines : lines[k] # <<>>

(* A field is a stretch of whole lines of the message with all of its      *)
(* continuation lines, none of them a skipped line's, and the fields stand *)
(* in their order; the body is the text behind the first empty line        *)
(* (canon.go:38-42).  Its Raw is name, colon, value: BuildSignedHeaders    *)
(* empties b= in what stands behind the first colon of Raw and, apart from *)
(* that, in Value, and the two must be one text (verify.go:504-511).       *)
FieldsAreWhole ==
    pc = "done" =>
        LET s     == <<CRLF>> \o Normalize(raw) \o <<CRLF, CRLF>>
            gap   == Min(Gaps(s))
            line(p) == SubSeq(s, p + 1, IndexFrom(s, p + 1, CRLF) - 1)
            heads == { p \in 1 .. (gap - 1) : s[p] = CRLF /\ ~Continues(line(p))
                                                        /\ IsFieldLine(line(p)) }
            end(p) == Min({ q \in (p + 1) .. gap : s[q] = CRLF /\ s[q + 1] \notin WSP })
        IN  /\ Len(headers) = Cardinality(heads)
            /\ \A p \in heads :
                  LET field == headers[Cardinality({ q \in heads : q <= p })] IN
                  /\ field.raw = SubSeq(s, p + 1, end(p) - 1)
                  /\ field.name = NameOf(field.raw) /\ ValidFieldName(field.name)
                  /\ field.value = ValueOf(field.raw)
            /\ body = SubSeq(s, gap + 2, Max({gap + 1, Len(s) - 2}))
==============================================================================

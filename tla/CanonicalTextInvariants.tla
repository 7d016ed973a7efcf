----------------------- MODULE CanonicalTextInvariants -----------------------
(***************************************************************************)
(* The inductive invariants the proofs about CanonicalText rest on: CInv   *)
(* for the parser, PInv for the body across edits, and HInv for the fields.*)
(*                                                                         *)
(* The message is framed: a line end in front of it and an empty line      *)
(* behind it, so that every line stands between two ends and the header    *)
(* block always stops at the first empty line, which begins at g.  CInv    *)
(* has a cursor a, the line end the parser stands at, and says of every    *)
(* field begun before it that its Raw runs from its first line to the      *)
(* first break behind it, or to the cursor.                                *)
(***************************************************************************)
EXTENDS CanonicalText

(* Texts, and the message in its frame.                                    *)

(* The characters a message can have, edited ones included.                *)
Received == UNION { ToSet(m) : m \in Messages }
Lowered  == { LowerOf[ch] : ch \in DOMAIN LowerOf }
Alphabet == Received \cup WSP \cup {CRLF, "CR", "LF", "v"} \cup Lowered

Text  == Seq(Alphabet)
Field == [name : Text, value : Text, raw : Text]

Framed(r) == <<CRLF>> \o Normalize(r) \o <<CRLF, CRLF>>

NoGapBefore(s, g) == \A p \in 1 .. (g - 1) : s[p] = CRLF => s[p + 1] # CRLF

(* g is the first empty line of a framed message.                          *)
HasGap(s, g) ==
    /\ s \in Text /\ g \in 1 .. (Len(s) - 1)
    /\ s[1] = CRLF /\ s[g] = CRLF /\ s[g + 1] = CRLF
    /\ NoGapBefore(s, g)
------------------------------------------------------------------------------
(* Its lines from line end to line end, and the fields they begin.         *)

(* The line that begins behind the line end p.                             *)
NextEnd(s, p) == IndexFrom(s, p + 1, CRLF)
LineAt(s, p)  == SubSeq(s, p + 1, NextEnd(s, p) - 1)
Block(s, g)   == SubSeq(s, 2, g - 1)

(* The lines from the line end a on.                                       *)
Rest(s, g, a) == IF a = g THEN <<>> ELSE PartsFrom(Block(s, g), CRLF)[a]

(* A line that begins a field, how many do, and the end of a line that no  *)
(* continuation follows.                                                   *)
IsHead(s, p) == s[p] = CRLF /\ ~Continues(LineAt(s, p)) /\ IsFieldLine(LineAt(s, p))

HeadsBefore(s, a) == { p \in 1 .. (a - 1) : IsHead(s, p) }
Rank(s, p)        == Cardinality({ q \in 1 .. p : IsHead(s, q) })

IsBreak(s, q) == s[q] = CRLF /\ s[q + 1] \notin WSP

(* Where the field begun at p ends, as far as the cursor a has come.       *)
Breaks(s, p, a)   == { q \in (p + 1) .. a : IsBreak(s, q) }
StopAt(s, p, a)   == Min(Breaks(s, p, a) \cup {a})
Closed(s, p, a)   == \E q \in (p + 1) .. (a - 1) : IsBreak(s, q)
Followed(s, p, a) == \E r \in (p + 1) .. (a - 1) : IsHead(s, r)

(* f is that field.                                                        *)
FieldUpTo(f, s, p, a) ==
    /\ f.raw = SubSeq(s, p + 1, StopAt(s, p, a) - 1)
    /\ Contains(f.raw, ":")
    /\ f.name = NameOf(f.raw) /\ ValidFieldName(f.name)
    /\ f.value = ValueOf(f.raw)

(* There is one for each head, and the parser skips just when the last one *)
(* has met a line that does not continue it.                               *)
FieldsUpTo(s, a, hs, skip) ==
    /\ Len(hs) = Cardinality(HeadsBefore(s, a))
    /\ \A p \in HeadsBefore(s, a) :
          /\ FieldUpTo(hs[Rank(s, p)], s, p, a)
          /\ Closed(s, p, a) <=> (skip \/ Followed(s, p, a))

ParsedUpTo(s, g, a, ls, hs, skip) ==
    /\ a \in 1 .. g /\ s[a] = CRLF
    /\ ls = Rest(s, g, a)
    /\ FieldsUpTo(s, a, hs, skip)
------------------------------------------------------------------------------
(* The first empty line, and the body behind it.                           *)

BodyOf(s, g) == SubSeq(s, g + 2, Max({g + 1, Len(s) - 2}))
Stop(r)      == Min(Gaps(Framed(r)))

(* What a character of a message becomes, and the characters of a          *)
(* normalized one.                                                         *)
Image(c) == IF c \in {"CR", "LF"} THEN CRLF ELSE c
Clean    == Alphabet \ {"CR", "LF"}

(* Where a text has an empty line, and what stands behind its first.       *)
Blank(w, e) == w[e] = CRLF /\ (e = 1 \/ w[e - 1] = CRLF)

FirstBlank(w, e) ==
    /\ e \in 1 .. Len(w) /\ Blank(w, e)
    /\ \A d \in 1 .. (e - 1) : ~Blank(w, d)

NoBlank(w) == \A e \in 1 .. Len(w) : ~Blank(w, e)

Cut(s) ==
    IF IsPrefix(<<CRLF>>, s) THEN Tail(s)
    ELSE IF Gaps(s) = {} THEN <<>> ELSE SubSeq(s, Min(Gaps(s)) + 2, Len(s))

StartOf(w) ==
    CASE IsPrefix(<<CRLF>>, w) -> 2
      [] ~IsPrefix(<<CRLF>>, w) /\ Gaps(w) # {} -> Min(Gaps(w)) + 2
      [] OTHER -> Len(w) + 2

(* A text that begins with another.                                        *)
Before(s, t) == \E u \in Text : t = s \o u

(* A text that has no empty line, does not end in CRLF and is not empty: a *)
(* field as it stands in the message.                                      *)
Solid == { x \in Seq(Clean) : x # <<>> /\ x[Len(x)] # CRLF /\ NoBlank(x) }
------------------------------------------------------------------------------
(* The parser over a header block, character by character.                 *)

(* What a line does to the fields found and to the skipping.               *)
GrownLast(hs, line) == [hs EXCEPT ![Len(hs)] = Grown(@, line)]
TakenFrom(line)     == [name |-> NameOf(line), value |-> ValueOf(line), raw |-> line]

FieldsAfter(hs, skip, line) ==
    IF Continues(line) THEN IF hs = <<>> \/ skip THEN hs ELSE GrownLast(hs, line)
    ELSE IF IsFieldLine(line) THEN Append(hs, TakenFrom(line)) ELSE hs

SkipAfter(skip, line) == IF Continues(line) THEN skip ELSE ~IsFieldLine(line)

(* What a character does: a line end finishes the line read so far.        *)
State(hs, skip, last) == [hs |-> hs, skip |-> skip, last |-> last]
States == [hs : Seq(Field), skip : BOOLEAN, last : Text]

Finished(st) ==
    IF st.last = <<>> THEN st
    ELSE State(FieldsAfter(st.hs, st.skip, st.last), SkipAfter(st.skip, st.last), <<>>)

Eat(st, c) ==
    IF c = CRLF THEN Finished(st) ELSE State(st.hs, st.skip, Append(st.last, c))

Fresh == State(<<>>, FALSE, <<>>)

Reading(x) ==
    LET after[p \in 0 .. Len(x)] == IF p = 0 THEN Fresh ELSE Eat(after[p - 1], x[p])
    IN  after
Read(x) == Reading(x)[Len(x)]

(* The header block with the line end behind its last line, and the empty  *)
(* line if there is one.                                                   *)
HeadText(w) == SubSeq(Append(w, CRLF), 1, StartOf(w) - 1)

Fields(w) == Read(HeadText(w)).hs

(* The fields written back, and read again.                                *)
Raws(hs)    == [j \in DOMAIN hs |-> hs[j].raw]
Written(hs) == Append(Join(Raws(hs), CRLF), CRLF)
Reread(hs)  == hs # <<>> => Read(Written(hs)) = State(hs, FALSE, <<>>)
------------------------------------------------------------------------------
(* Fields alike under relaxed canonicalization.                            *)

(* The loop over a header value: line ends do not turn it.                 *)
Loop(x) == Squeezed(Unfold(x), FALSE)[Len(Unfold(x))]

(* Fields with the same relaxed forms.                                     *)
SameForm(f, h) ==
    /\ ToLower(Trim(f.name, WSP)) = ToLower(Trim(h.name, WSP))
    /\ Loop(f.value).out = Loop(h.value).out

Forms(hs, gs) == Len(hs) = Len(gs) /\ \A j \in 1 .. Len(hs) : SameForm(hs[j], gs[j])

(* What an edit may do to the fields, and several in turn.                 *)
Relays(hs, gs, es) == Forms(hs, gs) /\ ("space" \notin es => gs = hs)
------------------------------------------------------------------------------
(* The inductive invariants.                                               *)

(* The parser stands at a line end of the header block.                    *)
Parsed(r, ls, hs, text, skip) ==
    /\ hs \in Seq(Field) /\ text \in Text /\ skip \in BOOLEAN
    /\ text = BodyOf(Framed(r), Stop(r))
    /\ \E a \in 1 .. Stop(r) : ParsedUpTo(Framed(r), Stop(r), a, ls, hs, skip)

(* The inductive invariant of the parser: what it has is what the lines in *)
(* front of its cursor make, and the rest of the lines is still to come.   *)
CInv ==
    /\ raw \in Text /\ pc \in {"split", "parse", "done"}
    /\ pc # "parse" => lines = <<>>
    /\ pc # "split" => Parsed(raw, lines, headers, body, skipping)

(* What stands behind the empty line after a change, compared with before. *)
Covers(b, t, es) ==
    /\ Before(RelaxedBody(b), RelaxedBody(t))
    /\ b # <<>> => t # <<>>
    /\ "space" \notin es /\ b # <<>> => Before(SimpleBody(b), SimpleBody(t))
    /\ "text" \notin es => RelaxedBody(t) = RelaxedBody(b)
    /\ es \subseteq {"blank"} => SimpleBody(t) = SimpleBody(b)
    /\ es = {} => t = b

SolidFields == \A j \in DOMAIN headers : headers[j].raw \in Solid

(* The inductive invariant: between two parses nothing is body but what    *)
(* stands behind the first empty line, and the signer's body is related to *)
(* that by what was edited since; no field read holds an empty line, so    *)
(* writing the fields out again moves the first empty line nowhere.        *)
PInv ==
    /\ CInv
    /\ pc # "split" => body = Cut(Wire) /\ SolidFields
    /\ first # Absent => first.body \in Text /\ Covers(first.body, Cut(Wire), edits)

(* The parser stands behind the lines it has read.                         *)
TracedAt(s, g, a, ls, hs, skip) ==
    s[a] = CRLF /\ ls = Rest(s, g, a) /\ Read(SubSeq(s, 2, a)) = State(hs, skip, <<>>)

Traced == \E a \in 1 .. Stop(raw) :
             TracedAt(Framed(raw), Stop(raw), a, lines, headers, skipping)

(* The inductive invariant: the parser has read the header block up to its *)
(* cursor, what it found reads as the same fields when written out again,  *)
(* and the fields of the text are the signer's but for the edits since.    *)
HInv ==
    /\ PInv
    /\ pc # "split" => Traced /\ Reread(headers)
    /\ first # Absent => /\ first.headers \in Seq(Field)
                         /\ Relays(first.headers, Fields(Wire), edits)
==============================================================================

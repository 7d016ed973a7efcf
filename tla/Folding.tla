------------------------------- MODULE Folding -------------------------------
(***************************************************************************)
(* folding.folder: how Sign writes a signature value into lines.  The text *)
(* is abstracted to pieces with a length: ";", a space, a tag, "h=", a     *)
(* name of h=, ":", a run of base64.  A line is its width in characters    *)
(* and its pieces; `col` is the folder's own count of the current column.  *)
(***************************************************************************)
EXTENDS Naturals, SequencesExt

CONSTANTS LineLimit,   \* lineLimit, 78
          FirstCol,    \* len("DKIM-Signature: "), 16
          TagLists,    \* the tag lists Sign may write, before b=
          SigLengths   \* the lengths of the base64 signature

(* A tag is [name, len], of h= also the lengths of its names: the tag      *)
(* itself is then as long as "h=" and the names with their colons.  What   *)
(* no fold can split is at most two characters shorter than a line, and    *)
(* the first tag fits behind the field name.                               *)
ASSUME LimitShape ==
    /\ LineLimit \in Nat /\ LineLimit >= 4
    /\ FirstCol \in 1 .. LineLimit
    /\ SigLengths \subseteq Nat

TagNames == {"v", "a", "c", "d", "s", "t", "x", "h", "bh", "b"}

Tags == [name : TagNames, len : Nat, fields : Seq(1 .. (LineLimit - 2))]

ASSUME TagShape ==
    \A list \in TagLists :
        /\ list \in Seq(Tags)
        /\ list # <<>>
        /\ list[1].name # "h" /\ FirstCol + list[1].len <= LineLimit
        /\ \A t \in DOMAIN list : list[t].name # "h" => list[t].len <= LineLimit - 2

BTag == [name |-> "b", len |-> 2, fields |-> <<>>]

VARIABLES tags,        \* the tags to write, "b=" last
          sigLen,      \* how long the signature will be
          pc,          \* "separator", "tag", "names", "base64"
          n,           \* the tag being written
          m,           \* the name of h= written next
          rest,        \* base64 characters still to write
          lines,       \* what was written
          col,         \* f.col
          unsigned     \* valueNoB, the lines when the signature was computed

vars == <<tags, sigLen, pc, n, m, rest, lines, col, unsigned>>

(* Pieces.                                                                 *)
Pieces       == {";", " ", "h=", ":", "base64", "tag", "name"} \X Nat
Semicolon    == <<";", 0>>
Space        == <<" ", 0>>
HEquals      == <<"h=", 0>>
Colon        == <<":", 0>>
Run          == <<"base64", 0>>
TagPiece(t)  == <<"tag", t>>
NamePiece(j) == <<"name", j>>

Line(width, pieces) == [width |-> width, text |-> pieces]

(* f.b.WriteString of a piece on the last line, and f.fold().              *)
Write(ls, piece, width) ==
    [ls EXCEPT ![Len(ls)] = Line(@.width + width, Append(@.text, piece))]

NewLine(ls) == Append(ls, Line(1, <<>>))

Init ==
    /\ \E list \in TagLists : tags = Append(list, BTag)
    /\ sigLen \in SigLengths
    /\ pc = "tag"
    /\ n = 1
    /\ m = 1
    /\ rest = sigLen
    /\ lines = <<Line(FirstCol, <<>>)>>
    /\ col = FirstCol
    /\ unsigned = <<>>

(* Mutant: a fold starts at column 0.                                      *)
Separate_columnZero ==
    /\ pc = "separator"
    /\ LET ended == Write(lines, Semicolon, 1)
       IN  IF col + 1 + 1 + tags[n].len > LineLimit
           THEN lines' = NewLine(ended) /\ col' = 0
           ELSE lines' = Write(ended, Space, 1) /\ col' = col + 2
    /\ pc' = "tag"
    /\ UNCHANGED <<tags, sigLen, n, m, rest, unsigned>>

(* The start of Tag for every tag but the first: ";", and a fold when the  *)
(* tag would not fit behind a space.                                       *)
Separate ==
    /\ pc = "separator"
    /\ LET ended == Write(lines, Semicolon, 1)
       IN  IF col + 1 + 1 + tags[n].len > LineLimit
           THEN lines' = NewLine(ended) /\ col' = 1
           ELSE lines' = Write(ended, Space, 1) /\ col' = col + 2
    /\ pc' = "tag"
    /\ UNCHANGED <<tags, sigLen, n, m, rest, unsigned>>

Fits(tag) == tag.name # "h" \/ col + tag.len <= LineLimit

(* Mutants: one tag too many is expected; the value to sign is taken       *)
(* before the b= tag is in it.                                             *)
AfterTag_oneMore ==
    IF n <= Len(tags)
    THEN pc' = "separator" /\ n' = n + 1 /\ UNCHANGED unsigned
    ELSE pc' = "base64" /\ unsigned' = lines' /\ UNCHANGED n

AfterTag_early ==
    IF n < Len(tags)
    THEN pc' = "separator" /\ n' = n + 1 /\ UNCHANGED unsigned
    ELSE pc' = "base64" /\ unsigned' = lines /\ UNCHANGED n

(* What follows a tag: the next one, or the signature over what is there.  *)
AfterTag ==
    IF n < Len(tags)
    THEN pc' = "separator" /\ n' = n + 1 /\ UNCHANGED unsigned
    ELSE pc' = "base64" /\ unsigned' = lines' /\ UNCHANGED n

(* The rest of Tag, of a tag that is written whole.                        *)
WriteTag ==
    /\ pc = "tag"
    /\ Fits(tags[n])
    /\ lines' = Write(lines, TagPiece(n), tags[n].len)
    /\ col' = col + tags[n].len
    /\ AfterTag
    /\ UNCHANGED <<tags, sigLen, m, rest>>

(* The rest of Tag, of an h= too long for the line.                        *)
StartNames ==
    /\ pc = "tag"
    /\ ~Fits(tags[n])
    /\ lines' = Write(lines, HEquals, 2)
    /\ col' = col + 2
    /\ m' = 1
    /\ pc' = "names"
    /\ UNCHANGED <<tags, sigLen, n, rest, unsigned>>

(* Mutants: no room is kept for the colon after the name; a fold swallows  *)
(* the colon before it.                                                    *)
WriteName_noColonRoom ==
    /\ pc = "names"
    /\ m <= Len(tags[n].fields)
    /\ LET width   == tags[n].fields[m]
           begun   == IF m = 1 THEN lines ELSE Write(lines, Colon, 1)
           column  == IF m = 1 THEN col ELSE col + 1
           folds   == column + width > LineLimit
       IN  /\ lines' = Write(IF folds THEN NewLine(begun) ELSE begun,
                             NamePiece(m), width)
           /\ col' = (IF folds THEN 1 ELSE column) + width
    /\ m' = m + 1
    /\ UNCHANGED <<tags, sigLen, pc, n, rest, unsigned>>

WriteName_foldForColon ==
    /\ pc = "names"
    /\ m <= Len(tags[n].fields)
    /\ LET width   == tags[n].fields[m]
           begun   == IF m = 1 THEN lines ELSE Write(lines, Colon, 1)
           column  == IF m = 1 THEN col ELSE col + 1
           folds   == column + width + 1 > LineLimit
       IN  /\ lines' = Write(IF folds THEN NewLine(lines) ELSE begun,
                             NamePiece(m), width)
           /\ col' = (IF folds THEN 1 ELSE column) + width
    /\ m' = m + 1
    /\ UNCHANGED <<tags, sigLen, pc, n, rest, unsigned>>

(* One name of h=: the colon before it, a fold unless the name and the     *)
(* colon after it fit, the name.                                           *)
WriteName ==
    /\ pc = "names"
    /\ m <= Len(tags[n].fields)
    /\ LET width   == tags[n].fields[m]
           begun   == IF m = 1 THEN lines ELSE Write(lines, Colon, 1)
           column  == IF m = 1 THEN col ELSE col + 1
           folds   == column + width + 1 > LineLimit
       IN  /\ lines' = Write(IF folds THEN NewLine(begun) ELSE begun,
                             NamePiece(m), width)
           /\ col' = (IF folds THEN 1 ELSE column) + width
    /\ m' = m + 1
    /\ UNCHANGED <<tags, sigLen, pc, n, rest, unsigned>>

EndNames ==
    /\ pc = "names"
    /\ m > Len(tags[n].fields)
    /\ UNCHANGED lines
    /\ AfterTag
    /\ UNCHANGED <<tags, sigLen, m, rest, col>>

(* Mutants: the fold waits until the line is over the limit; a full line   *)
(* is folded though nothing may follow.                                    *)
Base64_waits ==
    /\ pc = "base64"
    /\ rest > 0
    /\ LET folds  == col > LineLimit
           column == IF folds THEN 1 ELSE col
           room   == LineLimit - column
           chunk  == IF rest < room THEN rest ELSE room
       IN  /\ lines' = IF chunk = 0 THEN lines
                       ELSE Write(IF folds THEN NewLine(lines) ELSE lines, Run, chunk)
           /\ col' = column + chunk
           /\ rest' = rest - chunk
    /\ UNCHANGED <<tags, sigLen, pc, n, m, unsigned>>

Base64_foldsFull ==
    /\ pc = "base64"
    /\ rest > 0
    /\ LET room   == LineLimit - col
           chunk  == IF rest < room THEN rest ELSE room
           filled == Write(lines, Run, chunk)
       IN  /\ lines' = IF chunk = room THEN NewLine(filled) ELSE filled
           /\ col' = IF chunk = room THEN 1 ELSE col + chunk
           /\ rest' = rest - chunk
    /\ UNCHANGED <<tags, sigLen, pc, n, m, unsigned>>

(* One turn of the Base64 loop.                                            *)
Base64 ==
    /\ pc = "base64"
    /\ rest > 0
    /\ LET folds  == col >= LineLimit
           column == IF folds THEN 1 ELSE col
           room   == LineLimit - column
           chunk  == IF rest < room THEN rest ELSE room
       IN  /\ lines' = Write(IF folds THEN NewLine(lines) ELSE lines, Run, chunk)
           /\ col' = column + chunk
           /\ rest' = rest - chunk
    /\ UNCHANGED <<tags, sigLen, pc, n, m, unsigned>>

Next == Separate \/ WriteTag \/ StartNames \/ WriteName \/ EndNames \/ Base64

Spec == Init /\ [][Next]_vars

(* Tag and Base64 are sequential code.                                     *)
FairSpec == Spec /\ WF_vars(Next)
------------------------------------------------------------------------------
(* PROPERTIES *)

Finished == pc = "base64" /\ rest = 0

(* The values the variables may take.                                      *)
TypeOK ==
    /\ pc \in {"separator", "tag", "names", "base64"}
    /\ n \in 1 .. Len(tags)
    /\ m \in Nat \ {0}
    /\ rest \in 0 .. sigLen
    /\ lines \in Seq([width : Nat, text : Seq(Pieces)])
    /\ col \in Nat

(* The folder's column is where the text really stands.  It decides every  *)
(* later fold (folding.go:13-60).                                          *)
ColumnIsTrue == lines[Len(lines)].width = col

(* A line is too long by nothing but one ";", the one after a tag that     *)
(* ends in the last column, as Tag leaves no room for the separator of the *)
(* next one (folding.go:33-46).                                            *)
LineBound ==
    \A l \in DOMAIN lines :
        lines[l].width > LineLimit =>
            /\ lines[l].width = LineLimit + 1
            /\ lines[l].text[Len(lines[l].text)] = Semicolon

(* "The value is folded into lines of at most 78 characters, counting the  *)
(* "DKIM-Signature: " the caller prepends" (sign.go:113).                  *)
WithinLineLimit ==
    \A l \in DOMAIN lines : lines[l].width <= LineLimit

(* No fold leaves a line of whitespace alone (RFC 5322 2.2.3), which a     *)
(* relay may drop and simple canonicalization would miss.                  *)
NoBlankLine ==
    \A l \in 2 .. Len(lines) :
        (l < Len(lines) \/ Finished) =>
            \E j \in DOMAIN lines[l].text : lines[l].text[j] # Space

(* Base64 only adds to what was signed: taking the base64 away again, as   *)
(* RemoveBValue does, gives back valueNoB with all its folds, so simple    *)
(* canonicalization hashes the same bytes at both ends (sign.go:200-215).  *)
SignedTextUnchanged ==
    pc = "base64" =>
        LET at == Len(unsigned)
            u  == unsigned[at].text
        IN  /\ SubSeq(lines, 1, at - 1) = SubSeq(unsigned, 1, at - 1)
            /\ SubSeq(lines[at].text, 1, Len(u)) = u
            /\ \A j \in (Len(u) + 1) .. Len(lines[at].text) : lines[at].text[j] = Run
            /\ \A l \in (at + 1) .. Len(lines) : lines[l].text = <<Run>>

(* The text of lines, but for the whitespace and the signature in it.      *)
Ink(text) == FlattenSeq([j \in DOMAIN text |->
                 IF text[j] \in {Space, Run} THEN <<>> ELSE <<text[j]>>])

Unfolded(ls) == FlattenSeq([l \in DOMAIN ls |-> Ink(ls[l].text)])

(* The first count names of h=, and the first count tags of ts, those in   *)
(* split written name by name.                                             *)
Listing(count) == FlattenSeq([j \in 1 .. count |->
                      IF j = 1 THEN <<NamePiece(j)>> ELSE <<Colon, NamePiece(j)>>])

TagText(ts, t, split) ==
    IF t \in split THEN <<HEquals>> \o Listing(Len(ts[t].fields)) ELSE <<TagPiece(t)>>

Joined(ts, count, split) == FlattenSeq([t \in 1 .. count |->
    IF t = 1 THEN TagText(ts, t, split) ELSE <<Semicolon>> \o TagText(ts, t, split)])

(* Unfolded, the value is the tags in order, h= with every name, joined by *)
(* ";": folding drops, repeats and reorders nothing (folding.go:32-62).    *)
WholeText ==
    Finished => \E split \in SUBSET { t \in DOMAIN tags : tags[t].name = "h" } :
                    Unfolded(lines) = Joined(tags, Len(tags), split)

(* Every signature is written to its end: each turn of Base64 writes at    *)
(* least one character (folding.go:66-76).                                 *)
Terminates == <>Finished
==============================================================================

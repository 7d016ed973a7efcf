---------------------------- MODULE FoldingProofs ----------------------------
(***************************************************************************)
(* For every line limit, first column, tag list and signature length: the  *)
(* folder's column is the true one, and no line is longer than one         *)
(* character over the limit.                                               *)
(*                                                                         *)
(* Finished lines keep the bound because the current one keeps a stronger  *)
(* bound that depends on what is written next (Room): a tag that is        *)
(* written whole has been given its room by Separate, a name of h= leaves  *)
(* room for the colon after it.                                            *)
(***************************************************************************)
EXTENDS Folding, SequenceFacts, SequenceTheorems, TLAPS

LineSet == [width : Nat, text : Seq(Pieces)]
Lines   == Seq(LineSet)

StateOK ==
    /\ pc \in {"separator", "tag", "names", "base64"}
    /\ \E list \in TagLists : tags = Append(list, BTag)
    /\ n \in 1 .. Len(tags)
    /\ n = 1 => pc = "tag"
    /\ m \in Nat \ {0}
    /\ rest \in Nat
    /\ col \in Nat

Bounded(ls, width) ==
    /\ ls \in Lines
    /\ ls # <<>>
    /\ ls[Len(ls)].width = width
    /\ \A l \in 1 .. (Len(ls) - 1) : ls[l].width <= LineLimit + 1

LinesOK == Bounded(lines, col)

Room ==
    /\ col >= 1 /\ col <= LineLimit
    /\ pc = "tag" => col + tags[n].len <= LineLimit \/ (col = 1 /\ n # 1)
    /\ pc = "names" => col <= LineLimit - 1 /\ tags[n].name = "h"

IInv == StateOK /\ LinesOK /\ Room

------------------------------------------------------------------------------
(* What the constants say of any tag being written.                        *)
LEMMA TagsFit ==
    ASSUME NEW list \in TagLists, NEW t \in 1 .. Len(Append(list, BTag))
    PROVE  LET tag == Append(list, BTag)[t] IN
           /\ tag.len \in Nat
           /\ tag.fields \in Seq(1 .. (LineLimit - 2))
           /\ tag.name # "h" => tag.len <= LineLimit - 2
           /\ t = 1 => tag.name # "h" /\ FirstCol + tag.len <= LineLimit
           /\ t = Len(Append(list, BTag)) => tag.name # "h"
  <1>1. list \in Seq(Tags) /\ list # <<>>
    BY TagShape
  <1>2. BTag \in Tags /\ BTag.name # "h" /\ BTag.len <= LineLimit - 2
    BY LimitShape DEF BTag, Tags, TagNames
  <1>3. /\ Len(Append(list, BTag)) = Len(list) + 1
        /\ \A j \in 1 .. Len(list) : Append(list, BTag)[j] = list[j]
        /\ Append(list, BTag)[Len(list) + 1] = BTag
    BY <1>1, <1>2, AppendProperties
  <1>4. CASE t \in 1 .. Len(list)
    <2>1. list[t] \in Tags
      BY <1>1, <1>4
    <2>2. list[t].name # "h" => list[t].len <= LineLimit - 2
      BY <1>1, <1>4, TagShape
    <2>3. list[1].name # "h" /\ FirstCol + list[1].len <= LineLimit
      BY TagShape
    <2> QED BY <1>1, <1>3, <1>4, <2>1, <2>2, <2>3 DEF Tags
  <1>5. CASE t = Len(list) + 1
    <2>1. Len(list) # 0
      BY <1>1
    <2> QED BY <1>1, <1>2, <1>3, <1>5, <2>1 DEF Tags
  <1> QED BY <1>1, <1>3, <1>4, <1>5

(* Writing a piece changes the last line only, and widens it.              *)
LEMMA WriteLine ==
    ASSUME NEW ls \in Lines, ls # <<>>, NEW piece \in Pieces, NEW width \in Nat
    PROVE  /\ Write(ls, piece, width) \in Lines
           /\ Write(ls, piece, width) # <<>>
           /\ Len(Write(ls, piece, width)) = Len(ls)
           /\ Write(ls, piece, width)[Len(ls)].width = ls[Len(ls)].width + width
           /\ Write(ls, piece, width)[Len(ls)].text = Append(ls[Len(ls)].text, piece)
           /\ ls[Len(ls)].text \in Seq(Pieces)
           /\ \A l \in 1 .. (Len(ls) - 1) : Write(ls, piece, width)[l] = ls[l]
  <1> DEFINE new == [width |-> ls[Len(ls)].width + width,
                     text  |-> Append(ls[Len(ls)].text, piece)]
  <1>1. Len(ls) \in 1 .. Len(ls) /\ Len(ls) \in Nat
    BY DEF Lines
  <1>2. ls[Len(ls)] \in LineSet
    BY <1>1 DEF Lines
  <1>3. ls[Len(ls)].width \in Nat /\ ls[Len(ls)].text \in Seq(Pieces)
    BY <1>2 DEF LineSet
  <1>4. Append(ls[Len(ls)].text, piece) \in Seq(Pieces)
    BY <1>3, AppendProperties
  <1>5. /\ new \in LineSet /\ new.width = ls[Len(ls)].width + width
        /\ new.text = Append(ls[Len(ls)].text, piece)
    BY <1>3, <1>4 DEF LineSet
  <1>6. Write(ls, piece, width) = [ls EXCEPT ![Len(ls)] = new]
    BY DEF Write, Line
  <1> HIDE DEF new
  <1>7. [ls EXCEPT ![Len(ls)] = new] \in Seq(LineSet)
    BY <1>1, <1>5 DEF Lines
  <1> QED BY <1>1, <1>3, <1>5, <1>6, <1>7 DEF Lines

(* A fold finishes the last line and opens one of width 1.                 *)
LEMMA NewLineLine ==
    ASSUME NEW ls \in Lines, ls # <<>>
    PROVE  /\ NewLine(ls) \in Lines
           /\ NewLine(ls) # <<>>
           /\ Len(NewLine(ls)) = Len(ls) + 1
           /\ NewLine(ls)[Len(ls) + 1].width = 1
           /\ NewLine(ls)[Len(ls) + 1].text = <<>>
           /\ \A l \in 1 .. Len(ls) : NewLine(ls)[l] = ls[l]
  <1>1. Line(1, <<>>) \in LineSet /\ Line(1, <<>>).width = 1 /\ Line(1, <<>>).text = <<>>
    BY DEF Line, LineSet
  <1> QED BY <1>1, AppendProperties DEF NewLine, Lines

LEMMA PieceTypes ==
    /\ Semicolon \in Pieces /\ Space \in Pieces
    /\ HEquals \in Pieces /\ Colon \in Pieces /\ Run \in Pieces
    /\ \A t \in Nat : TagPiece(t) \in Pieces /\ NamePiece(t) \in Pieces
  BY DEF Pieces, Semicolon, Space, HEquals, Colon, Run, TagPiece, NamePiece

(* The bounds through a write on the current line, and through a fold.     *)
LEMMA WriteKeeps ==
    ASSUME NEW ls, NEW c \in Nat, Bounded(ls, c),
           NEW piece \in Pieces, NEW width \in Nat
    PROVE  Bounded(Write(ls, piece, width), c + width)
  <1>1. /\ ls \in Lines /\ ls # <<>> /\ ls[Len(ls)].width = c
        /\ \A l \in 1 .. (Len(ls) - 1) : ls[l].width <= LineLimit + 1
    BY DEF Bounded
  <1> DEFINE new == Write(ls, piece, width)
  <1>2. /\ new \in Lines /\ new # <<>> /\ Len(new) = Len(ls)
        /\ new[Len(ls)].width = c + width
        /\ \A l \in 1 .. (Len(ls) - 1) : new[l] = ls[l]
    BY <1>1, WriteLine
  <1> HIDE DEF new
  <1>3. Bounded(new, c + width)
    BY <1>1, <1>2 DEF Bounded
  <1> QED BY <1>3 DEF new

LEMMA NewLineKeeps ==
    ASSUME NEW ls, NEW c \in Nat, Bounded(ls, c), c <= LineLimit + 1
    PROVE  Bounded(NewLine(ls), 1)
  <1>1. /\ ls \in Lines /\ ls # <<>> /\ ls[Len(ls)].width = c
        /\ \A l \in 1 .. (Len(ls) - 1) : ls[l].width <= LineLimit + 1
        /\ Len(ls) \in Nat
    BY DEF Bounded, Lines
  <1> DEFINE new == NewLine(ls)
  <1>2. /\ Len(new) = Len(ls) + 1
        /\ new[Len(ls) + 1].width = 1
        /\ \A l \in 1 .. Len(ls) : new[l] = ls[l]
        /\ new \in Lines /\ new # <<>>
    BY <1>1, NewLineLine
  <1> HIDE DEF new
  <1>3. \A l \in 1 .. (Len(new) - 1) : new[l].width <= LineLimit + 1
    <2> SUFFICES ASSUME NEW l \in 1 .. Len(ls) PROVE ls[l].width <= LineLimit + 1
      BY <1>1, <1>2
    <2> QED BY <1>1
  <1>4. Bounded(new, 1)
    BY <1>1, <1>2, <1>3 DEF Bounded
  <1> QED BY <1>4 DEF new

------------------------------------------------------------------------------
LEMMA InitIInv == Init => IInv
  <1> SUFFICES ASSUME Init PROVE IInv
    OBVIOUS
  <1>1. PICK list \in TagLists : tags = Append(list, BTag)
    BY DEF Init
  <1>2. list \in Seq(Tags) /\ list # <<>>
    BY TagShape
  <1>3. Len(list) \in Nat /\ Len(list) # 0
    BY <1>2
  <1>4. Len(tags) = Len(list) + 1
    BY <1>1, <1>2
  <1>5. rest \in Nat /\ FirstCol \in 1 .. LineLimit
    BY LimitShape DEF Init
  <1>6. StateOK
    BY <1>1, <1>3, <1>4, <1>5, LimitShape DEF Init, StateOK
  <1>7. FirstCol + tags[1].len <= LineLimit
    BY <1>1, <1>3, <1>4, TagsFit
  <1>8. Line(FirstCol, <<>>) \in LineSet /\ Line(FirstCol, <<>>).width = FirstCol
    BY <1>5, LimitShape DEF Line, LineSet
  <1>9. LinesOK
    BY <1>8 DEF Init, LinesOK, Bounded, Lines
  <1> QED BY <1>5, <1>6, <1>7, <1>9, LimitShape DEF Init, IInv, Room

(* What is known of the tag being written.                                 *)
LEMMA CurrentTag ==
    ASSUME StateOK
    PROVE  /\ n \in Nat /\ Len(tags) \in Nat
           /\ tags[n].len \in Nat /\ tags[n].fields \in Seq(1 .. (LineLimit - 2))
           /\ tags[n].name # "h" => tags[n].len <= LineLimit - 2
           /\ n = 1 => tags[n].name # "h" /\ FirstCol + tags[n].len <= LineLimit
           /\ n = Len(tags) => tags[n].name # "h"
  <1>1. PICK list \in TagLists : tags = Append(list, BTag)
    BY DEF StateOK
  <1>2. list \in Seq(Tags)
    BY TagShape
  <1>3. Len(tags) = Len(list) + 1 /\ Len(list) \in Nat
    BY <1>1, <1>2
  <1>4. n \in 1 .. Len(Append(list, BTag))
    BY <1>1 DEF StateOK
  <1> QED BY <1>1, <1>3, <1>4, TagsFit

LEMMA SeparateIInv == IInv /\ Separate => IInv'
  <1> SUFFICES ASSUME IInv, Separate PROVE IInv'
    OBVIOUS
  <1> DEFINE ended == Write(lines, Semicolon, 1)
  <1>1. /\ StateOK /\ LinesOK /\ Room /\ col \in Nat /\ LineLimit \in Nat
    BY LimitShape DEF IInv, StateOK
  <1>2. tags[n].len \in Nat
    BY <1>1, CurrentTag
  <1>3. Bounded(ended, col + 1)
    BY <1>1, WriteKeeps, PieceTypes DEF LinesOK
  <1>4. /\ pc' = "tag" /\ UNCHANGED <<tags, sigLen, n, m, rest, unsigned>>
        /\ IF col + 1 + 1 + tags[n].len > LineLimit
           THEN lines' = NewLine(ended) /\ col' = 1
           ELSE lines' = Write(ended, Space, 1) /\ col' = col + 2
    BY DEF Separate
  <1> HIDE DEF ended
  <1>5. StateOK'
    BY <1>1, <1>4 DEF StateOK
  <1>6. CASE col + 1 + 1 + tags[n].len > LineLimit
    <2>1. n # 1
      BY <1>1, <1>6 DEF StateOK, Room, Separate
    <2>2. LinesOK'
      BY <1>1, <1>3, <1>4, <1>6, NewLineKeeps DEF LinesOK, Room
    <2>3. Room'
      BY <1>1, <1>4, <1>6, <2>1 DEF Room
    <2> QED BY <1>5, <2>2, <2>3 DEF IInv
  <1>7. CASE ~(col + 1 + 1 + tags[n].len > LineLimit)
    <2>1. Bounded(Write(ended, Space, 1), (col + 1) + 1)
      BY <1>1, <1>3, WriteKeeps, PieceTypes
    <2>2. LinesOK'
      BY <1>1, <1>4, <1>7, <2>1 DEF LinesOK
    <2>3. Room'
      BY <1>1, <1>2, <1>4, <1>7 DEF Room
    <2> QED BY <1>5, <2>2, <2>3 DEF IInv
  <1> QED BY <1>6, <1>7

(* Going on after a tag, on lines that keep the bounds.                    *)
LEMMA AfterTagIInv ==
    ASSUME IInv, AfterTag, UNCHANGED <<tags, rest>>, m' \in Nat \ {0}, LinesOK',
           col' \in Nat, col' >= 1, col' <= LineLimit
    PROVE  IInv'
  <1>1. StateOK /\ n \in Nat /\ Len(tags) \in Nat
    BY CurrentTag DEF IInv
  <1>2. CASE n < Len(tags)
    <2>1. pc' = "separator" /\ n' = n + 1
      BY <1>2 DEF AfterTag
    <2> QED BY <1>1, <1>2, <2>1 DEF IInv, StateOK, Room
  <1>3. CASE ~(n < Len(tags))
    <2>1. pc' = "base64" /\ n' = n
      BY <1>3 DEF AfterTag
    <2>2. n # 1
      <3>1. PICK list \in TagLists : tags = Append(list, BTag)
        BY <1>1 DEF StateOK
      <3>2. list \in Seq(Tags) /\ list # <<>>
        BY TagShape
      <3>3. Len(tags) > 1
        BY <3>1, <3>2
      <3> QED BY <1>1, <1>3, <3>3
    <2> QED BY <1>1, <2>1, <2>2 DEF IInv, StateOK, Room
  <1> QED BY <1>2, <1>3

LEMMA WriteTagIInv == IInv /\ WriteTag => IInv'
  <1> SUFFICES ASSUME IInv, WriteTag PROVE IInv'
    OBVIOUS
  <1>1. StateOK /\ LinesOK /\ Room /\ col \in Nat /\ n \in Nat /\ m \in Nat \ {0}
    BY CurrentTag DEF IInv, StateOK
  <1>2. /\ tags[n].len \in Nat
        /\ tags[n].name # "h" => tags[n].len <= LineLimit - 2
    BY <1>1, CurrentTag
  <1>3. /\ lines' = Write(lines, TagPiece(n), tags[n].len)
        /\ col' = col + tags[n].len
        /\ UNCHANGED <<tags, sigLen, m, rest>>
        /\ pc = "tag" /\ Fits(tags[n]) /\ AfterTag
    BY DEF WriteTag
  <1>4. LinesOK'
    BY <1>1, <1>2, <1>3, WriteKeeps, PieceTypes, LimitShape DEF LinesOK
  <1>5. col' \in Nat /\ col' >= 1 /\ col' <= LineLimit
    BY <1>1, <1>2, <1>3, LimitShape DEF Room, Fits
  <1> QED BY <1>1, <1>3, <1>4, <1>5, AfterTagIInv

LEMMA StartNamesIInv == IInv /\ StartNames => IInv'
  <1> SUFFICES ASSUME IInv, StartNames PROVE IInv'
    OBVIOUS
  <1>1. StateOK /\ LinesOK /\ Room /\ col \in Nat
    BY DEF IInv, StateOK
  <1>2. tags[n].len \in Nat
    BY <1>1, CurrentTag
  <1>3. /\ lines' = Write(lines, HEquals, 2) /\ col' = col + 2
        /\ pc = "tag" /\ pc' = "names" /\ m' = 1
        /\ tags[n].name = "h" /\ col + tags[n].len > LineLimit
        /\ UNCHANGED <<tags, sigLen, n, rest, unsigned>>
    BY <1>1, <1>2, LimitShape DEF StartNames, Fits
  <1>4. col = 1 /\ n # 1
    BY <1>1, <1>2, <1>3, LimitShape DEF Room
  <1>5. LinesOK'
    BY <1>1, <1>3, WriteKeeps, PieceTypes, LimitShape DEF LinesOK
  <1>6. StateOK'
    BY <1>1, <1>3, <1>4 DEF StateOK
  <1>7. Room'
    BY <1>1, <1>3, <1>4, LimitShape DEF Room
  <1> QED BY <1>5, <1>6, <1>7 DEF IInv

LEMMA WriteNameIInv == IInv /\ WriteName => IInv'
  <1> SUFFICES ASSUME IInv, WriteName PROVE IInv'
    OBVIOUS
  <1> DEFINE width  == tags[n].fields[m]
             begun  == IF m = 1 THEN lines ELSE Write(lines, Colon, 1)
             column == IF m = 1 THEN col ELSE col + 1
             folds  == column + width + 1 > LineLimit
             opened == IF folds THEN NewLine(begun) ELSE begun
             from   == IF folds THEN 1 ELSE column
  <1>1. StateOK /\ LinesOK /\ Room /\ col \in Nat /\ m \in Nat \ {0} /\ LineLimit \in Nat
    BY LimitShape DEF IInv, StateOK
  <1>2. width \in Nat /\ width <= LineLimit - 2
    <2>1. tags[n].fields \in Seq(1 .. (LineLimit - 2))
      BY <1>1, CurrentTag
    <2>2. m \in 1 .. Len(tags[n].fields)
      BY <1>1, <2>1 DEF WriteName
    <2>3. width \in 1 .. (LineLimit - 2)
      BY <2>1, <2>2, ElementOfSeq
    <2> QED BY <1>1, <2>3, LimitShape
  <1>3. /\ lines' = Write(opened, NamePiece(m), width)
        /\ col' = from + width
        /\ m' = m + 1 /\ pc = "names" /\ UNCHANGED <<tags, sigLen, pc, n, rest, unsigned>>
    BY DEF WriteName
  <1>4. col <= LineLimit - 1 /\ tags[n].name = "h"
    BY <1>1, <1>3 DEF Room
  <1>5. Bounded(begun, column)
    BY <1>1, WriteKeeps, PieceTypes DEF LinesOK
  <1>6. column \in Nat /\ column <= LineLimit /\ column >= 1
    BY <1>1, <1>4 DEF Room
  <1> HIDE DEF width, begun, column
  <1>7. Bounded(opened, from)
    BY <1>1, <1>5, <1>6, NewLineKeeps
  <1>8. from \in Nat /\ from >= 1 /\ from + width <= LineLimit - 1
    BY <1>1, <1>2, <1>6, LimitShape
  <1> HIDE DEF opened, from
  <1>9. LinesOK'
    BY <1>1, <1>2, <1>3, <1>7, <1>8, WriteKeeps, PieceTypes DEF LinesOK
  <1>10. StateOK'
    BY <1>1, <1>2, <1>3, <1>8 DEF StateOK
  <1>11. Room'
    BY <1>1, <1>2, <1>3, <1>4, <1>8 DEF Room
  <1> QED BY <1>9, <1>10, <1>11 DEF IInv

LEMMA EndNamesIInv == IInv /\ EndNames => IInv'
  <1> SUFFICES ASSUME IInv, EndNames PROVE IInv'
    OBVIOUS
  <1>1. AfterTag /\ UNCHANGED <<tags, rest>> /\ UNCHANGED <<lines, col, m>>
    BY DEF EndNames
  <1>2. LinesOK' /\ m' \in Nat \ {0}
    BY <1>1 DEF IInv, LinesOK, StateOK
  <1>3. col' \in Nat /\ col' >= 1 /\ col' <= LineLimit
    BY <1>1 DEF IInv, StateOK, Room
  <1> QED BY <1>1, <1>2, <1>3, AfterTagIInv

LEMMA Base64IInv == IInv /\ Base64 => IInv'
  <1> SUFFICES ASSUME IInv, Base64 PROVE IInv'
    OBVIOUS
  <1> DEFINE folds  == col >= LineLimit
             column == IF folds THEN 1 ELSE col
             room   == LineLimit - column
             chunk  == IF rest < room THEN rest ELSE room
             opened == IF folds THEN NewLine(lines) ELSE lines
  <1>1. /\ StateOK /\ LinesOK /\ Room /\ col \in Nat /\ rest \in Nat
        /\ LineLimit \in Nat /\ LineLimit >= 4
    BY LimitShape DEF IInv, StateOK
  <1>2. /\ lines' = Write(opened, Run, chunk)
        /\ col' = column + chunk /\ rest' = rest - chunk /\ rest > 0 /\ pc = "base64"
        /\ UNCHANGED <<tags, sigLen, pc, n, m, unsigned>>
    BY DEF Base64
  <1>3. /\ column \in Nat /\ column >= 1
        /\ chunk \in Nat /\ chunk <= rest /\ column + chunk <= LineLimit
    BY <1>1, <1>2 DEF Room
  <1>4. Bounded(opened, column)
    BY <1>1, NewLineKeeps DEF LinesOK, Room
  <1> HIDE DEF column, chunk, opened
  <1>5. LinesOK'
    BY <1>1, <1>2, <1>3, <1>4, WriteKeeps, PieceTypes DEF LinesOK
  <1>6. StateOK'
    BY <1>1, <1>2, <1>3 DEF StateOK
  <1>7. Room'
    BY <1>1, <1>2, <1>3 DEF Room
  <1> QED BY <1>5, <1>6, <1>7 DEF IInv

LEMMA NextIInv == IInv /\ [Next]_vars => IInv'
  <1>1. IInv /\ UNCHANGED vars => IInv'
    BY DEF vars, IInv, StateOK, LinesOK, Room
  <1> QED BY <1>1, SeparateIInv, WriteTagIInv, StartNamesIInv, WriteNameIInv,
             EndNamesIInv, Base64IInv DEF Next

(* Every reachable state satisfies the inductive invariant.                *)
THEOREM Invariance == Spec => []IInv
  BY InitIInv, NextIInv, PTL DEF Spec

(* The variables keep their types: the base64 loop never writes more than  *)
(* the signature.                                                          *)
THEOREM TypeCorrect == Spec => []TypeOK
  <1> DEFINE Remaining == sigLen \in Nat /\ rest \in 0 .. sigLen
  <1>1. Init => Remaining
    BY LimitShape DEF Init
  <1>2. IInv /\ IInv' /\ Remaining /\ [Next]_vars => Remaining'
    <2> SUFFICES ASSUME IInv, IInv', Remaining, [Next]_vars PROVE Remaining'
      OBVIOUS
    <2>1. rest' \in Nat
      BY DEF IInv, StateOK
    <2>2. CASE Base64
      <3> DEFINE column == IF col >= LineLimit THEN 1 ELSE col
                 room   == LineLimit - column
                 chunk  == IF rest < room THEN rest ELSE room
      <3>1. rest' = rest - chunk /\ sigLen' = sigLen
        BY <2>2 DEF Base64
      <3>2. chunk \in Nat
        <4>1. col \in Nat /\ rest \in Nat /\ LineLimit \in Nat /\ LineLimit >= 4
          BY LimitShape DEF IInv, StateOK
        <4> QED BY <4>1
      <3> HIDE DEF chunk
      <3> QED BY <2>1, <3>1, <3>2
    <2>3. CASE UNCHANGED <<sigLen, rest>>
      BY <2>3
    <2> QED BY <2>2, <2>3
         DEF Next, vars, Separate, WriteTag, StartNames, WriteName, EndNames
  <1>3. IInv /\ Remaining => TypeOK
    BY DEF IInv, StateOK, LinesOK, Bounded, Lines, LineSet, TypeOK
  <1> QED BY <1>1, <1>2, <1>3, Invariance, PTL DEF Spec

(* The folder's column is always the width of its last line.               *)
THEOREM ColumnCorrect == Spec => []ColumnIsTrue
  <1>1. IInv => ColumnIsTrue
    BY DEF IInv, LinesOK, Bounded, ColumnIsTrue
  <1> QED BY <1>1, Invariance, PTL

(* No line is more than one character over the limit.                      *)
LEMMA WithinOne == IInv => \A l \in DOMAIN lines : lines[l].width <= LineLimit + 1
  <1>1. IInv => \A l \in DOMAIN lines : lines[l].width <= LineLimit + 1
    <2> SUFFICES ASSUME IInv, NEW l \in DOMAIN lines
                 PROVE  lines[l].width <= LineLimit + 1
      OBVIOUS
    <2>1. /\ lines \in Lines /\ lines # <<>> /\ lines[Len(lines)].width = col
          /\ col \in Nat /\ col <= LineLimit /\ LineLimit \in Nat
          /\ \A j \in 1 .. (Len(lines) - 1) : lines[j].width <= LineLimit + 1
      BY LimitShape DEF IInv, StateOK, LinesOK, Bounded, Room
    <2>2. l \in 1 .. Len(lines) /\ Len(lines) \in Nat
      BY <2>1 DEF Lines
    <2>3. CASE l = Len(lines)
      BY <2>1, <2>3
    <2>4. CASE l # Len(lines)
      <3>1. l \in 1 .. (Len(lines) - 1)
        BY <2>2, <2>4
      <3> QED BY <2>1, <3>1
    <2> QED BY <2>3, <2>4
  <1> QED BY <1>1
------------------------------------------------------------------------------
(* What the lines say: a line that is finished has more than whitespace on *)
(* it and, if it is over the limit, ends with the separator.               *)
Ended(line) == line.width > LineLimit => line.text[Len(line.text)] = Semicolon
Inked(line) == \E j \in DOMAIN line.text : line.text[j] # Space

Shaped(ls, inked) ==
    /\ ls \in Lines
    /\ ls # <<>>
    /\ \A l \in 1 .. (Len(ls) - 1) : Ended(ls[l]) /\ Inked(ls[l])
    /\ inked => Inked(ls[Len(ls)])

LEMMA ShapedWrite ==
    ASSUME NEW ls, NEW inked \in BOOLEAN, Shaped(ls, inked),
           NEW piece \in Pieces, NEW width \in Nat
    PROVE  /\ Shaped(Write(ls, piece, width), inked \/ piece # Space)
           /\ piece = Semicolon => Ended(Write(ls, piece, width)[Len(Write(ls, piece, width))])
  <1> DEFINE new  == Write(ls, piece, width)
             text == ls[Len(ls)].text
  <1>1. ls \in Lines /\ ls # <<>> /\ Len(ls) \in Nat
    BY DEF Shaped, Lines
  <1>2. /\ new \in Lines /\ new # <<>> /\ Len(new) = Len(ls)
        /\ new[Len(ls)].text = Append(text, piece) /\ text \in Seq(Pieces)
        /\ \A l \in 1 .. (Len(ls) - 1) : new[l] = ls[l]
    BY <1>1, WriteLine
  <1> HIDE DEF new, text
  <1>3. /\ Len(Append(text, piece)) = Len(text) + 1
        /\ \A j \in 1 .. Len(text) : Append(text, piece)[j] = text[j]
        /\ Append(text, piece)[Len(text) + 1] = piece
        /\ DOMAIN Append(text, piece) = 1 .. (Len(text) + 1)
        /\ DOMAIN text = 1 .. Len(text) /\ Len(text) \in Nat
    BY <1>2, AppendProperties
  <1>4. (inked \/ piece # Space) => Inked(new[Len(new)])
    <2>1. CASE piece # Space
      <3>1. Len(text) + 1 \in DOMAIN new[Len(new)].text
        BY <1>2, <1>3
      <3> QED BY <1>2, <1>3, <2>1, <3>1 DEF Inked
    <2>2. CASE inked
      <3>1. PICK j \in DOMAIN text : text[j] # Space
        BY <2>2 DEF Shaped, Inked, text
      <3>2. j \in DOMAIN new[Len(new)].text /\ new[Len(new)].text[j] # Space
        BY <1>2, <1>3, <3>1
      <3> QED BY <3>2 DEF Inked
    <2> QED BY <2>1, <2>2
  <1>5. \A l \in 1 .. (Len(new) - 1) : Ended(new[l]) /\ Inked(new[l])
    BY <1>2 DEF Shaped
  <1>6. piece = Semicolon => Ended(new[Len(new)])
    BY <1>2, <1>3 DEF Ended
  <1> QED BY <1>2, <1>4, <1>5, <1>6 DEF Shaped, new

LEMMA ShapedFold ==
    ASSUME NEW ls, Shaped(ls, TRUE), Ended(ls[Len(ls)])
    PROVE  Shaped(NewLine(ls), FALSE)
  <1> DEFINE new == NewLine(ls)
  <1>1. ls \in Lines /\ ls # <<>> /\ Len(ls) \in Nat
    BY DEF Shaped, Lines
  <1>2. /\ new \in Lines /\ new # <<>> /\ Len(new) = Len(ls) + 1
        /\ \A l \in 1 .. Len(ls) : new[l] = ls[l]
    BY <1>1, NewLineLine
  <1> HIDE DEF new
  <1>3. ASSUME NEW l \in 1 .. (Len(new) - 1) PROVE Ended(new[l]) /\ Inked(new[l])
    <2>1. new[l] = ls[l] /\ (l = Len(ls) \/ l \in 1 .. (Len(ls) - 1))
      BY <1>1, <1>2
    <2> QED BY <2>1 DEF Shaped
  <1> QED BY <1>2, <1>3 DEF Shaped, new

LEMMA ShapedLess ==
    ASSUME NEW ls, NEW inked, Shaped(ls, TRUE)
    PROVE  Shaped(ls, inked)
  BY DEF Shaped

LEMMA NotSpace ==
    /\ Semicolon # Space /\ HEquals # Space /\ Colon # Space /\ Run # Space
    /\ \A t \in Nat : TagPiece(t) # Space /\ NamePiece(t) # Space
  BY DEF Semicolon, Space, HEquals, Colon, Run, TagPiece, NamePiece

(* A line folded within the limit is properly ended.                       *)
LEMMA EndedWithin ==
    ASSUME NEW ls, NEW c \in Nat, Bounded(ls, c), c <= LineLimit
    PROVE  Ended(ls[Len(ls)])
  BY LimitShape DEF Bounded, Ended

(* After Separate folds, the new line is empty until the tag is written.   *)
LinesShaped == Shaped(lines, pc # "tag")

LEMMA InitShaped == Init => LinesShaped
  <1> SUFFICES ASSUME Init PROVE LinesShaped
    OBVIOUS
  <1>1. lines \in Lines /\ lines # <<>> /\ Len(lines) = 1
    BY LimitShape DEF Init, Lines, LineSet, Line
  <1> QED BY <1>1 DEF Init, LinesShaped, Shaped

LEMMA SeparateShaped == IInv /\ LinesShaped /\ Separate => LinesShaped'
  <1> SUFFICES ASSUME IInv, LinesShaped, Separate PROVE LinesShaped'
    OBVIOUS
  <1> DEFINE ended == Write(lines, Semicolon, 1)
  <1>1. /\ pc' = "tag"
        /\ lines' = NewLine(ended) \/ lines' = Write(ended, Space, 1)
    BY DEF Separate
  <1>2. Shaped(lines, TRUE)
    BY DEF LinesShaped, Separate
  <1>3. Shaped(ended, TRUE) /\ Ended(ended[Len(ended)])
    BY <1>2, ShapedWrite, PieceTypes, NotSpace
  <1> HIDE DEF ended
  <1>4. Shaped(NewLine(ended), FALSE)
    BY <1>3, ShapedFold
  <1>5. Shaped(Write(ended, Space, 1), FALSE)
    <2>1. Shaped(ended, FALSE)
      BY <1>3, ShapedLess
    <2> QED BY <2>1, ShapedWrite, PieceTypes
  <1> QED BY <1>1, <1>4, <1>5 DEF LinesShaped

LEMMA WriteNameShaped == IInv /\ LinesShaped /\ WriteName => LinesShaped'
  <1> SUFFICES ASSUME IInv, LinesShaped, WriteName PROVE LinesShaped'
    OBVIOUS
  <1> DEFINE width  == tags[n].fields[m]
             begun  == IF m = 1 THEN lines ELSE Write(lines, Colon, 1)
             column == IF m = 1 THEN col ELSE col + 1
             folds  == column + width + 1 > LineLimit
             opened == IF folds THEN NewLine(begun) ELSE begun
  <1>1. /\ StateOK /\ LinesOK /\ Room /\ col \in Nat /\ m \in Nat /\ LineLimit \in Nat
        /\ Shaped(lines, TRUE) /\ pc' = pc /\ pc = "names"
    BY LimitShape DEF IInv, StateOK, LinesShaped, WriteName
  <1>2. width \in Nat
    <2>1. tags[n].fields \in Seq(1 .. (LineLimit - 2))
      BY <1>1, CurrentTag
    <2>2. m \in 1 .. Len(tags[n].fields)
      BY <1>1, <2>1 DEF WriteName, StateOK
    <2>3. width \in 1 .. (LineLimit - 2)
      BY <2>1, <2>2, ElementOfSeq
    <2> QED BY <2>3
  <1>3. lines' = Write(opened, NamePiece(m), width)
    BY DEF WriteName
  <1>4. Bounded(begun, column) /\ column \in Nat /\ column <= LineLimit
    <2>1. Bounded(begun, column)
      BY <1>1, WriteKeeps, PieceTypes DEF LinesOK
    <2>2. column \in Nat /\ column <= LineLimit
      BY <1>1 DEF Room
    <2> QED BY <2>1, <2>2
  <1>5. Shaped(begun, TRUE)
    BY <1>1, ShapedWrite, PieceTypes
  <1>6. Ended(begun[Len(begun)])
    <2> HIDE DEF begun, column
    <2> QED BY <1>4, EndedWithin
  <1> HIDE DEF begun, folds
  <1>7. Shaped(opened, FALSE)
    BY <1>5, <1>6, ShapedFold, ShapedLess
  <1> HIDE DEF opened, width
  <1>8. Shaped(Write(opened, NamePiece(m), width), TRUE)
    BY <1>1, <1>2, <1>7, ShapedWrite, PieceTypes, NotSpace
  <1> QED BY <1>1, <1>3, <1>8 DEF LinesShaped

LEMMA Base64Shaped == IInv /\ LinesShaped /\ Base64 => LinesShaped'
  <1> SUFFICES ASSUME IInv, LinesShaped, Base64 PROVE LinesShaped'
    OBVIOUS
  <1> DEFINE folds  == col >= LineLimit
             column == IF folds THEN 1 ELSE col
             room   == LineLimit - column
             chunk  == IF rest < room THEN rest ELSE room
             opened == IF folds THEN NewLine(lines) ELSE lines
  <1>1. /\ LinesOK /\ Room /\ col \in Nat /\ rest \in Nat
        /\ LineLimit \in Nat /\ LineLimit >= 4
        /\ Shaped(lines, TRUE) /\ pc' = pc /\ pc = "base64"
    BY LimitShape DEF IInv, StateOK, LinesShaped, Base64
  <1>2. lines' = Write(opened, Run, chunk)
    BY DEF Base64
  <1>3. chunk \in Nat
    BY <1>1 DEF Room
  <1>4. Ended(lines[Len(lines)])
    BY <1>1, EndedWithin DEF LinesOK, Room
  <1> HIDE DEF chunk, folds
  <1>5. Shaped(opened, FALSE)
    BY <1>1, <1>4, ShapedFold, ShapedLess
  <1> HIDE DEF opened
  <1>6. Shaped(Write(opened, Run, chunk), TRUE)
    BY <1>3, <1>5, ShapedWrite, PieceTypes, NotSpace
  <1> QED BY <1>1, <1>2, <1>6 DEF LinesShaped

LEMMA NextShaped == IInv /\ LinesShaped /\ [Next]_vars => LinesShaped'
  <1> SUFFICES ASSUME IInv, LinesShaped, [Next]_vars PROVE LinesShaped'
    OBVIOUS
  <1>1. CASE WriteTag
    <2>1. n \in Nat /\ tags[n].len \in Nat
      BY CurrentTag DEF IInv
    <2>2. Shaped(lines, FALSE)
      BY <1>1 DEF WriteTag, LinesShaped
    <2>3. Shaped(lines', TRUE)
      BY <1>1, <2>1, <2>2, ShapedWrite, PieceTypes, NotSpace DEF WriteTag
    <2> QED BY <2>3, ShapedLess DEF LinesShaped
  <1>2. CASE StartNames
    <2>1. Shaped(lines, FALSE)
      BY <1>2 DEF StartNames, LinesShaped
    <2>2. Shaped(lines', TRUE)
      BY <1>2, <2>1, ShapedWrite, PieceTypes, NotSpace DEF StartNames
    <2> QED BY <2>2, ShapedLess DEF LinesShaped
  <1>3. CASE EndNames
    <2>1. Shaped(lines, TRUE) /\ lines' = lines
      BY <1>3 DEF EndNames, LinesShaped
    <2> QED BY <2>1, ShapedLess DEF LinesShaped
  <1>4. CASE UNCHANGED vars
    BY <1>4 DEF vars, LinesShaped
  <1> QED BY <1>1, <1>2, <1>3, <1>4, SeparateShaped, WriteNameShaped, Base64Shaped DEF Next

THEOREM ShapeInvariance == Spec => []LinesShaped
  BY InitShaped, NextShaped, Invariance, PTL DEF Spec

(* For every limit and every tag list whose unbreakable parts fit a line,  *)
(* a line over the limit is so by one character, the ";" that was written  *)
(* when the tag before it had ended in the last column (folding.go:33-46). *)
THEOREM LinesBounded == Spec => []LineBound
  <1>1. IInv /\ LinesShaped => LineBound
    <2> SUFFICES ASSUME IInv, LinesShaped, NEW l \in DOMAIN lines
                 PROVE  lines[l].width > LineLimit =>
                            lines[l].width = LineLimit + 1 /\ Ended(lines[l])
      BY DEF LineBound, Ended
    <2>1. Ended(lines[Len(lines)])
      BY EndedWithin DEF IInv, StateOK, LinesOK, Room
    <2>2. l = Len(lines) \/ l \in 1 .. (Len(lines) - 1)
      BY DEF LinesShaped, Shaped, Lines
    <2>3. Ended(lines[l])
      BY <2>1, <2>2 DEF LinesShaped, Shaped
    <2>4. lines[l].width <= LineLimit + 1
      BY WithinOne
    <2>5. lines \in Lines
      BY DEF LinesShaped, Shaped
    <2>6. lines[l].width \in Nat
      <3>1. lines[l] \in LineSet
        BY <2>5 DEF Lines
      <3> QED BY <3>1 DEF LineSet
    <2> QED BY <2>3, <2>4, <2>6, LimitShape
  <1> QED BY <1>1, Invariance, ShapeInvariance, PTL

(* No fold leaves a line of whitespace alone, whatever is folded.          *)
THEOREM LinesHaveText == Spec => []NoBlankLine
  <1>1. LinesShaped => NoBlankLine
    <2> SUFFICES ASSUME LinesShaped, NEW l \in 2 .. Len(lines), l < Len(lines) \/ Finished
                 PROVE  Inked(lines[l])
      BY DEF NoBlankLine, Inked
    <2>1. l \in 1 .. (Len(lines) - 1) \/ (l = Len(lines) /\ pc # "tag")
      BY DEF LinesShaped, Shaped, Lines, Finished
    <2> QED BY <2>1 DEF LinesShaped, Shaped
  <1> QED BY <1>1, ShapeInvariance, PTL
------------------------------------------------------------------------------
(* Text written after the signature was computed: base64 on the line it    *)
(* began on and on lines of its own, each begun when the one before was    *)
(* full (done).                                                            *)
SignedBy(ls, us, done) ==
    /\ us \in Lines /\ us # <<>> /\ Len(us) <= Len(ls)
    /\ \A l \in 1 .. (Len(us) - 1) : ls[l] = us[l]
    /\ LET t == ls[Len(us)].text
           u == us[Len(us)].text
       IN  /\ Len(u) <= Len(t)
           /\ \A j \in 1 .. Len(u) : t[j] = u[j]
           /\ \A j \in (Len(u) + 1) .. Len(t) : t[j] = Run
    /\ \A l \in (Len(us) + 1) .. Len(ls) : ls[l].text = <<Run>>
    /\ Len(us) < Len(ls) => done

(* The last line is full, or the signature is at its end.                  *)
Full == rest = 0 \/ col >= LineLimit

Signed == pc = "base64" => SignedBy(lines, unsigned, Full)

(* Nothing is written yet.                                                 *)
LEMMA SignedAtOnce ==
    ASSUME NEW ls \in Lines, ls # <<>>, NEW done
    PROVE  SignedBy(ls, ls, done)
  <1>1. Len(ls) \in Nat /\ ls[Len(ls)].text \in Seq(Pieces)
    <2>1. Len(ls) \in 1 .. Len(ls) /\ ls \in Seq(LineSet)
      BY DEF Lines
    <2>2. ls[Len(ls)] \in LineSet
      BY <2>1
    <2> QED BY <2>1, <2>2 DEF LineSet
  <1> QED BY <1>1 DEF SignedBy

LEMMA AfterTagSigned ==
    ASSUME IInv', AfterTag
    PROVE  Signed'
  <1>1. lines' \in Lines /\ lines' # <<>>
    BY DEF IInv, LinesOK, Bounded
  <1>2. pc' = "base64" => unsigned' = lines'
    BY DEF AfterTag
  <1>3. SignedBy(lines', lines', Full')
    BY <1>1, SignedAtOnce
  <1> QED BY <1>2, <1>3 DEF Signed

(* Base64 on the line the signature began on.                              *)
LEMMA SignedWrite ==
    ASSUME NEW ls \in Lines, ls # <<>>, NEW us, SignedBy(ls, us, FALSE),
           NEW width \in Nat, NEW done
    PROVE  SignedBy(Write(ls, Run, width), us, done)
  <1> DEFINE new == Write(ls, Run, width)
             t   == ls[Len(ls)].text
             u   == us[Len(us)].text
  <1>1. /\ us \in Lines /\ us # <<>> /\ Len(us) = Len(ls) /\ Len(ls) \in Nat
        /\ \A l \in 1 .. (Len(us) - 1) : ls[l] = us[l]
        /\ Len(u) <= Len(t)
        /\ \A j \in 1 .. Len(u) : t[j] = u[j]
        /\ \A j \in (Len(u) + 1) .. Len(t) : t[j] = Run
    <2>1. Len(us) \in Nat /\ Len(ls) \in Nat /\ Len(us) <= Len(ls) /\ ~(Len(us) < Len(ls))
      BY DEF SignedBy, Lines
    <2>2. Len(us) = Len(ls)
      BY <2>1
    <2> QED BY <2>1, <2>2 DEF SignedBy
  <1>2. /\ Len(new) = Len(ls) /\ new[Len(ls)].text = Append(t, Run) /\ t \in Seq(Pieces)
        /\ \A l \in 1 .. (Len(ls) - 1) : new[l] = ls[l]
    BY WriteLine, PieceTypes
  <1>3. u \in Seq(Pieces)
    <2>1. Len(us) \in 1 .. Len(us)
      BY <1>1 DEF Lines
    <2>2. us[Len(us)] \in LineSet
      BY <1>1, <2>1 DEF Lines
    <2> QED BY <2>2 DEF LineSet
  <1> HIDE DEF new, t, u
  <1>4. /\ Len(Append(t, Run)) = Len(t) + 1 /\ Len(t) \in Nat /\ Len(u) \in Nat
        /\ \A j \in 1 .. Len(t) : Append(t, Run)[j] = t[j]
        /\ Append(t, Run)[Len(t) + 1] = Run
    BY <1>2, <1>3, PieceTypes, AppendProperties
  <1>5. /\ Len(u) <= Len(Append(t, Run))
        /\ \A j \in 1 .. Len(u) : Append(t, Run)[j] = u[j]
        /\ \A j \in (Len(u) + 1) .. Len(Append(t, Run)) : Append(t, Run)[j] = Run
    BY <1>1, <1>4
  <1> QED BY <1>1, <1>2, <1>5 DEF SignedBy, new, u

(* Base64 on a line of its own.                                            *)
LEMMA SignedFold ==
    ASSUME NEW ls \in Lines, ls # <<>>, NEW us, SignedBy(ls, us, TRUE), NEW width \in Nat
    PROVE  SignedBy(Write(NewLine(ls), Run, width), us, TRUE)
  <1> DEFINE mid == NewLine(ls)
             new == Write(mid, Run, width)
  <1>1. /\ us \in Lines /\ us # <<>> /\ Len(us) \in Nat /\ Len(ls) \in Nat
        /\ Len(us) # 0 /\ Len(us) <= Len(ls)
    BY DEF SignedBy, Lines
  <1>2. /\ mid \in Lines /\ mid # <<>> /\ Len(mid) = Len(ls) + 1 /\ mid[Len(ls) + 1].text = <<>>
        /\ \A l \in 1 .. Len(ls) : mid[l] = ls[l]
    BY NewLineLine
  <1>3. /\ Len(new) = Len(mid) /\ new[Len(mid)].text = Append(mid[Len(mid)].text, Run)
        /\ \A l \in 1 .. (Len(mid) - 1) : new[l] = mid[l]
    <2> HIDE DEF mid
    <2> QED BY <1>2, WriteLine, PieceTypes
  <1> HIDE DEF mid, new
  <1>4. Append(<<>>, Run) = <<Run>>
    OBVIOUS
  <1>5. /\ Len(new) = Len(ls) + 1 /\ new[Len(ls) + 1].text = <<Run>>
        /\ \A l \in 1 .. Len(ls) : new[l] = ls[l]
    <2>1. Len(new) = Len(ls) + 1 /\ new[Len(ls) + 1].text = Append(<<>>, Run)
      BY <1>2, <1>3
    <2>2. ASSUME NEW l \in 1 .. Len(ls) PROVE new[l] = ls[l]
      <3>1. l \in 1 .. (Len(mid) - 1)
        BY <1>1, <1>2
      <3>2. new[l] = mid[l] /\ mid[l] = ls[l]
        BY <1>2, <1>3, <3>1
      <3> QED BY <3>2
    <2> QED BY <1>4, <2>1, <2>2
  <1>6. ASSUME NEW l \in (Len(us) + 1) .. Len(new) PROVE new[l].text = <<Run>>
    <2>1. CASE l = Len(ls) + 1
      BY <1>5, <2>1
    <2>2. CASE l # Len(ls) + 1
      <3>1. l \in (Len(us) + 1) .. Len(ls) /\ l \in 1 .. Len(ls)
        BY <1>1, <1>5, <2>2
      <3> QED BY <1>5, <3>1 DEF SignedBy
    <2> QED BY <2>1, <2>2
  <1>7. new[Len(us)] = ls[Len(us)] /\ Len(us) <= Len(new)
        /\ \A l \in 1 .. (Len(us) - 1) : new[l] = us[l]
    BY <1>1, <1>5 DEF SignedBy
  <1> QED BY <1>1, <1>6, <1>7 DEF SignedBy, new, mid

LEMMA Base64Signed == IInv /\ Signed /\ Base64 => Signed'
  <1> SUFFICES ASSUME IInv, Signed, Base64 PROVE Signed'
    OBVIOUS
  <1> DEFINE folds  == col >= LineLimit
             column == IF folds THEN 1 ELSE col
             room   == LineLimit - column
             chunk  == IF rest < room THEN rest ELSE room
             opened == IF folds THEN NewLine(lines) ELSE lines
  <1>1. /\ LinesOK /\ Room /\ col \in Nat /\ rest \in Nat /\ rest > 0
        /\ LineLimit \in Nat /\ LineLimit >= 4
        /\ SignedBy(lines, unsigned, Full)
    BY LimitShape DEF IInv, StateOK, Signed, Base64
  <1>2. /\ lines' = Write(opened, Run, chunk) /\ col' = column + chunk /\ rest' = rest - chunk
        /\ unsigned' = unsigned
    BY DEF Base64
  <1>3. lines \in Lines /\ lines # <<>>
    BY <1>1 DEF LinesOK, Bounded
  <1>4. chunk \in Nat /\ Full'
    BY <1>1, <1>2 DEF Room, Full
  <1> HIDE DEF chunk
  <1>5. CASE folds
    <2>1. SignedBy(lines, unsigned, TRUE)
      BY <1>1 DEF SignedBy
    <2>2. SignedBy(lines', unsigned, TRUE)
      BY <1>2, <1>3, <1>4, <1>5, <2>1, SignedFold
    <2> QED BY <1>2, <1>4, <2>2 DEF Signed, SignedBy
  <1>6. CASE ~folds
    <2>1. SignedBy(lines, unsigned, FALSE)
      <3>1. ~Full
        BY <1>1, <1>6 DEF Full
      <3> QED BY <1>1, <3>1 DEF SignedBy
    <2>2. SignedBy(lines', unsigned, Full')
      BY <1>2, <1>3, <1>4, <1>6, <2>1, SignedWrite
    <2> QED BY <1>2, <2>2 DEF Signed
  <1> QED BY <1>5, <1>6

THEOREM SignedInvariance == Spec => []Signed
  <1>1. Init => Signed
    BY DEF Init, Signed
  <1>2. IInv /\ IInv' /\ Signed /\ [Next]_vars => Signed'
    <2> SUFFICES ASSUME IInv, IInv', Signed, [Next]_vars PROVE Signed'
      OBVIOUS
    <2>1. CASE WriteTag
      BY <2>1, AfterTagSigned DEF WriteTag
    <2>2. CASE EndNames
      BY <2>2, AfterTagSigned DEF EndNames
    <2>3. CASE Separate \/ StartNames \/ WriteName
      BY <2>3 DEF Separate, StartNames, WriteName, Signed
    <2>4. CASE UNCHANGED vars
      BY <2>4 DEF vars, Signed, Full
    <2> QED BY <2>1, <2>2, <2>3, <2>4, Base64Signed DEF Next
  <1> QED BY <1>1, <1>2, Invariance, PTL DEF Spec

(* Taking the base64 away gives back, fold by fold, the value the          *)
(* signature was computed over, for every limit and every length of        *)
(* signature (sign.go:200-215).                                            *)
THEOREM SignedTextKept == Spec => []SignedTextUnchanged
  <1>1. Signed => SignedTextUnchanged
    <2> DEFINE at == Len(unsigned)
               u  == unsigned[at].text
               t  == lines[at].text
    <2> SUFFICES ASSUME Signed, pc = "base64"
                 PROVE  /\ SubSeq(lines, 1, at - 1) = SubSeq(unsigned, 1, at - 1)
                        /\ SubSeq(t, 1, Len(u)) = u
                        /\ \A j \in (Len(u) + 1) .. Len(t) : t[j] = Run
                        /\ \A l \in (at + 1) .. Len(lines) : lines[l].text = <<Run>>
      BY DEF SignedTextUnchanged
    <2>1. /\ unsigned \in Lines /\ at \in Nat /\ at # 0
          /\ \A l \in 1 .. (at - 1) : lines[l] = unsigned[l]
          /\ \A j \in 1 .. Len(u) : t[j] = u[j]
          /\ \A j \in (Len(u) + 1) .. Len(t) : t[j] = Run
          /\ \A l \in (at + 1) .. Len(lines) : lines[l].text = <<Run>>
      BY DEF Signed, SignedBy, Lines
    <2>2. u \in Seq(Pieces)
      <3>1. at \in 1 .. Len(unsigned) /\ unsigned \in Seq(LineSet)
        BY <2>1 DEF Lines
      <3>2. unsigned[at] \in LineSet
        BY <3>1
      <3> QED BY <3>2 DEF LineSet
    <2>3. SubSeq(lines, 1, at - 1) = SubSeq(unsigned, 1, at - 1)
      <3>1. \A l \in 1 .. (at - 1) : unsigned[l] \in LineSet /\ lines[l] \in LineSet
        BY <2>1 DEF Lines
      <3>2. /\ SubSeq(unsigned, 1, at - 1) \in Seq(LineSet)
            /\ Len(SubSeq(unsigned, 1, at - 1)) = IF 1 <= at - 1 THEN (at - 1) - 1 + 1 ELSE 0
            /\ \A l \in 1 .. ((at - 1) - 1 + 1) :
                  SubSeq(unsigned, 1, at - 1)[l] = unsigned[1 + l - 1]
        BY <2>1, <3>1, SubSeqProperties
      <3>3. /\ SubSeq(lines, 1, at - 1) \in Seq(LineSet)
            /\ Len(SubSeq(lines, 1, at - 1)) = IF 1 <= at - 1 THEN (at - 1) - 1 + 1 ELSE 0
            /\ \A l \in 1 .. ((at - 1) - 1 + 1) :
                  SubSeq(lines, 1, at - 1)[l] = lines[1 + l - 1]
        BY <2>1, <3>1, SubSeqProperties
      <3> QED BY <2>1, <3>2, <3>3, SeqEqual
    <2>4. SubSeq(t, 1, Len(u)) = u
      <3> HIDE DEF u, t
      <3>1. Len(u) \in Nat /\ \A j \in 1 .. Len(u) : u[j] \in Pieces /\ t[j] \in Pieces
        BY <2>1, <2>2
      <3>2. /\ SubSeq(t, 1, Len(u)) \in Seq(Pieces)
            /\ Len(SubSeq(t, 1, Len(u))) = IF 1 <= Len(u) THEN Len(u) - 1 + 1 ELSE 0
            /\ \A j \in 1 .. (Len(u) - 1 + 1) : SubSeq(t, 1, Len(u))[j] = t[1 + j - 1]
        BY <3>1, SubSeqProperties
      <3> QED BY <2>1, <2>2, <3>1, <3>2, SeqEqual
    <2> QED BY <2>1, <2>3, <2>4
  <1> QED BY <1>1, SignedInvariance, PTL
------------------------------------------------------------------------------
(* The text of lines and of tags, one piece, one name, one tag at a time.  *)
InkOf(piece) == IF piece \in {Space, Run} THEN <<>> ELSE <<piece>>

LEMMA InkType ==
    ASSUME NEW text \in Seq(Pieces)
    PROVE  Ink(text) \in Seq(Pieces)
  <1> DEFINE parts == [j \in 1 .. Len(text) |-> InkOf(text[j])]
  <1>1. Len(text) \in Nat /\ DOMAIN text = 1 .. Len(text)
    OBVIOUS
  <1>2. parts \in [1 .. Len(text) -> Seq(Pieces)]
    BY DEF InkOf
  <1>3. Ink(text) = FlattenSeq(parts)
    BY <1>1 DEF Ink, InkOf
  <1> HIDE DEF parts
  <1> QED BY <1>1, <1>2, <1>3, FlattenType

LEMMA InkAppend ==
    ASSUME NEW text \in Seq(Pieces), NEW piece \in Pieces
    PROVE  Ink(Append(text, piece)) = Ink(text) \o InkOf(piece)
  <1> DEFINE N     == Len(text)
             all   == Append(text, piece)
             parts == [j \in 1 .. (N + 1) |-> InkOf(all[j])]
             front == [j \in 1 .. N |-> InkOf(text[j])]
  <1>1. /\ N \in Nat /\ DOMAIN text = 1 .. N /\ DOMAIN all = 1 .. (N + 1)
        /\ \A j \in 1 .. N : all[j] = text[j]
        /\ all[N + 1] = piece /\ all \in Seq(Pieces)
    BY AppendProperties
  <1> HIDE DEF N, all
  <1>2. parts \in [1 .. (N + 1) -> Seq(Pieces)]
    <2>1. ASSUME NEW j \in 1 .. (N + 1) PROVE all[j] \in Pieces
      BY <1>1
    <2> QED BY <2>1 DEF InkOf
  <1>3. front = [j \in 1 .. N |-> parts[j]] /\ parts[N + 1] = InkOf(piece)
    BY <1>1
  <1>4. Ink(text) = FlattenSeq(front) /\ Ink(all) = FlattenSeq(parts)
    BY <1>1 DEF Ink, InkOf
  <1> HIDE DEF parts, front
  <1>5. FlattenSeq(parts) = FlattenSeq(front) \o parts[N + 1]
    BY <1>1, <1>2, <1>3, FlattenStep
  <1> QED BY <1>3, <1>4, <1>5 DEF all

LEMMA LineText ==
    ASSUME NEW ls \in Lines, NEW l \in 1 .. Len(ls)
    PROVE  ls[l].text \in Seq(Pieces)
  <1>1. ls[l] \in LineSet
    BY DEF Lines
  <1> QED BY <1>1 DEF LineSet

(* The text of lines is that of all but the last, then that of the last.   *)
LEMMA UnfoldedLast ==
    ASSUME NEW ls \in Lines, ls # <<>>, NEW front,
           front = [l \in 1 .. (Len(ls) - 1) |-> Ink(ls[l].text)]
    PROVE  /\ Unfolded(ls) = FlattenSeq(front) \o Ink(ls[Len(ls)].text)
           /\ FlattenSeq(front) \in Seq(Pieces)
           /\ Ink(ls[Len(ls)].text) \in Seq(Pieces)
  <1> DEFINE N     == Len(ls) - 1
             parts == [l \in 1 .. (N + 1) |-> Ink(ls[l].text)]
  <1>1. N \in Nat /\ Len(ls) = N + 1 /\ DOMAIN ls = 1 .. (N + 1)
    BY DEF Lines
  <1> HIDE DEF N
  <1>2. \A l \in 1 .. (N + 1) : Ink(ls[l].text) \in Seq(Pieces)
    BY <1>1, LineText, InkType
  <1>3. parts \in [1 .. (N + 1) -> Seq(Pieces)]
    BY <1>2
  <1>4. front = [l \in 1 .. N |-> parts[l]] /\ parts[N + 1] = Ink(ls[Len(ls)].text)
    BY <1>1 DEF N
  <1>5. front \in [1 .. N -> Seq(Pieces)]
    <2>1. front = [l \in 1 .. N |-> Ink(ls[l].text)]
      BY DEF N
    <2> QED BY <1>1, <1>2, <2>1
  <1>6. Unfolded(ls) = FlattenSeq(parts)
    BY <1>1 DEF Unfolded
  <1> HIDE DEF parts
  <1>7. FlattenSeq(parts) = FlattenSeq(front) \o parts[N + 1]
    BY <1>1, <1>3, <1>4, FlattenStep
  <1>8. FlattenSeq(front) \in Seq(Pieces)
    BY <1>1, <1>5, FlattenType
  <1>9. Ink(ls[Len(ls)].text) \in Seq(Pieces)
    <2>1. Len(ls) \in 1 .. (N + 1)
      BY <1>1
    <2> QED BY <1>2, <2>1
  <1> QED BY <1>4, <1>6, <1>7, <1>8, <1>9

LEMMA UnfoldedWrite ==
    ASSUME NEW ls \in Lines, ls # <<>>, NEW piece \in Pieces, NEW width \in Nat
    PROVE  /\ Unfolded(Write(ls, piece, width)) = Unfolded(ls) \o InkOf(piece)
           /\ Unfolded(ls) \in Seq(Pieces)
  <1> DEFINE new   == Write(ls, piece, width)
             text  == ls[Len(ls)].text
             front == [l \in 1 .. (Len(ls) - 1) |-> Ink(ls[l].text)]
             early == [l \in 1 .. (Len(new) - 1) |-> Ink(new[l].text)]
  <1>1. /\ new \in Lines /\ new # <<>> /\ Len(new) = Len(ls)
        /\ new[Len(ls)].text = Append(text, piece) /\ text \in Seq(Pieces)
        /\ \A l \in 1 .. (Len(ls) - 1) : new[l] = ls[l]
    BY WriteLine
  <1> HIDE DEF new
  <1>2. early = front
    BY <1>1
  <1>3. /\ Unfolded(ls) = FlattenSeq(front) \o Ink(text)
        /\ FlattenSeq(front) \in Seq(Pieces) /\ Ink(text) \in Seq(Pieces)
    BY UnfoldedLast
  <1>4. Unfolded(new) = FlattenSeq(early) \o Ink(new[Len(new)].text)
    BY <1>1, UnfoldedLast
  <1> HIDE DEF early, front, text
  <1>5. Ink(new[Len(new)].text) = Ink(text) \o InkOf(piece)
    BY <1>1, InkAppend
  <1>6. InkOf(piece) \in Seq(Pieces)
    BY DEF InkOf
  <1>7. FlattenSeq(front) \o (Ink(text) \o InkOf(piece))
          = (FlattenSeq(front) \o Ink(text)) \o InkOf(piece)
    <2> DEFINE x == FlattenSeq(front)
               y == Ink(text)
               w == InkOf(piece)
    <2>1. x \in Seq(Pieces) /\ y \in Seq(Pieces) /\ w \in Seq(Pieces)
      BY <1>3, <1>6
    <2> HIDE DEF x, y, w
    <2> QED BY ONLY <2>1, ConcatAssociative
  <1>8. Unfolded(ls) \in Seq(Pieces)
    BY <1>3, ConcatProperties
  <1> QED BY <1>2, <1>3, <1>4, <1>5, <1>7, <1>8 DEF new

LEMMA UnfoldedFold ==
    ASSUME NEW ls \in Lines, ls # <<>>
    PROVE  Unfolded(NewLine(ls)) = Unfolded(ls)
  <1> DEFINE new   == NewLine(ls)
             front == [l \in 1 .. Len(ls) |-> Ink(ls[l].text)]
             early == [l \in 1 .. (Len(new) - 1) |-> Ink(new[l].text)]
  <1>1. /\ new \in Lines /\ new # <<>> /\ Len(new) = Len(ls) + 1 /\ Len(ls) \in Nat
        /\ new[Len(ls) + 1].text = <<>> /\ DOMAIN ls = 1 .. Len(ls)
        /\ \A l \in 1 .. Len(ls) : new[l] = ls[l]
    BY NewLineLine DEF Lines
  <1> HIDE DEF new
  <1>2. early = front
    BY <1>1
  <1>3. Unfolded(ls) = FlattenSeq(front)
    BY <1>1 DEF Unfolded
  <1>4. /\ Unfolded(new) = FlattenSeq(early) \o Ink(new[Len(new)].text)
        /\ FlattenSeq(early) \in Seq(Pieces)
    BY <1>1, UnfoldedLast
  <1> HIDE DEF early, front
  <1>5. Ink(new[Len(new)].text) = <<>>
    <2>1. [j \in 1 .. 0 |-> InkOf(<<>>[j])] = <<>>
      OBVIOUS
    <2>2. Ink(<<>>) = <<>>
      BY FlattenEmpty DEF Ink
    <2> QED BY <1>1, <2>2
  <1>6. FlattenSeq(early) \o <<>> = FlattenSeq(early)
    BY <1>4, ConcatEmptySeq
  <1> QED BY <1>2, <1>3, <1>4, <1>5, <1>6 DEF new

LEMMA ListingNext ==
    ASSUME NEW c \in Nat
    PROVE  /\ Listing(c) \in Seq(Pieces)
           /\ Listing(c + 1) = Listing(c) \o
                 (IF c = 0 THEN <<NamePiece(c + 1)>> ELSE <<Colon, NamePiece(c + 1)>>)
  <1> DEFINE part(j) == IF j = 1 THEN <<NamePiece(j)>> ELSE <<Colon, NamePiece(j)>>
             parts == [j \in 1 .. (c + 1) |-> part(j)]
             front == [j \in 1 .. c |-> part(j)]
  <1>1. \A j \in Nat : part(j) \in Seq(Pieces)
    BY PieceTypes
  <1>2. Listing(c + 1) = FlattenSeq(parts) /\ Listing(c) = FlattenSeq(front)
    BY DEF Listing
  <1>3. part(c + 1) = IF c = 0 THEN <<NamePiece(c + 1)>> ELSE <<Colon, NamePiece(c + 1)>>
    OBVIOUS
  <1> HIDE DEF part
  <1>4. parts \in [1 .. (c + 1) -> Seq(Pieces)] /\ front \in [1 .. c -> Seq(Pieces)]
    BY <1>1
  <1>5. front = [j \in 1 .. c |-> parts[j]] /\ parts[c + 1] = part(c + 1)
    OBVIOUS
  <1> HIDE DEF parts, front
  <1>6. FlattenSeq(parts) = FlattenSeq(front) \o parts[c + 1]
    BY <1>4, <1>5, FlattenStep
  <1>7. FlattenSeq(front) \in Seq(Pieces)
    BY <1>4, FlattenType
  <1> QED BY <1>2, <1>3, <1>5, <1>6, <1>7

LEMMA TagTextType ==
    ASSUME NEW ts, NEW t \in Nat, NEW split, Len(ts[t].fields) \in Nat
    PROVE  TagText(ts, t, split) \in Seq(Pieces)
  <1>1. Listing(Len(ts[t].fields)) \in Seq(Pieces)
    BY ListingNext
  <1>2. <<HEquals>> \in Seq(Pieces) /\ <<TagPiece(t)>> \in Seq(Pieces)
    BY PieceTypes
  <1>3. <<HEquals>> \o Listing(Len(ts[t].fields)) \in Seq(Pieces)
    BY <1>1, <1>2, ConcatProperties
  <1> QED BY <1>2, <1>3 DEF TagText

(* What precedes the text of tag c + 1.                                    *)
Separated(ts, c, split) == Joined(ts, c, split) \o (IF c = 0 THEN <<>> ELSE <<Semicolon>>)

LEMMA JoinedNext ==
    ASSUME NEW ts, NEW c \in Nat, NEW split, \A t \in 1 .. (c + 1) : Len(ts[t].fields) \in Nat
    PROVE  /\ Joined(ts, c, split) \in Seq(Pieces)
           /\ Joined(ts, c + 1, split) = Separated(ts, c, split) \o TagText(ts, c + 1, split)
           /\ c = 0 => Joined(ts, c, split) = <<>>
  <1> DEFINE part(t) == IF t = 1 THEN TagText(ts, t, split)
                        ELSE <<Semicolon>> \o TagText(ts, t, split)
             parts == [t \in 1 .. (c + 1) |-> part(t)]
             front == [t \in 1 .. c |-> part(t)]
             text  == TagText(ts, c + 1, split)
  <1>1. \A t \in 1 .. (c + 1) : TagText(ts, t, split) \in Seq(Pieces)
    BY TagTextType
  <1>2. <<Semicolon>> \in Seq(Pieces)
    BY PieceTypes
  <1>3. \A t \in 1 .. (c + 1) : part(t) \in Seq(Pieces)
    BY <1>1, <1>2, ConcatProperties
  <1>4. Joined(ts, c + 1, split) = FlattenSeq(parts) /\ Joined(ts, c, split) = FlattenSeq(front)
    BY DEF Joined
  <1>5. part(c + 1) = IF c = 0 THEN text ELSE <<Semicolon>> \o text
    OBVIOUS
  <1> HIDE DEF part
  <1>6. parts \in [1 .. (c + 1) -> Seq(Pieces)] /\ front \in [1 .. c -> Seq(Pieces)]
    BY <1>3
  <1>7. front = [t \in 1 .. c |-> parts[t]] /\ parts[c + 1] = part(c + 1)
    OBVIOUS
  <1>8. c = 0 => front = <<>>
    OBVIOUS
  <1> HIDE DEF parts, front
  <1>9. FlattenSeq(parts) = FlattenSeq(front) \o part(c + 1)
    BY <1>6, <1>7, FlattenStep
  <1>10. FlattenSeq(front) \in Seq(Pieces) /\ text \in Seq(Pieces)
    BY <1>1, <1>6, FlattenType
  <1>11. CASE c = 0
    <2>1. FlattenSeq(front) = <<>>
      BY <1>8, <1>11, FlattenEmpty
    <2> QED BY <1>4, <1>5, <1>9, <1>10, <1>11, <2>1 DEF Separated
  <1>12. CASE c # 0
    <2> HIDE DEF text
    <2>1. FlattenSeq(front) \o (<<Semicolon>> \o text) = (FlattenSeq(front) \o <<Semicolon>>) \o text
      BY <1>2, <1>10, ConcatAssociative
    <2> QED BY <1>4, <1>5, <1>9, <1>10, <1>12, <2>1 DEF Separated, text
  <1> QED BY <1>11, <1>12

(* Which tags after c are split does not matter to the first c.            *)
LEMMA JoinedSame ==
    ASSUME NEW ts, NEW c \in Nat, NEW split, NEW other,
           \A t \in 1 .. c : t \in split <=> t \in other
    PROVE  Joined(ts, c, split) = Joined(ts, c, other)
  <1>1. \A t \in 1 .. c : TagText(ts, t, split) = TagText(ts, t, other)
    BY DEF TagText
  <1> QED BY <1>1 DEF Joined
LEMMA InkPieces ==
    /\ InkOf(Space) = <<>> /\ InkOf(Run) = <<>>
    /\ InkOf(Semicolon) = <<Semicolon>> /\ InkOf(HEquals) = <<HEquals>>
    /\ InkOf(Colon) = <<Colon>>
    /\ \A t \in Nat : InkOf(TagPiece(t)) = <<TagPiece(t)>> /\ InkOf(NamePiece(t)) = <<NamePiece(t)>>
  BY DEF InkOf, Semicolon, Space, HEquals, Colon, Run, TagPiece, NamePiece

(* What the folder has written when it stands at name j of tag k, and      *)
(* which of the tags before it may have been split.                        *)
TextAt(ts, phase, k, j, split) ==
    IF phase = "separator" THEN Joined(ts, k - 1, split)
    ELSE IF phase = "tag" THEN Separated(ts, k - 1, split)
    ELSE IF phase = "names"
         THEN Separated(ts, k - 1, split) \o (<<HEquals>> \o Listing(j - 1))
    ELSE Joined(ts, k, split)

SplitBefore(ts, k, split) ==
    /\ split \in SUBSET { t \in DOMAIN ts : ts[t].name = "h" }
    /\ \A t \in split : t < k

Written ==
    /\ \E split : /\ SplitBefore(tags, IF pc = "base64" THEN n + 1 ELSE n, split)
                  /\ Unfolded(lines) = TextAt(tags, pc, n, m, split)
    /\ pc = "base64" => n = Len(tags)
    /\ pc = "names" => m <= Len(tags[n].fields) + 1

LEMMA TagFields ==
    ASSUME StateOK
    PROVE  \A t \in 1 .. Len(tags) : Len(tags[t].fields) \in Nat
  <1> SUFFICES ASSUME NEW t \in 1 .. Len(tags) PROVE Len(tags[t].fields) \in Nat
    OBVIOUS
  <1>1. PICK list \in TagLists : tags = Append(list, BTag)
    BY DEF StateOK
  <1>2. tags[t].fields \in Seq(1 .. (LineLimit - 2))
    BY <1>1, TagsFit
  <1> QED BY <1>2

LEMMA AfterTagWritten ==
    ASSUME StateOK, AfterTag, tags' = tags, NEW split, SplitBefore(tags, n + 1, split),
           Unfolded(lines') = Joined(tags, n, split)
    PROVE  Written'
  <1>1. n \in 1 .. Len(tags) /\ Len(tags) \in Nat
    BY CurrentTag DEF StateOK
  <1>2. CASE n < Len(tags)
    <2>1. pc' = "separator" /\ n' = n + 1
      BY <1>2 DEF AfterTag
    <2>2. TextAt(tags', pc', n', m', split) = Joined(tags, n, split)
      BY <1>1, <2>1 DEF TextAt
    <2> QED BY <2>1, <2>2 DEF Written
  <1>3. CASE ~(n < Len(tags))
    <2>1. pc' = "base64" /\ n' = n /\ n = Len(tags)
      BY <1>1, <1>3 DEF AfterTag
    <2>2. TextAt(tags', pc', n', m', split) = Joined(tags, n, split)
      BY <2>1 DEF TextAt
    <2> QED BY <2>1, <2>2 DEF Written
  <1> QED BY <1>2, <1>3

LEMMA InitWritten == Init => Written
  <1> SUFFICES ASSUME Init PROVE Written
    OBVIOUS
  <1>1. pc = "tag" /\ n = 1 /\ lines = <<Line(FirstCol, <<>>)>>
    BY DEF Init
  <1>2. Unfolded(lines) = <<>>
    <2>1. Ink(<<>>) = <<>>
      <3>1. [j \in 1 .. 0 |-> InkOf(<<>>[j])] = <<>>
        OBVIOUS
      <3> QED BY FlattenEmpty DEF Ink
    <2> DEFINE ls    == <<Line(FirstCol, <<>>)>>
               front == [l \in 1 .. (Len(ls) - 1) |-> Ink(ls[l].text)]
    <2>2. ls \in Lines /\ ls # <<>> /\ Len(ls) = 1 /\ ls[1].text = <<>>
      BY LimitShape DEF Lines, LineSet, Line
    <2>3. front = <<>>
      BY <2>2
    <2> HIDE DEF ls
    <2>4. Unfolded(ls) = FlattenSeq(front) \o Ink(ls[Len(ls)].text)
      BY <2>2, UnfoldedLast
    <2> HIDE DEF front
    <2> QED BY <1>1, <2>1, <2>2, <2>3, <2>4, FlattenEmpty DEF ls
  <1>3. Separated(tags, 0, {}) = <<>>
    <2>1. [t \in 1 .. 0 |-> IF t = 1 THEN TagText(tags, t, {})
                           ELSE <<Semicolon>> \o TagText(tags, t, {})] = <<>>
      OBVIOUS
    <2>2. Joined(tags, 0, {}) = <<>>
      BY <2>1, FlattenEmpty DEF Joined
    <2> QED BY <2>2 DEF Separated
  <1>4. TextAt(tags, pc, n, m, {}) = <<>>
    BY <1>1, <1>3 DEF TextAt
  <1>5. SplitBefore(tags, n, {})
    BY DEF SplitBefore
  <1> QED BY <1>1, <1>2, <1>4, <1>5 DEF Written

LEMMA SeparateWritten == IInv /\ Written /\ Separate => Written'
  <1> SUFFICES ASSUME IInv, Written, Separate PROVE Written'
    OBVIOUS
  <1> DEFINE ended == Write(lines, Semicolon, 1)
  <1>1. /\ pc = "separator" /\ pc' = "tag" /\ tags' = tags /\ n' = n /\ m' = m
        /\ lines' = NewLine(ended) \/ lines' = Write(ended, Space, 1)
    BY DEF Separate
  <1>2. n \in Nat /\ n >= 2 /\ lines \in Lines /\ lines # <<>>
    BY <1>1 DEF IInv, StateOK, LinesOK, Bounded
  <1>3. PICK split : SplitBefore(tags, n, split) /\ Unfolded(lines) = Joined(tags, n - 1, split)
    BY <1>1 DEF Written, TextAt
  <1>4. ended \in Lines /\ ended # <<>>
    BY <1>2, WriteLine, PieceTypes
  <1>5. /\ Unfolded(ended) = Unfolded(lines) \o <<Semicolon>>
        /\ Unfolded(lines) \in Seq(Pieces)
    <2>1. /\ Unfolded(ended) = Unfolded(lines) \o InkOf(Semicolon)
          /\ Unfolded(lines) \in Seq(Pieces)
      BY <1>2, UnfoldedWrite, PieceTypes
    <2> QED BY <2>1, InkPieces
  <1> HIDE DEF ended
  <1>6. Unfolded(lines') = Unfolded(ended)
    <2>1. CASE lines' = NewLine(ended)
      BY <1>4, <2>1, UnfoldedFold
    <2>2. CASE lines' = Write(ended, Space, 1)
      <3>1. /\ Unfolded(Write(ended, Space, 1)) = Unfolded(ended) \o InkOf(Space)
            /\ Unfolded(ended) \in Seq(Pieces)
        BY <1>4, UnfoldedWrite, PieceTypes
      <3> QED BY <2>2, <3>1, InkPieces, ConcatEmptySeq
    <2> QED BY <1>1, <2>1, <2>2
  <1>7. Unfolded(lines') = Separated(tags, n - 1, split)
    BY <1>2, <1>3, <1>5, <1>6 DEF Separated
  <1> QED BY <1>1, <1>3, <1>7 DEF Written, TextAt

LEMMA WriteTagWritten == IInv /\ Written /\ WriteTag => Written'
  <1> SUFFICES ASSUME IInv, Written, WriteTag PROVE Written'
    OBVIOUS
  <1>1. /\ pc = "tag" /\ AfterTag /\ tags' = tags /\ StateOK
        /\ lines' = Write(lines, TagPiece(n), tags[n].len)
    BY DEF WriteTag, IInv
  <1>2. /\ n \in Nat /\ n >= 1 /\ n <= Len(tags) /\ lines \in Lines /\ lines # <<>>
        /\ tags[n].len \in Nat /\ Len(tags) \in Nat
    BY CurrentTag DEF IInv, StateOK, LinesOK, Bounded
  <1>3. PICK split : SplitBefore(tags, n, split) /\ Unfolded(lines) = Separated(tags, n - 1, split)
    BY <1>1 DEF Written, TextAt
  <1>4. Unfolded(lines') = Unfolded(lines) \o <<TagPiece(n)>>
    BY <1>1, <1>2, UnfoldedWrite, PieceTypes, InkPieces
  <1>5. TagText(tags, n, split) = <<TagPiece(n)>>
    <2>1. n \notin split
      BY <1>2, <1>3 DEF SplitBefore
    <2> QED BY <2>1 DEF TagText
  <1>6. Joined(tags, n, split) = Separated(tags, n - 1, split) \o TagText(tags, n, split)
    <2>1. n - 1 \in Nat /\ (n - 1) + 1 = n /\ \A t \in 1 .. n : Len(tags[t].fields) \in Nat
      BY <1>1, <1>2, TagFields
    <2> QED BY <2>1, JoinedNext
  <1>7. SplitBefore(tags, n + 1, split)
    <2>1. ASSUME NEW t \in split PROVE t < n + 1
      <3>1. t \in DOMAIN tags /\ t < n
        BY <1>3 DEF SplitBefore
      <3>2. t \in Nat
        <4>1. PICK list \in TagLists : tags = Append(list, BTag)
          BY <1>1 DEF StateOK
        <4>2. list \in Seq(Tags)
          BY TagShape
        <4>3. DOMAIN tags = 1 .. (Len(list) + 1) /\ Len(list) \in Nat
          BY <4>1, <4>2
        <4> QED BY <3>1, <4>3
      <3> QED BY <1>2, <3>1, <3>2
    <2> QED BY <1>3, <2>1 DEF SplitBefore
  <1> QED BY <1>1, <1>3, <1>4, <1>5, <1>6, <1>7, AfterTagWritten

LEMMA StartNamesWritten == IInv /\ Written /\ StartNames => Written'
  <1> SUFFICES ASSUME IInv, Written, StartNames PROVE Written'
    OBVIOUS
  <1>1. /\ pc = "tag" /\ pc' = "names" /\ m' = 1 /\ n' = n /\ tags' = tags /\ StateOK
        /\ lines' = Write(lines, HEquals, 2)
    BY DEF StartNames, IInv
  <1>2. n \in 1 .. Len(tags) /\ lines \in Lines /\ lines # <<>>
    BY DEF IInv, StateOK, LinesOK, Bounded
  <1>3. PICK split : SplitBefore(tags, n, split) /\ Unfolded(lines) = Separated(tags, n - 1, split)
    BY <1>1 DEF Written, TextAt
  <1>4. Unfolded(lines') = Unfolded(lines) \o <<HEquals>>
    <2>1. Unfolded(Write(lines, HEquals, 2)) = Unfolded(lines) \o InkOf(HEquals)
      BY <1>2, UnfoldedWrite, PieceTypes
    <2> QED BY <1>1, <2>1, InkPieces
  <1>5. <<HEquals>> \o Listing(m' - 1) = <<HEquals>>
    <2>1. [j \in 1 .. 0 |-> IF j = 1 THEN <<NamePiece(j)>> ELSE <<Colon, NamePiece(j)>>] = <<>>
      OBVIOUS
    <2>2. Listing(0) = <<>>
      BY <2>1, FlattenEmpty DEF Listing
    <2>3. m' - 1 = 0
      BY <1>1
    <2>4. <<HEquals>> \o <<>> = <<HEquals>>
      BY PieceTypes, ConcatEmptySeq
    <2> QED BY <2>2, <2>3, <2>4
  <1>6. Len(tags[n].fields) \in Nat
    BY <1>1, <1>2, TagFields
  <1>7. m' <= Len(tags'[n'].fields) + 1
    BY <1>1, <1>6
  <1>8. TextAt(tags', pc', n', m', split) = Unfolded(lines')
    BY <1>1, <1>3, <1>4, <1>5 DEF TextAt
  <1> QED BY <1>1, <1>3, <1>7, <1>8 DEF Written
LEMMA WriteNameWritten == IInv /\ Written /\ WriteName => Written'
  <1> SUFFICES ASSUME IInv, Written, WriteName PROVE Written'
    OBVIOUS
  <1> DEFINE width  == tags[n].fields[m]
             begun  == IF m = 1 THEN lines ELSE Write(lines, Colon, 1)
             column == IF m = 1 THEN col ELSE col + 1
             folds  == column + width + 1 > LineLimit
             opened == IF folds THEN NewLine(begun) ELSE begun
  <1>1. /\ pc = "names" /\ pc' = "names" /\ m' = m + 1 /\ n' = n /\ tags' = tags
        /\ m <= Len(tags[n].fields) /\ lines' = Write(opened, NamePiece(m), width)
    BY DEF WriteName
  <1>2. /\ n \in 1 .. Len(tags) /\ m \in Nat /\ m >= 1 /\ lines \in Lines /\ lines # <<>>
        /\ tags[n].fields \in Seq(1 .. (LineLimit - 2)) /\ LineLimit \in Nat
    BY CurrentTag, LimitShape DEF IInv, StateOK, LinesOK, Bounded
  <1>3. width \in Nat /\ Len(tags[n].fields) \in Nat
    <2>1. m \in 1 .. Len(tags[n].fields)
      BY <1>1, <1>2
    <2>2. tags[n].fields[m] \in 1 .. (LineLimit - 2)
      BY <1>2, <2>1
    <2> QED BY <1>2, <2>2
  <1>4. PICK split : /\ SplitBefore(tags, n, split)
                     /\ Unfolded(lines) = Separated(tags, n - 1, split)
                                              \o (<<HEquals>> \o Listing(m - 1))
    BY <1>1 DEF Written, TextAt
  <1> DEFINE before == Separated(tags, n - 1, split)
             so     == <<HEquals>> \o Listing(m - 1)
             more   == IF m = 1 THEN <<>> ELSE <<Colon>>
  <1>5. before \in Seq(Pieces) /\ so \in Seq(Pieces) /\ more \in Seq(Pieces)
        /\ Listing(m - 1) \in Seq(Pieces) /\ <<HEquals>> \in Seq(Pieces)
        /\ <<NamePiece(m)>> \in Seq(Pieces)
    <2>1. Joined(tags, n - 1, split) \in Seq(Pieces)
      <3>1. n - 1 \in Nat /\ (n - 1) + 1 = n /\ \A t \in 1 .. n : Len(tags[t].fields) \in Nat
        BY <1>2, TagFields DEF IInv
      <3> QED BY <3>1, JoinedNext
    <2>2. /\ <<Semicolon>> \in Seq(Pieces) /\ <<HEquals>> \in Seq(Pieces)
          /\ more \in Seq(Pieces) /\ <<NamePiece(m)>> \in Seq(Pieces)
      BY <1>2, PieceTypes
    <2>3. Listing(m - 1) \in Seq(Pieces)
      <3>1. m - 1 \in Nat
        BY <1>2
      <3> QED BY <3>1, ListingNext
    <2>4. so \in Seq(Pieces)
      BY <2>2, <2>3, ConcatProperties
    <2>5. before \in Seq(Pieces)
      BY <2>1, <2>2, ConcatProperties, ConcatEmptySeq DEF Separated
    <2> QED BY <2>2, <2>3, <2>4, <2>5
  <1> HIDE DEF column, folds, width
  <1>6. /\ begun \in Lines /\ begun # <<>>
        /\ Unfolded(begun) = Unfolded(lines) \o more
    <2>1. CASE m = 1
      <3>1. Unfolded(lines) \in Seq(Pieces)
        BY <1>2, <1>3, UnfoldedWrite, PieceTypes
      <3>2. Unfolded(lines) \o <<>> = Unfolded(lines)
        BY <3>1, ConcatEmptySeq
      <3> QED BY <1>2, <2>1, <3>2
    <2>2. CASE m # 1
      <3>1. begun = Write(lines, Colon, 1) /\ more = InkOf(Colon)
        BY <2>2, InkPieces
      <3>2. Write(lines, Colon, 1) \in Lines /\ Write(lines, Colon, 1) # <<>>
        BY <1>2, WriteLine, PieceTypes
      <3>3. Unfolded(Write(lines, Colon, 1)) = Unfolded(lines) \o InkOf(Colon)
        BY <1>2, UnfoldedWrite, PieceTypes
      <3> QED BY <3>1, <3>2, <3>3
    <2> QED BY <2>1, <2>2
  <1> HIDE DEF begun
  <1>7. opened \in Lines /\ opened # <<>> /\ Unfolded(opened) = Unfolded(begun)
    BY <1>6, NewLineLine, UnfoldedFold
  <1> HIDE DEF opened
  <1>8. Unfolded(lines') = Unfolded(opened) \o <<NamePiece(m)>>
    <2>1. NamePiece(m) \in Pieces /\ InkOf(NamePiece(m)) = <<NamePiece(m)>>
      BY <1>2, PieceTypes, InkPieces
    <2>2. Unfolded(Write(opened, NamePiece(m), width)) = Unfolded(opened) \o InkOf(NamePiece(m))
      BY <1>3, <1>7, <2>1, UnfoldedWrite
    <2> QED BY <1>1, <2>1, <2>2
  <1>9. Listing(m) = Listing(m - 1) \o (more \o <<NamePiece(m)>>)
    <2>1. m - 1 \in Nat /\ (m - 1) + 1 = m
      BY <1>2
    <2>2. Listing(m) = Listing(m - 1) \o
              (IF m - 1 = 0 THEN <<NamePiece(m)>> ELSE <<Colon, NamePiece(m)>>)
      BY <2>1, ListingNext
    <2>3. CASE m = 1
      <3>1. <<>> \o <<NamePiece(m)>> = <<NamePiece(m)>>
        BY <1>5, ConcatEmptySeq
      <3> QED BY <2>2, <2>3, <3>1
    <2>4. CASE m # 1
      <3>1. <<Colon>> \o <<NamePiece(m)>> = <<Colon, NamePiece(m)>>
        BY <1>2, PieceTypes, PairOf
      <3>2. m - 1 # 0 /\ more = <<Colon>>
        BY <1>2, <2>4
      <3> HIDE DEF more
      <3> QED BY ONLY <2>2, <3>1, <3>2
    <2> QED BY <2>3, <2>4
  <1> DEFINE listing == Listing(m - 1)
             name    == <<NamePiece(m)>>
             h       == <<HEquals>>
  <1>10. Unfolded(lines') = before \o (h \o Listing(m))
    <2>1. Unfolded(lines') = ((before \o (h \o listing)) \o more) \o name
      BY <1>4, <1>6, <1>7, <1>8
    <2>2. /\ before \in Seq(Pieces) /\ listing \in Seq(Pieces) /\ more \in Seq(Pieces)
          /\ name \in Seq(Pieces) /\ h \in Seq(Pieces) /\ Listing(m) = listing \o (more \o name)
      BY <1>5, <1>9
    <2> HIDE DEF before, listing, more, name, h
    <2>3. Then(Then(Then(before, Then(h, listing)), more), name)
              = Then(before, Then(h, Then(listing, Then(more, name))))
      BY <2>2, Regroup
    <2> QED BY <2>1, <2>2, <2>3 DEF Then
  <1>11. TextAt(tags', pc', n', m', split) = before \o (h \o Listing(m))
    <2>1. m' - 1 = m
      BY <1>1, <1>2
    <2> QED BY <1>1, <2>1 DEF TextAt
  <1>12. m' <= Len(tags'[n'].fields) + 1
    BY <1>1, <1>2, <1>3
  <1> HIDE DEF before, h
  <1> QED BY <1>1, <1>4, <1>10, <1>11, <1>12 DEF Written

LEMMA EndNamesWritten == IInv /\ Written /\ EndNames => Written'
  <1> SUFFICES ASSUME IInv, Written, EndNames PROVE Written'
    OBVIOUS
  <1>1. /\ pc = "names" /\ AfterTag /\ tags' = tags /\ StateOK /\ lines' = lines
        /\ m > Len(tags[n].fields) /\ tags[n].name = "h"
    BY DEF EndNames, IInv, Room
  <1>2. n \in 1 .. Len(tags) /\ n \in Nat /\ m \in Nat /\ Len(tags) \in Nat
    BY CurrentTag DEF IInv, StateOK
  <1>3. m - 1 = Len(tags[n].fields)
    <2>1. Len(tags[n].fields) \in Nat /\ m <= Len(tags[n].fields) + 1
      BY <1>1, <1>2, TagFields DEF Written
    <2> QED BY <1>1, <1>2, <2>1
  <1>4. PICK split : /\ SplitBefore(tags, n, split)
                     /\ Unfolded(lines) = Separated(tags, n - 1, split)
                                              \o (<<HEquals>> \o Listing(m - 1))
    BY <1>1 DEF Written, TextAt
  <1> DEFINE with == split \cup {n}
  <1>5. Joined(tags, n - 1, with) = Joined(tags, n - 1, split)
    <2>1. \A t \in 1 .. (n - 1) : t \in with <=> t \in split
      BY <1>2
    <2>2. n - 1 \in Nat
      BY <1>2
    <2> QED BY <2>1, <2>2, JoinedSame
  <1>6. TagText(tags, n, with) = <<HEquals>> \o Listing(m - 1)
    BY <1>3 DEF TagText
  <1>7. Joined(tags, n, with) = Separated(tags, n - 1, with) \o TagText(tags, n, with)
    <2>1. n - 1 \in Nat /\ (n - 1) + 1 = n /\ \A t \in 1 .. n : Len(tags[t].fields) \in Nat
      BY <1>1, <1>2, TagFields
    <2> HIDE DEF with
    <2> QED BY <2>1, JoinedNext
  <1>8. Separated(tags, n - 1, with) = Separated(tags, n - 1, split)
    BY <1>5 DEF Separated
  <1>9. SplitBefore(tags, n + 1, with)
    <2>1. DOMAIN tags = 1 .. Len(tags)
      <3>1. PICK list \in TagLists : tags = Append(list, BTag)
        BY <1>1 DEF StateOK
      <3>2. list \in Seq(Tags)
        BY TagShape
      <3> QED BY <3>1, <3>2
    <2>2. split \subseteq 1 .. Len(tags) /\ \A t \in split : t < n
      BY <1>4, <2>1 DEF SplitBefore
    <2>3. \A t \in with : t < n + 1
      BY <1>2, <2>2
    <2> QED BY <1>1, <1>2, <1>4, <2>1, <2>3 DEF SplitBefore
  <1> HIDE DEF with
  <1> QED BY <1>1, <1>4, <1>6, <1>7, <1>8, <1>9, AfterTagWritten

LEMMA Base64Written == IInv /\ Written /\ Base64 => Written'
  <1> SUFFICES ASSUME IInv, Written, Base64 PROVE Written'
    OBVIOUS
  <1> DEFINE folds  == col >= LineLimit
             column == IF folds THEN 1 ELSE col
             room   == LineLimit - column
             chunk  == IF rest < room THEN rest ELSE room
             opened == IF folds THEN NewLine(lines) ELSE lines
  <1>1. /\ pc = "base64" /\ pc' = pc /\ n' = n /\ tags' = tags
        /\ lines' = Write(opened, Run, chunk)
    BY DEF Base64
  <1>2. /\ lines \in Lines /\ lines # <<>> /\ col \in Nat /\ rest \in Nat
        /\ LineLimit \in Nat /\ LineLimit >= 4 /\ col <= LineLimit
    BY LimitShape DEF IInv, StateOK, LinesOK, Bounded, Room
  <1>3. chunk \in Nat
    BY <1>2
  <1> HIDE DEF folds, chunk
  <1>4. opened \in Lines /\ opened # <<>> /\ Unfolded(opened) = Unfolded(lines)
    BY <1>2, NewLineLine, UnfoldedFold
  <1> HIDE DEF opened
  <1>5. Unfolded(lines') = Unfolded(lines)
    <2>1. /\ Unfolded(Write(opened, Run, chunk)) = Unfolded(opened) \o InkOf(Run)
          /\ Unfolded(opened) \in Seq(Pieces)
      BY <1>3, <1>4, UnfoldedWrite, PieceTypes
    <2> QED BY <1>1, <1>4, <2>1, InkPieces, ConcatEmptySeq
  <1>6. PICK split : SplitBefore(tags, n + 1, split) /\ Unfolded(lines) = Joined(tags, n, split)
    BY <1>1 DEF Written, TextAt
  <1>7. TextAt(tags', pc', n', m', split) = Joined(tags, n, split)
    BY <1>1 DEF TextAt
  <1>8. n = Len(tags)
    BY <1>1 DEF Written
  <1> QED BY <1>1, <1>5, <1>6, <1>7, <1>8 DEF Written

THEOREM WrittenInvariance == Spec => []Written
  <1>1. IInv /\ Written /\ [Next]_vars => Written'
    <2>1. CASE UNCHANGED vars
      BY <2>1 DEF vars, Written
    <2> QED BY <2>1, SeparateWritten, WriteTagWritten, StartNamesWritten, WriteNameWritten,
               EndNamesWritten, Base64Written DEF Next
  <1> QED BY <1>1, InitWritten, Invariance, PTL DEF Spec

(* A finished value says its tags and nothing else, whatever the folds:    *)
(* nothing is dropped, repeated or reordered by one (folding.go:32-62).    *)
THEOREM TextIsWhole == Spec => []WholeText
  <1>1. Written => WholeText
    <2> SUFFICES ASSUME Written, Finished
                 PROVE  \E split \in SUBSET { t \in DOMAIN tags : tags[t].name = "h" } :
                            Unfolded(lines) = Joined(tags, Len(tags), split)
      BY DEF WholeText
    <2>1. pc = "base64" /\ n = Len(tags)
      BY DEF Written, Finished
    <2>2. PICK split : SplitBefore(tags, n + 1, split) /\ Unfolded(lines) = Joined(tags, n, split)
      BY <2>1 DEF Written, TextAt
    <2> QED BY <2>1, <2>2 DEF SplitBefore
  <1> QED BY <1>1, WrittenInvariance, PTL
==============================================================================

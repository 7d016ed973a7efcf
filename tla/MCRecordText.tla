---------------------------- MODULE MCRecordText ----------------------------
(***************************************************************************)
(* Every list of up to six of the characters that decide, every list of up *)
(* to four of all classes, and longer ones with three segments, some of    *)
(* them published as records in strings of three characters.               *)
(***************************************************************************)
EXTENDS RecordText

MCSextet  == [ch \in {"b", "v", "B", "7", "/"} |->
                CASE ch = "b" -> 27 [] ch = "v" -> 47 [] ch = "B" -> 1
                  [] ch = "7" -> 59 [] ch = "/" -> 63]

Deciding  == {";", "=", "b", " ", "v"}
Classes   == Deciding \cup {"7", "CRLF", "!", "NUL", "VT"}

Pieces    == { << "b", "=" >>, << " ", "b", " ", "=", "v", "b", "=", "=", " " >>,
               << "B", "=", "v" >>, << " " >>, << >>, << "v", "7", "=", "NUL" >>,
               << "v", "=", "b", "7", CRLF, " ", "v", "/", "7", "=" >>,
               << "b", "7", "=", " ", "v", "=", "b" >> }

Three == { Join(parts, ";") : parts \in [1 .. 3 -> Pieces] }

MCTexts   == SeqOf(Deciding, 6) \cup SeqOf(Classes, 4) \cup Three
MCRecords == SeqOf(Deciding, 3) \cup Three
=============================================================================

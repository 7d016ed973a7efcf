------------------------------- MODULE TagList -------------------------------
(***************************************************************************)
(* A tag=value list character by character: ParseTagListStrict, and on a   *)
(* list it takes, RemoveBValue, each with its own walk over the segments.  *)
(* The signature the verifier checks is the b= of the first walk; what it  *)
(* hashes is what the second leaves.  They must mean the same tag.         *)
(***************************************************************************)
EXTENDS WireText

CONSTANTS Alpha,         \* letters
          AlnumPunc,     \* digits and "_": in a tag name, not at its start
          Unprintable,   \* what no tag value may hold
          OtherSpace,    \* Unicode whitespace that is not FWS
          Texts          \* the lists considered

Semicolon == ";"

(* The characters of a name are neither whitespace nor delimiters, and     *)
(* folding whitespace may stand in a value.                                *)
ASSUME CharacterClasses ==
    /\ (Alpha \cup AlnumPunc) \cap (FWS \cup {Semicolon, "="}) = {}
    /\ Unprintable \cap FWS = {}

ASSUME TextsAreSequences == \A s \in Texts : s \in Seq(ToSet(s))

VARIABLES text,
          pc,            \* "strict", "refused", "blank" or "done"; the stages before
                         \* "strict" are those of RecordText
          i,             \* where the next segment starts
          tags,          \* out of ParseTagListStrict
          out            \* b of RemoveBValue

vars == <<text, pc, i, tags, out>>

TrimFWS(s) == Trim(s, FWS)

(* The segment that starts at p, and its two sides of the first "=".       *)
SegmentAt(s, p) == SubSeq(s, p, IndexFrom(s, p, Semicolon) - 1)
HasEquals(seg)  == Contains(seg, "=")
KeyOf(seg)      == TrimFWS(SubSeq(seg, 1, IndexFrom(seg, 1, "=") - 1))
ValueOf(seg)    == TrimFWS(SubSeq(seg, IndexFrom(seg, 1, "=") + 1, Len(seg)))

(* Mutant: a digit may begin a tag name.                                   *)
validTagName_digit(name) == name # <<>> /\ ToSet(name) \subseteq Alpha \cup AlnumPunc

validTagName(name) ==
    name # <<>> /\ name[1] \in Alpha /\ ToSet(name) \subseteq Alpha \cup AlnumPunc

validTagValue(value) == ToSet(value) \cap Unprintable = {}

nonFWSSpace(s) == ToSet(s) \cap OtherSpace # {}

Put(f, key, value) == [k \in DOMAIN f \cup {key} |-> IF k = key THEN value ELSE f[k]]
------------------------------------------------------------------------------
Init ==
    /\ text \in Texts
    /\ pc = "strict" /\ i = 1
    /\ tags = <<>> /\ out = <<>>

Segment == SegmentAt(text, i)
Advance == i' = IndexFrom(text, i, Semicolon) + 1

RefuseSpace ==
    /\ pc = "strict" /\ i = 1
    /\ nonFWSSpace(text)
    /\ pc' = "refused"
    /\ UNCHANGED <<text, i, tags, out>>

(* strings.Split has a last segment behind a ";" that ends the text.       *)
Parsing == pc = "strict" /\ ~nonFWSSpace(text) /\ i <= Len(text) + 1

IgnoreSegment ==
    /\ Parsing
    /\ ~HasEquals(Segment) /\ TrimFWS(Segment) = <<>>
    /\ Advance
    /\ UNCHANGED <<text, pc, tags, out>>

RefuseSegment ==
    /\ Parsing
    /\ IF HasEquals(Segment)
       THEN \/ ~validTagName(KeyOf(Segment))
            \/ KeyOf(Segment) \in DOMAIN tags
            \/ ~validTagValue(ValueOf(Segment))
       ELSE TrimFWS(Segment) # <<>>
    /\ pc' = "refused"
    /\ UNCHANGED <<text, i, tags, out>>

TakeTag ==
    /\ Parsing
    /\ HasEquals(Segment)
    /\ validTagName(KeyOf(Segment)) /\ validTagValue(ValueOf(Segment))
    /\ KeyOf(Segment) \notin DOMAIN tags
    /\ tags' = Put(tags, KeyOf(Segment), ValueOf(Segment))
    /\ Advance
    /\ UNCHANGED <<text, pc, out>>

Accept ==
    /\ pc = "strict" /\ ~nonFWSSpace(text) /\ i > Len(text) + 1
    /\ pc' = "blank" /\ i' = 1
    /\ UNCHANGED <<text, tags, out>>

(* Mutant: the name is compared with its whitespace.                       *)
IsB_untrimmed(seg) ==
    HasEquals(seg) /\ SubSeq(seg, 1, IndexFrom(seg, 1, "=") - 1) = << "b" >>

IsB(seg) == HasEquals(seg) /\ KeyOf(seg) = << "b" >>

(* One turn of RemoveBValue's loop.                                        *)
Blank ==
    /\ pc = "blank" /\ i <= Len(text)
    /\ LET kept  == IF IsB(Segment) THEN SubSeq(Segment, 1, IndexFrom(Segment, 1, "="))
                    ELSE Segment
           delim == IF IndexFrom(text, i, Semicolon) > Len(text) THEN <<>> ELSE <<Semicolon>>
       IN  out' = out \o kept \o delim
    /\ Advance
    /\ UNCHANGED <<text, pc, tags>>

Finish ==
    /\ pc = "blank" /\ i > Len(text)
    /\ pc' = "done"
    /\ UNCHANGED <<text, i, tags, out>>

Next == \/ RefuseSpace \/ IgnoreSegment \/ RefuseSegment \/ TakeTag \/ Accept
        \/ Blank \/ Finish

Spec == Init /\ [][Next]_vars
------------------------------------------------------------------------------
(* The two other readers of a list. *)

Starts(s) == {1} \cup { p + 1 : p \in { q \in DOMAIN s : s[q] = Semicolon } }

Tagged(s) ==
    { p \in Starts(s) : HasEquals(SegmentAt(s, p)) /\ KeyOf(SegmentAt(s, p)) # <<>> }

(* ParseTagList: the last tag of a name wins.                              *)
ParseTagList(s) ==
    LET named(k) == { p \in Tagged(s) : KeyOf(SegmentAt(s, p)) = k }
    IN  [k \in { KeyOf(SegmentAt(s, p)) : p \in Tagged(s) } |->
            ValueOf(SegmentAt(s, Max(named(k))))]

(* Mutant: an empty first segment is taken for the first tag.              *)
FirstTagName_head(s) == KeyOf(SegmentAt(s, 1))

FirstTagName(s) ==
    LET solid == { p \in Starts(s) : TrimFWS(SegmentAt(s, p)) # <<>> }
    IN  IF solid = {} \/ ~HasEquals(SegmentAt(s, Min(solid))) THEN <<>>
        ELSE KeyOf(SegmentAt(s, Min(solid)))
------------------------------------------------------------------------------
(* PROPERTIES *)

Accepted == pc \in {"blank", "done"}

(* The grammar of RFC 6376 3.2 on a stretch p..q of the text: whitespace,  *)
(* a name, whitespace, "=", a value; and the name.                         *)
IsSpace(p, q) == \A r \in p .. q : text[r] \in FWS

IsTagSpec(p, q, name) ==
    \E a \in p .. q, e \in p .. q :
        LET z == a + Len(name) - 1 IN
        /\ z < e /\ text[e] = "="
        /\ IsSpace(p, a - 1) /\ SubSeq(text, a, z) = name /\ IsSpace(z + 1, e - 1)
        /\ text[a] \in Alpha
        /\ \A r \in a .. z : text[r] \in Alpha \cup AlnumPunc
        /\ \A r \in (e + 1) .. q : text[r] \notin Unprintable

NamesIn(p, q) == { name \in { SubSeq(text, a, z) : a, z \in p .. q } \ {<<>>} :
                     IsTagSpec(p, q, name) }

WellFormed ==
    LET end(p) == IndexFrom(text, p, Semicolon) - 1 IN
    /\ \A p \in DOMAIN text : text[p] \notin OtherSpace
    /\ \A p \in Starts(text) : IsSpace(p, end(p)) \/ NamesIn(p, end(p)) # {}
    /\ \A p, q \in Starts(text) :
          p # q => NamesIn(p, end(p)) \cap NamesIn(q, end(q)) = {}

(* The strict parser takes exactly the lists of the grammar without a name *)
(* twice (grammar.go:31-56), and reads a tag for each name.                *)
AcceptsTheGrammar ==
    /\ pc = "refused" => ~WellFormed
    /\ Accepted => /\ WellFormed
                   /\ DOMAIN tags = UNION { NamesIn(p, IndexFrom(text, p, Semicolon) - 1) :
                                              p \in Starts(text) }

(* What RemoveBValue leaves out of the hash is the value the parser took   *)
(* for the signature, nothing before it or behind it, and everything else  *)
(* is hashed as it came (canon.go:190-221).                                *)
SignatureIsWhatIsBlanked ==
    pc = "done" =>
        IF << "b" >> \notin DOMAIN tags THEN out = text
        ELSE \E p, q \in 0 .. Len(text) :
                /\ p > 0 /\ text[p] = "="
                /\ q = Len(text) \/ text[q + 1] = Semicolon
                /\ TrimFWS(SubSeq(text, p + 1, q)) = tags[<< "b" >>]
                /\ out = SubSeq(text, 1, p) \o SubSeq(text, q + 1, Len(text))

(* The other readers of a list that verification accepts see what it saw:  *)
(* a caller of the lenient parser the same tags (grammar.go:12-29), the    *)
(* version test of a key record, which walks the text again, the tag the   *)
(* record begins with (grammar.go:271-289, keyrecord.go:78).               *)
ReadersAgree ==
    Accepted =>
        /\ ParseTagList(text) = tags
        /\ tags # <<>> =>
              LET begin == Min({ p \in DOMAIN text : text[p] \notin FWS \cup {Semicolon} })
              IN  /\ FirstTagName(text) \in DOMAIN tags
                  /\ SubSeq(text, begin, begin + Len(FirstTagName(text)) - 1) = FirstTagName(text)
==============================================================================

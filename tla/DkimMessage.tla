----------------------------- MODULE DkimMessage -----------------------------
(***************************************************************************)
(* Messages as SplitMessage hands them on, their canonicalization, and     *)
(* DKIM-Signature fields as the verifier and the signer read them.         *)
(*                                                                         *)
(* A header field is [name, text, ws, tags]: its lower-cased name, what    *)
(* relaxed canonicalization keeps of it (text, a sequence of words), what  *)
(* it drops (ws, a number for the folds, the runs of whitespace and the    *)
(* case of the name), and for a signature field its tag list (tags),       *)
(* Absent for any other.                                                   *)
(*                                                                         *)
(* A tag list is a record of the tags the code reads, each Absent, Empty,  *)
(* Junk or a proper value, and `strict`, whether ParseTagListStrict takes  *)
(* the list (no duplicate name, no malformed segment):                     *)
(*   v, a       strings            h      the names, a sequence            *)
(*   d, s       DNS names          i      the domain behind the last "@"   *)
(*   c          <<header>> or <<header, body>>                             *)
(*   l, t, x    numbers            q      a set of query methods           *)
(*   bh         a digest           b      a signature                      *)
(*                                                                         *)
(* A body is a sequence of lines [text, ws], text "" when relaxed leaves   *)
(* nothing of the line.  Digests are ideal: the digest of a value is the   *)
(* value.  A signature is [by, over], the key that made it and the digest. *)
(***************************************************************************)
EXTENDS SignedHeaders, SequencesExt

CONSTANTS DNSLabels,      \* the labels ValidDNSName accepts
          ALabelOf,       \* U-label -> its A-label
          MaxTimestamp    \* the largest number of 12 digits

(* A DNS name is a sequence of labels, its A-labels are labels too; a pair *)
(* of canonicalizations is a value of c=, an algorithm one of a=.          *)
ASSUME NamesAreValues ==
    /\ {Absent, Empty, Junk} \cap {"rsa-sha256", "ed25519-sha256"} = {}
    /\ {Absent, Empty, Junk} \cap Seq(STRING) = {}
    /\ \A label \in DOMAIN ALabelOf : ALabelOf[label] \in STRING
    /\ \A hc, bc \in {"simple", "relaxed"} : <<hc, bc>> \notin {Absent, Empty, Junk}

(* A label ValidDNSName accepts is ASCII and stays as it is.               *)
ASSUME LabelsStay == DOMAIN ALabelOf \cap DNSLabels = {}

ASSUME LargestTime == MaxTimestamp \in Nat

(* A field continued by a line: its text and its folds grow.  A signature  *)
(* written by Sign ends in its b= tag, which ignores whitespace and which  *)
(* any other text breaks.                                                  *)
Continued(field, line) ==
    IF field.tags = Absent THEN [field EXCEPT !.text = @ \o line.text, !.ws = @ + line.ws]
    ELSE IF line.text = <<>> THEN field
    ELSE [field EXCEPT !.tags.b = Junk]

(* parseHeaders on the lines of a header block: a field, its first line    *)
(* carrying all of it that the message folds; "continuation" lines on      *)
(* their own; and lines that are no header field, which are skipped with   *)
(* their continuations.                                                    *)
parseLine(headers, skipping, line) ==
    IF line.kind = "field" THEN <<Append(headers, line.field), FALSE>>
    ELSE IF line.kind = "other" THEN <<headers, TRUE>>
    ELSE IF headers = <<>> \/ skipping THEN <<headers, skipping>>
    ELSE <<[headers EXCEPT ![Len(headers)] = Continued(@, line)], FALSE>>

parseHeaders(lines) ==
    LET upTo[k \in 0 .. Len(lines)] ==
          IF k = 0 THEN <<<<>>, FALSE>>
          ELSE parseLine(upTo[k - 1][1], upTo[k - 1][2], lines[k])
    IN  upTo[Len(lines)][1]
-----------------------------------------------------------------------------
(* The tags. *)

IsName(value) == value \notin {Absent, Empty, Junk}

(* idna.ToALabels, label by label.                                         *)
ToALabels(name) ==
    IF IsName(name)
    THEN [j \in DOMAIN name |->
             IF name[j] \in DOMAIN ALabelOf THEN ALabelOf[name[j]] ELSE name[j]]
    ELSE name

ALabelTags(tags) ==
    [tags EXCEPT !.d = ToALabels(@), !.s = ToALabels(@), !.i = ToALabels(@)]

ValidDNSName(name) ==
    IsName(name) /\ name # <<>> /\ ToSet(name) \subseteq DNSLabels

(* idomain is d or ends in "." and d: d's labels are its last ones.        *)
DomainAligned(idomain, d) == idomain # <<>> /\ IsName(d) /\ IsSuffix(d, idomain)

RecordName(selector, domain) ==
    <<IF selector = Empty THEN <<"default">> ELSE selector, domain>>

HeaderListCoversFrom(names) == Contains(names, "from")

(* ParseTimeTag: 1 to 12 digits.                                           *)
IsTime(value) == value \notin {Absent, Empty, Junk} /\ value \in 0 .. MaxTimestamp
-----------------------------------------------------------------------------
(* Canonicalization. *)

CanonicalizeHeader(field, canon) ==
    IF canon = "relaxed" THEN [field EXCEPT !.ws = 0] ELSE field

(* The field with the value of its b= tag emptied.                         *)
RemoveBValue(field) ==
    IF field.tags.b = Absent THEN field ELSE [field EXCEPT !.tags.b = Empty]

(* The lines up to the last one that is not at a blank position.           *)
DropTrailing(lines, blank) ==
    SubSeq(lines, 1, Max({0} \cup (DOMAIN lines \ blank)))

(* relaxed drops the whitespace and then the trailing empty lines; simple  *)
(* drops the trailing empty lines and makes an empty body one CRLF.        *)
CanonicalizeBody(body, canon) ==
    LET without(ws) == { j \in DOMAIN body : body[j].text = "" /\ body[j].ws \in ws }
        spaces      == { body[j].ws : j \in DOMAIN body }
        kept        == DropTrailing(body, without({0}))
    IN  CASE canon = "relaxed" ->
               DropTrailing([j \in DOMAIN body |-> [body[j] EXCEPT !.ws = 0]],
                            without(spaces))
          [] canon # "relaxed" /\ kept # <<>> -> kept
          [] OTHER -> << [text |-> "", ws |-> 0] >>

(* The bytes a signature covers: the selected fields, then the signature   *)
(* field with an empty b=.                                                 *)
BuildSignedHeaders(names, headers, sig, canon) ==
    LET fields == SelectedFields(names, WithoutSelf(headers, sig))
    IN  [j \in DOMAIN fields |-> CanonicalizeHeader(fields[j], canon)]
          \o << CanonicalizeHeader(RemoveBValue(sig), canon) >>
=============================================================================

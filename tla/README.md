# A TLA+ model of go-dkim

go-dkim signs and verifies DKIM-Signature header fields (RFC 6376, with RFC
8301, 8463 and 8616). This directory holds TLA+ modules translated from its
source, TLC configurations that check them on small instances, and TLAPS
proofs of the results that matter most.

## The system

| Part | Source | State it keeps | Operations |
|---|---|---|---|
| Verification | `verify.go` | locals of one call; the results so far | `Verify`, `VerifySignature`, `VerifySignatureBare`, `VerifySignatureBareTags` |
| Key lookup | `internal/keyrecord` | loop over a resolver's answer | `Fetch`, `FetchKey` |
| Signed fields | `verify.go:472-528` | instances consumed per name | `BuildSignedHeaders`, `nthFromBottom` |
| Parsing, canonicalization | `canon.go` | none | `SplitMessage`, `CanonicalizeHeader`, `CanonicalizeBody`, `RemoveBValue` |
| Signing | `sign.go` | none | `Sign`, `signedHeaderList` |
| Folding | `internal/folding` | text written, column | `Tag`, `Base64`, `fold` |
| Grammar | `internal/grammar` | none | tag lists, DNS names, times, lists |
| IDNA | `internal/idna` | none | `ToALabels`, punycode |
| Base64 tags | `internal/codec` | none | `DecodeTag` |
| Key material, records | `dkim.go`, `sign.go:18` | none | `GenerateKey`, `ParsePrivateKey`, `RecordValue`, `RecordFragment` |
| Tools | `internal/checklist`, `.github` | none | not part of the library |

`Sign` splits the message, builds the `h=` list, hashes the body, folds the
tags, hashes the selected fields with `BuildSignedHeaders` and appends the
signature; its caller prepends the field. `Verify` splits what arrives and
calls `VerifySignature` for each signature field: strict parse, DKIM policy,
mechanism (`verifyMechanism`), key record policy. The mechanism selects the
fields with the same `BuildSignedHeaders`, asks the resolver, which is the one
call that blocks, and checks the signature.

The library keeps nothing between calls and starts no goroutine. What is hard
is elsewhere:

- the world moves during a call: keys rotate between two signatures of a
  message or while a lookup blocks, and the clock passes `x=`;
- several signatures share one loop and one header slice;
- what a signature covers depends on counting: repeated names, oversigning,
  fields relays add above, copies of signature fields;
- a resolver's answer holds several records, in any order, most of which a
  given signature must ignore;
- what the signer writes, folds and all, must come back as the same bytes
  after the caller has prepended it and a relay has handled it;
- the boundaries: `x=` equal to `t=` or to the clock, `l=` equal to the body,
  a line of exactly 78 characters.

`PROJECT.json` lists these as hazards with their lines and the properties that
watch them.

## Modules

| Module | Models | Composition |
|---|---|---|
| `TagValues` | what a tag's value can be: absent, empty, malformed, or a proper value | base of the modules over whole values |
| `KeyRecord` | key records and each test `Fetch` puts to one; `Fetch` as a function | |
| `KeyLookup` | the abstract lookup: one answer, one outcome | abstract specification |
| `KeyFetch` | `Fetch` as its loop, one step per record | implements `KeyLookup` |
| `SignedHeaders` | the bottom-up selection in closed form | |
| `BuildHeaders` | the same selection as the loop with its counters | shown equal to it |
| `Folding` | `folder.Tag`, `fold`, `Base64` over pieces with lengths | |
| `DkimMessage` | header blocks, canonicalization, names and times over whole lines and values | uses `SignedHeaders` |
| `Checks` | every check of a signature, as what it refuses or computes | uses `DkimMessage`, `KeyRecord` |
| `Verdicts` | the promise of `Verify`: a result of its own worth per signature | abstract specification |
| `Verify` | the loop over signature fields and the stages of a call, with clock and zone | uses `Checks`, implements `Verdicts` |
| `Signing` | `Sign`: refusals, defaults, `h=`, the field | uses `DkimMessage`, `KeyRecord` |
| `KeyMaterial` | `GenerateKey`, `ParsePrivateKey`, `RecordValue` | makes `Mail`'s keys and zones |
| `Mail` | signers, relays and a receiver around one message | composes `Signing` and `Verify` |
| `WireText` | characters, and Go's `Split`, `Trim`, `IndexByte` on them | base of the modules over text |
| `MessageText` | `SplitMessage` and `parseHeaders` over characters | |
| `CanonicalText` | both canonicalizations over characters, and what intermediaries do between two parses | uses `MessageText`, checked against `DkimMessage` |
| `TagList` | `ParseTagListStrict`, then `RemoveBValue` on the same text; `ParseTagList`, `FirstTagName` | |
| `TagCodec` | `StripWSP`, `DecodeTag` with its two attempts | |
| `RecordText` | `RecordFragment`, the resolver's join, the parse, the decoding | composes `TagList` and `TagCodec` |
| `Punycode` | `labelToASCII` and its encoder, loop by loop | |
| `MC*` | instances for TLC | |
| `CanonicalTextInvariants` | `CInv`, `PInv`, `HInv`: what the proofs about `CanonicalText` keep from step to step | used by `CanonicalTextProofs` |
| `SequenceFacts` | lemmas: least and greatest elements, induction with sets, `FlattenSeq`, stretches of sequences, occurrences of a value | used by the proofs |
| `*Proofs` | TLAPS proofs about the module named | `MailProofs` is about `Verify` and `Mail`, `CanonicalTextProofs` about `MessageText` too |

Definitions carry the names of the Go functions they stand for, and the `map`
of `PROJECT.json` gives their lines. An operator whose name ends in an
underscore and a word (`SkipRecord_stays`) is a mutant: the definition that
follows it with a plausible bug, used only to show that a property notices.

### Abstractions

- A tag list is a record of the tags the code reads, with a flag `strict` for
  `ParseTagListStrict`'s verdict on the text, wherever more than the list is at
  stake; the characters have models of their own (`TagList`, `TagCodec`,
  `MessageText`, `CanonicalText`). Two places where they matter to the
  composition, a `";"` in a signed name and a continuation line that lands in
  `b=`, are in it (`Signing!UnsignedTags`, `DkimMessage!Continued`). `Continued` relies on `Sign` writing `b=` last,
  and takes any text added to a signature as undecodable: it follows the
  padding of a 1024- or 2048-bit RSA or an Ed25519 signature.
- A header field is what relaxed canonicalization keeps (`text`), what it
  drops (`ws`), its name and its tags. A body is a sequence of lines, and `l=`
  counts lines.
- The digest of a value is the value, and a signature is the key and the
  digest it was made from: SHA-256, RSA and Ed25519 are taken as ideal. A
  pass says nothing of the strength of the key beyond `MinRSABits`.
- Text is a sequence of characters or classes of characters. In `TagList` and
  in normalized messages CR LF is one character `CRLF`: after `SplitMessage`
  the code has no other CR or LF. `MessageText` starts from single CR and LF.
- Only the message and key material that pass through the code matter:
  DER, PEM and random numbers are external (`KeyMaterial` knows a key by kind,
  size and identity, and a block by the encoding its bytes parse as).
- A DNS name is a sequence of labels, compared as the code compares them after
  lower-casing. Names and algorithms are in the case the code requires.
- `Reason` texts are left out.

### State and steps of the machines

`KeyFetch`: `pc` is asking, answered, returned; `i` is the range loop's cursor.
`SkipRecord` stands for all nine `continue`s, whose conditions are the
conjuncts of `KeyRecord!Usable` in the code's order. `TakeRecord` and
`ReturnNone` are the two returns after the loop began, `ReturnError` the two
before.

`BuildHeaders`: `k` walks the split `h=`; `consumed` is the map of that name;
`picked` the positions written to the builder. `self = 0` is a call by `Sign`,
whose field is not in the block, unless an equal one happens to be.

`Folding`: the steps of `Tag` are cut where a loop or a branch is: the
separator with its fold, the tag or `h=`, each name, each turn of `Base64`.
`lines` is the text, `col` the folder's count of the column, which the code
keeps apart from the text and the model does too.

`Verify`: `pc` is the stage of the call for field `at`. `scan` chooses the next
field; `policy`, `mechanism`, `query`, `answered`, `keypolicy` follow the code's
order, and each early return of a stage is one `Return`. The stages end where
the code reads something that can change, the clock (`CheckPolicy`) and the DNS
(`Answer`); `Tick` and `Publish` may come between any two. `entry` says which of
the three functions is called for each field; a layered scheme calls the bare
ones itself. `seen` is a history variable: per result, the field, the clock
reading and the answer.

`MessageText`: `split`, then `parse`, one action per way the loop over the
lines can turn. `CanonicalText` sends a parsed message round again: `Edits` are
what lies between two parses, each with a `kind` that says what the property
may still expect of it.

`TagList`: `strict` is the loop of `ParseTagListStrict`, `blank` the loop of
`RemoveBValue` over the same text; `RecordText` puts `fragment` and `published`
in front for a key record.

`Punycode`: `pick` is the outer loop, `search` the search for the next code
point, `scan` the loop over the runes, `digit` the loop of `WriteByte`s.

`Mail`: in `transit`, `SignMessage` is `Sign` and its caller; the relays' steps
change fields and body, and drop a field with the lines that continue it; `Deliver` is `SplitMessage` and the start of `Verify`,
whose own steps then run unchanged.

## Runs

| Run | Instance | Shows |
|---|---|---|
| `key_fetch` | answers of up to 3 records of 15 kinds, both key types, two hashes | key and flags come from the first usable record; unusable ones change nothing in any position; refinement; the call returns |
| `build_headers` | blocks of up to 4 fields, `h=` of up to 4 names, empty elements, every field as the verified one | each instance once, bottom-most first, every listing covers one while there is one; of the copies of the verified field the upper-most is left out and no other; loop equals closed form |
| `build_headers_self` | the same | violation: a lower copy of a signature field selects itself |
| `folding` | limit 12, tags of 3 to 10 characters, up to 3 names, two signature lengths | column, line bound, no blank line, text whole, signed text kept, progress |
| `folding_limit` | limit 78 and the tags `Sign` writes | violation: a line of 79 |
| `verify` | two signature fields, the first edited in one of some thirty respects, three entry points, five zones, clock 1..2 | refinement of `Verdicts`, each result independent of the others, what a pass means, what causes every other result, no wasted query, return |
| `mail` | one draft (a name once, a name twice, a continuation line, a line that is no field), options of every kind, up to 3 hops, two zones, clock 1..2 | a pass is authentic; an intact signature passes |
| `mail_names` | a signed name with `";"` | violation: signed here, a permerror here |
| `mail_leading` | a draft that begins with a continuation line | violation: the same |
| `canonical_text` | messages of up to 4 of the characters `a : SP CR LF`, and of up to 3 lines of the kinds that occur, up to 2 edits | no empty line indexed, whole fields, canonical forms kept, agreement of text and line level |
| `record_text` | lists of up to 6 of `; = b SP v`, up to 4 of ten classes, three-segment lists; records in strings of 3 | grammar accepted exactly, `b=` blanked is `b=` parsed, all readers agree, base64, chunks |
| `punycode` | labels of up to 5 code points at the edges, long labels of 62 to 65 | RFC 3492's decoder gives the label back; delta bounded |

Bounds. Three records are one more than a record, an obstacle before it and
one after it need. With four fields and four names a name can be repeated,
missing, and in excess at once. A line of 12 lets every tag be one too short,
exact and one too long at every column. Two signatures are what crosstalk
needs. In `verify` a first field differs from a good one in one respect, since
a check hides behind the one before it; two wrong respects give the result of
the earlier. Among the edits are an `h=` with an empty element, a name that is
not there and the verified field's own name, and an `l=` of nothing, of all and
of more than the body, the first with the `bh=` that fits it and with that of
the whole body. The entry points that skip DKIM's policy run on the edits the
policy looks at (`Bare`, and of these the malformed list for
`VerifySignatureBareTags`), where they differ from `Verify`. Three hops are two
signers and a relay between or after them, or one and two relays. `MaxTime = 2`
puts the clock before and at an `x=` of 2; `MaxTimestamp = 9` stands for
999999999999.

Four characters are a line end between two others and one to disturb them; the
line-wise messages reach continuations of every kind of line. Six characters
are two tags with one more to repeat, split or empty them. Strings of 3 make
values that are a multiple of the limit, one more and one less. Five code
points repeat, skip and exceed each other; 63 of the largest give the largest
delta.

`CHECK_DEADLOCK FALSE` everywhere: every machine ends when its call returns.

Fairness. The code of a call is sequential, so its next step is weakly fair.
`WF(Answer)` in `Verify`, and `Resolve` in `KeyFetch`, say that a resolver
returns: it is given the caller's context, and a deadline passed is an answer
(`temporary`). `KeyFetch!AnsweredReturns` does not even need that. The clock
and the zone are not fair. `Mail` claims safety only.

## What the properties say

- `KeyAndFlagsOfFirstUsable`, `UnusableRecordsInvisible`: policy flags never
  travel from a skipped record to another's key, and a record the signature
  cannot use is as if it did not exist, in the words of `keyrecord.go:70`.
- `EveryListingCovers`, with `BottomMostFirst`: the meaning of oversigning.
- `SignedTextUnchanged`: folding the signature after it was computed leaves
  what was hashed as it was, which simple canonicalization depends on.
- `NoCrossTalk`: each result equals a closed-form verdict on that field, the
  clock reading and the answer of its own call.
- `ImplementsVerdicts`: `Verify` refines a two-action machine that knows no
  stages, clock or zone: the first signature without a result gets one of its
  own worth, and the end comes when all have one. What the checks are worth is
  not its subject but `PassMeansVerified`'s.
- `PassMeansVerified`: a pass in the terms of RFC 6376, with none of the
  operators the stages use for their checks. `Admissible` lists what the tags
  must be, `BodySigned` what `bh=` must be, exactly, for an `l=` or none. The
  data the signature was made over must be the `HeaderData`: the field each
  listing of `h=` stands for, counted from the bottom among the other fields,
  and the signature field itself. The key must be that of the first record that
  `Serves` the algorithm, the one under the names the result carries.
- `NonPassHasCause`: the other results, in the same terms, since a caller tries
  a temperror again and takes a permerror as final. A temperror is a transient
  lookup failure, and only for a signature the message does not refuse; a name
  that does not exist is none. A fail is a body, header data or a key that
  differs, never a check that was not met. A permerror has a check, a `b=` that
  does not decode, or an answer without a record that serves behind it. With
  `PassMeansVerified` this fixes which boundary (`l=`, `x=`, no answer) gives
  which result.
- `QueryOnlyIfVerifiable`: when a lookup starts, every check of the message
  alone has been made: each tag, the clock, the body hash and the encoding of
  `b=`; and it goes out under the signature's own names.
- `OneCopyLeftOut`: of equal signature fields exactly the upper-most is left
  out of what `h=` selects from, in the positions of the caller's block.
- `PassIsAuthentic`, `IntactVerifies`: together, a signature passes exactly on
  the covered content it was made over (the second for the upper-most of equal
  copies, see the fourth divergence below). What is covered is said as "the last m
  instances of a name", not with the selection of `SignedHeaders`.
- `AcceptsTheGrammar`: the strict parser against the ABNF as a predicate over
  positions, which shares no operator with the parser.
- `SignatureIsWhatIsBlanked`: two walks over one text agree on which tag is the
  signature; were they to differ, a signature would cover its own bytes or
  leave others uncovered.
- `HeadersUnchanged`, `BodyUnchanged`, `SignedPrefixKept`: canonicalization from
  the far end, as a relation between what the signer and the verifier parse,
  mode by mode and for what was edited between. The last
  leaves out the empty body of simple, whose one CRLF the first line added
  replaces: the code follows RFC 6376 3.4.3 there.
- `LinewiseAgrees`: `DkimMessage`, on which `Mail` rests, and the text model
  give the same fields and bodies.
- `DecodesToLabel`: a decoder written from RFC 3492 undoes the encoder, so no
  two labels have one A-label. A label whose lower case is ASCII (KELVIN SIGN)
  becomes `xn--k-`: `idna.go` maps case and nothing else of UTS #46.

## Where the code and its words differ

1. `WithinLineLimit` (`folding_limit`): `sign.go:113` promises lines of at most
   78 characters. `Tag` lets a tag end in column 78 and the next call writes
   `";"` in 79. `LineBound` says that this is all that exceeds,
   for tags of at most 76 characters; a longer `d=` is not folded.
2. `IntactVerifies` (`mail_names`): `Sign` takes a field name with `";"`, and
   the verifier refuses the list it writes.
3. `IntactVerifies` (`mail_leading`): `parseHeaders` skips a continuation line
   at the start of a message; once the signature field is prepended, the line
   continues it and spoils `b=`.
4. `FieldBeingVerifiedNeverSelected` (`build_headers_self`): `verify.go:473`
   says the field being verified is never selected by `h=`. With equal copies
   the upper one is taken out, and the lower can select itself. In `Mail` this
   costs a signature its pass after five hops (sign twice, the second time over
   `dkim-signature`; repeat both; drop the copy just above), two more than the
   run takes. `IntactVerifies` therefore speaks of the upper-most copy.

## Proofs

All are about the modules TLC checks, for every value of the constants. Each
module of proofs first shows its type invariant (`TypeCorrect`) from an
inductive invariant; the properties follow from it and from what each step adds.

Nothing here is proved by a library theorem on induction, since those take an
operator as a parameter. `SequenceFacts` does it with sets instead: the set of
the numbers a statement fails for has no least element (`NatInductionOnSet`,
`IntervalInduction`). On it rest `Max` and `Min` of finite sets, what
`FlattenSeq` computes, and the stretches of a sequence. That is why some
definitions of the model are written with `FlattenSeq` of a function of
positions where a fold would do too (`Selected`, `StripWSP`, `WholeText`,
`RunesAt`).

- `KeyFetchProofs`. `IInv`: types, and that everything before the cursor is
  unusable. It gives, with the return step, `KeyAndFlags`. `Implements` shows
  that the loop implements `KeyLookup`: skips are stutters, `TakeRecord` and `ReturnNone` are the abstract decision,
  because the first usable record is unique (`FirstUsableUnique`).
  `UnusableInvisible`: the answer with the unusable records taken out has the
  same first usable record, at the position that counts the usable ones before.
  Assumptions: `AnswerShape`, `RecordShape`, `KeyTypeShape`, the shapes of an
  answer and its records; `KeySizes`; `SentinelsDiffer`; `AbsentIsNoWord`.
- `BuildHeadersProofs`. That no field is hashed twice does not follow from one
  step: `IInv` says that the picked positions of a name are exactly those of
  rank below its consumed count. Ranks determine positions of a name
  (`RankDetermines`), so a new pick is new, and below it all are picked
  (`RankDecreases`). `Progress` adds that the counters are the listings met and
  that the selection so far is that of the names so far: `LoopComputesSelected`
  (the loop is the closed form), `ListingsCover` (each listing covers an
  instance while there is one: a name with n instances and m listings has
  ranks 0 to min(n, m) - 1 selected, by counting) and `LeavesOneCopyOut`:
  taking the upper-most copy out changes the rank of nothing below it
  (`RankShifts`), so each lower copy is selected just if its rank in the
  caller's block is below the number of listings.
  Assumptions: the shapes of fields, blocks and lists, `NameShape`.
- `FoldingProofs`. `IInv` relates the folder's column to the last line's width
  and bounds every line, with the case of the pending separator; each step
  keeps it. `LinesShaped` adds that a line that is too long ends with `";"`
  (`LinesBounded`) and that none is blank (`LinesHaveText`). `SignedTextKept` and
  `TextIsWhole` are about what the lines say: `Signed` keeps the lines up to
  `b=` as they were when the digest was taken, `Written` says what the text is
  at each stage of `Tag`. Assumptions: `LimitShape`, `TagShape` (no single tag
  but `h=` is longer than a line less two characters, and the first fits behind
  the field name), which the tags `Sign` writes meet for a `d=` and `s=` of at
  most 74 characters.
- `PunycodeProofs`. `DeltaNeverOverflows`, the claim of the comment at
  `idna.go:67`. While `n` moves from 128 to the largest code point, delta stays
  within 64 for each code point passed: a jump of `n` adds `handled + 1` for
  each, a scan one for each rune and one at its end (`Bounded`). That there is
  something to jump to (else the search would end with `math.MaxInt32`) rests
  on counting: the handled runes are exactly those below `n`, and those equal
  to it that the scan has passed (`Counted`). `LabelsDecode`, that the
  standard's decoder gives the lower-cased label back: after every step the
  decoder of what is written so far holds the handled runes in their places and
  has the encoder's bias (`Follows`); where it stands and delta together give
  the place the scan is at, as `n - D.n` turns around the decoded text and the
  handled runes passed (`Moves`); within the digits of one delta it lags by what
  `q` is still worth (`Digits`). A digit below the threshold then inserts the
  rune between the handled ones in front of it and those behind (`RuneInserted`).
  `punyAdapt` divides in a loop where the standard counts divisions; that both
  give one bias needs delta's bound, and so the first theorem (`AdaptAgrees`).
  The decoder is a recursive function; what it does one character further on
  (`DecodingStep`) is an induction over a set of lengths. Assumptions:
  labels are sequences of code points and lower-casing gives code points.
- `RecordTextProofs`. All five properties of the run `record_text`, over texts
  of any length. `ChunksCarry`: the strings of a fragment carry the record and
  none exceeds the limit (`Fragmented`). For the two readers of one text, `Read`
  says where each stands: the cursor is at the start of a segment, the tags so
  far are those of the segments walked, one per name, and the blanker's output is
  the text walked with the value of the first `b=` left out. What a segment
  means is said once by trimming (`TrimStretch`: the trimmed text is a stretch
  with no blank at its ends) and once by the grammar's positions (`GrammarName`),
  and `NamesOfSegment` shows that both agree. From it `AcceptsTheGrammar`,
  `BlankedIsTheSignature` and `ReadersSeeTheSame`. `DecodingIgnoresFolds`:
  padding stands at the end only, so a text is a run of sextets and a pad, which
  whitespace does not change. Assumptions: `CharacterClasses` (the classes of
  characters are disjoint), `TextsAreSequences`, `RecordsAreSequences`,
  `PaddingIsNoSextet`.
- `CanonicalTextProofs`. `LinesFull` (`NoLineEmpty`) and `FieldsWhole`
  (`FieldsAreWhole`), over messages of any length and through any number of
  edits. A message is `Framed`: a line end in front and an empty line behind it,
  so that each line stands between two line ends and the header block always
  ends at the first empty line, which all the ways `SplitMessage` can cut come
  down to (`SplitParsed`). `CInv` gives the parser a cursor, the line end it
  stands at: the lines left are those behind it (`Rest`), and there is a field
  for each line begun before it that is one. What is not inductive by itself is
  where such a field's Raw ends. It runs to the first line that is no
  continuation, or to the cursor; and it has met such a line exactly if the
  parser skips or another field was begun since (`FieldsUpTo`), which is what
  the flag `skipping` has to say for a continuation line to land where it
  belongs. `DroppedLine`, `SkippedLine`, `TakenLine` and `ContinuedField` are
  one line each; `LongerLine` shows that a line put behind a field changes
  neither its name nor the start of its value. `RestIsFull`, from the end of
  the block backwards, gives `NoLineEmpty`. Edits may write any text
  (`EditsKeep`).
  `BodyStays` (`BodyUnchanged`) and `PrefixKept` (`SignedPrefixKept`), for the
  same messages and edits: `PInv` adds to `CInv` that the body is what stands
  behind the first empty line (`Cut`), that no field read holds such a line or
  ends with a line end (`Solid`), and, for each kind of edit there was, how the
  signer's body compares with the body of the text (`Covers`). The second part
  is why writing the fields out again moves the first empty line nowhere
  (`SolidsJoined`, `Rewritten`); that the others do not is `InsertInHead`,
  `Recased`, `InsertInBody`, `AddedBehind`, and for storing that normalizing
  undoes every choice of line ends (`StoredIs`). Where the body is edited, each
  canonicalization is a function of the text read so far. `Flow` is the relaxed
  body without its end, and a character adds to it what depends on `Flow` and on
  whether whitespace was last (`FlowMore`), so texts that agree in both stay
  alike whatever follows (`AlikeMore`): whitespace at the end of a line and an
  empty line at the end are forgotten, text added only lengthens.
  `HeadersStay` (`HeadersUnchanged`) needs more, as an edit changes the text in
  the middle and the parser starts over. The parser over a header block is
  therefore also written as a function of the characters read so far
  (`Reading`, with `Read` its end), each changing the fields found by what the
  last ones were. `HInv` adds to `PInv` that the loop over the lines is that
  function up to its cursor (`Traced`); that the fields it found, written out,
  are read as themselves (`Reread`), which storing and editing rest on; and
  that the fields of the text are the signer's up to what relaxed
  canonicalization drops (`Forms`), and the same where no edit was of the kind
  `space` (`Relays`). Two texts that differ in one blank, one fold or the case
  of one name are then read side by side, character by character: `WidenHead`,
  `RefoldHead`, `RecaseHead`; an edit of the body reaches no field
  (`BodyInserted`), and storing gives the fields back (`StoredIs`,
  `RewrittenHead`).
  Assumptions: `MessagesAreSequences`; `NamesArePrintable` (field names have
  neither whitespace nor line ends nor a colon, which is
  `grammar.ValidFieldName`); `CaseAssumption` (capitals are letters of names,
  and a small letter has no other small form).
- `MailProofs`, on `Verify`. `VerifyImplementsVerdicts` and `NoCrossTalkHolds`, for any
  message, zones, clock bound and entry point. `IInv` carries what each stage
  established to the stages behind it (`InCall`, `Prepared`, `Checked`,
  `Staged`): without it a result could not be put together again from the
  reading and the answer. `Counted`, that the results are as many as the
  signature fields passed, gives the abstract steps their guards.
  `QueryJustified`, `PassIsSound` (`PassMeansVerified`) and `NonPassJustified`
  (`NonPassHasCause`) are about `ParsedSpec`: `WellFormed` says what `SplitMessage` and `ParseTagList` hand
  on, the tags each of its kind, without which `l=` could be a list and `h=` a
  number. `Told` adds to the invariant that a result names what its field
  names, `Reasoned` that it rests on an answer under these names unless message
  or clock refuse the field. What is left is that the code's operators and the
  RFC's words agree: check by check (`AdmissibleIs`, `BodySignedIs`), for a
  record and for the record an answer yields (`ServesIs`, `FetchIs`), and for
  the header data (`HeaderDataIs`). There the code builds the data for the
  upper-most copy of the field; it is that of the positions' counting because
  the selection from the bottom is the nth instance from the bottom
  (`ListedIsSelected`). `VerdictHasCause` then goes through the returns of a
  call. `MCVerify` evaluates `WellFormed` on every message of its run.
  Assumptions: `ClockAssumption`, `LargestTime`, `NamesAreValues` (a name is a
  sequence of strings; no sentinel is one, or an algorithm), `AnswersAreThere`
  (a zone's answer is an answer, its records a sequence), those of `KeyRecord`.
- `MailProofs`, on `Mail`. `PassIsTheSignersWord` (`PassIsAuthentic`), the argument
  from a pass back to a signer, over any number of hops. `MailInv` says that a
  signature field on the wire, or as it was read off it, carries the tags of a
  signature made, unless a continuation line spoilt its `b=`; that each
  signature made is what `Sign` writes (`SignMakes`); and that of several with
  equal tags one was made before any of them stood in its block (`Fresh`),
  which is the one a pass is traced to. `IInv` and `Told` of the first part
  take over at delivery. A pass then means equal data (`PassOnSigned`), and
  equal data mean equal content (`SameSignedData`): the selection of
  `SignedHeaders` takes the last instances of each name, as many as it is
  listed (`SelectionByRank`), so what agrees field by field agrees on
  `Covered` (`CoveredAgree`). There the field verified is left out at its
  upper-most copy, and in the property where it stands; copies shift no other
  instance, or the signature would cover itself, which the signer's did not
  (`OthersCovered`). `ParseReads` is about `parseHeaders`, for any lines.
  `IntactPassesHere` (`IntactVerifies`) is the converse, from a signer to a
  pass. What `Sign` writes is accepted by every check (`SignIsAccepted`, tag by
  tag from `SignTags`), equal content means equal data (`SameDataIfCovered`),
  and the key of a published record is fetched, so the verdict is a pass
  (`IntactPasses`). What the receiver reads must be what stands on the wire:
  `ParseWithout` runs `parseHeaders` over the lines and over the lines without
  one, and shows that a field no line continues is a field of its own and that
  the rest reads as if it were not there. `IntactInv` therefore says that no
  line continues a signature (`Whole`, which a relay that drops a field with
  its continuations keeps), that each signature is one `Sign` made over a block
  with a value in every `b=` (`Made`), and `Reasoned` (else a field could be
  refused unread).
  Assumptions: `DraftShape` (nobody has signed a draft, and no relay writes a
  signature but with `Sign`), `OptionShape`, `ClockStarts`, `NoNameIsEmpty` (no
  field name is empty), `LabelsStay` (an ASCII label is its own A-label),
  `NamesAreValues`, `ClockAssumption`, `LargestTime`, `SentinelsDiffer`,
  `PublishedKeysServe` (where a signer's key is published it comes without
  flags and behind no other usable key), all evaluated by the runs; and of the
  theorems' own, `SignaturesAreValues` (a signature is not an empty `b=`) and
  `SentinelsApart` (nor is a sentinel a number, list, body or answer), which
  range over too much for TLC. `IntactPassesHere` has two more hypotheses,
  `NamesFitTheList` and `BlocksBegin`: `mail` meets both, and the violations of
  `mail_names` and `mail_leading` each come of one that does not hold, so
  neither can go.

Only model-checked:

- `LinewiseAgrees`: it names a line of the other model with `ToString`, of which
  the prover knows nothing, and drops line ends with `SelectSeq`, whose argument
  is an operator, so that no fact about it can be stated.
- Everything under fairness (`Returns`, `AnsweredReturns`, `Progresses`) and
  what rests on it: the prover knows neither fairness nor ENABLED.

## Not modelled

- The contents of DER, PEM and of random numbers in `dkim.go` and `sign.go`:
  calls of the standard library.
- The digits of `l=`, `t=`, `x=` and the characters of DNS names and of the
  colon lists: kept as what the checks accept.
- UTF-8 decoding: `Punycode` starts from code points, and `TagList` has classes
  of characters.
- The checklist tool and CI: no part of the library.

## Plan

1. That `Sign`'s list covers every instance of each name, as a theorem about
   `Signing`, from `ListingsCover` and `ListedNames`.
2. The digits of numbers and times with their overflow.

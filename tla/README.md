# Verification of the Better String Library

TLA+ models of `src/bstring` (bstrlib and its extensions), the TLC
configurations that check them on small instances, and TLAPS proofs, for every
instance, of the safety of the core, of the readers, streams, splits and joins
built on it, of the streams that write and decode, and of the searches.

## The system

A `bstring` is a heap header `(slen, mlen, data)`: the length of the text, the
bytes acquired for it (negative or zero when it is write protected) and the
buffer, which carries a `'\0'` after the text that the length does not count.
Every function checks the header it is given, may call `balloc` to enlarge the
buffer, copies, and stores the new length and the terminator. The library has no
threads and no global state; what makes it hard is arithmetic in `int`, an
allocator that may refuse at each call (`balloc` then settles for exactly the
bytes asked for, or fails), arguments that alias the destination, and functions
of the caller (readers, sinks, callbacks) called in the middle of an operation.

| component | state | operations | what makes it hard | what makes it correct |
|---|---|---|---|---|
| header and sizing (`bstrlib.c` 71-185) | one header | `snapUpSize`, `balloc`, `ballocmin`, write protection | refused memory, sizes at the end of `int` | the first `mlen` bytes are the string's, growth is geometric and bounded |
| constructors and mutators (187-578, 755-824, 978-1042, 1470-1899, 2896-3099) | one header and text | some thirty functions | overflowing sums, partial failure, aliasing, states left by an earlier failure | in bounds, terminated, unchanged on error, protection honoured |
| unbuffered readers (1903-2016) | destination, position | `bgets(a)`, `bassigngets`, `bread(a)` | memory refused with a character in hand | nothing lost, a line ends at its terminator |
| bStream (2018-2359) | read-ahead buffer, EOF flag, buffer size | `bsopen` .. `bspeek` | short and empty answers, `bsunread`, resizing, refused memory | each character out once, in order; return value and EOF state tell the truth; calls return |
| stream splitting (2449-2566) | its own buffer over a bStream | `bssplitscb`, `bssplitstrcb` | callbacks that act on the stream | pieces partition the stream, position promised to the callback |
| comparison and search (619-976, 1044-1468) | none | `biseq*`, `bstrcmp*`, `binstr*`, `binchr*` | boundaries | agree with their definitions |
| find and replace (1655-1839) | text, array of positions | `bfindreplace*` | in-place moves, aliasing, growable array | agrees with sequential replacement, on copies of its arguments |
| bstrList, split, join (2361-2445, 2568-2879) | array of strings | `bstrList*`, `bsplit*`, `bjoin*` | failing callbacks, modified sources | join of split is the identity, the list can always be used and destroyed |
| write stream (`bstraux.c` 1086-1240) | buffer, EOF flag | `bws*` | a sink that fails midway | what was given comes out in order and once, until the sink fails |
| UU decoding stream (660-806) | two buffers over a bStream | `bsUuDecode` | layering, end of stream reached more than once | the decoded text in order |
| codecs and other extensions (`bstraux.c`) | none | base64, UU, yEnc, netstrings, ... | boundaries | round trips |
| UTF-8, UTF-16 (`utf8util.c`, `buniutil.c`) | an iterator | forward, backward, conversion | malformed input | agree with a decoder |

A mutator calls `balloc`; the stream readers call `bconcat`, `balloc`,
`bdelete`, `binsert` and `bassign` on their two strings and the caller's
`bNread`; stream splitting and the UU stream call the stream readers.

## Modules

| module | models | how |
|---|---|---|
| `BstrAlloc` | header and sizing | a header is `[slen, mlen, cap, nul]`: the two fields, the bytes really granted, and whether `data[slen]` is `'\0'`. A call is the *set* of its outcomes, each the header it leaves, what it returned, its `extent` (one past the highest index written) and what the allocator did |
| `BstrMutators` | constructors and mutators, as sizes | one operator per function, composed from `Balloc`, `Room` and `Finish` in the order of the code |
| `BstrHeader` | the life of one string | `str`, one action `DoXxx` per function; a call is atomic, as it runs nothing of the caller's |
| `BstrLemmas` | | what several proofs rest on: facts about int arithmetic, `Balloc`, the mutators that readers and streams call, and about cutting and joining sequences |
| `BstrHeaderProofs` | | the theorems about `BstrHeader` |
| `TextMutators` | mutators and find and replace, byte by byte | one operator per function; an argument is a text, a view into the string's own buffer or the string itself; a view of a buffer that `balloc` has moved reads `JUNK` |
| `TextContract` | what they promise | functions from texts to texts, with no buffer |
| `BstrText` | the life of one text, and the extensions built on the mutators | calls on a string, each compared with `TextContract` applied to copies |
| `BstrRead` | the unbuffered readers | one action from one call of the caller's function to the next |
| `BstrStream` | bStream | over `BstrMutators`; one action from one request to the core stream to the next |
| `StreamContract` | an abstract stream | what is left, what the call handed over; `Forgiving`: each character is handed out once and in order, but a call that was refused memory may relapse |
| `BstrSplit` | `bssplitscb`, `bssplitstrcb` | EXTENDS `BstrStream`: the split reads by its actions, and so does the callback while the split waits |
| `BstrList` | split, list, join | an iterator is one action from one callback to the next; the callback is the user's, who may change the string, or `bscb`, which builds the list |
| `BstrCompare`, `BstrSearch` | comparisons, character searches; text searches | functions; one action per turn of a search loop |
| `BstrReadProofs`, `BstrStreamProofs`, `BstrListProofs`, `BwsStreamProofs`, `DecodingProofs`, `BstrSearchProofs` | | the theorems about `BstrRead`, `BstrStream` and `BstrSplit`, `BstrList`, `BwsStream`, `UuStream` and the iterator of `BstrUtf`, `BstrSearch` |
| `BwsStream` | write stream | one action per call, with an outcome for each answer of sink and allocator |
| `PipeContract` | a pipe | what was given, what is pending, what came out |
| `UuStream` | `bsUuDecode` | one action per turn of the loops of `bsUuDecodePart`, with the streams on both sides |
| `BstrCodecs` | base64, UU, yEnc, netstrings | a transmission: encode, perhaps damage, decode; decoders are folds |
| `BstrUtf` | UTF-8 and UTF-16 | the iterator as state, the conversions as functions called with its text |
| `BstrConversions` | | a behaviour of one of the last two |
| `MCXxx` | | the values TLC uses for module `Xxx` |

Conventions. Texts and arguments are lengths in the header model, sequences of
distinct characters in the stream models, so that one lost, repeated or out of
order shows, and bytes where their value matters. In the header model an
argument that aliases the buffer is a flag: where the code looks for it, it
needs a copy, which may be refused. A sum of ints wraps (`CInt`); a size_t cast
to int is narrowed (`ToInt`). Where an optimising build drops an overflow test
(`nl < 0` of a sum of nonnegative ints: `bcatblk` and `findreplaceengine`, seen
with gcc -O2), the outcomes of both builds are allowed. Where the code writes
outside of the buffer the state of the program is unknown: `over` records it and
nothing follows (`Undefined`); a NULL dereference is the outcome "crash". A
definition whose comment begins with "Mutant" is not used: it is a plausible bug
of the definition that follows it, and the property named for it in
`PROJECT.json` fails when it takes its place.

Abstractions. Of `bfromcstrrangealloc`, every size between the two bounds may be
granted, not only those its halving tries, which is more than the code does; its
lowest size is the code's. Of the buffer `vsnprintf` fills only the length of the
result matters, and it is any. In the stream models a negative answer is the
same as an empty one, as in the code; a core stream never answers more than it
was asked for. `BstrSplit` takes `binstr` for what it promises, which
`BstrSearch` shows it keeps. `UuStream` takes a character for each character
that is encoded and decodes in groups; the bits of a group are in `BstrCodecs`.
`TextMutators` has arguments so small that no sum overflows, for `BstrHeader`
has the others.

## Runs

Every run explores its whole state space. Small constants stand for large ones
of the source or the machine: `IntMax`, `SnapMin` and `MemMax` for int, for the
smallest snapped size and for memory, the others for the buffer sizes named
where they are declared. The bounds without a counterpart in the code are
`HeldMax`, `MovesMax`, `ChangesMax`, `CallsMax`, `GivenMax` and `OutMax`; each
only limits what the user does.

### The core

`BstrHeader` (24 741 states). Any sequence of calls with `IntMax = 31`, the
smallest snapped size 4 and blocks up to 31 bytes, lengths that are 0, 1, small,
half of the range and next to its end, and positions that are negative, inside,
at the end and beyond. `int` is six bits wide: every comparison of the code is
between sums of at most three such lengths, and the powers of two, the last
power of two and the wrap-around all lie in range, so each boundary is crossed
with both neighbours. The state space is explored modulo the view `Relevant`:
`str` and `over` are all the next call depends on; `last` only reports the call
that was made, and the action properties, which TLC evaluates on every step it
generates, see it. The view keeps whether `last` has its type.

- `WellFormed`: the documented check `slen >= 0 && mlen >= slen`, and that the
  first `mlen` bytes are the string's, after every call that stayed in bounds.
- `OverrunNeedsNamedCause`: the three, and only three, ways to write outside of
  the buffer: lengths that sum past `INT_MAX`; a request that leaves out the
  terminator, granted exactly; a terminator stored into a text that already
  filled its buffer.
- `TerminatorLostOnlyOnError`, `FailedCallKeepsText`, `WriteProtectionHolds`.
- `Growth` (`GrowthBound`, `GrowthDoubles`): what the log2(n) reallocations and
  the 2(n + 1) bytes of the documentation rest on.

`BstrText` (1 123 170 states). One or two calls on a text of up to six
characters with overlapping, differently cased and adjacent occurrences, words
and characters to quote; buffers with no byte to spare, with one, and with room
that holds an older text; views at the beginning, inside and beyond the end;
`FindIndexCount = 3`, so that the array of offsets grows. A second call, because
some states (a text without terminator, a full buffer) are left by a first.

- `TextIsPromised`: a call that succeeds makes of the text what it promises, as
  though its arguments had been copied first, but for the named calls that read a
  stale view (`ReadsStale`, among them every `bfindreplace` with a view whose
  buffer has moved), move the text over one (`MovesOver`), overwrite the end of a
  C string inside of it (`LosesEnd`) or overflow (`Wraps`). A margin is justified
  when words, width and gaps come out right, or its insertions failed. Negative
  positions are left to `BstrHeader`.
- `ErrorLeavesText`: a call that fails leaves the text, or what the named first
  steps of it have done: those of `bcatcstr`, `bassigncstr` and `bFill`, which
  store before they ask, and of the extensions that are several calls,
  `bInsertChrs`, `bJustifyRight`, `bJustifyCenter` and `bSGMLEncode`. `TextSound`: no call but a failing `bFill` takes away a
  terminator.

`BstrSearch` (399 658 states, `WF` on the search loops). Texts of up to six
characters over two or three letters, needles up to four: all the ways in which
the characters `binstr` collects can be spread and must be gone back over.

- `NearestIsFound`: the answer of each of the four searches is the nearest
  occurrence in its direction. `NoneIsPassed`: at every step, no occurrence is
  behind what `binstr` has. `SearchReturns`, though it goes back.
- `AnswersAgree`: the functions that answer at once agree with each other and
  with the sets they search for; the order they define is total.

### Reading and splitting streams

`BstrRead` (7 285 states, `WF` on the read loops). Eleven characters, first
block 2 and largest step 4: both branches of the doubling, and every point at
which memory can be refused. `ReadIsExact` (`NothingLostButOne`,
`LineStopsAtTerminator`), `ReadSound` (`LengthIsText`, `OverrunOnlyWhenFull`),
`CallReturns`.

`BstrStream` (44 350 states, `WF` on the read loops). A core stream of three
characters, any one of which may be a terminator, that answers each
request with fewer characters, or none, at will; buffer sizes 1, 2 and `INT_MAX`
(whose `+ 1` wraps), destinations that are empty, have room, or are protected;
characters put back before, between and after reads. Requests, chunks and
buffers are then all both longer and shorter than each other.

- `HandsOutInOrder` (refinement of `StreamContract!Forgiving`): the mapping
  counts the buffer as left in the stream between calls, and as handed over
  while a call reads, for both readers append it before their first request.
- `ReadIsExact` (`LineIsALine`, `BlockIsExact`, `ReturnTellsDelivery`): what a
  call delivers and says. `StreamSound` (`SentinelFits`): room for the character
  stored after the text, whatever was granted, resized or put back.
  `EofHasCause`: who may set `isEOF`.
- `CallReturns`.

`BstrSplit` (122 372 states, `WF` on the steps of the split and of the reads
under it). A stream cut twice by a separator of two characters, and by the second
of them alone, read in twos, so that reads cut through the separators and go past
the first of them; a callback that may read a line or a block, or put back
characters with a separator among them.

- `PiecesPartition`: each piece is the beginning of what is due, its separator
  follows, and the rest is left: nothing is lost or repeated. At the callback the
  stream is right after the separator, with `ReadsAhead` as the one exception:
  `bssplitstrcb` keeps what it has read too far in its own buffer, in front of the
  stream.
- `PiecesArePlaced`: the offset is the place in the stream while no callback has
  moved in it; a last piece means the end, or refused memory. `SplitSound`: no
  separator inside a piece, but in the last one of `bssplitstrcb`.
- `SplitReturns`; a split at a string only unless memory is refused for ever.

`UuStream` (54 111 states, `WF` on the decoder). Lines that are good, short of a
group or of a character, or hold what encodes nothing; terminated and not; read
in fours, asked for 1, 2 or 4.

- `UuSound`: what comes out is the decoded text, in order and with nothing left
  out, however requests, blocks and lines cut it; more only for an unterminated
  line or in front of a bad one that is not counted. `EndIsTheEnd`: at the end
  all has come out and every bad line is counted. `AskIsAnswered`.

### Writing, lists and encodings

`BwsStream` (122 100 states). Texts up to several times the buffer, whose size
is changed to less than it holds; a sink that accepts any part of each request.

- `IsAPipe` (refinement of `PipeContract!Spec`): what was given comes out in
  order and once, until the sink refuses some; what was then held never does, and
  the write in which it refuses, like each one after it, fails. Texts whose
  writers had been told of success may be among what is lost.
- `BufferSound`: fewer than the minimum are held, and the sink is never asked
  for fewer by a write. `RefusedTakesAllOrNothing`: a write refused memory has
  taken none or all of its text.

`BstrList` (85 425 states, `WF` on the iterators). Strings with separators at
both ends, adjacent and overlapping, and more of them than a list starts with; a
callback may shorten or lengthen the string once.

- `PiecesFollow`: pieces and separators follow one another to the end of the
  string, whatever the callback did to it. `SplitIsExact`: no separator in a
  piece, one behind it, and the join of a split is the string, with room for its
  terminator. `ListIsSound`: a list has room for its entries, and one that failed
  was refused memory. One with an entry that is NULL counts as sound, for it can
  be resized and destroyed, though `bjoin` of it crashes.
- `SplitEnds`.

`BstrConversions` (340 344 states). Bytes on both sides of every bound the code
compares with; UU lines of six, so that a text has more than a group and more
than a line; texts cut at every place, or with one character changed or inserted
at every place; a temporary buffer of two code points. A UU encoding is shorter
than the 256 characters one request takes; `UuStream` is about longer ones.

- `ComesBack`: what was encoded is decoded to what it was, through everything a
  decoder has to pass over. `DamageIsContained`: damage reaches no further back
  than where it is, and no further forward than the decoder needs; a loss at the
  end, or of memory, is noticed, but for memory refused to UU.
- `ReadsCodePoints`: the iterator and the backward scan find each code point
  that is there, and none that is not. `ConvertsBack`: code units and UTF-8 stand
  for each other, whatever the room, the byte order and the errors.

### Fairness

Weak fairness is assumed only of loops that do not block: between two requests
or callbacks the code runs on, and the core stream, the sink and the callbacks
are assumed to return. Nothing is assumed of what they answer, nor of the user,
who may stop between calls (therefore `CHECK_DEADLOCK FALSE` where a bound stops
the user), nor of the allocator.

### Where the code departs from its documentation

Two runs check a promise of the documentation and find it broken;
`PROJECT.json` quotes it.

| run | what happens |
|---|---|
| `TextAliasing` | `bassign` of a view of the string itself reads it after the buffer has moved; so do `bassignmidstr`, `bcatblk`, `bassignblk` and `bfindreplace` in the states named by `ReadsStale` |
| `UuAfterEnd` (c) | a line read at the end of a UU decoding stream dereferences the buffer it has destroyed |

Those marked (c) were also reproduced with a C program (with gcc, and the
allocator made to refuse where needed). The others have no run of their own: a
property of a passing run states the exception they make necessary, or the
actions do what the code does.

- `OverrunNeedsNamedCause`, the three causes. `bassign` writes its terminator
  one past a buffer of exactly the size it asked for (c), though `security.md`
  61-62 makes overflows impossible. Lengths that sum to `INT_MAX` make `bconcat`
  allocate nothing, and `bdelete(b, 1, INT_MAX)` is not clamped (c; `bstrlib.h`
  411-412). Such sums also take `bcatblk` and `bfindreplace` out of the buffer in
  an optimised build (c), where the overflow test is gone, and a C string longer
  than `INT_MAX` that `bfromcstr` converts. `bfromcstrrangealloc` with an odd
  minimum settles for one byte less (c), and `brtrimws` of a text that fills its
  buffer writes one past it (c).
- `FailedCallKeepsText`, `ErrorLeavesText`: `bcatcstr` and `bassigncstr` that fail
  leave a part of the C string, and no terminator, where `introduction.md` 260-261
  says that an error leaves the string alone. `bFill`, `bInsertChrs`,
  `bJustifyRight`, `bJustifyCenter` and `bSGMLEncode` also fail with the text
  changed.
- `HandsOutInOrder`, the relapse: a line read refused memory delivers buffered
  characters twice (c). `EofHasCause`: a block read that is refused memory
  sets EOF, and `bseof` announces the end of a stream nobody has read to its end
  (c), against `bstrlib.h` 1464-1466; there is no other false end.
- `ReadIsExact` of the bStream, the exception for refused memory: a line read
  whose `bconcat` failed returns `BSTR_OK` (c); and for the direct path: where
  `bsreada` bypasses its buffer it takes a short answer for the whole block (c).
- `ReadIsExact` and `ReadSound` of the unbuffered readers: `bgetsa` refused memory
  keeps part of the line and loses the character in hand; at the end of the
  stream, given a text that fills its buffer, it writes one past it.
- `SplitSound`: `bssplitstrcb` does not search what it holds when the stream ends,
  so that a stream that ends within one block comes out in one piece, separators
  and all, against `bstrlib.h` 1422-1423.
- `PiecesPartition` (`ReadsAhead`): at its callback `bssplitstrcb` has text of its
  own that was read behind the separator. A callback that reads gets what follows
  it, and one that puts characters back puts them behind it, where `bstrlib.h`
  1429-1433 has the stream right after the separator and the next split begin
  where the callback leaves it.
- `UuSound`: a last line without an end is decoded again with each request, and
  lines in front of a bad one, when bad lines are not counted.
- `SplitIsExact`: a callback that shortens the string gives the last piece of a
  split at a string a negative length (`bstrlib.h` 957-961 allows the change). An
  empty separator splits between all characters. `bjoin` dereferences NULL when
  its header is refused.
- `TextIsPromised`: `bReplicate` of a product past `INT_MAX`; `bJustifyMargin`
  ignores refused memory, and has then lost spaces or words.
- `ComesBack`: a netstring that holds `'\0'` is refused, and `bUuDecodeEx` returns
  NULL for line ends with nothing between them, though `bUuDecode` of the empty text
  is the empty text. `DamageIsContained`: base64 with a line end between its
  paddings is called truncated; `bUuDecodeEx` for which memory runs out in a line
  hands over what it has decoded up to there as though it were all, with no NULL
  and no bad line counted.
- `ReadsCodePoints`: the iterator passes over continuation bytes at the beginning
  of a text. `ConvertsBack`: `buIsUTF8Content` rejects U+0000,
  `buGetBlkUTF16` of a text that is used up returns -1, and a U+FEFF in front of
  a text is taken for a byte order mark and lost. `buAppendBlkUcs4` sets the
  length back on failure, but not the terminator.
- No property, the actions do what the code does: `btoupper`, `btolower`,
  `bltrimws`, `brtrimws` and `btrimws` of an empty text return `BSTR_OK`, where
  `bstrlib.h` 986-1031 says `BSTR_ERR`; `bwsClose` does not tell of a last flush that
  failed; `bspeek` replaces its destination
  where `bstrlib.h` 1384-1386 says it appends (c), and `bsread` at the end of the
  stream returns `BSTR_ERR` with the destination emptied (c).

## Proofs

`BstrHeaderProofs` proves seven theorems of `BstrHeader!Spec`, for every `IntMax`,
`SnapMin`, `MemMax` and set of arguments the assumptions allow
(`SizesAssumption`: 2 < SnapMin < IntMax, MemMax <= IntMax; `SnapAssumption`:
`SnapMin` is a power of two, as the 8 of the source is, and an int has at most 32
bits; `ArgumentsAssumption`, `FindIndexAssumption`): `TypeCorrect`, `HeaderSound`,
`OverrunHasCause`, `TerminatorKept`, `ErrorKeepsText`, `ProtectionKept`,
`GrowthIsGeometric`.

The argument. `Lawful(op, wide, h, o)` says what one call may do to a header: one
conjunct per property. A call of each operator on an intact header is lawful (one
lemma per function, over a few lemmas on what `Balloc`, `Finish` and
the narrowing of ints do); hence each action is; hence `Next` keeps
`IInv == TypeOK /\ WellFormed` and each step has the action properties. `WellFormed`
alone is not inductive without the types. It is also as strong as it has to be:
that a terminated text has its terminator inside of the buffer is what makes a
failed call keep it, and that `mlen` is -1 or positive is what makes
`bwriteallow` restore a size that is really there. For the growth each function
is shown to ask for no more than its text and the terminator take
(`FinishGrows`), and the size balloc snaps that to is at most twice it and, past a
power of two, at least twice that power (`SnapUpSizeGrows`, from a list of the
powers that fit an int).

`BstrSearchProofs` proves that the searches are exact, for all texts, positions
and any `tolower` (`SearchAssumption`: texts are of bytes): `SearchInvariant`,
and from it `SearchIsExact` (`NearestIsFound`) and `BinstrLosesNone`
(`NoneIsPassed`). `SearchInv` says of the three loops that try position after
position that what they have compared is equal and that no position behind them
is an occurrence; of the loop of `binstr`, that no occurrence lies behind what it
has, that the characters it has end at or before `i`, and that they are those of `b2`
when they turn out contiguous, which is the moment the code believes them. The
last part is what is not visible in any property and has to be added to make
the invariant inductive. One lemma per kind of turn: a character skipped, taken,
the last one taken and contiguous, or not contiguous and gone back.

The same module proves `AnswersAreRight` (`AnswersAgree`), for every `tolower`
that takes bytes to bytes and leaves lower case as it is
(`DowncaseAssumption`). The functions that answer at once are right by what they
compute: a field of bits tells each byte (`CharFieldFacts`), so that the searches
for a character look at the same offsets as their promise (`CharSearchIsNearest`);
`bstrcmp` and `bstricmp` are shown to compare a number for each place of a text
(`CmpKey`, `CaseKey`), lexicographically, which is why they are antisymmetric and
transitive though `\0` ends a text for one of them and counts as 256 in the other
(`OrderFacts`); `bstrncmp` is `bstrcmp` of the texts cut. The least and the
greatest element of a set come from well-founded induction on numbers as a
theorem of the library, without its operator parameter.

`BstrReadProofs` proves `ReadersAreSound` (`ReadSound`) and `ReadersAreExact`
(`ReadIsExact`), for every core stream, terminator and size of a block.
`ReadInv` adds that what was taken is what is stored followed by what is left,
and how far the buffer of the call at work reaches: there is room for the
terminator, but where `bgetsa` was given a full buffer and has stored nothing
yet. That one exception is what becomes the overrun of `OverrunOnlyWhenFull`.
`DestsAssumption`: a destination is a string as `BstrHeader` shows that calls
leave it.

`BstrStreamProofs` proves `StreamIsSound` (`StreamSound`), `StreamReadsAreExact`
(`ReadIsExact`), `EndHasACause` (`EofHasCause`) and `StreamImplementsContract`
(`HandsOutInOrder`): the initial state is one of `StreamContract`, and every step
of each action is a step of it or a stutter under the mapping. `StreamInv` adds
what a call at work keeps from one request to the next: the buffer has room for a
whole request and the sentinel; a line read has handed over what the buffer
holds, and no terminator in it; a block read has emptied the buffer and is short
of its length. The second is why what a line read keeps buffered at its end
is the rest of what it took, the third why a block read repeats nothing.
`TextsFit`: no destination comes to a length of `INT_MAX`, for `bconcat` then
leaves its buffer, as `OverrunNeedsNamedCause` says.

It also proves `SplitIsSound` (`SplitSound`), `SplitPartitions`
(`PiecesPartition`) and `SplitPlacesPieces` (`PiecesArePlaced`) of
`BstrSplit!SplitSpec`. `SplitInv` takes over `StreamInv`, and says of each phase
where what is due lies: between two reads it is the text of the split followed
by what the stream holds; during a read, what the read has handed over lies
between the two; in the callback, the piece and its separator come first. For
the offsets it adds that the offset is the length of what has been cut off, and
for `bssplitscb` that what has been searched has no separator. It cannot take over
`ReadIsExact`: putting back what was read too far changes the buffer behind the
back of the last read. `SplitFits`, with a bound on all that a user may put back,
is the `TextsFit` of the string in which a split collects what it reads.

`BwsStreamProofs` proves `BufferIsSound` (`BufferSound`), `WriteIsAllOrNothing`
(`RefusedTakesAllOrNothing`) and `StreamIsAPipe` (`IsAPipe`, the refinement of
`PipeContract`). A call is a chain of steps on an outcome; what is followed
through the chain is its flow, what the sink got followed by what is held. A step
extends the flow by its text, leaves it alone, or breaks the pipe at some point
in it, and after a break no step gives anything to the sink, and every text is refused.

`BstrListProofs` proves `ListsAreSound` (`ListIsSound`), `SplitIsComplete`
(`PiecesFollow`) and `JoinUndoesSplit` (`SplitIsExact`). `ListInv` follows the
position of an iterator: while a callback runs, it is behind the piece and its
separator; an iterator that goes on has not left the string, unless a callback
shortened it under a split at a string. A list that is built has no more entries
than characters passed, so that, of a string shorter than half of `INT_MAX`, only
refused memory can make it fail. `JoinInv` adds what the entries are: while the
list is built, joined with the separator and with the piece in hand they are the
string up to the position, and the callback, `bscb`, has left the string alone;
when it has been built without a failure, joined they are the string.

What is joined is a `FlattenSeq`, a fold of the community modules. Induction as a
theorem about an operator is outside of the prover, but a set that holds 0, and
each number that follows one it holds, can be shown to hold every number by the
least one it lacks (`LeastExists`, `AllUpTo`). That is how `BstrLemmas` proves
what a fold over a sequence of sequences makes: there are partial sums of it
(`ConcatsExist`), the last one is what `FlattenSeq` returns (`FlattenIs`), and
one sequence more is appended (`FlattenAppend`).

`DecodingProofs` proves `UuIsSound` (`UuSound`) and `UuEndIsTheEnd`
(`EndIsTheEnd`), for all inputs, lengths of lines, groups and reads, and requests.
`UuInv` follows the position in the input: `src` and what is left to read are
what lies behind it, it is at the begin of a line, and so is the loop over the
lines in `src` (`Placed`). A run is then in one of three states. `Regular`: what
came out and is in `dst` is the text of the lines in front of the loop, and the
bad ones among them are counted, or there are none. `Over`: what is due is the
beginning of what came out and is in `dst`; all of it, with every bad line
counted once and nothing left in `src`, if the last line has an end and the
decoder is not stuck in front of a bad one. Or memory was refused. That `Over` is
entered with exactly what is due, from a bad line and from the end of the input,
is where the text of the first lines must be shown to be the text up to `Stop`
(`OneLine`, `StopFacts`); that it is kept when the end is asked for again is why
the two exceptions of `UuSound` are the only ones.

The same module proves `ReadsWhatIsThere` (`ReadsCodePoints`) for all bytes
(`TextAssumption`: what is read is bytes, and a code point looked for is an
integer). It is a theorem of `BstrUtf!UtfSpec`, which says of the variables of
`BstrUtf` what `BstrConversions!Spec` says of them: they begin as in `UtfInit`, or
as in `UtfIdle`, and a step that changes them is one of `UtfNext`. Most of it is
about two operators. What `CodePoint` reads at a position is a code point, and the
bytes there are its encoding (`ReadsEncoding`); the other way round, a code point
whose encoding is there is read (`WrittenIsRead`), so that there is one encoding of
each. The byte a code point begins with continues none, therefore none begins
inside of what is read or passed over from further back (`NoneBeginsInside`). The
backward scan stops at a byte that may be a first one, and announces as many as
lie between; the code point a byte belongs to has its first byte there and nowhere
else (`OwnerIsFound`, `FoundIsOwner`), though the scan takes 193 and not 192 for a
first byte of two, which is right as no code point begins with 192
(`NoneBeginsWith192`). `UtfInv` adds, for the iterator, that it walks bytes and is
inside of all of them.

None of the theorems rests on the values of a run: texts, buffers and memory are
of any size that `SizesAssumption`, `TextsFit` and `SplitFits` admit, and the
bounds on what the user does (`HeldMax`, `MovesMax`, `ChangesMax`, `GivenMax`)
are any numbers within them.

Model-checked only:

- `BstrText` (`TextSound`, `TextIsPromised`, `ErrorLeavesText`), whose operators
  are RECURSIVE: the prover has no arithmetic where one is declared;
- the encodings and the conversions (`ComesBack`, `DamageIsContained`,
  `ConvertsBack`): what a decoder, a fold over the characters, makes of what an
  encoder wrote needs an induction over the data for each pair of them;
- all liveness: that searches, reads, splits and decoding return.

## Plan

1. *Done*: `BstrAlloc`, `BstrMutators`, `BstrHeader` and their proofs;
   `BstrStream` with `StreamContract`; `BstrRead`; `BstrSplit`; `TextMutators`,
   `TextContract`, `BstrText`; `BstrList`; `BwsStream` with `PipeContract`;
   `BstrCompare`, `BstrSearch` and its proofs; `UuStream`; `BstrCodecs`,
   `BstrUtf`.
2. *Done*: the proofs of `BstrRead`, `BstrStream` with its refinement,
   `BstrSplit`, `BwsStream` with its refinement, `BstrList` and `UuStream`; of
   `Growth`, of `AnswersAgree` and of `ReadsCodePoints`.
3. Code to come: `bformat`, `bsFromBstr`, `bSecureInput`.

Not modelled: the wording of formatted output (`vsnprintf` is external),
`bStrfTime`, `bstr2cstr` and `bcstrfree` (the string is only read), `bHead` and
`bTail` (a `bmidstr`), the tests, the fuzzers and the build.

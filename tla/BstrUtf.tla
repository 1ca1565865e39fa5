------------------------------- MODULE BstrUtf -------------------------------
(***************************************************************************)
(* UTF-8 and UTF-16: the iterator and the backward scan of                 *)
(* bstring/utf8util.c, and the conversions of bstring/buniutil.c.  Bytes,  *)
(* code points and code units keep their values.                           *)
(*                                                                         *)
(* The behaviour begins with bytes, or with code units, of any kind.       *)
(* Bytes are walked through with an iterator and converted to code units,  *)
(* code units are appended to a text that is there already, by an          *)
(* allocator that may refuse; and what came out is converted back.         *)
(***************************************************************************)
EXTENDS Integers, Sequences, SequencesExt

CONSTANTS
  Utf8s,      \* bytes to begin with
  Units,      \* code units to begin with
  Points,     \* code points to begin with
  ErrChars,   \* what the caller wants for what is not a code point
  Lengths,    \* how many code units the caller has room for
  TempMax     \* TEMP_UCS4_BUFFER_SIZE, 64 in the source

ASSUME TextAssumption == Utf8s \subseteq Seq(0..255) /\ Points \subseteq Seq(Int)

ASSUME UtfAssumption ==
  /\ Units \subseteq Seq(0..65535)
  /\ ErrChars \subseteq Int /\ Lengths \subseteq Nat \ {0}
  /\ TempMax \in Nat \ {0}

VARIABLES
  kind,     \* what the behaviour began with: "utf8", "utf16" or "ucs4"
  given,    \* the bytes it began with
  text,     \* the bytes of the bstring
  it,       \* struct utf8Iterator over them
  val,      \* what the last read of the iterator returned
  array,    \* an array of code units, or of code points
  bom,      \* the byte order mark the caller keeps
  last      \* the last conversion: what it was given and what it returned

utfVars == <<kind, given, text, it, val, array, bom, last>>

-----------------------------------------------------------------------------
BSTR_ERR == -1

(* U+FFFD. *)
Replacement == 65533

Small(m, n) == IF m < n THEN m ELSE n

Upto(t, n) == SubSeq(t, 1, n)

From(t, n) == SubSeq(t, n + 1, Len(t))

(* No surrogate, not past the end, and none of the two last of its plane. *)
IsLegalUnicodeCodePoint(v) ==
  /\ v < 55296 \/ v > 57343
  /\ 0 <= v /\ v <= 1114111
  /\ v % 65536 \notin {65534, 65535}

Continues(c) == c \in 128..191

(* How many bytes a first byte announces: 0 if it is none. *)
Announced(c) ==
  CASE c < 128 -> 1
    [] c \in 192..223 -> 2
    [] c \in 224..239 -> 3
    [] c \in 240..247 -> 4
    [] OTHER -> 0

Least(n) == CASE n = 1 -> 0 [] n = 2 -> 128 [] n = 3 -> 2048 [] n = 4 -> 65536

Invalid == -1

(* Whether all the bytes are there that the one at position p announces. *)
Whole(t, p) ==
  LET n == Announced(t[p + 1])
  IN  n > 0 /\ p + n <= Len(t) /\ \A j \in 1..(n - 1) : Continues(t[p + 1 + j])

Value(t, p) ==
  LET n == Announced(t[p + 1])
  IN  CASE n = 1 -> t[p + 1]
        [] n = 2 -> (t[p + 1] - 192) * 64 + (t[p + 2] - 128)
        [] n = 3 -> (t[p + 1] - 224) * 4096 + (t[p + 2] - 128) * 64 + (t[p + 3] - 128)
        [] n = 4 -> (t[p + 1] - 240) * 262144 + (t[p + 2] - 128) * 4096
                      + (t[p + 3] - 128) * 64 + (t[p + 4] - 128)

(* Mutant: encodings that are longer than they need be are taken. *)
CodePointOverlong(t, p) ==
  IF Whole(t, p) /\ (Announced(t[p + 1]) > 2 => IsLegalUnicodeCodePoint(Value(t, p)))
  THEN Value(t, p) ELSE Invalid

(***************************************************************************)
(* The code point at position p (from 0) of t: what                        *)
(* utf8IteratorGetNextCodePoint, utf8IteratorGetCurrCodePoint and          *)
(* utf8ScanBackwardsForCodePoint all work out.                             *)
(***************************************************************************)
CodePoint(t, p) ==
  LET n == Announced(t[p + 1])
      v == Value(t, p)
  IN  IF Whole(t, p) /\ v >= Least(n) /\ (n > 2 => IsLegalUnicodeCodePoint(v))
      THEN v ELSE Invalid

(* Where the code points a reader sees end: behind an invalid one, all the *)
(* bytes that would continue it are passed over.                           *)
Behind(t, p) ==
  IF CodePoint(t, p) # Invalid THEN p + Announced(t[p + 1])
  ELSE CHOOSE q \in (p + 1)..Len(t) :
         /\ q = Len(t) \/ ~Continues(t[q + 1])
         /\ \A j \in (p + 1)..(q - 1) : Continues(t[j + 1])

(* The byte k in front of the one at position p. *)
Before(t, p, k) == IF k <= p THEN t[p - k + 1] ELSE 0

(* How far back a code point begins that may have the byte at p. *)
Back(t, p) ==
  LET continue(n) == \A k \in 0..(n - 1) : Continues(Before(t, p, k))
  IN  CASE ~continue(1) -> 0
        [] continue(1) /\ Before(t, p, 1) \in 193..247 -> 1
        [] continue(2) /\ Before(t, p, 2) \in 224..247 -> 2
        [] continue(3) /\ Before(t, p, 3) \in 240..247 -> 3
        [] OTHER -> BSTR_ERR

(***************************************************************************)
(* utf8ScanBackwardsForCodePoint: how far back the code point begins that  *)
(* has the byte at position p, and what it is; ret is BSTR_ERR for any of  *)
(* its errors.                                                             *)
(***************************************************************************)
ScanBackwards(t, p) ==
  LET back == Back(t, p)
      v == IF back = BSTR_ERR THEN Invalid ELSE CodePoint(t, p - back)
  IN  IF v = Invalid THEN [ret |-> BSTR_ERR, out |-> Invalid]
      ELSE [ret |-> back, out |-> v]

(* Every code point of t, Invalid for what is none. *)
CodePoints(t) ==
  LET from[p \in 0..Len(t)] ==
        IF p = Len(t) THEN <<>> ELSE <<CodePoint(t, p)>> \o from[Behind(t, p)]
  IN  from[0]

(* The code point U+0000 is taken for an error. *)
BuIsUTF8Content(t) == \A k \in DOMAIN CodePoints(t) : CodePoints(t)[k] > 0

-----------------------------------------------------------------------------
(* Conversions. *)

(* The bytes in front of the code point number pos, counted by first bytes. *)
Skipped(t, pos) ==
  CHOOSE j \in 0..Len(t) :
    /\ \/ j = Len(t)
       \/ /\ ~Continues(t[j + 1])
          /\ Cardinality({k \in 1..j : ~Continues(t[k])}) >= pos
    /\ \A i \in 0..(j - 1) :
         \/ Continues(t[i + 1])
         \/ Cardinality({k \in 1..i : ~Continues(t[k])}) < pos

(* One code point, as long as there is room; half a pair is not written. *)
PutUnits(d, v) ==
  LET y == v - 65536
  IN  CASE d.room = 0 -> d
        [] d.room > 0 /\ v < 65536 ->
             [out |-> Append(d.out, v), room |-> d.room - 1]
        [] d.room = 1 /\ v >= 65536 ->
             [out |-> Append(d.out, Replacement), room |-> 0]
        [] d.room > 1 /\ v >= 65536 ->
             [out |-> d.out \o <<55296 + y \div 1024, 56320 + (y % 1024)>>,
              room |-> d.room - 2]

(* buGetBlkUTF16: what is not used of the array is set to 0; it is an      *)
(* error when there is nothing behind the code points that are skipped.    *)
BuGetBlkUTF16(t, len, errCh, pos) ==
  LET e == IF IsLegalUnicodeCodePoint(errCh) THEN errCh ELSE Replacement
      points == CodePoints(From(t, Skipped(t, pos)))
      d == FoldLeft(PutUnits, [out |-> <<>>, room |-> len],
                    [k \in DOMAIN points |-> IF points[k] = Invalid THEN e ELSE points[k]])
  IN  [ret |-> IF points = <<>> THEN BSTR_ERR ELSE Len(d.out),
       units |-> d.out \o [k \in 1..(len - Len(d.out)) |-> 0]]

Encoded(v) ==
  CASE v < 128 -> <<v>>
    [] 128 <= v /\ v < 2048 -> <<192 + v \div 64, 128 + (v % 64)>>
    [] 2048 <= v /\ v < 65536 ->
         <<224 + v \div 4096, 128 + ((v \div 64) % 64), 128 + (v % 64)>>
    [] 65536 <= v ->
         <<240 + v \div 262144, 128 + ((v \div 4096) % 64),
           128 + ((v \div 64) % 64), 128 + (v % 64)>>

(* Mutant: a code point is not looked at. *)
PutPointAny(d, v) ==
  IF d.ok /\ d.grants > 0
  THEN [d EXCEPT !.text = d.text \o Encoded(v), !.grants = d.grants - 1]
  ELSE [d EXCEPT !.ok = FALSE]

(* One code point of an array: it needs a legal one, and memory. *)
PutPoint(d, v) ==
  LET w == IF IsLegalUnicodeCodePoint(v) THEN v ELSE d.errCh
  IN  IF d.ok /\ IsLegalUnicodeCodePoint(w) /\ d.grants > 0
      THEN [d EXCEPT !.text = d.text \o Encoded(w), !.grants = d.grants - 1]
      ELSE [d EXCEPT !.ok = FALSE]

(* buAppendBlkUcs4, for an allocator that grants so many appends: a        *)
(* failure takes slen back (what it wrote lies behind the text, where the  *)
(* terminator was).                                                        *)
BuAppendBlkUcs4(t, points, errCh, grants) ==
  LET d == FoldLeft(PutPoint,
             [ok |-> TRUE, text |-> t, errCh |-> errCh, grants |-> grants], points)
  IN  [ok |-> d.ok, text |-> IF d.ok THEN d.text ELSE t, grants |-> d.grants]

(* U+FFFE and U+FEFF. *)
Marks == {65534, 65279}

Swapped(mark, c) == IF mark = 65534 THEN (c % 256) * 256 + c \div 256 ELSE c

(* The code points of an array of code units: a surrogate that is not part *)
(* of a pair is Invalid.                                                   *)
PointsOf(u) ==
  LET n == Len(u)
      paired(i) == i < n /\ u[i + 1] \in 56320..57343
      from[i \in 1..(n + 2)] ==
        CASE i > n -> <<>>
          [] i <= n /\ u[i] \notin 55296..57343 -> <<u[i]>> \o from[i + 1]
          [] i <= n /\ u[i] \in 55296..56319 /\ paired(i) ->
               <<(u[i] - 55296) * 1024 + (u[i + 1] - 56320) + 65536>> \o from[i + 2]
          [] OTHER -> <<Invalid>> \o from[i + 1]
  IN  from[1]

(* TempMax code points are appended at a time. *)
FlushPoints(d) ==
  LET r == BuAppendBlkUcs4(d.text, d.buff, d.errCh, d.grants)
  IN  [d EXCEPT !.ok = r.ok, !.text = r.text, !.buff = <<>>, !.grants = r.grants]

BufferPoint(d, v) ==
  LET e == [d EXCEPT !.buff = Append(d.buff, IF v = Invalid THEN d.errCh ELSE v)]
  IN  CASE ~d.ok -> d
        [] d.ok /\ v = Invalid /\ ~IsLegalUnicodeCodePoint(d.errCh) -> [d EXCEPT !.ok = FALSE]
        [] OTHER -> IF Len(e.buff) >= TempMax THEN FlushPoints(e) ELSE e

(***************************************************************************)
(* buAppendBlkUTF16: the byte order comes from the mark the caller has     *)
(* (0 if none), or from the first code unit, which is not converted then.  *)
(***************************************************************************)
BuAppendBlkUTF16(t, u, known, errCh, grants) ==
  LET found == known \notin Marks /\ u # <<>> /\ u[1] \in Marks
      mark == CASE known \in Marks -> known [] found -> u[1] [] OTHER -> 0
      units == [k \in DOMAIN u |-> Swapped(mark, u[k])]
      d == FoldLeft(BufferPoint,
             [ok |-> TRUE, text |-> t, buff |-> <<>>, errCh |-> errCh, grants |-> grants],
             PointsOf(IF found THEN From(units, 1) ELSE units))
      e == IF d.ok /\ d.buff # <<>> THEN FlushPoints(d) ELSE d
  IN  [ok |-> e.ok, text |-> IF e.ok THEN e.text ELSE t,
       bom |-> IF found THEN mark ELSE known]

-----------------------------------------------------------------------------
(* struct utf8Iterator, and a state before any was initialized. *)
NoIterator == [slen |-> -1, start |-> -1, next |-> -1, error |-> 1]

(* What the caller of the iterator passes as errCh. *)
ErrCh == -2

Unread == [by |-> "none", v |-> ErrCh]

Untouched ==
  [op |-> "none", errCh |-> 0, known |-> 0, len |-> 0, pos |-> 0, ret |-> 0]

UtfInit ==
  /\ \/ kind = "utf8" /\ text \in Utf8s /\ array = <<>> /\ bom = 0
     \/ kind = "utf16" /\ text = <<65>> /\ array \in Units /\ bom \in {0} \cup Marks
     \/ kind = "ucs4" /\ text = <<65>> /\ array \in Points /\ bom = 0
  /\ given = text /\ it = NoIterator /\ val = Unread
  /\ last = Untouched

Walking == kind = "utf8" /\ last.op = "none"

Utf8IteratorInit ==
  /\ Walking
  /\ it' = [slen |-> Len(text), start |-> -1, next |-> 0, error |-> 0]
  /\ val' = Unread
  /\ UNCHANGED <<kind, text, given, array, bom, last>>

Reads(by, i, v) ==
  /\ it' = i /\ val' = [by |-> by, v |-> v]
  /\ UNCHANGED <<kind, text, given, array, bom, last>>

Error(p) == IF CodePoint(text, p) = Invalid THEN 1 ELSE 0

ValueAt(p) == IF CodePoint(text, p) = Invalid THEN ErrCh ELSE CodePoint(text, p)

Utf8IteratorGetNextCodePoint ==
  /\ Walking /\ it.next >= 0
  /\ IF it.next >= it.slen THEN Reads("next", [it EXCEPT !.start = it.slen], ErrCh)
     ELSE Reads("next", [it EXCEPT !.error = Error(it.next), !.start = it.next,
                                   !.next = Behind(text, it.next)], ValueAt(it.next))

(* The code point that comes next: start is not moved to it. *)
Utf8IteratorGetCurrCodePoint ==
  /\ Walking /\ it.next >= 0
  /\ IF it.next >= it.slen THEN Reads("curr", [it EXCEPT !.start = it.slen], ErrCh)
     ELSE Reads("curr", [it EXCEPT !.error = Error(it.next)], ValueAt(it.next))

Utf8IteratorUninit ==
  /\ Walking /\ it.next >= 0
  /\ Reads("none", [it EXCEPT !.slen = -1, !.start = -1, !.next = -1], ErrCh)

GetBlkUTF16 ==
  /\ Walking /\ it = NoIterator
  /\ \E len \in Lengths, errCh \in ErrChars, pos \in 0..2 :
       LET r == BuGetBlkUTF16(text, len, errCh, pos)
       IN  /\ array' = r.units
           /\ last' = [op |-> "get", errCh |-> errCh, known |-> 0, len |-> len,
                       pos |-> pos, ret |-> r.ret]
  /\ UNCHANGED <<kind, text, given, it, val, bom>>

Converted(op, errCh, r) ==
  /\ text' = r.text
  /\ last' = [op |-> op, errCh |-> errCh, known |-> bom, len |-> 0, pos |-> 0,
              ret |-> IF r.ok THEN 0 ELSE BSTR_ERR]
  /\ UNCHANGED <<kind, given, it, val, array>>

AppendBlkUcs4 ==
  /\ kind = "ucs4" /\ last.op = "none"
  /\ \E errCh \in ErrChars, grants \in 0..Len(array) :
       Converted("append", errCh, BuAppendBlkUcs4(text, array, errCh, grants))
  /\ UNCHANGED bom

AppendBlkUTF16 ==
  /\ kind = "utf16" /\ last.op = "none"
  /\ \E errCh \in ErrChars, grants \in 0..Len(array) :
       LET r == BuAppendBlkUTF16(text, array, bom, errCh, grants)
       IN  Converted("append", errCh, r) /\ bom' = r.bom

UtfNext ==
  \/ Utf8IteratorInit \/ Utf8IteratorGetNextCodePoint
  \/ Utf8IteratorGetCurrCodePoint \/ Utf8IteratorUninit
  \/ GetBlkUTF16 \/ AppendBlkUcs4 \/ AppendBlkUTF16

(* Before any of it is called. *)
UtfIdle ==
  /\ kind = "none" /\ given = <<>> /\ text = <<>> /\ it = NoIterator
  /\ val = Unread /\ array = <<>> /\ bom = 0 /\ last = Untouched

(* The part of a behaviour of BstrConversions that is about these variables. *)
UtfSpec == (UtfInit \/ UtfIdle) /\ [][UtfNext]_utfVars

-----------------------------------------------------------------------------
(* Properties. *)

EncodedAt(p, n, v) ==
  /\ IsLegalUnicodeCodePoint(v) /\ SubSeq(text, p + 1, p + n) = Encoded(v)

(***************************************************************************)
(* What the iterator reads is what is there: a code point where it finds   *)
(* no error, in its one encoding.                                          *)
(***************************************************************************)
ReadIsThere ==
  val.v # ErrCh =>
    /\ it.error = 0
    /\ val.by = "next" => EncodedAt(it.start, it.next - it.start, val.v)
    /\ val.by = "curr" => EncodedAt(it.next, Len(Encoded(val.v)), val.v)

(* Whether the encoding of a code point of Points is at p. *)
BeginsPoint(p) ==
  \E w \in Points : \E k \in DOMAIN w :
    IsLegalUnicodeCodePoint(w[k]) /\ IsPrefix(Encoded(w[k]), From(text, p))

(* And where it finds an error there is none; nor does one begin in the    *)
(* bytes behind, whether it reads them or passes over them.                *)
NothingIsPassedOver ==
  it.next = 0 =>
    \A p \in 0..(Len(text) - 1) :
      /\ BeginsPoint(p) => CodePoint(text, p) # Invalid
      /\ CodePoint(text, p) # Invalid =>
           \A q \in 0..(p - 1) : Behind(text, q) <= p

(***************************************************************************)
(* From any byte the backward scan finds the code point the byte belongs   *)
(* to, the same as the iterator; and an error where there is none.         *)
(***************************************************************************)
ScanAgrees ==
  it.next = 0 =>
    \A p \in 0..(Len(text) - 1) :
      LET r == ScanBackwards(text, p)
          owners == {k \in 0..p : /\ CodePoint(text, p - k) # Invalid
                                  /\ Behind(text, p - k) > p}
      IN  IF owners = {} THEN r.ret = BSTR_ERR
          ELSE r.ret \in owners /\ r.out = CodePoint(text, p - r.ret)

(* The iterator and the backward scan read what is written, and nothing    *)
(* that is not.                                                            *)
ReadsCodePoints == ReadIsThere /\ NothingIsPassedOver /\ ScanAgrees

Legal(v) == IsLegalUnicodeCodePoint(v)

Bytes(points) == FlattenSeq([k \in DOMAIN points |-> Encoded(points[k])])

(* The code units got from a UTF-8 text, appended to an empty one, are the *)
(* text again, as far as there was room, from the code point asked for.    *)
UnitsStandForText ==
  LET points == CodePoints(given)
      rest == From(points, last.pos)
      back(n) == BuAppendBlkUTF16(<<>>, Upto(array, n), 65279, -1, n)
  IN  (last.op = "get" /\ Invalid \notin ToSet(points)) =>
        IF rest = <<>> THEN last.ret = BSTR_ERR
        ELSE /\ last.ret \in 1..last.len
             /\ \A k \in (last.ret + 1)..last.len : array[k] = 0
             /\ \/ /\ back(last.ret).ok /\ IsPrefix(back(last.ret).text, Bytes(rest))
                   /\ last.ret < last.len => back(last.ret).text = Bytes(rest)
                \/ /\ last.ret = last.len /\ array[last.ret] = Replacement
                   /\ IsPrefix(back(last.ret - 1).text, Bytes(rest))

(***************************************************************************)
(* What is appended of an array is UTF-8 whatever the array is, and found  *)
(* to be by buIsUTF8Content, which takes U+0000 for an error.  It stands   *)
(* for the array: each code unit, or pair, or code point that is one as    *)
(* itself, and any other as errCh.  A call that fails appends nothing.     *)
(***************************************************************************)
AppendedStandsForArray ==
  LET ordered == [k \in DOMAIN array |-> Swapped(bom, array[k])]
      points == IF kind = "ucs4" THEN array
                ELSE PointsOf(IF last.known = bom THEN ordered ELSE From(ordered, 1))
      good == \A k \in DOMAIN points : Legal(points[k])
  IN  last.op = "append" =>
        IF last.ret = 0
        THEN /\ CodePoints(text) =
                  <<65>> \o [k \in DOMAIN points |->
                            IF Legal(points[k]) THEN points[k] ELSE last.errCh]
             /\ (kind = "utf16" /\ good /\ bom = 0 /\ array # <<>>) =>
                  BuGetBlkUTF16(text, Len(array) + 1, -1, 1).units = array \o <<0>>
             /\ good \/ Legal(last.errCh)
             /\ BuIsUTF8Content(text) <=> 0 \notin ToSet(points)
        ELSE text = given

(* Converted to code units, or appended from them, a text stays the same. *)
ConvertsBack == UnitsStandForText /\ AppendedStandsForArray

=============================================================================

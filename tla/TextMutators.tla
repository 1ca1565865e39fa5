----------------------------- MODULE TextMutators -----------------------------
(***************************************************************************)
(* What the mutators of bstring/bstrlib.c make of the text of a string,    *)
(* byte by byte in its buffer, when their arguments may be parts of that   *)
(* very buffer: each operator is the set of outcomes a call can have.      *)
(* (Module BstrMutators has their guards and their sizes for every int;    *)
(* the arguments here are such that no sum overflows.)                     *)
(*                                                                         *)
(* An argument is a text of its own, a view (a struct tagbstring or a      *)
(* pointer into the buffer), or the string itself.  A view of a buffer     *)
(* that balloc has moved is stale: its bytes are then JUNK.                *)
(***************************************************************************)
EXTENDS BstrAlloc, Sequences, SequencesExt

CONSTANT
  FindIndexCount  \* INITIAL_STATIC_FIND_INDEX_COUNT, 32 in the source

ASSUME FindIndexAssumption == FindIndexCount \in Nat

(* Characters: '\0', letters of both cases, white space and the rest. *)
NUL == 0

SPACE == 9

JUNK == -1

Lowercase == 1..4

Downcase(c) == IF c - 10 \in Lowercase THEN c - 10 ELSE c

Upcase(c) == IF c \in Lowercase THEN c + 10 ELSE c

-----------------------------------------------------------------------------
(* Bytes of a buffer; offsets count from 0, and what is stored past the    *)
(* end (module BstrHeader) is lost.                                        *)

Store(buf, at, t) ==
  [k \in 1..Len(buf) |-> IF k - at \in DOMAIN t THEN t[k - at] ELSE buf[k]]

Part(buf, at, len) == SubSeq(buf, at + 1, at + len)

Move(buf, to, from, len) == Store(buf, to, Part(buf, from, len))

Repeated(c, n) == [k \in 1..n |-> c]

(* The string in the course of a call: whether balloc has moved its buffer *)
(* yet, the value the call returns, and whether it ignored a failure.      *)
Fresh(s) == [buf |-> s.buf, slen |-> s.slen, moved |-> FALSE, ret |-> "OK",
             lost |-> FALSE]

TextOf(o) == Part(o.buf, 0, o.slen)

Err(o) == [o EXCEPT !.ret = "ERR"]

(* slen is stored with the terminator. *)
Ended(o, slen) == [o EXCEPT !.slen = slen, !.buf = Store(@, slen, <<NUL>>)]

(* Those of the outcomes of a step that failed, and those the call goes on *)
(* from.                                                                   *)
Failed(outcomes) == {o \in outcomes : o.ret # "OK"}

Went(outcomes) == {o \in outcomes : o.ret = "OK"}

(***************************************************************************)
(* balloc: realloc keeps all that is in the buffer, in its place or not;   *)
(* malloc and a copy, tried first unless the text fills seven eighths of   *)
(* the buffer, keep the text.                                              *)
(***************************************************************************)
Grow(o, size) ==
  LET grown(kept, mlen, moved) ==
        [o EXCEPT !.buf = Store(kept \o Repeated(JUNK, mlen - Len(kept)), o.slen, <<NUL>>),
                  !.moved = @ \/ moved]
  IN  UNION {IF g.ret = "ERR" THEN {Err(o)}
             ELSE IF g.h.mlen = Len(o.buf) THEN {o}
             ELSE {grown(o.buf, g.h.mlen, m) : m \in BOOLEAN}
                  \cup (IF 7 * Len(o.buf) < 8 * o.slen THEN {}
                        ELSE {grown(TextOf(o), g.h.mlen, TRUE)}) :
               g \in Balloc([slen |-> o.slen, mlen |-> Len(o.buf), cap |-> Len(o.buf),
                             nul |-> TRUE], size)}

-----------------------------------------------------------------------------
(* Arguments. *)

Own(t) == [at |-> "own", text |-> t, ofs |-> 0, len |-> Len(t)]

View(v) == [at |-> "view", text |-> <<>>, ofs |-> v[1], len |-> v[2]]

Self == [at |-> "self", text |-> <<>>, ofs |-> 0, len |-> 0]

Size(a, o) == IF a.at = "self" THEN o.slen ELSE a.len

(* The bytes of an argument as they are now. *)
Bytes(a, o) ==
  CASE a.at = "own" -> a.text
    [] a.at = "self" -> TextOf(o)
    [] a.at = "part" -> Part(o.buf, a.ofs, a.len)
    [] a.at = "view" -> IF o.moved THEN Repeated(JUNK, a.len)
                        ELSE Part(o.buf, a.ofs, a.len)

(* Mutant: what overlaps the buffer is not copied. *)
CopyNever(o, a, when) == a

(* The call goes on with a copy of the argument when it overlaps ...       *)
Copy(o, a, when) == IF when THEN Own(Bytes(a, o)) ELSE a

(* ... and memory for that copy may be refused. *)
MayRefuse(o, when) == IF when THEN {Err(o)} ELSE {}

Aliased(a) == a.at # "own"

-----------------------------------------------------------------------------
(* bstrlib.c. *)

(* The argument stored at offset at, the text then being slen long, in the *)
(* buffers that there is room in.                                          *)
Put(grown, at, a, slen) ==
  Failed(grown)
  \cup {Ended([x EXCEPT !.buf = Store(@, at, Bytes(a, x))], slen) : x \in Went(grown)}

Bconcat(o, a) ==
  LET end == o.slen + Size(a, o)
      short == Len(o.buf) <= end + 1
  IN  MayRefuse(o, short /\ Aliased(a))
      \cup Put(IF short THEN Grow(o, end + 1) ELSE {o}, o.slen,
               Copy(o, a, short /\ Aliased(a)), end)

Bconchar(o, c) == Put(Grow(o, o.slen + 2), o.slen, Own(<<c>>), o.slen + 1)

Bcatblk(o, a) ==
  LET nl == o.slen + a.len
  IN  Put(IF Len(o.buf) <= nl THEN Grow(o, nl + 1) ELSE {o}, o.slen, a, nl)

(***************************************************************************)
(* bcatcstr: into the room there is, then the tail with bcatblk.  A C      *)
(* string that ends where the text does loses its terminator to its own    *)
(* first character, so it goes on to the end of the buffer, and beyond.    *)
(***************************************************************************)
Bcatcstr(o, a) ==
  LET room == Len(o.buf) - o.slen
      period == o.slen - a.ofs
      filled == [o EXCEPT !.slen = Len(o.buf),
                          !.buf = [k \in 1..Len(@) |->
                                     IF k <= o.slen THEN @[k]
                                     ELSE IF a.at = "own" THEN a.text[k - o.slen]
                                     ELSE @[a.ofs + 1 + ((k - 1 - a.ofs) % period)]]]
      tail == IF a.at = "own" THEN Own(SubSeq(a.text, room + 1, a.len))
              ELSE [a EXCEPT !.ofs = @ + room, !.len = period]
  IN  IF a.len < room /\ (a.at = "own" \/ period = 0)
      THEN Put({o}, o.slen, a, o.slen + a.len)
      ELSE Bcatblk(filled, tail)

Bassign(o, a) ==
  LET len == Size(a, o)
  IN  IF len = 0 THEN {Ended(o, 0)} ELSE Put(Grow(o, len), 0, a, len)

(* The part of an argument, which stays part of what it is part of. *)
Within(a, left, n) ==
  [a EXCEPT !.at = IF @ = "self" THEN "part" ELSE @, !.ofs = @ + left, !.len = n,
            !.text = IF a.at = "own" THEN SubSeq(@, left + 1, left + n) ELSE @]

Bassignmidstr(o, a, left, len) ==
  LET n == Smaller(len, Size(a, o) - left)
  IN  IF n <= 0 THEN {Ended(o, 0)} ELSE Put(Grow(o, n), 0, Within(a, left, n), n)

Bassignblk(o, a) ==
  Put(IF a.len + 1 > Len(o.buf) THEN Grow(o, a.len + 1) ELSE {o}, 0, a, a.len)

(* bassigncstr: a C string within the buffer is copied downwards and fits. *)
Bassigncstr(o, a) ==
  IF a.len < Len(o.buf) THEN Put({o}, 0, a, a.len)
  ELSE Put(Grow([o EXCEPT !.buf = SubSeq(a.text, 1, Len(@)), !.slen = Len(o.buf)],
                a.len + 1), 0, a, a.len)

(* The text filled up to pos. *)
FilledTo(o, pos, fill) ==
  [o EXCEPT !.buf = Store(@, o.slen, Repeated(fill, pos - o.slen))]

(* bsetstr; a NULL argument is one without a character. *)
Bsetstr(o, pos, a, fill) ==
  LET d == pos + Size(a, o)
      grown == Grow(o, d + 1)
  IN  MayRefuse(o, Aliased(a))
      \cup Put(Failed(grown) \cup {FilledTo(x, pos, fill) : x \in Went(grown)}, pos,
               Copy(o, a, Aliased(a)), Larger(Larger(o.slen, pos), d))

(* A gap of len characters at pos, past the end of the text or within it. *)
Opened(o, pos, len, fill) ==
  IF pos > o.slen THEN FilledTo(o, pos, fill)
  ELSE [o EXCEPT !.buf = Move(@, pos + len, pos, o.slen - pos)]

(* binsertblk and binsert. *)
Binsertblk(o, pos, a, fill) ==
  LET len == Size(a, o)
      end == Larger(o.slen, pos) + len
      grown == Grow(o, end + 1)
  IN  MayRefuse(o, Aliased(a))
      \cup Put(Failed(grown) \cup {Opened(x, pos, len, fill) : x \in Went(grown)}, pos,
               Copy(o, a, Aliased(a)), end)

Binsertch(o, pos, len, fill) ==
  Binsertblk(o, pos, Own(Repeated(fill, len)), fill)

Bdelete(o, pos, len) ==
  IF len = 0 \/ pos >= o.slen THEN {o}
  ELSE IF pos + len >= o.slen THEN {Ended(o, pos)}
  ELSE {Ended([o EXCEPT !.buf = Move(@, pos, pos + len, o.slen - (pos + len))],
              o.slen - len)}

(* Mutant: slen alone is stored. *)
BtruncUnended(o, n) == {[o EXCEPT !.slen = Smaller(@, n)]}

Btrunc(o, n) == IF o.slen > n THEN {Ended(o, n)} ELSE {o}

(* Mutant: what is replaced is deleted before there is room for the rest. *)
BreplaceTwice(o, pos, len, a, fill) ==
  UNION {Binsertblk(x, pos, a, fill) : x \in Bdelete(o, pos, len)}

(* breplace: past the end of the text bsetstr, and then cut off; within it *)
(* the tail is moved.                                                      *)
Breplace(o, pos, len, a, fill) ==
  LET new == Size(a, o)
      set == Bsetstr(o, pos, a, fill)
      copied == Aliased(a) /\ a.ofs < o.slen
      end == o.slen + new - len
      grown == IF new > len THEN Grow(o, end) ELSE {o}
  IN  IF pos + len >= o.slen
      THEN Failed(set) \cup {IF pos + Size(a, x) < x.slen THEN Ended(x, pos + Size(a, x))
                             ELSE x : x \in Went(set)}
      ELSE MayRefuse(o, copied)
           \cup Put(Failed(grown) \cup
                      {[x EXCEPT !.buf = Move(@, pos + new, pos + len,
                                              o.slen - (pos + len))] : x \in Went(grown)},
                    pos, Copy(o, a, copied), end)

(* Offsets of the characters that are not white space. *)
Solid(o) == {i \in 0..(o.slen - 1) : o.buf[i + 1] # SPACE}

First(S) == CHOOSE i \in S : \A j \in S : i <= j

Final(S) == CHOOSE i \in S : \A j \in S : i >= j

Bltrimws(o) == IF Solid(o) = {} THEN {Ended(o, 0)} ELSE Bdelete(o, 0, First(Solid(o)))

Brtrimws(o) ==
  IF Solid(o) = {} THEN {Ended(o, 0)} ELSE {Ended(o, Final(Solid(o)) + 1)}

Btrimws(o) ==
  IF Solid(o) = {} THEN {Ended(o, 0)}
  ELSE Bdelete(Ended(o, Final(Solid(o)) + 1), 0, First(Solid(o)))

Btoupper(o) ==
  {[o EXCEPT !.buf = [k \in 1..Len(@) |-> IF k <= o.slen THEN Upcase(@[k]) ELSE @[k]]]}

Btolower(o) ==
  {[o EXCEPT !.buf = [k \in 1..Len(@) |-> IF k <= o.slen THEN Downcase(@[k]) ELSE @[k]]]}

(* bpattern: each character is copied from one text before it; a single    *)
(* one is repeated by bsetstr.                                             *)
Bpattern(o, len) ==
  IF o.slen = 0 \/ len < 0 THEN {Err(o)}
  ELSE LET grown == Grow(o, len + 1)
       IN  IF len > 0 /\ o.slen = 1
           THEN Failed(grown)
                \cup UNION {Bsetstr(x, len, Own(<<>>), x.buf[1]) : x \in Went(grown)}
           ELSE Put(grown, 0,
                    Own([k \in 1..len |-> o.buf[1 + ((k - 1) % o.slen)]]), len)

-----------------------------------------------------------------------------
(* findreplaceengine.  What it finds is what binstr returns, or            *)
(* binstrcaseless (module BstrSearch).                                     *)

Same(c, d, caseless) == c = d \/ (caseless /\ Downcase(c) = Downcase(d))

MatchAt(t, f, i, caseless) ==
  i + Len(f) <= Len(t) /\ \A k \in DOMAIN f : Same(t[i + k], f[k], caseless)

FindFrom(t, f, pos, caseless) ==
  LET S == {i \in pos..Len(t) : MatchAt(t, f, i, caseless)}
  IN  IF S = {} THEN -1 ELSE First(S)

RECURSIVE Matches(_, _, _, _)

(* The array d of the positions found. *)
Matches(t, f, pos, caseless) ==
  LET i == FindFrom(t, f, pos, caseless)
  IN  IF i < 0 THEN <<>> ELSE <<i>> \o Matches(t, f, i + Len(f), caseless)

RECURSIVE InPlace(_, _, _, _, _)

(* Lengths are equal: every match is overwritten as it is found. *)
InPlace(o, f, r, pos, caseless) ==
  LET i == FindFrom(TextOf(o), Bytes(f, o), pos, caseless)
  IN  IF i < 0 THEN o
      ELSE InPlace([o EXCEPT !.buf = Store(@, i, Bytes(r, o))], f, r,
                   i + Size(f, o), caseless)

RECURSIVE Shrunk(_, _, _, _, _, _)

(* The text shrinks: what lies between two matches moves down by acc, what *)
(* they have saved so far.                                                 *)
Shrunk(o, f, r, pos, acc, caseless) ==
  LET i == FindFrom(TextOf(o), Bytes(f, o), pos, caseless)
      end == IF i < 0 THEN o.slen ELSE i
      down == [o EXCEPT !.buf = IF acc > 0 THEN Move(@, pos - acc, pos, end - pos)
                                ELSE @]
  IN  IF i < 0 THEN (IF acc = 0 THEN o ELSE Ended(down, o.slen - acc))
      ELSE Shrunk([down EXCEPT !.buf = Store(@, i - acc, Bytes(r, o))], f, r,
                  i + Size(f, o), acc + Size(f, o) - Size(r, o), caseless)

RECURSIVE Spread(_, _, _, _, _)

(* The text grows: from the last match to the first, what follows a match  *)
(* moves up by acc, and the replacement goes in front of it.               *)
Spread(o, d, flen, r, acc) ==
  IF Len(d) = 1 THEN o
  ELSE LET s == d[Len(d) - 1] + flen
           up == Move(o.buf, s + acc, s, d[Len(d)] - s)
       IN  Spread([o EXCEPT !.buf = Store(up, s + acc - Size(r, o), Bytes(r, o))],
                  Front(d), flen, r, acc - (Size(r, o) - flen))

(* Whether a string of that length, at a, reaches the part of the text     *)
(* that is going to change.                                                *)
Reached(o, a, pos) == a.at = "self" \/ (a.at = "view" /\ pos - a.len < a.ofs
                                        /\ a.ofs < o.slen)

Findreplaceengine(o, find, repl, pos, caseless) ==
  LET f == Size(find, o)
      r == Size(repl, o)
      af == Copy(o, find, Reached(o, find, pos))
      ar == Copy(o, repl, Reached(o, repl, pos))
      d == Matches(TextOf(o), Bytes(af, o), pos, caseless)
      acc == Len(d) * (r - f)
      grown == Grow(o, o.slen + acc + 1)
  IN  IF f = 0 THEN {Err(o)}
      ELSE IF pos > o.slen - f THEN {o}
      ELSE MayRefuse(o, Reached(o, find, pos) \/ Reached(o, repl, pos))
           \cup (IF f = r THEN {InPlace(o, af, ar, pos, caseless)}
                 ELSE IF f > r THEN {Shrunk(o, af, ar, pos, 0, caseless)}
                 ELSE MayRefuse(o, Len(d) >= FindIndexCount) \cup Failed(grown)
                      \cup {Ended(Spread(x, Append(d, x.slen), f, ar, acc), x.slen + acc) :
                               x \in Went(grown)})

=============================================================================

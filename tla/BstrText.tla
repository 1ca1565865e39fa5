------------------------------- MODULE BstrText -------------------------------
(***************************************************************************)
(* A string in use: every function of bstring/bstrlib.c that changes a     *)
(* text (module TextMutators) and those bstring/bstraux.c builds on them,  *)
(* called with arguments of their own or out of the string itself, is      *)
(* compared with what it promises (module TextContract).                   *)
(***************************************************************************)
EXTENDS TextMutators, TextContract

CONSTANTS
  Strings,    \* the strings calls are made with: a buffer and slen
  Texts,      \* the texts passed as arguments
  Views,      \* the views passed as arguments: an offset and a length
  Ints,       \* positions, lengths and counts passed as arguments
  Widths,     \* the widths given to bJustifyRight and its like
  SgmlPairs,  \* the replacements of bSGMLEncode, in their order
  CallsMax    \* bound: calls before the string is destroyed

ASSUME TextAssumption ==
  /\ \A s \in Strings : s.buf \in Seq(Int) /\ s.slen \in 0..Len(s.buf)
  /\ Texts \subseteq Seq(Nat)
  /\ Views \subseteq (Nat \X Nat)
  /\ Ints \subseteq Nat /\ Widths \subseteq Nat
  /\ SgmlPairs \in Seq(Nat \X Seq(Nat))
  /\ CallsMax \in Nat

VARIABLES
  str,   \* the string: its buffer, mlen bytes, and slen
  calls, \* how many calls it has had
  last   \* the last call, what the text was and what it should have become

vars == <<str, calls, last>>

-----------------------------------------------------------------------------
(* bstraux.c. *)

(* bFill: the text is dropped before bsetstr may fail. *)
BFill(o, c, len) == Bsetstr([o EXCEPT !.slen = 0], len, Own(<<>>), c)

(* bReplicate: the product is an int, and wraps. *)
BReplicate(o, n) == Bpattern(o, ToInt(n * o.slen))

BReverse(o) ==
  {[o EXCEPT !.buf = [k \in 1..Len(@) |-> IF k <= o.slen THEN @[o.slen + 1 - k]
                                          ELSE @[k]]]}

(* bInsertChrs: filled up to pos by bsetstr first; the length it asks      *)
(* balloc for does not include the terminator.                             *)
BInsertChrs(o, pos, len, c, fill) ==
  LET filled == IF pos > o.slen THEN Bsetstr(o, pos, Own(<<>>), fill) ELSE {o}
      grown == UNION {Grow(x, x.slen + len) : x \in Went(filled)}
  IN  IF len = 0 THEN {Err(o)}
      ELSE Failed(filled)
           \cup Put(Failed(grown) \cup {Opened(x, pos, len, fill) : x \in Went(grown)},
                    pos, Own(Repeated(c, len)), Larger(o.slen, pos) + len)

(* bJustifyLeft: of a run of spaces the first stays, unless the text       *)
(* begins with it; one that is last goes.                                  *)
BJustifyLeft(o, c) ==
  LET behind == [k \in 1..o.slen |-> <<IF k = 1 THEN c ELSE o.buf[k - 1], o.buf[k]>>]
      kept == SelectSeq(behind, LAMBDA p : p[1] # c \/ p[2] # c)
      t == [k \in DOMAIN kept |-> kept[k][2]]
      n == IF t # <<>> /\ Last(t) = c THEN Len(t) - 1 ELSE Len(t)
  IN  {Ended([o EXCEPT !.buf = Store(@, 0, t)], n)}

(* bJustifyRight and bJustifyCenter: a text that is as wide already makes  *)
(* bInsertChrs fail, which has nothing to insert.                          *)
BJustifyRight(o, width, c) ==
  IF width = 0 THEN {Err(o)}
  ELSE UNION {IF x.slen <= width THEN BInsertChrs(x, 0, width - x.slen, c, c) ELSE {x} :
                x \in BJustifyLeft(o, c)}

BJustifyCenter(o, width, c) ==
  IF width = 0 THEN {Err(o)}
  ELSE UNION {IF x.slen <= width
              THEN BInsertChrs(x, 0, (width - x.slen + 1) \div 2, c, c) ELSE {x} :
                x \in BJustifyLeft(o, c)}

(* The outcomes of a call whose failure is not looked at. *)
Ignored(outcomes) ==
  {[x EXCEPT !.ret = "OK", !.lost = @ \/ x.ret = "ERR"] : x \in outcomes}

RECURSIVE Stretched(_, _, _, _, _)

(* The words that are left, with a share of the width in front of each but *)
(* the first; l is the length of all words and of the spaces so far.       *)
Stretched(o, words, l, width, c) ==
  IF words = <<>> THEN {o}
  ELSE LET n == Len(words)
           s == IF o.slen > 0 THEN (width - l + (n \div 2)) \div n ELSE 0
           gapped == IF o.slen > 0 THEN Ignored(BInsertChrs(o, o.slen, s, c, c)) ELSE {o}
       IN  UNION {Stretched(x, Tail(words), l + s, width, c) :
                    x \in UNION {Ignored(Bconcat(y, Own(Head(words)))) : y \in gapped}}

(* bJustifyMargin: the string is split, which may be refused; an entry     *)
(* that is NULL for want of memory is dereferenced.                        *)
BJustifyMargin(o, width, c) ==
  LET w == Words(TextOf(o), c)
      l == Len(FlattenSeq(w))
  IN  {Err(o), [o EXCEPT !.ret = "crash"]} \cup
      (IF l + Len(w) >= width \/ Len(w) < 2 THEN BJustifyLeft(o, c)
       ELSE Stretched([o EXCEPT !.slen = 0], w, l, width, c))

BSetChar(o, pos, c) ==
  IF pos > o.slen THEN {Err(o)}
  ELSE IF pos = o.slen THEN Bconchar(o, c)
  ELSE {[o EXCEPT !.buf = Store(@, pos, <<c>>)]}

(* bSetCstrChar: '\0' ends the text. *)
BSetCstrChar(o, pos, c) ==
  IF c # NUL THEN BSetChar(o, pos, c)
  ELSE IF pos > o.slen THEN {Err(o)}
  ELSE {[o EXCEPT !.buf = Store(@, pos, IF pos = o.slen THEN <<>> ELSE <<NUL>>),
                  !.slen = pos]}

RECURSIVE Replacing(_, _)

Replacing(outcomes, pairs) ==
  IF pairs = <<>> THEN outcomes
  ELSE Failed(outcomes) \cup
       Replacing(UNION {Findreplaceengine(x, Own(<<pairs[1][1]>>), Own(pairs[1][2]), 0,
                                          FALSE) : x \in Went(outcomes)}, Tail(pairs))

BSGMLEncode(o) == Replacing({o}, SgmlPairs)

-----------------------------------------------------------------------------
(* Calls. *)

NoCall == [op |-> "none", ret |-> "OK", moved |-> FALSE, lost |-> FALSE,
           view |-> "none", was |-> <<>>, want |-> <<>>, partial |-> {},
           width |-> 0, ended |-> FALSE]

Text == Part(str.buf, 0, str.slen)

Terminated == str.slen < Len(str.buf) => str.buf[str.slen + 1] = NUL

Init ==
  /\ str \in Strings
  /\ calls = 0
  /\ last = NoCall

(* One call with one of its outcomes; args are its arguments, want what    *)
(* the text is to become, partial what it may be left as by an error, and  *)
(* width that of a margin.                                                 *)
Wide(name, args, outcomes, want, partial, width) ==
  \E o \in outcomes :
    /\ str' = [buf |-> o.buf, slen |-> o.slen]
    /\ calls' = calls + 1
    /\ last' = [op |-> name, ret |-> o.ret, moved |-> o.moved, lost |-> o.lost,
                view |-> IF \A a \in args : a.at # "view" THEN "none"
                         ELSE IF \A a \in args : a.ofs < str.slen THEN "text"
                         ELSE "past",
                was |-> Text,
                want |-> want, partial |-> partial, width |-> width,
                ended |-> Terminated]

Do(name, args, outcomes, want, partial) == Wide(name, args, outcomes, want, partial, 0)

This == Fresh(str)

(* A view is of the text, or of what an earlier and longer text has left   *)
(* behind it, but not of bytes that never were written, nor of a string    *)
(* that a bFill that failed has left without its terminator.               *)
Visible(v) ==
  /\ v[1] + v[2] <= Len(str.buf) /\ Terminated
  /\ \A k \in DOMAIN Part(str.buf, v[1], v[2]) : str.buf[v[1] + k] # JUNK

(* Blocks and bstrings. *)
Blocks == {Own(t) : t \in Texts} \cup {View(v) : v \in {u \in Views : Visible(u)}}

Bstrings == Blocks \cup {Self}

(* C strings out of the buffer end where the text ends, if it has an end.  *)
Cstrings ==
  {Own(t) : t \in Texts}
  \cup {View(<<v[1], str.slen - v[1]>>) :
          v \in {u \in Views : u[1] <= str.slen /\ str.slen < Len(str.buf)}}

(* An argument as it is when the call is made. *)
Now(a) == Bytes(a, This)

(* A text as it is compared. *)
Key(t, caseless) == [k \in DOMAIN t |-> IF caseless THEN Downcase(t[k]) ELSE t[k]]

(* Functions of one argument. *)
DoAssign ==
  \/ \E a \in Bstrings :
       \/ Do("bconcat", {a}, Bconcat(This, a), Text \o Now(a), {})
       \/ Do("bassign", {a}, Bassign(This, a), Now(a), {})
       \/ \E left, len \in Ints :
            Do("bassignmidstr", {a}, Bassignmidstr(This, a, left, len),
               Middle(Now(a), left, len), {})
  \/ \E a \in Blocks :
       \/ Do("bcatblk", {a}, Bcatblk(This, a), Text \o Now(a), {})
       \/ Do("bassignblk", {a}, Bassignblk(This, a), Now(a), {})
  \/ \E a \in Cstrings :
       \/ Do("bcatcstr", {a}, Bcatcstr(This, a), Text \o Now(a),
             {Cut(Text \o Now(a), Len(str.buf))})
       \/ Do("bassigncstr", {a}, Bassigncstr(This, a), Now(a),
             {Cut(Now(a), Len(str.buf))})

(* Functions of an argument and a position. *)
DoInsert ==
  \E pos \in Ints :
    \/ \E a \in Bstrings :
         \/ Do("bsetstr", {a}, Bsetstr(This, pos, a, SPACE),
               Overlaid(Text, pos, Now(a), SPACE), {})
         \/ Do("binsert", {a}, Binsertblk(This, pos, a, SPACE),
               Inserted(Text, pos, Now(a), SPACE), {})
         \/ \E len \in Ints :
              Do("breplace", {a}, Breplace(This, pos, len, a, SPACE),
                 Replaced(Text, pos, len, Now(a), SPACE), {})
    \/ \E len \in Ints :
         \/ Do("binsertch", {}, Binsertch(This, pos, len, SPACE),
               Inserted(Text, pos, Filling(SPACE, len), SPACE), {})
         \/ Do("bInsertChrs", {}, BInsertChrs(This, pos, len, 1, SPACE),
               Inserted(Text, pos, Filling(1, len), SPACE), {Padded(Text, pos, SPACE)})

DoFindreplace ==
  \E find, repl \in Bstrings, pos \in Ints, caseless \in BOOLEAN :
    Do("bfindreplace", {find, repl}, Findreplaceengine(This, find, repl, pos, caseless),
       Substituted(Text, Key(Text, caseless), Key(Now(find), caseless), Now(repl), pos),
       {})

DoEdit ==
  \/ \E pos, len \in Ints :
       Do("bdelete", {}, Bdelete(This, pos, len),
          Cut(Text, pos) \o SubSeq(Text, pos + len + 1, str.slen), {})
  \/ \E n \in Ints :
       \/ Do("btrunc", {}, Btrunc(This, n), Cut(Text, n), {})
       \/ Do("bpattern", {}, Bpattern(This, n), Cut(Tiled(Text, n), n), {})
       \/ Do("bReplicate", {}, BReplicate(This, n), Tiled(Text, n), {})
       \/ Do("bFill", {}, BFill(This, 1, n), Filling(1, n), {<<>>})
  \/ Do("bltrimws", {}, Bltrimws(This), TrimmedLeft(Text, SPACE), {})
  \/ Do("brtrimws", {}, Brtrimws(This), TrimmedRight(Text, SPACE), {})
  \/ Do("btrimws", {}, Btrimws(This), TrimmedRight(TrimmedLeft(Text, SPACE), SPACE), {})
  \/ Do("btoupper", {}, Btoupper(This), [k \in DOMAIN Text |-> Upcase(Text[k])], {})
  \/ Do("btolower", {}, Btolower(This), [k \in DOMAIN Text |-> Downcase(Text[k])], {})
  \/ Do("bReverse", {}, BReverse(This), Reverse(Text), {})
  \/ Do("bconchar", {}, Bconchar(This, 1), Append(Text, 1), {})
  \/ \E pos \in Ints :
       \/ Do("bSetChar", {}, BSetChar(This, pos, 1), Overlaid(Text, pos, <<1>>, 0), {})
       \/ Do("bSetCstrChar", {}, BSetCstrChar(This, pos, NUL), Cut(Text, pos), {})

DoJustify ==
  \/ Do("bJustifyLeft", {}, BJustifyLeft(This, SPACE), Spaced(Text, SPACE), {})
  \/ \E width \in Widths :
       LET left == Spaced(Text, SPACE)
           free == width - Len(left)
       IN  \/ Do("bJustifyRight", {}, BJustifyRight(This, width, SPACE),
                 Filling(SPACE, free) \o left, {left})
           \/ Do("bJustifyCenter", {}, BJustifyCenter(This, width, SPACE),
                 Filling(SPACE, (free + 1) \div 2) \o left, {left})
           \/ Wide("bJustifyMargin", {}, BJustifyMargin(This, width, SPACE),
                   left, {}, width)

DoSgml ==
  Do("bSGMLEncode", {}, BSGMLEncode(This), Quoted(Text, SgmlPairs),
     {Quoted(Text, SubSeq(SgmlPairs, 1, k)) : k \in DOMAIN SgmlPairs})

Call ==
  /\ last = NoCall /\ calls < CallsMax
  /\ DoAssign \/ DoInsert \/ DoFindreplace \/ DoEdit \/ DoJustify \/ DoSgml

(* The program has looked at the result. *)
Return ==
  /\ last # NoCall /\ last.ret # "crash"
  /\ last' = NoCall
  /\ UNCHANGED <<str, calls>>

(* bdestroy, and another string is made; or the program is started again. *)
Renew ==
  /\ (last = NoCall /\ calls > 0) \/ last.ret = "crash"
  /\ str' \in Strings /\ calls' = 0 /\ last' = NoCall

Next == Call \/ Return \/ Renew

Spec == Init /\ [][Next]_vars

-----------------------------------------------------------------------------
(* Properties. *)

(* Every variable has its type, and the text lies in the buffer. *)
TypeOK ==
  /\ str.slen \in 0..Len(str.buf) /\ Len(str.buf) \in 1..MemMax
  /\ \A k \in DOMAIN str.buf : str.buf[k] \in {JUNK} \cup Nat
  /\ calls \in 0..CallsMax
  /\ last.ret \in {"OK", "ERR", "crash"}

(***************************************************************************)
(* The calls known to read a view after they have moved its buffer:        *)
(* bcatblk and bassignblk never look for one, bassign and bassignmidstr    *)
(* rely on the buffer being large enough, which one of exactly the length  *)
(* of the text is not, and bfindreplace copies no replacement that lies    *)
(* wholly in front of pos.                                                 *)
(***************************************************************************)
ReadsStale ==
  /\ last.view # "none" /\ last.moved
  /\ last.op \in {"bcatblk", "bassignblk", "bassign", "bassignmidstr", "bfindreplace"}

(* breplace and bfindreplace copy no view that begins behind the text, and *)
(* move the text over it.                                                  *)
MovesOver == last.view = "past" /\ last.op \in {"breplace", "bfindreplace"}

(* bcatcstr overwrites the end of a C string that is part of the text. *)
LosesEnd == last.view # "none" /\ last.op = "bcatcstr"

(* n * slen in bReplicate does not fit an int. *)
Wraps == last.op = "bReplicate" /\ Len(last.want) > IntMax

(* A call that succeeds makes of the text what it promises, as though its  *)
(* arguments had been copied before it, with the exceptions above.         *)
ResultIsPromised ==
  last.ret = "OK" /\ last.op \notin {"none", "bJustifyMargin"}
    /\ ~ReadsStale /\ ~MovesOver /\ ~LosesEnd /\ ~Wraps
    => Text = last.want

(* A call that fails leaves the text as it was; those that are made of     *)
(* several steps may leave what the first of them have done.               *)
ErrorLeavesText ==
  last.ret = "ERR" /\ ~LosesEnd => Text = last.was \/ Text \in last.partial

(* The widths of the runs of spaces between two words. *)
Gaps(t) ==
  {r[2] - r[1] - 1 : r \in {q \in (1..Len(t)) \X (1..Len(t)) :
     /\ q[1] + 1 < q[2] /\ t[q[1]] # SPACE /\ t[q[2]] # SPACE
     /\ \A k \in (q[1] + 1)..(q[2] - 1) : t[k] = SPACE}}

(* Justified to both margins, the words are what they were, in as many     *)
(* characters as asked for, none of them a space at an end, and no gap     *)
(* wider by more than one than another; or, if they leave no room to       *)
(* stretch, left justified.                                                *)
MarginIsFlush ==
  last.op = "bJustifyMargin" /\ last.ret = "OK" /\ ~last.lost =>
    /\ Words(Text, SPACE) = Words(last.was, SPACE)
    /\ IF Len(last.want) + 1 >= last.width \/ Len(Words(Text, SPACE)) < 2
       THEN Text = last.want
       ELSE /\ Len(Text) = last.width
            /\ Text[1] # SPACE /\ Last(Text) # SPACE
            /\ \A g, h \in Gaps(Text) : g - h \in -1..1

(* No call takes the terminator from a text, wherever the buffer has room  *)
(* for one, but a bFill that fails.                                        *)
EndStands ==
  last.ended /\ ~(last.op = "bFill" /\ last.ret = "ERR") => Terminated

(* The text is sound, and an end to it stands. *)
TextSound == TypeOK /\ EndStands

(* A call makes of the text what it promises, stretched lines included. *)
TextIsPromised == ResultIsPromised /\ MarginIsFlush

(* The functions behave as though their read-only arguments had been       *)
(* copied first, so none reads a buffer that balloc has given back: no     *)
(* byte of the text is junk.                                               *)
AliasingSafe == last.ret = "OK" => \A k \in DOMAIN Text : Text[k] # JUNK

=============================================================================

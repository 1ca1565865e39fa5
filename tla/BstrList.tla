------------------------------- MODULE BstrList -------------------------------
(***************************************************************************)
(* Splitting a string and joining a list (bstring/bstrlib.c): the          *)
(* iterators bsplitcb, bsplitscb and bsplitstrcb with a callback of the    *)
(* user that may change the string; bsplit, bsplits and bsplitstr, which   *)
(* build a bstrList with the callback bscb; bstrListCreate,                *)
(* bstrListAlloc, bstrListAllocMin, bstrListDestroy; bjoin and bjoinblk.   *)
(*                                                                         *)
(* An action is what an iterator does from one call of its callback to the *)
(* next.  Offsets count from 0, as in the code.  An allocation may be      *)
(* refused whenever one is made.                                           *)
(***************************************************************************)
EXTENDS BstrAlloc, Sequences, SequencesExt

CONSTANTS
  Strings,     \* the strings to split
  Separators,  \* the separators, splitStr or the one splitChar
  ListSizes,   \* the sizes given to bstrListAlloc and bstrListAllocMin
  ListStart,   \* the entries bsplit makes room for at first, 4 in the source
  ChangesMax   \* bound: changes of the string by callbacks

ASSUME ListAssumption ==
  /\ Strings \subseteq Seq(Nat) /\ Separators \subseteq Seq(Nat)
  /\ ListSizes \subseteq IntMin..IntMax
  /\ ListStart \in 1..IntMax /\ ChangesMax \in Nat

VARIABLES
  str,   \* the string that is split
  iter,  \* the iterator at work, or the last one
  list,  \* the struct bstrList
  join   \* what the last bjoin made

vars == <<str, iter, list, join>>

-----------------------------------------------------------------------------
(* An entry is a bstring or, where bmidstr could not make it, NULL. *)
Entry(t) == [null |-> FALSE, text |-> t]

NullEntry == [null |-> TRUE, text |-> <<>>]

NoList == [live |-> FALSE, entry |-> <<>>, mlen |-> -1, of |-> <<>>, by |-> "none",
           sep |-> <<>>]

Qty == Len(list.entry)

NoJoin == [ret |-> "none", text |-> <<>>, mlen |-> 0, sep |-> <<>>]

Piece(t, ofs, len) == SubSeq(t, ofs + 1, ofs + len)

Chars(sep) == {sep[k] : k \in DOMAIN sep}

(* How a function splits: at a character of a set, at a string, into       *)
(* single characters, or not at all.                                       *)
KindOf(fn, sep) ==
  IF sep = <<>> THEN (IF fn = "bsplitstrcb" THEN "each" ELSE "whole")
  ELSE IF fn = "bsplitstrcb" /\ Len(sep) > 1 THEN "string" ELSE "chars"

(* The least of a set of offsets, or other if it is empty. *)
Least(S, other) == IF S = {} THEN other ELSE CHOOSE i \in S : \A j \in S : i <= j

NextChar(t, p, set) == Least({i \in p..(Len(t) - 1) : t[i + 1] \in set}, Len(t))

NextString(t, p, sep) ==
  Least({i \in p..(Len(t) - Len(sep)) : Piece(t, i, Len(sep)) = sep}, -1)

-----------------------------------------------------------------------------
(* Mutant: the search goes on in the separator. *)
BehindOne(it, i) == i + 1

(* Where the separator at offset i ends. *)
Behind(it, i) == IF it.kind = "string" THEN i + Len(it.sep) ELSE i + 1

(***************************************************************************)
(* The piece of the string that the callback gets, where the next begins,  *)
(* and whether the iterator knows it for the last.  One that is cut at a   *)
(* string ends with the string if there is no further separator, even      *)
(* where that has become shorter: the length is then negative.             *)
(***************************************************************************)
PieceAt(it) ==
  CASE it.kind = "chars" ->
         LET i == NextChar(str, it.p, Chars(it.sep))
         IN  [ofs |-> it.p, len |-> i - it.p, next |-> Behind(it, i), last |-> FALSE]
    [] it.kind = "whole" ->
         [ofs |-> 0, len |-> Len(str), next |-> Len(str), last |-> TRUE]
    [] it.kind = "each" ->
         [ofs |-> it.p, len |-> 1, next |-> it.p + 1, last |-> FALSE]
    [] it.kind = "string" ->
         LET i == NextString(str, it.p, it.sep)
         IN  IF i >= 0
             THEN [ofs |-> it.p, len |-> i - it.p, next |-> Behind(it, i),
                   last |-> FALSE]
             ELSE [ofs |-> it.p, len |-> Len(str) - it.p, next |-> Len(str),
                   last |-> TRUE]

(* Mutant: a piece that is empty is not the last. *)
GoesOnEmpty(it, t) ==
  CASE it.kind = "chars" -> it.p <= Len(t)
    [] it.kind = "each" -> it.p < Len(t)
    [] it.kind \in {"whole", "string"} -> ~it.piece.last \/ it.piece.len = 0

(* Whether the loop of the iterator goes on, the string now being t. *)
GoesOn(it, t) ==
  CASE it.kind = "chars" -> it.p <= Len(t)
    [] it.kind = "each" -> it.p < Len(t)
    [] it.kind \in {"whole", "string"} -> ~it.piece.last

NoPiece == [ofs |-> 0, len |-> 0, next |-> 0, last |-> FALSE]

(* Nothing follows a bjoin that has dereferenced NULL. *)
Idle == iter.pc = "idle" /\ join.ret # "crash"

Init ==
  /\ str \in Strings
  /\ iter = [pc |-> "idle", kind |-> "none", cb |-> "user", sep |-> <<>>, p |-> 0,
             piece |-> NoPiece, ret |-> 0, changes |-> 0, starved |-> FALSE]
  /\ list = NoList
  /\ join = NoJoin

(* The iterator up to its first piece: a split into characters that has    *)
(* none ends at once, the others always call back.                         *)
Begun(fn, sep, pos, cb) ==
  LET kind == KindOf(fn, sep)
  IN  [iter EXCEPT !.pc = IF kind = "each" /\ pos = Len(str) THEN "idle" ELSE "next",
                   !.kind = kind, !.cb = cb, !.sep = sep, !.p = pos,
                   !.piece = NoPiece, !.ret = 0, !.starved = FALSE]

-----------------------------------------------------------------------------
(* The iterators with a callback of the user: bsplitscb, bsplitstrcb, and  *)
(* bsplitcb, which both call for a single separator.  (They have nothing   *)
(* to do with a list there may be.)                                        *)
Bsplitcb ==
  /\ Idle /\ ~list.live
  /\ \E fn \in {"bsplitscb", "bsplitstrcb"}, sep \in Separators, pos \in 0..Len(str) :
       iter' = Begun(fn, sep, pos, "user")
  /\ join' = NoJoin
  /\ UNCHANGED <<str, list>>

Calls ==
  /\ iter.pc = "next" /\ iter.cb = "user"
  /\ LET x == PieceAt(iter)
     IN  iter' = [iter EXCEPT !.pc = "callback", !.piece = x, !.p = x.next]
  /\ UNCHANGED <<str, list, join>>

(* What a callback may make of the string: it stays, is cut off, or grows. *)
Changed ==
  IF iter.changes = ChangesMax THEN {str}
  ELSE {SubSeq(str, 1, k) : k \in 0..Len(str)}
       \cup {Append(str, c) : c \in UNION {Chars(sep) : sep \in Separators}}

(* It returns.  (What a positive value does is as for zero, but that the   *)
(* iterators with an empty separator turn it to zero.)                     *)
Returns ==
  /\ iter.pc = "callback"
  /\ \E r \in {-1, 0}, t \in Changed :
       /\ str' = t
       /\ iter' = [iter EXCEPT !.pc = IF r >= 0 /\ GoesOn(iter, t) THEN "next"
                                      ELSE "idle",
                               !.ret = r,
                               !.changes = @ + (IF t = str THEN 0 ELSE 1)]
  /\ UNCHANGED <<list, join>>

-----------------------------------------------------------------------------
(* bsplit, bsplits and bsplitstr: the list first, unless there is no       *)
(* memory for it, then the iterator.                                       *)
Bsplit ==
  /\ Idle /\ ~list.live
  /\ \E fn \in {"bsplitscb", "bsplitstrcb"}, sep \in Separators :
       LET it == Begun(fn, sep, 0, "list")
       IN  \/ /\ iter' = it
              /\ list' = [NoList EXCEPT !.live = TRUE, !.mlen = ListStart,
                                        !.of = str, !.by = it.kind, !.sep = sep]
           \/ /\ iter' = [it EXCEPT !.pc = "idle", !.ret = -1, !.starved = TRUE]
              /\ UNCHANGED list
  /\ join' = NoJoin
  /\ UNCHANGED str

(***************************************************************************)
(* Room for one more entry: a full array is doubled.  When twice its size  *)
(* does not fit an int the product is not greater than the entries there   *)
(* are, which bscb takes for an error.                                     *)
(***************************************************************************)
ListGrown(l) ==
  IF Len(l.entry) < l.mlen THEN {[ok |-> TRUE, mlen |-> l.mlen, starved |-> FALSE]}
  ELSE {[ok |-> FALSE, mlen |-> l.mlen, starved |-> TRUE]}
       \cup {[ok |-> CInt(2 * l.mlen) > l.mlen, mlen |-> CInt(2 * l.mlen),
              starved |-> FALSE]}

(* bscb: the piece becomes an entry, which may be NULL, and is counted; if *)
(* it cannot, the list is destroyed and the split returns NULL.            *)
Bscb ==
  /\ iter.pc = "next" /\ iter.cb = "list"
  /\ LET x == PieceAt(iter)
         it == [iter EXCEPT !.piece = x, !.p = x.next]
     IN  \E g \in ListGrown(list) :
           IF g.ok
           THEN \E e \in {Entry(Piece(str, x.ofs, x.len)), NullEntry} :
                  /\ list' = [list EXCEPT !.entry = Append(@, e), !.mlen = g.mlen]
                  /\ iter' = [it EXCEPT
                                !.pc = IF GoesOn(it, str) THEN "next" ELSE "idle",
                                !.starved = @ \/ e.null]
           ELSE /\ list' = NoList
                /\ iter' = [it EXCEPT !.pc = "idle", !.ret = -1,
                                      !.starved = @ \/ g.starved]
  /\ UNCHANGED <<str, join>>

-----------------------------------------------------------------------------
(* Lists as such. *)

BstrListCreate ==
  /\ Idle /\ ~list.live
  /\ list' = [NoList EXCEPT !.live = TRUE, !.mlen = 1]
  /\ join' = NoJoin
  /\ UNCHANGED <<str, iter>>

BstrListDestroy ==
  /\ Idle /\ list.live
  /\ list' = NoList
  /\ join' = NoJoin
  /\ UNCHANGED <<str, iter>>

(* bstrListAlloc: the snapped size, or, if that is refused, the exact one. *)
BstrListAlloc ==
  /\ Idle /\ list.live
  /\ \E msz \in ListSizes :
       /\ msz > list.mlen
       /\ \E size \in {SnapUpSize(msz), msz} : list' = [list EXCEPT !.mlen = size]
  /\ join' = NoJoin
  /\ UNCHANGED <<str, iter>>

(* Mutant: the entries there are do not bound the size. *)
LeastSizeAny(msz) == msz

LeastSize(msz) == Larger(msz, Qty)

(* bstrListAllocMin. *)
BstrListAllocMin ==
  /\ Idle /\ list.live
  /\ \E msz \in ListSizes :
       /\ msz > 0
       /\ list' = [list EXCEPT !.mlen = LeastSize(msz)]
  /\ join' = NoJoin
  /\ UNCHANGED <<str, iter>>

(* Mutant: the separator goes before every entry. *)
JoinedLeading(sep) ==
  FlattenSeq([k \in 1..Qty |-> sep \o list.entry[k].text])

(* The entries with the separator between them. *)
Joined(sep) ==
  FlattenSeq([k \in 1..Qty |->
                IF k = 1 THEN list.entry[k].text ELSE sep \o list.entry[k].text])

Joining(text, mlen, sep) == [ret |-> "OK", text |-> text, mlen |-> mlen, sep |-> sep]

Unjoined(ret, sep) == [ret |-> ret, text |-> <<>>, mlen |-> 0, sep |-> sep]

(***************************************************************************)
(* bjoin and bjoinblk.  Without entries it is bfromcstr of "".  Otherwise  *)
(* neither an entry that is NULL nor the header they allocate is looked at *)
(* before it is used; a block that is refused, or a length that does not   *)
(* fit an int, makes them return NULL.                                     *)
(***************************************************************************)
Bjoin ==
  /\ Idle /\ list.live
  /\ \E sep \in Separators :
       join' \in
         IF Qty = 0 THEN {Unjoined("NULL", sep), Joining(<<>>, SnapUpSize(2), sep)}
         ELSE IF \E k \in 1..Qty : list.entry[k].null THEN {Unjoined("crash", sep)}
         ELSE {Unjoined("NULL", sep), Unjoined("crash", sep)}
              \cup (IF Len(Joined(sep)) < IntMax
                    THEN {Joining(Joined(sep), Len(Joined(sep)) + 1, sep)} ELSE {})
  /\ UNCHANGED <<str, iter, list>>

Steps == Calls \/ Returns \/ Bscb

Next ==
  \/ Bsplitcb \/ Bsplit \/ Steps
  \/ BstrListCreate \/ BstrListDestroy \/ BstrListAlloc \/ BstrListAllocMin
  \/ Bjoin

Spec == Init /\ [][Next]_vars

(* An iterator is a loop; a callback is assumed to return. *)
FairSpec == Spec /\ WF_vars(Steps)

-----------------------------------------------------------------------------
(* Properties. *)

(* Every variable has its type. *)
TypeOK ==
  /\ str \in Seq(Nat)
  /\ iter.pc \in {"idle", "next", "callback"} /\ iter.p \in Nat
  /\ iter.piece.ofs \in Nat /\ iter.piece.len \in Int
  /\ iter.ret \in {-1, 0}
  /\ list.live \in BOOLEAN /\ list.mlen \in -1..IntMax
  /\ join.ret \in {"none", "OK", "NULL", "crash"}

(* A list never has more entries than its array has room for, and its      *)
(* array has some, whatever was split, allocated and refused.              *)
ListSound == list.live => list.mlen >= 1 /\ Qty <= list.mlen

(* A split that gives no list, or one with NULL in it, was refused memory, *)
(* or has more pieces than twice of which an int can count.                *)
NullHasCause ==
  /\ iter.pc = "idle" /\ iter.cb = "list" /\ iter.ret < 0
       => iter.starved \/ 2 * Len(str) > IntMax
  /\ (\E k \in 1..Qty : list.entry[k].null) => iter.starved \/ iter.cb = "user"

(* A list can be used for what it says it holds. *)
ListIsSound == TypeOK /\ ListSound /\ NullHasCause

(* What was split at one separator and is joined with it is what it was,   *)
(* and the string it is in has room for its terminator.                    *)
JoinOfSplit ==
  join.ret = "OK" /\ list.by # "none" /\ (list.by = "chars" => Len(join.sep) = 1)
    /\ (list.by = "each" => join.sep = <<>>)
    /\ (list.by \in {"chars", "string"} => join.sep = list.sep)
    => join.text = list.of /\ join.mlen > Len(list.of)

(* The character, or the string, at offset i is a separator. *)
CutsAt(i) ==
  IF iter.kind = "chars" THEN i < Len(str) /\ str[i + 1] \in Chars(iter.sep)
  ELSE i + Len(iter.sep) <= Len(str) /\ Piece(str, i, Len(iter.sep)) = iter.sep

(***************************************************************************)
(* A piece lies in the string as it is when the callback is called, has no *)
(* separator in it, and has one, or the end of the string, behind it.  The *)
(* one exception is the last piece of a split at a string: if a callback   *)
(* has cut the string off in front of it, its length is negative.          *)
(***************************************************************************)
PieceIsCut ==
  iter.pc = "callback" =>
    LET x == iter.piece
    IN  /\ x.len >= 0 \/ (iter.kind = "string" /\ iter.changes > 0)
        /\ x.len >= 0 => x.ofs + x.len <= Len(str)
        /\ iter.kind \in {"chars", "string"} /\ x.len >= 0 =>
             /\ \A i \in x.ofs..(x.ofs + x.len - 1) :
                  CutsAt(i) => i + Len(iter.sep) > x.ofs + x.len
             /\ CutsAt(x.ofs + x.len) \/ x.ofs + x.len = Len(str)

(* A string is cut at its separators, and joined again where it was cut. *)
SplitIsExact == JoinOfSplit /\ PieceIsCut

(* The next piece begins right behind the separator that ended the last,   *)
(* or nothing is left out, whatever the callback did to the string.        *)
LockStep ==
  [][Calls /\ iter.piece # NoPiece
       => LET x == iter.piece
          IN  iter'.piece.ofs = x.ofs + x.len +
                (CASE iter.kind = "chars" -> 1
                   [] iter.kind = "each" -> 0
                   [] iter.kind = "string" -> Len(iter.sep)
                   [] iter.kind = "whole" -> 0)]_vars

(* An iterator that is not stopped goes on to the end of the string: the   *)
(* last piece reaches it, unless the last callback has made it longer.     *)
ReachesEnd ==
  [][iter.pc # "idle" /\ iter'.pc = "idle" /\ iter'.ret = 0
       => iter'.piece.ofs + iter'.piece.len >= Smaller(Len(str), Len(str'))]_vars

(* The pieces follow one another as far as the end. *)
PiecesFollow == LockStep /\ ReachesEnd

(* A split ends, though a callback may make the string longer (a bounded   *)
(* number of times).                                                       *)
SplitEnds == (iter.pc # "idle") ~> (iter.pc = "idle")

=============================================================================

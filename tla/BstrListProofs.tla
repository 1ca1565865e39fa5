---------------------------- MODULE BstrListProofs ----------------------------
(***************************************************************************)
(* Splitting, for all strings, separators and changes that a callback may  *)
(* make: the pieces are what lies between the separators, one follows the  *)
(* other as far as the end, the list that is built of them has room for    *)
(* its entries, and they are the string again when they are joined.        *)
(*                                                                         *)
(* The inductive invariant follows the position p of an iterator: while a  *)
(* callback runs, p is behind the piece it was given and its separator; an *)
(* iterator that goes on has not left the string, unless a callback cut it *)
(* off under a split at a string.  A second one follows what is joined: it *)
(* is the string up to p, by induction on the entries (FlattenAppend).     *)
(***************************************************************************)
EXTENDS BstrList, BstrLemmas

Kinds == {"chars", "whole", "each", "string"}

Pieces == [ofs : Nat, len : Int, next : Nat, last : BOOLEAN]

Iterators ==
  [pc : {"idle", "next", "callback"}, kind : Kinds \cup {"none"},
   cb : {"user", "list"}, sep : Seq(Nat), p : Nat, piece : Pieces, ret : {-1, 0},
   changes : Nat, starved : BOOLEAN]

Entries == [null : BOOLEAN, text : Seq(Nat)]

Lists ==
  [live : BOOLEAN, entry : Seq(Entries), mlen : -1..IntMax, of : Seq(Nat),
   by : Kinds \cup {"none"}, sep : Seq(Nat)]

(* The length of what ends a piece of it. *)
Gap(it) ==
  CASE it.kind = "chars" -> 1
    [] it.kind = "each" -> 0
    [] it.kind = "string" -> Len(it.sep)
    [] it.kind = "whole" -> 0

(* The piece x is the last one or has another behind it. *)
Follows(it, x, t) ==
  /\ x.last => x.ofs + x.len = Len(t)
  /\ ~x.last => /\ it.kind # "whole" /\ x.next = x.ofs + x.len + Gap(it)
  /\ it.kind \in {"chars", "each"} => ~x.last
  /\ it.kind = "whole" => x.last

(* Where an iterator that goes on may be. *)
Position(it, t) ==
  /\ it.kind \in Kinds /\ (it.kind = "string" => it.sep # <<>>)
  /\ it.kind = "chars" => it.p <= Len(t)
  /\ it.kind = "each" => it.p < Len(t)
  /\ it.kind = "whole" => it.piece = NoPiece
  /\ it.kind = "string" /\ it.changes = 0 => it.p <= Len(t)
  /\ it.piece # NoPiece => /\ it.kind # "whole" /\ it.p = it.piece.next
                           /\ it.piece.next = it.piece.ofs + it.piece.len + Gap(it)

(* The iterator at work. *)
IterInv ==
  /\ iter.pc = "next" => Position(iter, str) /\ iter.ret = 0
  /\ iter.pc = "callback" =>
       /\ iter.cb = "user" /\ iter.kind \in Kinds /\ Follows(iter, iter.piece, str)
       /\ iter.kind = "string" => iter.sep # <<>>
       /\ iter.p = iter.piece.next
       /\ iter.kind = "string" /\ iter.changes = 0 /\ ~iter.piece.last
            => iter.p <= Len(str)

(* The list that is built: every entry stands for one character at least,  *)
(* or is the last.                                                         *)
BuildInv ==
  /\ ~list.live => list = NoList
  /\ iter.pc = "next" /\ iter.cb = "list" =>
       /\ list.live /\ Qty <= iter.p /\ iter.p <= Len(str)
       /\ iter.kind = "whole" => iter.p = 0

ListInv ==
  /\ str \in Seq(Nat) /\ iter \in Iterators /\ list \in Lists
  /\ join.ret \in {"none", "OK", "NULL", "crash"}
  /\ IterInv /\ BuildInv /\ ListSound /\ NullHasCause /\ PieceIsCut

-----------------------------------------------------------------------------
(* The pieces. *)

(* A set of natural numbers has a least one. *)
LEMMA LeastFacts ==
  ASSUME NEW S \in SUBSET Nat, NEW other
  PROVE  /\ S = {} => Least(S, other) = other
         /\ S # {} => /\ Least(S, other) \in S
                      /\ \A j \in S : Least(S, other) <= j
<1>1. CASE S = {}
  BY <1>1 DEF Least
<1>2. CASE S # {}
  <2>2. \E i \in S : \A j \in S : i <= j
    BY <1>2, LeastExists
  <2>3. Least(S, other) = CHOOSE i \in S : \A j \in S : i <= j
    BY <1>2 DEF Least
  <2> QED
    BY <1>2, <2>2, <2>3, Zenon
<1> QED
  BY <1>1, <1>2

(* The next of a set of characters is the first one from p on. *)
LEMMA NextCharFacts ==
  ASSUME NEW t \in Seq(Nat), NEW p \in 0..Len(t), NEW set
  PROVE  LET i == NextChar(t, p, set)
         IN  /\ i \in p..Len(t)
             /\ i < Len(t) => t[i + 1] \in set
             /\ \A j \in p..(i - 1) : t[j + 1] \notin set
<1> DEFINE S == {j \in p..(Len(t) - 1) : t[j + 1] \in set}
           i == Least(S, Len(t))
<1>1. Len(t) \in Nat /\ p \in Nat /\ p <= Len(t)
  BY LenProperties
<1>2. S \in SUBSET Nat
  BY <1>1
<1>3. /\ S = {} => i = Len(t)
      /\ S # {} => i \in S /\ \A j \in S : i <= j
  <2> HIDE DEF S
  <2> QED
    BY <1>2, LeastFacts
<1>4. NextChar(t, p, set) = i
  BY DEF NextChar
<1> HIDE DEF i
<1>5. CASE S = {}
  <2>1. i = Len(t)
    BY <1>3, <1>5
  <2>2. \A j \in p..(i - 1) : t[j + 1] \notin set
    BY <1>5, <2>1
  <2> QED
    BY <1>1, <1>4, <2>1, <2>2
<1>6. CASE S # {}
  <2>1. i \in S /\ \A j \in S : i <= j
    BY <1>3, <1>6
  <2>2. i \in p..(Len(t) - 1) /\ t[i + 1] \in set
    BY <2>1
  <2>3. ASSUME NEW j \in p..(i - 1)
        PROVE  t[j + 1] \notin set
    <3>1. j \in p..(Len(t) - 1) /\ ~(i <= j)
      BY <1>1, <2>2
    <3> QED
      BY <2>1, <3>1
  <2> QED
    BY <1>1, <1>4, <2>2, <2>3
<1> QED
  BY <1>5, <1>6

(* The next of a string is the first one from p on, or there is none. *)
LEMMA NextStringFacts ==
  ASSUME NEW t \in Seq(Nat), NEW p \in Nat, NEW sep \in Seq(Nat)
  PROVE  LET i == NextString(t, p, sep)
         IN  /\ \/ i = -1
                \/ i \in Nat /\ p <= i /\ i + Len(sep) <= Len(t)
                   /\ Piece(t, i, Len(sep)) = sep
             /\ \A j \in Nat :
                  p <= j /\ j + Len(sep) <= Len(t) /\ (i = -1 \/ j < i)
                    => Piece(t, j, Len(sep)) # sep
<1> DEFINE S == {j \in p..(Len(t) - Len(sep)) : Piece(t, j, Len(sep)) = sep}
           i == Least(S, -1)
<1>1. Len(t) \in Nat /\ Len(sep) \in Nat
  BY LenProperties
<1>2. S \in SUBSET Nat
  BY <1>1
<1>3. /\ S = {} => i = -1
      /\ S # {} => i \in S /\ \A j \in S : i <= j
  <2> HIDE DEF S
  <2> QED
    BY <1>2, LeastFacts
<1>4. NextString(t, p, sep) = i
  BY DEF NextString
<1>5. \A j \in Nat : p <= j /\ j + Len(sep) <= Len(t)
                       /\ Piece(t, j, Len(sep)) = sep => j \in S
  BY <1>1
<1>6. \A j \in S : j \in Nat /\ p <= j /\ j + Len(sep) <= Len(t)
                   /\ Piece(t, j, Len(sep)) = sep
  BY <1>1
<1> HIDE DEF i, S
<1>7. CASE S = {}
  BY <1>3, <1>4, <1>5, <1>7
<1>8. CASE S # {}
  BY <1>1, <1>3, <1>4, <1>5, <1>6, <1>8
<1> QED
  BY <1>7, <1>8

(* The separator ends a piece, or begins, at offset i. *)
Cuts(it, i, t) ==
  IF it.kind = "chars" THEN i < Len(t) /\ t[i + 1] \in Chars(it.sep)
  ELSE i + Len(it.sep) <= Len(t) /\ Piece(t, i, Len(it.sep)) = it.sep

(* What a callback may count on. *)
IsCut(it, x, t) ==
  /\ x.len >= 0 \/ (it.kind = "string" /\ it.p > Len(t))
  /\ x.len >= 0 => x.ofs + x.len <= Len(t)
  /\ it.kind \in {"chars", "string"} /\ x.len >= 0 =>
       /\ \A i \in x.ofs..(x.ofs + x.len - 1) :
            Cuts(it, i, t) => i + Len(it.sep) > x.ofs + x.len
       /\ Cuts(it, x.ofs + x.len, t) \/ x.ofs + x.len = Len(t)

(* Where the piece x that it cuts off begins and where the next does. *)
Advances(it, x, t) ==
  /\ x \in Pieces /\ Follows(it, x, t)
  /\ it.kind # "whole" => x.ofs = it.p
  /\ ~x.last => x.next > it.p
  /\ it.kind = "string" /\ ~x.last => x.next <= Len(t)

(* A separator begins where a piece before it ends. *)
LEMMA CharsPiece ==
  ASSUME str \in Seq(Nat), NEW it \in Iterators, it.kind = "chars", it.p <= Len(str)
  PROVE  IsCut(it, PieceAt(it), str) /\ Advances(it, PieceAt(it), str)
<1> DEFINE i == NextChar(str, it.p, Chars(it.sep))
           x == [ofs |-> it.p, len |-> i - it.p, next |-> Behind(it, i),
                 last |-> FALSE]
<1>1. Len(str) \in Nat /\ it.p \in Nat /\ it.p \in 0..Len(str)
  BY LenProperties DEF Iterators
<1>2. /\ i \in it.p..Len(str)
      /\ i < Len(str) => str[i + 1] \in Chars(it.sep)
      /\ \A j \in it.p..(i - 1) : str[j + 1] \notin Chars(it.sep)
  BY <1>1, NextCharFacts
<1>3. PieceAt(it) = x
  BY DEF PieceAt
<1> HIDE DEF i
<1>4. /\ x.ofs = it.p /\ x.len = i - it.p /\ x.next = i + 1 /\ x.last = FALSE
      /\ i \in Nat /\ it.p <= i /\ i <= Len(str)
  BY <1>1, <1>2 DEF Behind
<1>5. x \in Pieces
  BY <1>1, <1>4 DEF Pieces
<1> HIDE DEF x
<1>6. Gap(it) = 1
  BY DEF Gap
<1>7. Advances(it, x, str)
  BY <1>1, <1>4, <1>5, <1>6 DEF Advances, Follows
<1>8. x.ofs + x.len = i /\ x.len >= 0
  BY <1>1, <1>4
<1>9. \A j \in x.ofs..(x.ofs + x.len - 1) : ~Cuts(it, j, str)
  <2> SUFFICES ASSUME NEW j \in x.ofs..(x.ofs + x.len - 1)
               PROVE  ~Cuts(it, j, str)
    OBVIOUS
  <2>1. j \in it.p..(i - 1)
    BY <1>1, <1>4, <1>8
  <2> QED
    BY <1>2, <2>1 DEF Cuts
<1>10. Cuts(it, i, str) \/ i = Len(str)
  BY <1>1, <1>2, <1>4 DEF Cuts
<1> QED
  BY <1>3, <1>4, <1>7, <1>8, <1>9, <1>10 DEF IsCut

(* The same where the separator is a string. *)
LEMMA StringPiece ==
  ASSUME str \in Seq(Nat), NEW it \in Iterators, it.kind = "string", it.sep # <<>>
  PROVE  IsCut(it, PieceAt(it), str) /\ Advances(it, PieceAt(it), str)
<1> DEFINE i == NextString(str, it.p, it.sep)
           n == Len(it.sep)
           x == IF i >= 0
                THEN [ofs |-> it.p, len |-> i - it.p, next |-> Behind(it, i),
                      last |-> FALSE]
                ELSE [ofs |-> it.p, len |-> Len(str) - it.p, next |-> Len(str),
                      last |-> TRUE]
<1>1. Len(str) \in Nat /\ it.p \in Nat /\ n \in Nat /\ it.sep \in Seq(Nat)
  BY LenProperties DEF Iterators
<1>2. n > 0
  BY <1>1, EmptySeq
<1>3. /\ \/ i = -1
         \/ i \in Nat /\ it.p <= i /\ i + n <= Len(str)
            /\ Piece(str, i, n) = it.sep
      /\ \A j \in Nat :
           it.p <= j /\ j + n <= Len(str) /\ (i = -1 \/ j < i)
             => Piece(str, j, n) # it.sep
  <2>1. str \in Seq(Nat) /\ it.p \in Nat /\ it.sep \in Seq(Nat)
    BY <1>1
  <2> QED
    BY <2>1, NextStringFacts, ZenonT(60)
<1>4. PieceAt(it) = x
  BY DEF PieceAt
<1>5. Gap(it) = n
  BY DEF Gap
<1> HIDE DEF i
<1>6. CASE i = -1
  <2>1. /\ x.ofs = it.p /\ x.len = Len(str) - it.p /\ x.next = Len(str)
        /\ x.last = TRUE
    BY <1>6
  <2>2. x \in Pieces
    BY <1>1, <1>6 DEF Pieces
  <2> HIDE DEF x
  <2>3. Advances(it, x, str)
    BY <1>1, <2>1, <2>2 DEF Advances, Follows
  <2>4. x.ofs + x.len = Len(str)
    BY <1>1, <2>1
  <2>5. \A j \in x.ofs..(x.ofs + x.len - 1) : ~Cuts(it, j, str)
    <3> SUFFICES ASSUME NEW j \in x.ofs..(x.ofs + x.len - 1)
                 PROVE  ~Cuts(it, j, str)
      OBVIOUS
    <3>1. j \in Nat /\ it.p <= j
      BY <1>1, <2>1
    <3>2. j + n <= Len(str) => Piece(str, j, n) # it.sep
      BY <1>3, <1>6, <3>1
    <3> QED
      BY <3>2 DEF Cuts
  <2>6. x.len >= 0 \/ it.p > Len(str)
    BY <1>1, <2>1
  <2> QED
    BY <1>1, <1>4, <2>3, <2>4, <2>5, <2>6 DEF IsCut
<1>7. CASE i \in Nat /\ it.p <= i /\ i + n <= Len(str) /\ Piece(str, i, n) = it.sep
  <2>1. /\ x.ofs = it.p /\ x.len = i - it.p /\ x.next = i + n /\ x.last = FALSE
    BY <1>7 DEF Behind
  <2>2. x \in Pieces
    BY <1>1, <1>7, SMTT(30) DEF Pieces, Behind
  <2> HIDE DEF x
  <2>3. Advances(it, x, str)
    BY <1>1, <1>2, <1>5, <1>7, <2>1, <2>2 DEF Advances, Follows
  <2>4. x.ofs + x.len = i /\ x.len >= 0 /\ i <= Len(str)
    BY <1>1, <1>7, <2>1
  <2>5. \A j \in x.ofs..(x.ofs + x.len - 1) : ~Cuts(it, j, str)
    <3> SUFFICES ASSUME NEW j \in x.ofs..(x.ofs + x.len - 1)
                 PROVE  ~Cuts(it, j, str)
      OBVIOUS
    <3>1. j \in Nat /\ it.p <= j /\ j < i
      BY <1>1, <1>7, <2>1, <2>4
    <3>2. j + n <= Len(str) => Piece(str, j, n) # it.sep
      BY <1>3, <3>1
    <3> QED
      BY <3>2 DEF Cuts
  <2>6. Cuts(it, i, str)
    BY <1>7 DEF Cuts
  <2> QED
    BY <1>4, <2>3, <2>4, <2>5, <2>6 DEF IsCut
<1> QED
  BY <1>3, <1>6, <1>7

(* Without a separator the pieces are characters, or there is only one.    *)
LEMMA PlainPiece ==
  ASSUME str \in Seq(Nat), NEW it \in Iterators,
         it.kind = "whole" \/ (it.kind = "each" /\ it.p < Len(str))
  PROVE  IsCut(it, PieceAt(it), str) /\ Advances(it, PieceAt(it), str)
<1>1. Len(str) \in Nat /\ it.p \in Nat
  BY LenProperties DEF Iterators
<1>2. CASE it.kind = "whole"
  <2> DEFINE x == [ofs |-> 0, len |-> Len(str), next |-> Len(str), last |-> TRUE]
  <2>1. PieceAt(it) = x
    BY <1>2 DEF PieceAt
  <2>2. x \in Pieces
    BY <1>1 DEF Pieces
  <2> QED
    BY <1>1, <1>2, <2>1, <2>2 DEF IsCut, Advances, Follows
<1>3. CASE it.kind = "each" /\ it.p < Len(str)
  <2> DEFINE x == [ofs |-> it.p, len |-> 1, next |-> it.p + 1, last |-> FALSE]
  <2>1. PieceAt(it) = x
    BY <1>3 DEF PieceAt
  <2>2. x \in Pieces
    BY <1>1 DEF Pieces
  <2>3. Gap(it) = 0
    BY <1>3 DEF Gap
  <2> QED
    BY <1>1, <1>3, <2>1, <2>2, <2>3 DEF IsCut, Advances, Follows
<1> QED
  BY <1>2, <1>3

(* Every piece is one, whichever the iterator. *)
LEMMA PieceAtFacts ==
  ASSUME str \in Seq(Nat), NEW it \in Iterators, Position(it, str)
  PROVE  IsCut(it, PieceAt(it), str) /\ Advances(it, PieceAt(it), str)
BY CharsPiece, StringPiece, PlainPiece DEF Position, Kinds

-----------------------------------------------------------------------------
(* The operations. *)

(* One of the functions begins at pos with the callback cb. *)
BeginsAs(it, pos, cb) ==
  \E fn \in {"bsplitscb", "bsplitstrcb"}, sep \in Separators :
    it = Begun(fn, sep, pos, cb)

(* An iterator that begins stands in front of its first piece, or is over. *)
LEMMA BegunFacts ==
  ASSUME str \in Seq(Nat), iter \in Iterators, NEW pos \in 0..Len(str),
         NEW cb \in {"user", "list"}, NEW it,
         BeginsAs(it, pos, cb)
  PROVE  /\ it \in Iterators /\ it.pc \in {"next", "idle"} /\ it.cb = cb
         /\ it.p = pos /\ it.ret = 0
         /\ it.pc = "next" => Position(it, str)
<1>0. PICK fn \in {"bsplitscb", "bsplitstrcb"}, sep \in Separators :
        it = Begun(fn, sep, pos, cb)
  BY DEF BeginsAs
<1> DEFINE kind == KindOf(fn, sep)
           pc == IF kind = "each" /\ pos = Len(str) THEN "idle" ELSE "next"
<1>1. sep \in Seq(Nat) /\ Len(str) \in Nat /\ pos \in Nat /\ pos <= Len(str)
  BY ListAssumption, LenProperties
<1>2. kind \in Kinds /\ (kind = "string" => sep # <<>>)
  BY DEF KindOf, Kinds
<1>3. NoPiece \in Pieces
  BY DEF NoPiece, Pieces
<1>4. pc \in {"next", "idle"} /\ (pc = "next" /\ kind = "each" => pos # Len(str))
  OBVIOUS
<1>5. it = [iter EXCEPT !.pc = pc, !.kind = kind, !.cb = cb, !.sep = sep,
                      !.p = pos, !.piece = NoPiece, !.ret = 0, !.starved = FALSE]
  BY <1>0 DEF Begun
<1> HIDE DEF kind, pc
<1>6. it \in Iterators
  BY <1>1, <1>2, <1>3, <1>4, <1>5 DEF Iterators
<1>7. /\ it.pc = pc /\ it.kind = kind /\ it.cb = cb /\ it.sep = sep /\ it.p = pos
      /\ it.piece = NoPiece /\ it.ret = 0
  BY <1>5 DEF Iterators
<1>8. it.pc = "next" => Position(it, str)
  BY <1>1, <1>2, <1>4, <1>7 DEF Position
<1> QED
  BY <1>2, <1>4, <1>6, <1>7, <1>8

(* There is no list. *)
LEMMA NoListFacts ==
  /\ NoList \in Lists /\ NoList.live = FALSE /\ NoList.entry = <<>>
  /\ Len(NoList.entry) = 0
<1>1. /\ <<>> \in Seq(Nat) /\ <<>> \in Seq(Entries) /\ -1 \in -1..IntMax
      /\ Len(<<>>) = 0
  BY EmptySeq, SizesAssumption
<1> QED
  BY <1>1 DEF NoList, Lists

(* What an entry of the list has. *)
HasNull(l) == \E k \in 1..Len(l.entry) : l.entry[k].null

(* The parts of the invariant, for an iterator at rest. *)
LEMMA IdleInv ==
  ASSUME str' \in Seq(Nat), iter' \in Iterators, list' \in Lists,
         join'.ret \in {"none", "OK", "NULL", "crash"}, iter'.pc = "idle",
         ~list'.live => list' = NoList,
         list'.live => list'.mlen >= 1 /\ Len(list'.entry) <= list'.mlen,
         iter'.cb = "list" /\ iter'.ret < 0
           => iter'.starved \/ 2 * Len(str') > IntMax,
         HasNull(list') => iter'.starved \/ iter'.cb = "user"
  PROVE  ListInv'
BY DEF ListInv, IterInv, BuildInv, ListSound, NullHasCause, PieceIsCut, Qty, HasNull

(* The same for an iterator that goes on. *)
LEMMA AtPieceInv ==
  ASSUME str' \in Seq(Nat), iter' \in Iterators, list' \in Lists,
         join'.ret \in {"none", "OK", "NULL", "crash"},
         iter'.pc = "next", iter'.ret = 0, Position(iter', str'),
         ~list'.live => list' = NoList,
         list'.live => list'.mlen >= 1 /\ Len(list'.entry) <= list'.mlen,
         iter'.cb = "list" =>
           /\ list'.live /\ Len(list'.entry) <= iter'.p /\ iter'.p <= Len(str')
           /\ iter'.kind = "whole" => iter'.p = 0,
         HasNull(list') => iter'.starved \/ iter'.cb = "user"
  PROVE  ListInv'
BY DEF ListInv, IterInv, BuildInv, ListSound, NullHasCause, PieceIsCut, Qty, HasNull

(* What is known before a step. *)
LEMMA ListInvFacts ==
  ASSUME ListInv
  PROVE  /\ str \in Seq(Nat) /\ iter \in Iterators /\ list \in Lists
         /\ join.ret \in {"none", "OK", "NULL", "crash"}
         /\ ~list.live => list = NoList
         /\ list.live => list.mlen >= 1 /\ Len(list.entry) <= list.mlen
         /\ iter.pc = "idle" /\ iter.cb = "list" /\ iter.ret < 0
              => iter.starved \/ 2 * Len(str) > IntMax
         /\ HasNull(list) => iter.starved \/ iter.cb = "user"
         /\ iter.pc = "next" => Position(iter, str) /\ iter.ret = 0
         /\ iter.pc = "next" /\ iter.cb = "list" =>
              /\ list.live /\ Len(list.entry) <= iter.p /\ iter.p <= Len(str)
              /\ iter.kind = "whole" => iter.p = 0
BY DEF ListInv, IterInv, BuildInv, ListSound, NullHasCause, Qty, HasNull

(* bsplitcb and the like begin. *)
LEMMA BsplitcbInv ==
  ASSUME ListInv, Bsplitcb
  PROVE  ListInv'
<1>1. /\ str' = str /\ list' = list /\ join' = NoJoin /\ ~list.live
  BY DEF Bsplitcb
<1>2. PICK pos \in 0..Len(str) : BeginsAs(iter', pos, "user")
  BY DEF Bsplitcb, BeginsAs
<1>3. /\ iter' \in Iterators /\ iter'.pc \in {"next", "idle"} /\ iter'.cb = "user"
      /\ iter'.ret = 0
      /\ iter'.pc = "next" => Position(iter', str)
  <2>1. str \in Seq(Nat) /\ iter \in Iterators /\ "user" \in {"user", "list"}
    BY ListInvFacts
  <2> QED
    BY <1>2, <2>1, BegunFacts
<1>4. join'.ret = "none"
  BY <1>1 DEF NoJoin
<1>5. /\ str' \in Seq(Nat) /\ list' \in Lists /\ list' = NoList /\ ~list'.live
  BY <1>1, ListInvFacts
<1>6. ~HasNull(list')
  BY <1>5, NoListFacts DEF HasNull
<1> QED
  BY <1>1, <1>3, <1>4, <1>5, <1>6, IdleInv, AtPieceInv

(* An iterator gives its callback a piece. *)
LEMMA CallsInv ==
  ASSUME ListInv, Calls
  PROVE  ListInv'
<1> DEFINE x == PieceAt(iter)
<1>1. /\ str' = str /\ list' = list /\ join' = join
      /\ iter.pc = "next" /\ iter.cb = "user"
      /\ iter' = [iter EXCEPT !.pc = "callback", !.piece = x, !.p = x.next]
  BY DEF Calls
<1>2. IsCut(iter, x, str) /\ Advances(iter, x, str) /\ Position(iter, str)
  BY <1>1, ListInvFacts, PieceAtFacts
<1> HIDE DEF x
<1>3. /\ iter \in Iterators /\ x \in Pieces /\ Len(str) \in Nat
      /\ x.next \in Nat /\ x.len \in Int /\ iter.p \in Nat /\ iter.changes \in Nat
  BY <1>2, ListInvFacts, LenProperties DEF Advances, Pieces, Iterators
<1>4. /\ iter' \in Iterators /\ iter'.pc = "callback" /\ iter'.cb = "user"
      /\ iter'.piece = x /\ iter'.p = x.next /\ iter'.kind = iter.kind
      /\ iter'.sep = iter.sep /\ iter'.changes = iter.changes
      /\ iter'.starved = iter.starved
  BY <1>1, <1>3 DEF Iterators
<1>5. Gap(iter') = Gap(iter)
  BY <1>4 DEF Gap
<1>6. IterInv'
  BY <1>1, <1>2, <1>4, <1>5 DEF IterInv, Advances, Follows, Position
<1>7. PieceIsCut'
  <2>1. iter.p > Len(str) /\ iter.kind = "string" => iter.changes > 0
    BY <1>2, <1>3 DEF Position
  <2>2. \A i : CutsAt(i)' <=> Cuts(iter, i, str)
    BY <1>1, <1>4 DEF CutsAt, Cuts
  <2> QED
    BY <1>1, <1>2, <1>4, <2>1, <2>2 DEF PieceIsCut, IsCut
<1>8. BuildInv' /\ ListSound' /\ NullHasCause'
  BY <1>1, <1>4 DEF ListInv, BuildInv, ListSound, NullHasCause, Qty
<1> QED
  BY <1>1, <1>4, <1>6, <1>7, <1>8, ListInvFacts DEF ListInv

(* What is left of a string, or is one longer, is a string. *)
LEMMA ChangedFacts ==
  ASSUME str \in Seq(Nat), NEW t \in Changed
  PROVE  t \in Seq(Nat)
<1>1. ASSUME NEW k \in 0..Len(str)
      PROVE  SubSeq(str, 1, k) \in Seq(Nat)
  BY CutFacts
<1>2. ASSUME NEW sep \in Separators, NEW c \in Chars(sep)
      PROVE  Append(str, c) \in Seq(Nat)
  <2>1. sep \in Seq(Nat)
    BY ListAssumption
  <2>2. c \in Nat
    BY <2>1, ElementOfSeq DEF Chars
  <2> QED
    BY <2>2, AppendProperties
<1> QED
  BY <1>1, <1>2 DEF Changed

(* When the loop of an iterator goes on. *)
LEMMA GoesOnFacts ==
  ASSUME NEW it, NEW t, it.kind \in Kinds
  PROVE  /\ it.kind = "chars" => (GoesOn(it, t) <=> it.p <= Len(t))
         /\ it.kind = "each" => (GoesOn(it, t) <=> it.p < Len(t))
         /\ it.kind = "whole" => (GoesOn(it, t) <=> ~it.piece.last)
         /\ it.kind = "string" => (GoesOn(it, t) <=> ~it.piece.last)
BY DEF GoesOn, Kinds

(* A callback returns. *)
LEMMA ReturnsInv ==
  ASSUME ListInv, Returns
  PROVE  ListInv'
<1>1. PICK r \in {-1, 0}, t \in Changed :
        /\ str' = t
        /\ iter' = [iter EXCEPT
                      !.pc = IF r >= 0 /\ GoesOn(iter, t) THEN "next" ELSE "idle",
                      !.ret = r, !.changes = @ + (IF t = str THEN 0 ELSE 1)]
  BY DEF Returns
<1>2. list' = list /\ join' = join /\ iter.pc = "callback"
  BY DEF Returns
<1>3. PICK pc \in {"next", "idle"} :
        pc = IF r >= 0 /\ GoesOn(iter, t) THEN "next" ELSE "idle"
  OBVIOUS
<1>4. PICK n \in {0, 1} : n = IF t = str THEN 0 ELSE 1
  OBVIOUS
<1>5. /\ str \in Seq(Nat) /\ iter \in Iterators /\ t \in Seq(Nat)
      /\ iter.changes \in Nat /\ iter.p \in Nat
  BY ListInvFacts, ChangedFacts DEF Iterators
<1>6. iter' = [iter EXCEPT !.pc = pc, !.ret = r, !.changes = iter.changes + n]
  BY <1>1, <1>3, <1>4
<1>7. iter.changes + n \in Nat
  BY <1>4, <1>5
<1>8. /\ iter' \in Iterators /\ iter'.pc = pc /\ iter'.ret = r /\ iter'.kind = iter.kind
      /\ iter'.cb = iter.cb /\ iter'.sep = iter.sep /\ iter'.p = iter.p
      /\ iter'.piece = iter.piece /\ iter'.changes = iter.changes + n
      /\ iter'.starved = iter.starved
  BY <1>5, <1>6, <1>7 DEF Iterators
<1>9. /\ iter.cb = "user" /\ iter.kind \in Kinds /\ Follows(iter, iter.piece, str)
      /\ iter.kind = "string" => iter.sep # <<>>
      /\ iter.p = iter.piece.next
      /\ iter.kind = "string" /\ iter.changes = 0 /\ ~iter.piece.last
           => iter.p <= Len(str)
  BY <1>2 DEF ListInv, IterInv
<1>10. CASE pc = "idle"
  BY <1>1, <1>2, <1>5, <1>8, <1>9, <1>10, ListInvFacts, IdleInv
<1>11. CASE pc = "next"
  <2>1. r = 0 /\ GoesOn(iter, t)
    BY <1>3, <1>11
  <2>2. /\ iter.kind = "chars" => iter.p <= Len(t)
        /\ iter.kind = "each" => iter.p < Len(t)
        /\ iter.kind # "whole" /\ ~iter.piece.last
    BY <1>9, <2>1, GoesOnFacts DEF Follows, Kinds
  <2>3. iter.kind = "string" /\ iter'.changes = 0 => iter.p <= Len(t)
    BY <1>4, <1>5, <1>8, <1>9, <2>2
  <2>4. Gap(iter') = Gap(iter)
    BY <1>8 DEF Gap
  <2>5. Position(iter', t)
    BY <1>8, <1>9, <2>2, <2>3, <2>4 DEF Position, Follows
  <2> QED
    BY <1>1, <1>2, <1>5, <1>8, <1>9, <1>11, <2>1, <2>5, ListInvFacts, AtPieceInv
<1> QED
  BY <1>10, <1>11

(* bsplit and the like begin, if there is memory for the list. *)
LEMMA BsplitInv ==
  ASSUME ListInv, Bsplit
  PROVE  ListInv'
<1>1. str' = str /\ join' = NoJoin /\ ~list.live
  BY DEF Bsplit
<1>0. PICK fn \in {"bsplitscb", "bsplitstrcb"}, sep \in Separators :
        LET it == Begun(fn, sep, 0, "list")
        IN  \/ /\ iter' = it
                /\ list' = [NoList EXCEPT !.live = TRUE, !.mlen = ListStart,
                                          !.of = str, !.by = it.kind, !.sep = sep]
             \/ /\ iter' = [it EXCEPT !.pc = "idle", !.ret = -1, !.starved = TRUE]
                /\ list' = list
  BY Zenon DEF Bsplit
<1>2. PICK it :
        /\ it = Begun(fn, sep, 0, "list")
        /\ \/ /\ iter' = it
              /\ list' = [NoList EXCEPT !.live = TRUE, !.mlen = ListStart,
                                        !.of = str, !.by = it.kind, !.sep = sep]
           \/ /\ iter' = [it EXCEPT !.pc = "idle", !.ret = -1, !.starved = TRUE]
              /\ list' = list
  BY <1>0, Zenon
<1>3. /\ str \in Seq(Nat) /\ iter \in Iterators /\ "list" \in {"user", "list"}
      /\ list = NoList /\ join'.ret = "none"
  BY <1>1, ListInvFacts DEF NoJoin
<1>4. 0 \in 0..Len(str) /\ sep \in Seq(Nat) /\ Len(str) \in Nat
  BY <1>3, ListAssumption, LenProperties
<1>5. BeginsAs(it, 0, "list")
  BY <1>2 DEF BeginsAs
<1>6. /\ it \in Iterators /\ it.pc \in {"next", "idle"} /\ it.cb = "list"
      /\ it.p = 0 /\ it.ret = 0
      /\ it.pc = "next" => Position(it, str)
  BY <1>3, <1>4, <1>5, BegunFacts
<1>7. CASE /\ iter' = it
           /\ list' = [NoList EXCEPT !.live = TRUE, !.mlen = ListStart,
                                     !.of = str, !.by = it.kind, !.sep = sep]
  <2>1. /\ ListStart \in -1..IntMax /\ ListStart >= 1 /\ ListStart \in Int
        /\ it.kind \in Kinds \cup {"none"}
    BY <1>6, ListAssumption, SizesAssumption DEF Iterators
  <2>2. /\ list' \in Lists /\ list'.live = TRUE /\ list'.entry = <<>>
        /\ list'.mlen = ListStart
    BY <1>3, <1>4, <1>7, <2>1, NoListFacts DEF Lists
  <2>3. Len(list'.entry) = 0
    BY <2>2, EmptySeq
  <2>4. ~HasNull(list')
    BY <2>3 DEF HasNull
  <2>5. list'.live => list'.mlen >= 1 /\ Len(list'.entry) <= list'.mlen
    BY <2>1, <2>2, <2>3
  <2>6. Len(list'.entry) <= it.p /\ it.p <= Len(str)
    BY <1>4, <1>6, <2>3
  <2> QED
    BY <1>1, <1>3, <1>6, <1>7, <2>2, <2>4, <2>5, <2>6, IdleInv, AtPieceInv
<1>8. CASE /\ iter' = [it EXCEPT !.pc = "idle", !.ret = -1, !.starved = TRUE]
           /\ list' = list
  <2>1. /\ iter' \in Iterators /\ iter'.pc = "idle" /\ iter'.cb = "list"
        /\ iter'.starved = TRUE
    BY <1>6, <1>8 DEF Iterators
  <2>2. ~HasNull(list')
    BY <1>3, <1>8, NoListFacts DEF HasNull
  <2> QED
    BY <1>1, <1>3, <1>8, <2>1, <2>2, NoListFacts, IdleInv
<1> QED
  BY <1>2, <1>7, <1>8

(* A piece in the string becomes an entry. *)
LEMMA EntryFacts ==
  ASSUME NEW t \in Seq(Nat), NEW o \in Nat, NEW n \in Nat, o + n <= Len(t)
  PROVE  Entry(Piece(t, o, n)) \in Entries /\ NullEntry \in Entries
<1>1. Len(t) \in Nat
  BY LenProperties
<1>2. ASSUME NEW i \in (o + 1)..(o + n)
      PROVE  t[i] \in Nat
  <2>1. i \in 1..Len(t)
    BY <1>1
  <2> QED
    BY <2>1, ElementOfSeq
<1>3. o + 1 \in Int /\ o + n \in Int
  OBVIOUS
<1>4. SubSeq(t, o + 1, o + n) \in Seq(Nat)
  BY <1>2, <1>3, SubSeqProperties
<1> QED
  BY <1>4, EmptySeq DEF Entry, NullEntry, Piece, Entries

(* There is room for one more entry, or memory was refused, or twice the   *)
(* room there is does not fit an int.                                      *)
LEMMA ListGrownFacts ==
  ASSUME NEW l \in Lists, l.mlen >= 1, Len(l.entry) <= l.mlen, NEW g \in ListGrown(l)
  PROVE  /\ g.ok => /\ g.mlen \in -1..IntMax /\ g.mlen >= 1
                    /\ Len(l.entry) + 1 <= g.mlen
         /\ ~g.ok => g.starved \/ 2 * Len(l.entry) > IntMax
<1>1. /\ Len(l.entry) \in Nat /\ l.mlen \in Int /\ l.mlen <= IntMax /\ IntMax \in Nat
      /\ l.mlen \in -1..IntMax
  BY SizesAssumption, LenProperties DEF Lists
<1>2. CASE Len(l.entry) < l.mlen
  <2>1. g = [ok |-> TRUE, mlen |-> l.mlen, starved |-> FALSE]
    BY <1>2 DEF ListGrown
  <2> QED
    BY <1>1, <1>2, <2>1
<1>3. CASE ~(Len(l.entry) < l.mlen)
  <2>1. \/ g = [ok |-> FALSE, mlen |-> l.mlen, starved |-> TRUE]
        \/ g = [ok |-> CInt(2 * l.mlen) > l.mlen, mlen |-> CInt(2 * l.mlen),
                starved |-> FALSE]
    BY <1>3 DEF ListGrown
  <2>2. CASE g = [ok |-> FALSE, mlen |-> l.mlen, starved |-> TRUE]
    BY <2>2
  <2>3. CASE g = [ok |-> CInt(2 * l.mlen) > l.mlen, mlen |-> CInt(2 * l.mlen),
                  starved |-> FALSE]
    <3> DEFINE m == 2 * l.mlen
    <3>1. m \in Int /\ m <= 2 * IntMax + 1 /\ IntMin <= m
      BY <1>1 DEF IntMin
    <3>2. g.mlen = CInt(m) /\ (g.ok <=> CInt(m) > l.mlen)
      BY <2>3
    <3> HIDE DEF m
    <3>3. /\ CInt(m) \in Int /\ CInt(m) <= IntMax /\ (m <= IntMax => CInt(m) = m)
      BY <3>1, CIntFacts
    <3>4. CASE g.ok
      <4>1. CInt(m) > l.mlen
        BY <3>2, <3>4
      <4> QED
        BY <1>1, <1>3, <3>2, <3>3, <3>4, <4>1
    <3>5. CASE ~g.ok
      <4>1. ~(CInt(m) > l.mlen) /\ l.mlen >= 1
        BY <3>2, <3>5
      <4>2. m > IntMax
        BY <1>1, <3>1, <3>3, <4>1 DEF m
      <4> QED
        BY <1>1, <1>3, <3>5, <4>2 DEF m
    <3> QED
      BY <3>4, <3>5
  <2> QED
    BY <2>1, <2>2, <2>3
<1> QED
  BY <1>2, <1>3

(* An entry more is in the list. *)
LEMMA MoreFields ==
  ASSUME NEW l \in Lists, NEW e \in Entries, NEW m \in -1..IntMax
  PROVE  LET r == [l EXCEPT !.entry = Append(@, e), !.mlen = m]
         IN  /\ r \in Lists /\ r.live = l.live /\ r.mlen = m
             /\ Len(r.entry) = Len(l.entry) + 1
             /\ HasNull(r) => HasNull(l) \/ e.null
<1> DEFINE a == Append(l.entry, e)
           r == [l EXCEPT !.entry = a, !.mlen = m]
<1>1. l.entry \in Seq(Entries) /\ Len(l.entry) \in Nat
  BY LenProperties DEF Lists
<1>2. /\ a \in Seq(Entries) /\ Len(a) = Len(l.entry) + 1
      /\ \A i \in 1..Len(l.entry) : a[i] = l.entry[i]
      /\ a[Len(l.entry) + 1] = e
  BY <1>1, AppendProperties
<1>3. [l EXCEPT !.entry = Append(@, e), !.mlen = m] = r
  OBVIOUS
<1> HIDE DEF a
<1>4. r \in Lists /\ r.live = l.live /\ r.mlen = m /\ r.entry = a
  BY <1>2 DEF Lists
<1> HIDE DEF r
<1>5. ASSUME NEW k \in 1..Len(r.entry), r.entry[k].null
      PROVE  HasNull(l) \/ e.null
  <2>1. k \in 1..Len(l.entry) \/ k = Len(l.entry) + 1
    BY <1>1, <1>2, <1>4
  <2>2. CASE k \in 1..Len(l.entry)
    BY <1>2, <1>4, <1>5, <2>2 DEF HasNull
  <2>3. CASE k = Len(l.entry) + 1
    BY <1>2, <1>4, <1>5, <2>3
  <2> QED
    BY <2>1, <2>2, <2>3
<1> QED
  BY <1>2, <1>3, <1>4, <1>5 DEF HasNull

(* bscb gets a piece: the list keeps pace with the iterator. *)
LEMMA BscbInv ==
  ASSUME ListInv, Bscb
  PROVE  ListInv'
<1> DEFINE x == PieceAt(iter)
           it == [iter EXCEPT !.piece = x, !.p = x.next]
<1>3. /\ str' = str /\ join' = join /\ iter.pc = "next" /\ iter.cb = "list"
      /\ str \in Seq(Nat) /\ iter \in Iterators /\ list \in Lists
      /\ Position(iter, str) /\ iter.ret = 0
      /\ list.live /\ Len(list.entry) <= iter.p /\ iter.p <= Len(str)
      /\ list.mlen >= 1 /\ Len(list.entry) <= list.mlen
      /\ HasNull(list) => iter.starved
  BY ListInvFacts DEF Bscb
<1>4. PICK g \in ListGrown(list) :
        IF g.ok
        THEN \E e \in {Entry(Piece(str, x.ofs, x.len)), NullEntry} :
               /\ list' = [list EXCEPT !.entry = Append(@, e), !.mlen = g.mlen]
               /\ iter' = [it EXCEPT
                             !.pc = IF GoesOn(it, str) THEN "next" ELSE "idle",
                             !.starved = @ \/ e.null]
        ELSE /\ list' = NoList
             /\ iter' = [it EXCEPT !.pc = "idle", !.ret = -1,
                                   !.starved = @ \/ g.starved]
  BY Zenon DEF Bscb
<1> HIDE DEF it
<1>5. IsCut(iter, x, str) /\ Advances(iter, x, str)
  BY <1>3, PieceAtFacts
<1> HIDE DEF x
<1>6. /\ x \in Pieces /\ x.ofs \in Nat /\ x.len \in Int /\ x.next \in Nat
      /\ x.last \in BOOLEAN /\ Len(str) \in Nat /\ Len(list.entry) \in Nat
      /\ iter.p \in Nat /\ iter.starved \in BOOLEAN /\ iter.kind \in Kinds
  BY <1>3, <1>5, LenProperties DEF Advances, Pieces, Iterators, Position, Lists
<1>7. /\ it \in Iterators /\ it.pc = iter.pc /\ it.kind = iter.kind /\ it.cb = "list"
      /\ it.sep = iter.sep /\ it.p = x.next /\ it.piece = x /\ it.ret = 0
      /\ it.changes = iter.changes /\ it.starved = iter.starved
  BY <1>3, <1>6 DEF Iterators, it
<1>8. x.len \in Nat /\ x.ofs + x.len <= Len(str)
  BY <1>3, <1>5, <1>6 DEF IsCut
<1>9. /\ g.ok => /\ g.mlen \in -1..IntMax /\ g.mlen >= 1
                 /\ Len(list.entry) + 1 <= g.mlen
      /\ ~g.ok => g.starved \/ 2 * Len(list.entry) > IntMax
  BY <1>3, <1>4, ListGrownFacts
<1>10. CASE g.ok
  <2>1. PICK e \in {Entry(Piece(str, x.ofs, x.len)), NullEntry} :
          /\ list' = [list EXCEPT !.entry = Append(@, e), !.mlen = g.mlen]
          /\ iter' = [it EXCEPT
                        !.pc = IF GoesOn(it, str) THEN "next" ELSE "idle",
                        !.starved = @ \/ e.null]
    BY <1>4, <1>10
  <2>2. e \in Entries
    BY <1>3, <1>6, <1>8, EntryFacts
  <2>3. /\ list' \in Lists /\ list'.live = list.live /\ list'.mlen = g.mlen
        /\ Len(list'.entry) = Len(list.entry) + 1
        /\ HasNull(list') => HasNull(list) \/ e.null
    BY <1>3, <1>9, <1>10, <2>1, <2>2, MoreFields, ZenonT(60)
  <2>4. PICK pc \in {"next", "idle"} :
          pc = IF GoesOn(it, str) THEN "next" ELSE "idle"
    OBVIOUS
  <2>5. PICK s \in BOOLEAN : s <=> iter.starved \/ e.null
    OBVIOUS
  <2>6. iter' = [it EXCEPT !.pc = pc, !.starved = s]
    <3>1. e.null \in BOOLEAN
      BY <2>2 DEF Entries
    <3>2. s = (it.starved \/ e.null)
      BY <1>6, <1>7, <2>5, <3>1
    <3> QED
      BY <2>1, <2>4, <3>2
  <2>7. /\ iter' \in Iterators /\ iter'.pc = pc /\ iter'.kind = iter.kind
        /\ iter'.cb = "list" /\ iter'.sep = iter.sep /\ iter'.p = x.next
        /\ iter'.piece = x /\ iter'.ret = 0 /\ iter'.changes = iter.changes
        /\ iter'.starved = s
    BY <1>7, <2>4, <2>5, <2>6 DEF Iterators
  <2>8. HasNull(list') => iter'.starved
    BY <1>3, <2>3, <2>5, <2>7
  <2>9. list'.mlen >= 1 /\ Len(list'.entry) <= list'.mlen /\ list'.live
    BY <1>3, <1>9, <1>10, <2>3
  <2>10. CASE pc = "idle"
    BY <1>3, <2>3, <2>7, <2>8, <2>9, <2>10, ListInvFacts, IdleInv
  <2>11. CASE pc = "next"
    <3>1. GoesOn(it, str)
      BY <2>4, <2>11
    <3>2. /\ iter.kind = "chars" => x.next <= Len(str)
          /\ iter.kind = "each" => x.next < Len(str)
          /\ iter.kind # "whole" /\ ~x.last
      BY <1>5, <1>6, <1>7, <3>1, GoesOnFacts DEF Advances, Follows, Kinds
    <3>3. x.next <= Len(str) /\ x.next > iter.p
      BY <1>5, <1>6, <3>2 DEF Advances, Kinds
    <3>4. Gap(iter') = Gap(iter)
      BY <2>7 DEF Gap
    <3>5. Position(iter', str)
      BY <1>3, <1>5, <2>7, <3>2, <3>3, <3>4 DEF Position, Advances, Follows
    <3>6. /\ Len(list'.entry) <= iter'.p /\ iter'.p <= Len(str)
          /\ iter'.kind # "whole"
      BY <1>3, <1>6, <2>3, <2>7, <3>2, <3>3
    <3> QED
      BY <1>3, <2>3, <2>7, <2>8, <2>9, <2>11, <3>5, <3>6, ListInvFacts, AtPieceInv
  <2> QED
    BY <2>10, <2>11
<1>11. CASE ~g.ok
  <2>1. /\ list' = NoList
        /\ iter' = [it EXCEPT !.pc = "idle", !.ret = -1, !.starved = @ \/ g.starved]
    BY <1>4, <1>11
  <2>2. PICK s \in BOOLEAN : s <=> it.starved \/ g.starved
    OBVIOUS
  <2>3. iter' = [it EXCEPT !.pc = "idle", !.ret = -1, !.starved = s]
    BY <2>1, <2>2
  <2>4. /\ iter' \in Iterators /\ iter'.pc = "idle" /\ iter'.cb = "list"
        /\ iter'.starved = s
    BY <1>7, <2>2, <2>3 DEF Iterators
  <2>5. s \/ 2 * Len(str) > IntMax
    BY <1>3, <1>6, <1>9, <1>11, <2>2, SizesAssumption
  <2>6. ~HasNull(list') /\ ~list'.live /\ list' \in Lists
    BY <2>1, NoListFacts DEF HasNull
  <2> QED
    BY <1>3, <2>1, <2>4, <2>5, <2>6, ListInvFacts, IdleInv
<1> QED
  BY <1>10, <1>11

(* Creating, destroying and sizing a list never leaves it without room for *)
(* what is in it.                                                          *)
LEMMA ListOpsInv ==
  ASSUME ListInv,
         BstrListCreate \/ BstrListDestroy \/ BstrListAlloc \/ BstrListAllocMin
  PROVE  ListInv'
<1>1. /\ str' = str /\ iter' = iter /\ join' = NoJoin /\ iter.pc = "idle"
      /\ str \in Seq(Nat) /\ iter \in Iterators /\ list \in Lists
      /\ list.live => list.mlen >= 1 /\ Len(list.entry) <= list.mlen
      /\ iter.cb = "list" /\ iter.ret < 0 => iter.starved \/ 2 * Len(str) > IntMax
      /\ HasNull(list) => iter.starved \/ iter.cb = "user"
  BY ListInvFacts DEF BstrListCreate, BstrListDestroy, BstrListAlloc,
                      BstrListAllocMin, Idle
<1>2. join'.ret = "none"
  BY <1>1 DEF NoJoin
<1>3. /\ IntMax \in Nat /\ 1 <= IntMax /\ list.mlen \in Int /\ list.mlen <= IntMax
      /\ Len(list.entry) \in Nat
  BY <1>1, SizesAssumption, LenProperties DEF Lists
<1>4. CASE BstrListCreate
  <2>1. list' = [NoList EXCEPT !.live = TRUE, !.mlen = 1] /\ 1 \in -1..IntMax
    BY <1>3, <1>4 DEF BstrListCreate
  <2>2. /\ list' \in Lists /\ list'.live = TRUE /\ list'.mlen = 1
        /\ list'.entry = <<>>
    BY <2>1, NoListFacts DEF Lists
  <2>3. Len(list'.entry) = 0 /\ ~HasNull(list')
    BY <2>2, EmptySeq DEF HasNull
  <2> QED
    BY <1>1, <1>2, <2>2, <2>3, IdleInv
<1>5. CASE BstrListDestroy
  <2>1. list' = NoList
    BY <1>5 DEF BstrListDestroy
  <2>2. list' \in Lists /\ ~list'.live /\ ~HasNull(list')
    BY <2>1, NoListFacts DEF HasNull
  <2> QED
    BY <1>1, <1>2, <2>1, <2>2, IdleInv
<1>6. ASSUME NEW m \in -1..IntMax, list' = [list EXCEPT !.mlen = m],
             list.live, m >= 1, Len(list.entry) <= m
      PROVE  ListInv'
  <2>1. /\ list' \in Lists /\ list'.live = list.live /\ list'.mlen = m
        /\ list'.entry = list.entry
    BY <1>1, <1>6 DEF Lists
  <2>2. HasNull(list') => HasNull(list)
    BY <2>1 DEF HasNull
  <2> QED
    BY <1>1, <1>2, <1>6, <2>1, <2>2, IdleInv
<1>7. CASE BstrListAlloc
  <2>1. PICK msz \in ListSizes :
          /\ msz > list.mlen
          /\ \E size \in {SnapUpSize(msz), msz} : list' = [list EXCEPT !.mlen = size]
    BY <1>7 DEF BstrListAlloc
  <2>2. list.live /\ msz \in Int /\ msz <= IntMax
    BY <1>3, <1>7, ListAssumption DEF BstrListAlloc, IntMin
  <2>3. /\ SnapUpSize(msz) \in Int /\ msz <= SnapUpSize(msz)
        /\ SnapUpSize(msz) <= IntMax
    BY <2>2, SnapUpSizeFacts
  <2>4. PICK size \in {SnapUpSize(msz), msz} : list' = [list EXCEPT !.mlen = size]
    BY <2>1
  <2>5. size \in -1..IntMax /\ size >= 1 /\ Len(list.entry) <= size
    BY <1>1, <1>3, <2>1, <2>2, <2>3, <2>4
  <2> QED
    BY <1>6, <2>2, <2>4, <2>5
<1>8. CASE BstrListAllocMin
  <2>1. PICK msz \in ListSizes :
          msz > 0 /\ list' = [list EXCEPT !.mlen = LeastSize(msz)]
    BY <1>8 DEF BstrListAllocMin
  <2>2. list.live /\ msz \in Int /\ msz <= IntMax
    BY <1>3, <1>8, ListAssumption DEF BstrListAllocMin, IntMin
  <2>3. /\ LeastSize(msz) \in -1..IntMax /\ LeastSize(msz) >= 1
        /\ Len(list.entry) <= LeastSize(msz)
    BY <1>1, <1>3, <2>1, <2>2 DEF LeastSize, Larger, Qty
  <2> QED
    BY <1>6, <2>1, <2>2, <2>3
<1> QED
  BY <1>4, <1>5, <1>7, <1>8

(* Joining leaves the list alone. *)
LEMMA BjoinInv ==
  ASSUME ListInv, Bjoin
  PROVE  ListInv'
<1>1. str' = str /\ iter' = iter /\ list' = list /\ iter.pc = "idle"
  BY DEF Bjoin, Idle
<1>2. /\ \A text, mlen, sep : Joining(text, mlen, sep).ret = "OK"
      /\ \A ret, sep : Unjoined(ret, sep).ret = ret
  BY DEF Joining, Unjoined
<1>3. join'.ret \in {"none", "OK", "NULL", "crash"}
  BY <1>2 DEF Bjoin
<1> QED
  BY <1>1, <1>3, ListInvFacts, IdleInv

(* At first there is neither a list nor an iterator. *)
LEMMA InitListInv ==
  ASSUME Init
  PROVE  ListInv
<1>1. str \in Seq(Nat)
  BY ListAssumption DEF Init
<1>2. iter \in Iterators
  BY EmptySeq DEF Init, Iterators, NoPiece, Pieces, Kinds
<1>3. iter.pc = "idle" /\ iter.cb = "user" /\ list = NoList
  BY DEF Init
<1>4. join.ret = "none"
  BY DEF Init, NoJoin
<1>5. list \in Lists /\ ~list.live /\ Qty = 0
  BY <1>3, NoListFacts DEF Qty
<1> QED
  BY <1>1, <1>2, <1>3, <1>4, <1>5
  DEF ListInv, IterInv, BuildInv, ListSound, NullHasCause, PieceIsCut

(* Every step keeps the inductive invariant. *)
LEMMA NextListInv ==
  ASSUME ListInv, [Next]_vars
  PROVE  ListInv'
<1>1. CASE Next
  BY <1>1, BsplitcbInv, CallsInv, ReturnsInv, BsplitInv, BscbInv, ListOpsInv, BjoinInv
  DEF Next, Steps
<1>2. CASE UNCHANGED vars
  BY <1>2 DEF vars, ListInv, IterInv, BuildInv, ListSound, NullHasCause, PieceIsCut,
              CutsAt, Qty
<1> QED
  BY <1>1, <1>2

(* The inductive invariant holds in every reachable state. *)
LEMMA SpecListInv == Spec => []ListInv
<1>1. Init => ListInv
  BY InitListInv
<1>2. ListInv /\ [Next]_vars => ListInv'
  BY NextListInv
<1> QED
  BY <1>1, <1>2, PTL DEF Spec

-----------------------------------------------------------------------------
(* The theorems. *)

(* A list always has room for its entries, whatever was split, allocated,  *)
(* resized and refused (bscb, bstrListAlloc, bstrListAllocMin), and a      *)
(* split yields NULL, or an entry that is, for want of memory only, or for *)
(* a number of pieces of which an int cannot count twice as many.  (That   *)
(* bjoin can use such an entry is not said: it dereferences it.)           *)
THEOREM ListsAreSound == Spec => []ListIsSound
<1>1. ListInv => ListIsSound
  <2> SUFFICES ASSUME ListInv PROVE ListIsSound
    OBVIOUS
  <2>1. ListSound /\ NullHasCause
    BY DEF ListInv
  <2>2. TypeOK
    BY DEF ListInv, TypeOK, Iterators, Lists, Pieces
  <2> QED
    BY <2>1, <2>2 DEF ListIsSound
<1> QED
  BY <1>1, SpecListInv, PTL

(* What a callback of bsplitcb, bsplitscb or bsplitstrcb gets is a piece   *)
(* of the string as it then is, cut at the separators and at no other      *)
(* place, for all strings and separators and whatever callbacks before it  *)
(* did to the string.                                                      *)
THEOREM PiecesAreCut == Spec => []PieceIsCut
<1>1. ListInv => PieceIsCut
  BY DEF ListInv
<1> QED
  BY <1>1, SpecListInv, PTL

(* The piece that a callback gets begins where the last one ended.         *)
LEMMA CallsFollow ==
  ASSUME ListInv, Calls, iter.piece # NoPiece
  PROVE  iter'.piece.ofs = iter.piece.ofs + iter.piece.len + Gap(iter)
<1> DEFINE x == PieceAt(iter)
<1>1. /\ iter.pc = "next"
      /\ iter' = [iter EXCEPT !.pc = "callback", !.piece = x, !.p = x.next]
  BY DEF Calls
<1>2. Position(iter, str) /\ iter \in Iterators /\ Advances(iter, x, str)
  BY <1>1, ListInvFacts, PieceAtFacts
<1> HIDE DEF x
<1>3. iter'.piece = x
  BY <1>1, <1>2 DEF Iterators
<1>4. x.ofs = iter.p
  BY <1>2 DEF Position, Advances
<1>5. iter.p = iter.piece.ofs + iter.piece.len + Gap(iter)
  BY <1>2 DEF Position
<1> QED
  BY <1>3, <1>4, <1>5

(* Where an iterator that does not go on has got to. *)
LEMMA LastReaches ==
  ASSUME NEW it, NEW s \in Seq(Nat), NEW t \in Seq(Nat), it.kind \in Kinds,
         it.piece \in Pieces, Follows(it, it.piece, s), it.p = it.piece.next,
         ~GoesOn(it, t)
  PROVE  it.piece.ofs + it.piece.len >= Smaller(Len(s), Len(t))
<1>1. /\ Len(s) \in Nat /\ Len(t) \in Nat
      /\ it.piece.ofs \in Nat /\ it.piece.len \in Int /\ it.piece.next \in Nat
  BY LenProperties DEF Pieces
<1>2. Smaller(Len(s), Len(t)) <= Len(s) /\ Smaller(Len(s), Len(t)) <= Len(t)
      /\ Smaller(Len(s), Len(t)) \in Nat
  BY <1>1 DEF Smaller
<1>3. CASE it.kind = "chars"
  <2>1. it.p > Len(t) /\ it.p = it.piece.ofs + it.piece.len + 1
    BY <1>1, <1>3, GoesOnFacts DEF Follows, Gap
  <2> QED
    BY <1>1, <1>2, <2>1
<1>4. CASE it.kind = "each"
  <2>1. it.p >= Len(t) /\ it.p = it.piece.ofs + it.piece.len + 0
    BY <1>1, <1>4, GoesOnFacts DEF Follows, Gap
  <2> QED
    BY <1>1, <1>2, <2>1
<1>5. CASE it.kind \in {"whole", "string"}
  <2>1. it.piece.last
    BY <1>5, GoesOnFacts
  <2>2. it.piece.ofs + it.piece.len = Len(s)
    BY <2>1 DEF Follows
  <2> QED
    BY <1>1, <1>2, <2>2
<1> QED
  BY <1>3, <1>4, <1>5 DEF Kinds

(* An iterator that is over, and was not stopped, has reached the end.     *)
LEMMA EndReaches ==
  ASSUME ListInv, Next, iter.pc # "idle", iter'.pc = "idle", iter'.ret = 0
  PROVE  iter'.piece.ofs + iter'.piece.len >= Smaller(Len(str), Len(str'))
<1>1. str \in Seq(Nat) /\ iter \in Iterators
  BY ListInvFacts
<1>2. Returns \/ Bscb
  <2>1. ASSUME Calls PROVE FALSE
    <3> DEFINE x == PieceAt(iter)
    <3>1. iter' = [iter EXCEPT !.pc = "callback", !.piece = x, !.p = x.next]
      BY <2>1, Zenon DEF Calls
    <3> HIDE DEF x
    <3>2. iter'.pc = "callback"
      BY <1>1, <3>1 DEF Iterators
    <3> QED
      BY <3>2
  <2>2. ASSUME Bsplitcb PROVE FALSE
    BY <2>2 DEF Bsplitcb, Idle
  <2>3. ASSUME Bsplit PROVE FALSE
    BY <2>3 DEF Bsplit, Idle
  <2>4. ASSUME BstrListCreate \/ BstrListDestroy \/ Bjoin PROVE FALSE
    BY <2>4 DEF BstrListCreate, BstrListDestroy, Bjoin, Idle
  <2>5. ASSUME BstrListAlloc \/ BstrListAllocMin PROVE FALSE
    BY <2>5 DEF BstrListAlloc, BstrListAllocMin, Idle
  <2> QED
    BY <2>1, <2>2, <2>3, <2>4, <2>5 DEF Next, Steps
<1>3. CASE Returns
  <2>1. PICK r \in {-1, 0}, t \in Changed :
          /\ str' = t
          /\ iter' = [iter EXCEPT
                        !.pc = IF r >= 0 /\ GoesOn(iter, t) THEN "next" ELSE "idle",
                        !.ret = r, !.changes = @ + (IF t = str THEN 0 ELSE 1)]
    BY <1>3 DEF Returns
  <2>2. /\ iter'.pc = IF r >= 0 /\ GoesOn(iter, t) THEN "next" ELSE "idle"
        /\ iter'.ret = r /\ iter'.piece = iter.piece
    BY <1>1, <2>1 DEF Iterators
  <2>3. ~GoesOn(iter, t)
    BY <2>2
  <2>4. /\ iter.kind \in Kinds /\ Follows(iter, iter.piece, str)
        /\ iter.p = iter.piece.next
    BY <1>3 DEF Returns, ListInv, IterInv
  <2>5. t \in Seq(Nat) /\ iter.piece \in Pieces
    BY <1>1, ChangedFacts DEF Iterators
  <2> QED
    BY <1>1, <2>1, <2>2, <2>3, <2>4, <2>5, LastReaches
<1>4. CASE Bscb
  <2> DEFINE x == PieceAt(iter)
             it == [iter EXCEPT !.piece = x, !.p = x.next]
  <2>1. PICK g \in ListGrown(list) :
          IF g.ok
          THEN \E e \in {Entry(Piece(str, x.ofs, x.len)), NullEntry} :
                 iter' = [it EXCEPT
                            !.pc = IF GoesOn(it, str) THEN "next" ELSE "idle",
                            !.starved = @ \/ e.null]
          ELSE iter' = [it EXCEPT !.pc = "idle", !.ret = -1,
                                  !.starved = @ \/ g.starved]
    BY <1>4, Zenon DEF Bscb
  <2> HIDE DEF it
  <2>2. Advances(iter, x, str) /\ iter.pc = "next" /\ str' = str
    BY <1>1, <1>4, ListInvFacts, PieceAtFacts DEF Bscb
  <2> HIDE DEF x
  <2>3. x \in Pieces /\ x.next \in Nat
    BY <2>2 DEF Advances, Pieces
  <2>4. /\ it \in Iterators /\ it.piece = x /\ it.p = x.next /\ it.kind = iter.kind
        /\ it.sep = iter.sep
    BY <1>1, <2>3 DEF Iterators, it
  <2>5. CASE g.ok
    <3>1. PICK e : iter' = [it EXCEPT
                              !.pc = IF GoesOn(it, str) THEN "next" ELSE "idle",
                              !.starved = @ \/ e.null]
      BY <2>1, <2>5
    <3>2. /\ iter'.piece = x
          /\ iter'.pc = IF GoesOn(it, str) THEN "next" ELSE "idle"
      BY <2>4, <3>1 DEF Iterators
    <3>3. ~GoesOn(it, str)
      BY <3>2
    <3>4. Gap(it) = Gap(iter)
      BY <2>4 DEF Gap
    <3>5. Follows(it, it.piece, str) /\ it.kind \in Kinds
      <4>1. Position(iter, str)
        BY <2>2, ListInvFacts
      <4> QED
        BY <2>2, <2>4, <3>4, <4>1 DEF Advances, Follows, Position
    <3> QED
      BY <1>1, <2>2, <2>3, <2>4, <3>2, <3>3, <3>5, LastReaches
  <2>6. CASE ~g.ok
    <3>1. iter' = [it EXCEPT !.pc = "idle", !.ret = -1, !.starved = @ \/ g.starved]
      BY <2>1, <2>6
    <3>2. iter'.ret = -1
      BY <2>4, <3>1 DEF Iterators
    <3> QED
      BY <3>2
  <2> QED
    BY <2>5, <2>6
<1> QED
  BY <1>2, <1>3, <1>4

(* The pieces of a split (bsplitcb and the like, bsplit and the like)      *)
(* follow one another right behind the separators, and the last reaches    *)
(* the end, unless the split was stopped or the last callback made the     *)
(* string longer.                                                          *)
THEOREM SplitIsComplete == Spec => PiecesFollow
<1> DEFINE A == Calls /\ iter.piece # NoPiece
                  => LET x == iter.piece
                     IN  iter'.piece.ofs = x.ofs + x.len +
                           (CASE iter.kind = "chars" -> 1
                              [] iter.kind = "each" -> 0
                              [] iter.kind = "string" -> Len(iter.sep)
                              [] iter.kind = "whole" -> 0)
           B == iter.pc # "idle" /\ iter'.pc = "idle" /\ iter'.ret = 0
                  => iter'.piece.ofs + iter'.piece.len >= Smaller(Len(str), Len(str'))
<1>1. ListInv /\ [Next]_vars => [A]_vars
  BY CallsFollow DEF Gap
<1>2. ListInv /\ [Next]_vars => [B]_vars
  BY EndReaches
<1> QED
  BY <1>1, <1>2, SpecListInv, PTL DEF Spec, PiecesFollow, LockStep, ReachesEnd

-----------------------------------------------------------------------------
(* Joining what was split. *)

(* What bjoin puts one behind another. *)
Texts(l, sep) ==
  [k \in 1..Len(l.entry) |->
     IF k = 1 THEN l.entry[k].text ELSE sep \o l.entry[k].text]

JoinedBy(l, sep) == FlattenSeq(Texts(l, sep))

(* The separator is the one at which the list was split. *)
Restores(l, sep) ==
  /\ l.by # "none" /\ (l.by = "chars" => Len(sep) = 1)
  /\ l.by = "each" => sep = <<>>
  /\ l.by \in {"chars", "string"} => sep = l.sep

Building == iter.pc = "next" /\ iter.cb = "list"

(* Joined again, the entries are the string up to where the iterator that  *)
(* builds the list has come, without the last separator.                   *)
JoinsUp(l, sep, it, t) ==
  IF Len(l.entry) = 0 THEN it.p = 0
  ELSE JoinedBy(l, sep) \o sep = SubSeq(t, 1, it.p)

(* The inductive invariant of JoinOfSplit, beside ListInv. *)
JoinInv ==
  /\ Building => /\ list.of = str /\ list.by = iter.kind /\ list.sep = iter.sep
                 /\ join.ret = "none"
  /\ list.live /\ ~HasNull(list) =>
       \A sep \in Seq(Nat) : Restores(list, sep) =>
         IF Building THEN JoinsUp(list, sep, iter, str)
         ELSE JoinedBy(list, sep) = list.of
  /\ JoinOfSplit

(* An entry more is one more text, behind a separator if it is not alone.  *)
LEMMA JoinedMore ==
  ASSUME NEW l \in Lists, NEW e \in Entries, NEW m \in -1..IntMax,
         NEW sep \in Seq(Nat)
  PROVE  LET r == [l EXCEPT !.entry = Append(@, e), !.mlen = m]
         IN  /\ JoinedBy(l, sep) \in Seq(Nat)
             /\ JoinedBy(r, sep) = IF Len(l.entry) = 0 THEN e.text
                                   ELSE JoinedBy(l, sep) \o (sep \o e.text)
             /\ HasNull(l) \/ e.null => HasNull(r)
<1> DEFINE a == Append(l.entry, e)
           r == [l EXCEPT !.entry = a, !.mlen = m]
           n == Len(l.entry)
           s == Texts(l, sep)
           y == IF n = 0 THEN e.text ELSE sep \o e.text
<1>1. l.entry \in Seq(Entries) /\ n \in Nat /\ e.text \in Seq(Nat)
  BY LenProperties DEF Lists, Entries
<1>2. /\ Len(a) = n + 1 /\ a[n + 1] = e
      /\ \A i \in 1..n : a[i] = l.entry[i] /\ l.entry[i] \in Entries
  BY <1>1, AppendProperties, ElementOfSeq
<1>3. [l EXCEPT !.entry = Append(@, e), !.mlen = m] = r
  OBVIOUS
<1> HIDE DEF a
<1>4. r.entry = a
  BY DEF Lists
<1> HIDE DEF r, n
<1>5. y \in Seq(Nat)
  <2>1. sep \o e.text \in Seq(Nat)
    BY <1>1, ConcatProperties
  <2> QED
    BY <1>1, <2>1
<1>6. s \in Seq(Seq(Nat)) /\ Len(s) = n
  <2>1. ASSUME NEW i \in 1..n
        PROVE  (IF i = 1 THEN l.entry[i].text ELSE sep \o l.entry[i].text) \in Seq(Nat)
    <3>1. l.entry[i].text \in Seq(Nat)
      BY <1>2 DEF Entries
    <3>2. sep \o l.entry[i].text \in Seq(Nat)
      BY <3>1, ConcatProperties
    <3> QED
      BY <3>1, <3>2
  <2>2. s \in [1..n -> Seq(Nat)]
    BY <2>1 DEF Texts, n
  <2> QED
    BY <1>1, <2>2, SeqDef
<1>7. Texts(r, sep) = Append(s, y)
  <2>1. Append(s, y) = [i \in 1..(n + 1) |-> IF i <= n THEN s[i] ELSE y]
    BY <1>1, <1>6
  <2>2. ASSUME NEW i \in 1..(n + 1)
        PROVE  (IF i = 1 THEN a[i].text ELSE sep \o a[i].text)
                 = IF i <= n THEN s[i] ELSE y
    <3>1. CASE i <= n
      <4>1. i \in 1..n
        BY <1>1, <3>1
      <4>2. s[i] = IF i = 1 THEN l.entry[i].text ELSE sep \o l.entry[i].text
        BY <4>1 DEF Texts, n
      <4>3. a[i] = l.entry[i]
        BY <1>2, <4>1
      <4> QED
        BY <3>1, <4>2, <4>3
    <3>2. CASE ~(i <= n)
      <4>1. i = n + 1 /\ (i = 1 <=> n = 0)
        BY <1>1, <3>2
      <4>2. a[i] = e
        BY <1>2, <4>1
      <4> QED
        BY <3>2, <4>1, <4>2
    <3> QED
      BY <3>1, <3>2
  <2>3. Texts(r, sep) = [i \in 1..(n + 1) |-> IF i = 1 THEN a[i].text
                                              ELSE sep \o a[i].text]
    BY <1>2, <1>4 DEF Texts
  <2> HIDE DEF s, y
  <2> QED
    BY <2>1, <2>2, <2>3
<1> HIDE DEF s, y
<1>8. /\ FlattenSeq(s) \in Seq(Nat)
      /\ FlattenSeq(Append(s, y)) = FlattenSeq(s) \o y
  BY <1>5, <1>6, FlattenTyped, FlattenAppend
<1>9. n = 0 => FlattenSeq(s) \o y = e.text
  <2> SUFFICES ASSUME n = 0 PROVE FlattenSeq(s) \o y = e.text
    OBVIOUS
  <2>1. s = <<>> /\ y = e.text
    BY <1>6, EmptySeq DEF y
  <2>2. FlattenSeq(s) = <<>>
    BY <2>1, FlattenNone
  <2> QED
    BY <1>5, <2>1, <2>2, ConcatEmptySeq
<1>10. n # 0 => y = sep \o e.text
  BY DEF y
<1>11. HasNull(l) \/ e.null => HasNull(r)
  <2>1. ASSUME NEW k \in 1..n, l.entry[k].null PROVE HasNull(r)
    <3>1. k \in 1..(n + 1) /\ a[k] = l.entry[k]
      BY <1>1, <1>2
    <3> QED
      BY <1>2, <1>4, <2>1, <3>1 DEF HasNull
  <2>2. e.null => HasNull(r)
    <3>1. n + 1 \in 1..(n + 1)
      BY <1>1
    <3> QED
      BY <1>2, <1>4, <3>1 DEF HasNull
  <2> QED
    BY <2>1, <2>2 DEF HasNull, n
<1>12. JoinedBy(l, sep) = FlattenSeq(s) /\ JoinedBy(r, sep) = FlattenSeq(Append(s, y))
  BY <1>7 DEF JoinedBy, s
<1> QED
  BY <1>3, <1>8, <1>9, <1>10, <1>11, <1>12 DEF n

(* Where a piece of a list ends there is the separator, if another follows.*)
LEMMA PieceThenSeparator ==
  ASSUME NEW t \in Seq(Nat), NEW it \in Iterators, NEW x, IsCut(it, x, t),
         Advances(it, x, t), NEW sep \in Seq(Nat), it.kind # "whole", ~x.last,
         x.len >= 0, x.next <= Len(t), NEW l \in Lists, Restores(l, sep),
         l.by = it.kind, l.sep = it.sep, it.kind \in Kinds
  PROVE  sep = SubSeq(t, x.ofs + x.len + 1, x.next)
<1> DEFINE q == x.ofs + x.len
<1>1. /\ x.ofs \in Nat /\ x.len \in Nat /\ x.next \in Nat /\ Len(t) \in Nat
      /\ Len(sep) \in Nat /\ x.next = q + Gap(it) /\ Len(it.sep) \in Nat
  BY LenProperties DEF Advances, Pieces, Follows, Iterators
<1> HIDE DEF q
<1>2. CASE it.kind = "each"
  <2>1. sep = <<>> /\ x.next = q + 0
    BY <1>1, <1>2 DEF Restores, Gap
  <2>2. x.next < q + 1 /\ x.next \in Int /\ q + 1 \in Int
    BY <1>1, <2>1 DEF q
  <2>3. SubSeq(t, q + 1, x.next) = <<>>
    BY <2>2, SubSeqEmpty
  <2> QED
    BY <2>1, <2>3 DEF q
<1>3. CASE it.kind = "string"
  <2>1. sep = it.sep /\ x.next = q + Len(it.sep)
    BY <1>1, <1>3 DEF Restores, Gap
  <2>2. Cuts(it, q, t)
    <3>1. Cuts(it, q, t) \/ q = Len(t)
      BY <1>1, <1>3 DEF IsCut, q
    <3>2. CASE q = Len(t)
      <4>1. Len(sep) = 0
        BY <1>1, <2>1, <3>2
      <4>2. sep = <<>>
        BY <4>1, EmptySeq
      <4>3. x.next = q + 0 /\ Len(t) = q /\ Len(it.sep) = 0
        BY <1>1, <2>1, <3>2, <4>1
      <4>4. SubSeq(t, q + 1, q + 0) = <<>>
        BY <1>1, SubSeqEmpty DEF q
      <4>5. it.sep = <<>> /\ q + 0 <= Len(t) /\ q \in Nat
        BY <1>1, <2>1, <4>2, <4>3 DEF q
      <4> QED
        BY <1>3, <4>3, <4>4, <4>5 DEF Cuts, Piece
    <3> QED
      BY <3>1, <3>2
  <2> QED
    BY <1>3, <2>1, <2>2 DEF Cuts, Piece, q
<1>4. CASE it.kind = "chars"
  <2>1. sep = it.sep /\ Len(sep) = 1 /\ x.next = q + 1
    BY <1>1, <1>4 DEF Restores, Gap
  <2>2. q \in Nat /\ q < Len(t)
    BY <1>1, <2>1 DEF q
  <2>3. t[q + 1] \in Chars(it.sep)
    <3>1. Cuts(it, q, t) \/ q = Len(t)
      BY <1>1, <1>4 DEF IsCut, q
    <3> QED
      BY <1>4, <2>2, <3>1 DEF Cuts
  <2>4. t[q + 1] = sep[1]
    <3>1. DOMAIN sep = {1}
      <4>1. DOMAIN sep = 1..1
        BY <2>1, LenProperties
      <4> QED
        BY <4>1
    <3> QED
      BY <2>1, <2>3, <3>1 DEF Chars
  <2>5. t[q + 1] \in Nat
    <3>1. q + 1 \in 1..Len(t)
      BY <1>1, <2>2
    <3> QED
      BY <3>1, ElementOfSeq
  <2> DEFINE a == q + 1
  <2>6. a \in Int /\ \A i \in a..a : t[i] \in Nat
    BY <2>2, <2>5
  <2> HIDE DEF a
  <2>7. /\ SubSeq(t, a, a) \in Seq(Nat)
        /\ Len(SubSeq(t, a, a)) = IF a <= a THEN a - a + 1 ELSE 0
        /\ \A i \in 1..(a - a + 1) : SubSeq(t, a, a)[i] = t[a + i - 1]
    BY <2>6, SubSeqProperties
  <2>8. a - a + 1 = 1 /\ a <= a /\ a + 1 - 1 = a /\ 1 \in 1..1
    BY <2>6
  <2>9. Len(SubSeq(t, a, a)) = 1 /\ SubSeq(t, a, a)[1] = t[a]
    BY <2>7, <2>8
  <2>10. \A i \in 1..1 : i = 1
    OBVIOUS
  <2>11. sep[1] = SubSeq(t, a, a)[1]
    BY <2>4, <2>9 DEF a
  <2>12. sep = SubSeq(t, a, a)
    BY <2>1, <2>7, <2>9, <2>10, <2>11, SeqEqual
  <2> QED
    BY <2>1, <2>12 DEF a, q
<1> QED
  BY <1>2, <1>3, <1>4 DEF Kinds

(* Three adjacent parts of a string are one. *)
LEMMA PartsAdjoin ==
  ASSUME NEW t \in Seq(Nat), NEW p \in Nat, NEW q \in p..Len(t), NEW r \in q..Len(t)
  PROVE  /\ SubSeq(t, 1, p) \in Seq(Nat) /\ SubSeq(t, p + 1, q) \in Seq(Nat)
         /\ SubSeq(t, 1, p) \o SubSeq(t, p + 1, q) = SubSeq(t, 1, q)
         /\ SubSeq(t, 1, q) \o SubSeq(t, q + 1, r) = SubSeq(t, 1, r)
<1>1. Len(t) \in Nat /\ q \in Nat /\ r \in Nat /\ p <= q /\ q <= r /\ r <= Len(t)
  BY LenProperties
<1>2. \A i \in 1..Len(t) : t[i] \in Nat
  BY ElementOfSeq
<1>3. SubSeq(t, 1, p) \in Seq(Nat)
  <2>1. \A i \in 1..p : t[i] \in Nat
    BY <1>1, <1>2
  <2> QED
    BY <2>1, SubSeqProperties
<1>4. SubSeq(t, p + 1, q) \in Seq(Nat)
  <2> DEFINE a == p + 1
  <2>1. a \in Int /\ q \in Int /\ \A i \in a..q : t[i] \in Nat
    BY <1>1, <1>2
  <2> HIDE DEF a
  <2>2. SubSeq(t, a, q) \in Seq(Nat)
    BY <2>1, SubSeqProperties
  <2> QED
    BY <2>2 DEF a
<1>5. /\ 1 \in 1..(Len(t) + 1) /\ p \in (1 - 1)..Len(t) /\ q \in p..Len(t)
      /\ q \in (1 - 1)..Len(t) /\ r \in q..Len(t)
  BY <1>1
<1>6. SubSeq(t, 1, p) \o SubSeq(t, p + 1, q) = SubSeq(t, 1, q)
  BY <1>5, ConcatAdjacentSubSeq
<1>7. SubSeq(t, 1, q) \o SubSeq(t, q + 1, r) = SubSeq(t, 1, r)
  BY <1>5, ConcatAdjacentSubSeq
<1> QED
  BY <1>3, <1>4, <1>6, <1>7

(* The parts of the invariant, for a step after which there is no join.    *)
LEMMA NoJoinInv ==
  ASSUME join'.ret = "none", ~Building',
         list'.live /\ ~HasNull(list') =>
           \A sep \in Seq(Nat) : Restores(list', sep)
             => JoinedBy(list', sep) = list'.of
  PROVE  JoinInv'
<1>1. JoinOfSplit'
  BY DEF JoinOfSplit
<1> QED
  BY <1>1 DEF JoinInv

(* The iterators of the user have nothing to do with the list. *)
LEMMA UserJoin ==
  ASSUME ListInv, JoinInv, Bsplitcb \/ Calls \/ Returns
  PROVE  JoinInv'
<1>1. CASE Bsplitcb
  <2>1. list' = list /\ join' = NoJoin /\ ~list.live
    BY <1>1 DEF Bsplitcb
  <2>2. PICK pos \in 0..Len(str) : BeginsAs(iter', pos, "user")
    BY <1>1 DEF Bsplitcb, BeginsAs
  <2>3. iter'.cb = "user"
    <3>1. str \in Seq(Nat) /\ iter \in Iterators /\ "user" \in {"user", "list"}
      BY ListInvFacts
    <3> QED
      BY <2>2, <3>1, BegunFacts
  <2> QED
    BY <2>1, <2>3, NoJoinInv DEF Building, NoJoin
<1>2. CASE Calls \/ Returns
  <2>1. list' = list /\ join' = join
    BY <1>2 DEF Calls, Returns
  <2>2. ~Building /\ iter.cb = "user"
    BY <1>2 DEF Calls, Returns, Building, ListInv, IterInv
  <2>3. iter'.cb = "user"
    <3>1. iter \in Iterators
      BY ListInvFacts
    <3>2. CASE Calls
      BY <2>2, <3>1, <3>2, Zenon DEF Calls, Iterators
    <3>3. CASE Returns
      BY <2>2, <3>1, <3>3 DEF Returns, Iterators
    <3> QED
      BY <1>2, <3>2, <3>3
  <2>4. ~Building'
    BY <2>3 DEF Building
  <2>5. JoinOfSplit'
    BY <2>1 DEF JoinInv, JoinOfSplit
  <2> QED
    BY <2>1, <2>2, <2>4, <2>5 DEF JoinInv
<1> QED
  BY <1>1, <1>2

(* Without entries there is nothing to join. *)
LEMMA JoinedNone ==
  ASSUME NEW l, Len(l.entry) = 0, NEW sep
  PROVE  JoinedBy(l, sep) = <<>>
<1> DEFINE u == Texts(l, sep)
<1>1. u \in [1..0 -> Seq(Nat)]
  BY DEF Texts
<1> HIDE DEF u
<1>2. u \in Seq(Seq(Nat)) /\ Len(u) = 0
  BY <1>1, SeqDef
<1>3. u = <<>>
  BY <1>2, EmptySeq
<1>4. FlattenSeq(u) = <<>>
  BY <1>3, FlattenNone
<1> QED
  BY <1>4 DEF JoinedBy, u

(* A split begins with nothing joined. *)
LEMMA BsplitJoin ==
  ASSUME ListInv, JoinInv, Bsplit
  PROVE  JoinInv'
<1>1. str' = str /\ join' = NoJoin /\ ~list.live
  BY DEF Bsplit
<1>2. PICK fn \in {"bsplitscb", "bsplitstrcb"}, sep \in Separators :
        LET it == Begun(fn, sep, 0, "list")
        IN  \/ /\ iter' = it
                /\ list' = [NoList EXCEPT !.live = TRUE, !.mlen = ListStart,
                                          !.of = str, !.by = it.kind, !.sep = sep]
             \/ /\ iter' = [it EXCEPT !.pc = "idle", !.ret = -1, !.starved = TRUE]
                /\ list' = list
  BY Zenon DEF Bsplit
<1> DEFINE kind == KindOf(fn, sep)
           pc == IF kind = "each" /\ 0 = Len(str) THEN "idle" ELSE "next"
           it == Begun(fn, sep, 0, "list")
<1>3. it = [iter EXCEPT !.pc = pc, !.kind = kind, !.cb = "list", !.sep = sep,
                        !.p = 0, !.piece = NoPiece, !.ret = 0, !.starved = FALSE]
  BY DEF Begun
<1>4. iter \in Iterators /\ str \in Seq(Nat)
  BY ListInvFacts
<1>5. pc = "next" \/ (pc = "idle" /\ kind = "each" /\ Len(str) = 0)
  OBVIOUS
<1> HIDE DEF kind, pc
<1>6. it.pc = pc /\ it.kind = kind /\ it.cb = "list" /\ it.sep = sep /\ it.p = 0
  BY <1>3, <1>4 DEF Iterators
<1> HIDE DEF it
<1>7. CASE /\ iter' = it
           /\ list' = [NoList EXCEPT !.live = TRUE, !.mlen = ListStart,
                                     !.of = str, !.by = it.kind, !.sep = sep]
  <2>1. /\ list'.entry = <<>> /\ list'.of = str /\ list'.by = it.kind
        /\ list'.sep = sep
    BY <1>7, NoListFacts DEF NoList
  <2>2. Len(list'.entry) = 0
    BY <2>1, EmptySeq
  <2>3. CASE pc = "next"
    <3>1. Building'
      BY <1>6, <1>7, <2>3 DEF Building
    <3>2. \A s : JoinsUp(list', s, iter', str')
      BY <1>6, <1>7, <2>2 DEF JoinsUp
    <3>3. join'.ret = "none"
      BY <1>1 DEF NoJoin
    <3>4. JoinOfSplit'
      BY <3>3 DEF JoinOfSplit
    <3> QED
      BY <1>1, <1>6, <1>7, <2>1, <3>1, <3>2, <3>3, <3>4 DEF JoinInv
  <2>4. CASE pc = "idle"
    <3>1. ~Building' /\ join'.ret = "none"
      BY <1>1, <1>6, <1>7, <2>4 DEF Building, NoJoin
    <3>2. str = <<>>
      BY <1>4, <1>5, <2>4, EmptySeq
    <3>3. ASSUME NEW s \in Seq(Nat) PROVE JoinedBy(list', s) = list'.of
      <4>1. JoinedBy(list', s) = <<>>
        BY <2>2, JoinedNone
      <4> QED
        BY <2>1, <3>2, <4>1
    <3> QED
      BY <3>1, <3>3, NoJoinInv
  <2> QED
    BY <1>5, <2>3, <2>4
<1>8. CASE /\ iter' = [it EXCEPT !.pc = "idle", !.ret = -1, !.starved = TRUE]
           /\ list' = list
  <2>1. it \in Iterators
    <3>1. BeginsAs(it, 0, "list") /\ 0 \in 0..Len(str) /\ "list" \in {"user", "list"}
      BY <1>4, LenProperties DEF BeginsAs, it
    <3> QED
      BY <1>4, <3>1, BegunFacts
  <2>2. iter'.pc = "idle"
    BY <1>8, <2>1 DEF Iterators
  <2> QED
    BY <1>1, <1>8, <2>2, NoJoinInv DEF Building, NoJoin
<1> QED
  BY <1>2, <1>7, <1>8 DEF it

(* bscb gets a piece: what is joined reaches as far as its end. *)
LEMMA BscbJoin ==
  ASSUME ListInv, JoinInv, Bscb
  PROVE  JoinInv'
<1> DEFINE x == PieceAt(iter)
           it == [iter EXCEPT !.piece = x, !.p = x.next]
<1>1. /\ str' = str /\ join' = join /\ iter.pc = "next" /\ iter.cb = "list"
      /\ str \in Seq(Nat) /\ iter \in Iterators /\ list \in Lists
      /\ Position(iter, str) /\ list.live /\ iter.p <= Len(str)
      /\ iter.kind = "whole" => iter.p = 0
  BY ListInvFacts DEF Bscb
<1>2. /\ list.of = str /\ list.by = iter.kind /\ list.sep = iter.sep
      /\ join.ret = "none"
      /\ ~HasNull(list) => \A sep \in Seq(Nat) :
           Restores(list, sep) => JoinsUp(list, sep, iter, str)
  BY <1>1 DEF JoinInv, Building
<1>3. PICK g \in ListGrown(list) :
        IF g.ok
        THEN \E e \in {Entry(Piece(str, x.ofs, x.len)), NullEntry} :
               /\ list' = [list EXCEPT !.entry = Append(@, e), !.mlen = g.mlen]
               /\ iter' = [it EXCEPT
                             !.pc = IF GoesOn(it, str) THEN "next" ELSE "idle",
                             !.starved = @ \/ e.null]
        ELSE /\ list' = NoList
             /\ iter' = [it EXCEPT !.pc = "idle", !.ret = -1,
                                   !.starved = @ \/ g.starved]
  BY Zenon DEF Bscb
<1> HIDE DEF it
<1>4. IsCut(iter, x, str) /\ Advances(iter, x, str)
  BY <1>1, PieceAtFacts
<1>5. x.ofs = iter.p
  BY <1>1, <1>4 DEF Advances, PieceAt
<1> HIDE DEF x
<1>6. /\ x \in Pieces /\ x.ofs \in Nat /\ x.len \in Int /\ x.next \in Nat
      /\ x.last \in BOOLEAN /\ Len(str) \in Nat /\ iter.p \in Nat
      /\ iter.kind \in Kinds
  BY <1>1, <1>4, LenProperties DEF Advances, Pieces, Iterators, Position
<1>7. /\ it \in Iterators /\ it.kind = iter.kind /\ it.cb = "list"
      /\ it.sep = iter.sep /\ it.p = x.next /\ it.piece = x
  BY <1>1, <1>6 DEF Iterators, it
<1>8. x.len \in Nat /\ x.ofs + x.len <= Len(str)
  BY <1>1, <1>4, <1>6 DEF IsCut
<1>9. JoinOfSplit'
  BY <1>1, <1>2 DEF JoinOfSplit
<1>10. join'.ret = "none"
  BY <1>1, <1>2
<1>11. CASE ~g.ok
  <2>1. /\ list' = NoList
        /\ iter' = [it EXCEPT !.pc = "idle", !.ret = -1, !.starved = @ \/ g.starved]
    BY <1>3, <1>11
  <2>2. iter'.pc = "idle" /\ list'.live = FALSE
    BY <1>7, <2>1, NoListFacts DEF Iterators
  <2> QED
    BY <1>10, <2>2, NoJoinInv DEF Building
<1>12. CASE g.ok
  <2>1. PICK e \in {Entry(Piece(str, x.ofs, x.len)), NullEntry} :
          /\ list' = [list EXCEPT !.entry = Append(@, e), !.mlen = g.mlen]
          /\ iter' = [it EXCEPT
                        !.pc = IF GoesOn(it, str) THEN "next" ELSE "idle",
                        !.starved = @ \/ e.null]
    BY <1>3, <1>12
  <2>2. e \in Entries /\ g.mlen \in -1..IntMax
    <3>1. list.mlen >= 1 /\ Len(list.entry) <= list.mlen
      BY <1>1, ListInvFacts
    <3> QED
      BY <1>1, <1>3, <1>5, <1>6, <1>8, <1>12, <3>1, EntryFacts, ListGrownFacts
  <2>3. /\ list'.of = list.of /\ list'.by = list.by /\ list'.sep = list.sep
        /\ Len(list'.entry) = Len(list.entry) + 1
    <3>1. Len(list'.entry) = Len(list.entry) + 1
      BY <1>1, <2>1, <2>2, MoreFields, ZenonT(60)
    <3>2. list'.of = list.of /\ list'.by = list.by /\ list'.sep = list.sep
      BY <1>1, <2>1 DEF Lists
    <3> QED
      BY <3>1, <3>2
  <2>4. PICK pc \in {"next", "idle"} :
          pc = IF GoesOn(it, str) THEN "next" ELSE "idle"
    OBVIOUS
  <2>5. /\ iter'.pc = pc /\ iter'.kind = iter.kind /\ iter'.cb = "list"
        /\ iter'.sep = iter.sep /\ iter'.p = x.next
    BY <1>7, <2>1, <2>4 DEF Iterators
  <2> DEFINE n == x.ofs + x.len
             y == SubSeq(str, 1, n)
  <2>6. n \in Nat /\ n \in iter.p..Len(str)
    BY <1>5, <1>6, <1>8
  <2>7. ASSUME ~HasNull(list'), NEW sep \in Seq(Nat), Restores(list', sep)
        PROVE  JoinedBy(list', sep) = y /\ Len(list'.entry) # 0
    <3>1. /\ JoinedBy(list, sep) \in Seq(Nat)
          /\ JoinedBy(list', sep) = IF Len(list.entry) = 0 THEN e.text
                                    ELSE JoinedBy(list, sep) \o (sep \o e.text)
          /\ HasNull(list) \/ e.null => HasNull(list')
      BY <1>1, <2>1, <2>2, JoinedMore, ZenonT(60)
    <3>2. ~HasNull(list) /\ ~e.null
      BY <2>7, <3>1
    <3>3. e.text = SubSeq(str, iter.p + 1, n)
      <4>1. e = Entry(Piece(str, x.ofs, x.len))
        BY <2>1, <3>2 DEF NullEntry
      <4> QED
        BY <1>5, <4>1 DEF Entry, Piece
    <3>4. JoinsUp(list, sep, iter, str)
      BY <1>2, <2>3, <2>7, <3>2 DEF Restores
    <3>5. Len(list.entry) \in Nat /\ Len(str) \in n..Len(str)
      BY <1>1, <1>6, <2>6, LenProperties DEF Lists
    <3>6. /\ SubSeq(str, iter.p + 1, n) \in Seq(Nat)
          /\ SubSeq(str, 1, iter.p) \o SubSeq(str, iter.p + 1, n) = y
      <4>1. str \in Seq(Nat) /\ iter.p \in Nat
        BY <1>1, <1>6
      <4> HIDE DEF n
      <4> QED
        BY <2>6, <3>5, <4>1, PartsAdjoin, Zenon
    <3> HIDE DEF n, y
    <3>7. CASE Len(list.entry) = 0
      <4>1. iter.p = 0
        BY <3>4, <3>7 DEF JoinsUp
      <4>2. iter.p + 1 = 1
        BY <4>1
      <4>3. e.text = y
        BY <3>3, <4>2 DEF y
      <4> QED
        BY <2>3, <3>1, <3>7, <4>3
    <3>8. CASE Len(list.entry) # 0
      <4>1. JoinedBy(list, sep) \o sep = SubSeq(str, 1, iter.p)
        BY <3>4, <3>8 DEF JoinsUp
      <4>2. JoinedBy(list, sep) \o (sep \o e.text)
              = (JoinedBy(list, sep) \o sep) \o e.text
        <5>1. /\ JoinedBy(list, sep) \in Seq(Nat) /\ sep \in Seq(Nat)
              /\ e.text \in Seq(Nat)
          BY <3>1, <3>3, <3>6
        <5> QED
          BY <5>1, TextFacts, Zenon
      <4>3. (JoinedBy(list, sep) \o sep) \o e.text = y
        BY <3>3, <3>6, <4>1
      <4>4. JoinedBy(list', sep) = JoinedBy(list, sep) \o (sep \o e.text)
        BY <3>1, <3>8
      <4>5. Len(list'.entry) # 0
        BY <2>3, <3>5
      <4> QED
        BY <4>2, <4>3, <4>4, <4>5
    <3> QED
      BY <3>7, <3>8
  <2> HIDE DEF n, y
  <2>8. CASE pc = "idle"
    <3>1. ~GoesOn(it, str)
      BY <2>4, <2>8
    <3>2. n = Len(str)
      <4>1. CASE iter.kind = "chars"
        <5>1. ~x.last /\ x.next = n + 1 /\ ~(x.next <= Len(str))
          BY <1>4, <1>7, <3>1, <4>1 DEF GoesOn, Advances, Follows, Gap, n
        <5> QED
          BY <1>6, <2>6, <5>1
      <4>2. CASE iter.kind = "each"
        <5>1. ~x.last /\ x.next = n + 0 /\ ~(x.next < Len(str))
          BY <1>4, <1>7, <3>1, <4>2 DEF GoesOn, Advances, Follows, Gap, n
        <5> QED
          BY <1>6, <2>6, <5>1
      <4>3. CASE iter.kind \in {"whole", "string"}
        <5>1. x.last
          BY <1>7, <3>1, <4>3 DEF GoesOn
        <5> QED
          BY <1>4, <5>1 DEF Advances, Follows, n
      <4> QED
        BY <1>6, <4>1, <4>2, <4>3 DEF Kinds
    <3>3. y = str
      BY <1>1, <3>2, SubSeqFull DEF y
    <3> QED
      BY <1>2, <1>10, <2>3, <2>5, <2>7, <2>8, <3>3, NoJoinInv DEF Building
  <2>9. CASE pc = "next"
    <3>1. GoesOn(it, str)
      BY <2>4, <2>9
    <3>2. iter.kind # "whole" /\ ~x.last /\ x.next <= Len(str) /\ n <= x.next
      <4>1. iter.kind # "whole" /\ ~x.last
        BY <1>4, <1>6, <1>7, <3>1 DEF GoesOn, Advances, Follows, Kinds
      <4>2. x.next <= Len(str)
        <5>1. CASE iter.kind = "chars"
          BY <1>7, <3>1, <5>1 DEF GoesOn
        <5>2. CASE iter.kind = "each"
          <6>1. x.next < Len(str)
            BY <1>7, <3>1, <5>2 DEF GoesOn
          <6> QED
            BY <1>6, <6>1
        <5>3. CASE iter.kind = "string"
          BY <1>4, <4>1, <5>3 DEF Advances
        <5> QED
          BY <1>6, <4>1, <5>1, <5>2, <5>3 DEF Kinds
      <4>3. Gap(iter) \in Nat
        BY <1>1, <1>6, LenProperties DEF Gap, Kinds, Iterators
      <4>4. x.next = n + Gap(iter)
        BY <1>4, <4>1 DEF Advances, Follows, n
      <4> QED
        BY <2>6, <4>1, <4>2, <4>3, <4>4
    <3>3. ASSUME ~HasNull(list'), NEW sep \in Seq(Nat), Restores(list', sep)
          PROVE  JoinsUp(list', sep, iter', str)
      <4>1. JoinedBy(list', sep) = y /\ Len(list'.entry) # 0
        BY <2>7, <3>3
      <4>2. Restores(list, sep)
        BY <2>3, <3>3 DEF Restores
      <4>3. sep = SubSeq(str, n + 1, x.next)
        <5>1. x.len >= 0
          BY <1>8
        <5> QED
          BY <1>1, <1>2, <1>4, <1>6, <3>2, <4>2, <5>1, PieceThenSeparator DEF n
      <4>4. n \in iter.p..Len(str) /\ x.next \in n..Len(str)
        BY <1>6, <2>6, <3>2
      <4>5. y \o SubSeq(str, n + 1, x.next) = SubSeq(str, 1, x.next)
        <5>1. str \in Seq(Nat) /\ iter.p \in Nat
          BY <1>1, <1>6
        <5> QED
          BY <4>4, <5>1, PartsAdjoin, Zenon DEF y
      <4> QED
        BY <2>5, <4>1, <4>3, <4>5 DEF JoinsUp
    <3>4. Building'
      BY <2>5, <2>9 DEF Building
    <3> QED
      BY <1>1, <1>2, <1>9, <1>10, <2>3, <2>5, <3>3, <3>4 DEF JoinInv
  <2> QED
    BY <2>8, <2>9
<1> QED
  BY <1>11, <1>12

(* Creating, destroying and sizing a list leaves its entries as they are.  *)
LEMMA ListOpsJoin ==
  ASSUME ListInv, JoinInv,
         BstrListCreate \/ BstrListDestroy \/ BstrListAlloc \/ BstrListAllocMin
  PROVE  JoinInv'
<1>1. iter' = iter /\ iter.pc = "idle" /\ join'.ret = "none"
  BY DEF BstrListCreate, BstrListDestroy, BstrListAlloc, BstrListAllocMin, Idle, NoJoin
<1>2. ~Building /\ ~Building'
  BY <1>1 DEF Building
<1>3. list \in Lists
  BY ListInvFacts
<1>4. CASE BstrListCreate
  <2>1. list'.by = "none"
    BY <1>4, NoListFacts DEF BstrListCreate, NoList
  <2> QED
    BY <1>1, <1>2, <2>1, NoJoinInv DEF Restores
<1>5. CASE BstrListDestroy
  <2>1. list'.live = FALSE
    BY <1>5, NoListFacts DEF BstrListDestroy
  <2> QED
    BY <1>1, <1>2, <2>1, NoJoinInv
<1>6. ASSUME NEW m, list' = [list EXCEPT !.mlen = m], list.live
      PROVE  JoinInv'
  <2>1. /\ list'.entry = list.entry /\ list'.by = list.by /\ list'.of = list.of
        /\ list'.sep = list.sep
    BY <1>3, <1>6 DEF Lists
  <2>2. HasNull(list') <=> HasNull(list)
    BY <2>1 DEF HasNull
  <2>3. \A sep : JoinedBy(list', sep) = JoinedBy(list, sep)
    BY <2>1 DEF JoinedBy, Texts
  <2>4. \A sep : Restores(list', sep) <=> Restores(list, sep)
    BY <2>1 DEF Restores
  <2> QED
    BY <1>1, <1>2, <1>6, <2>1, <2>2, <2>3, <2>4, NoJoinInv DEF JoinInv
<1>7. CASE BstrListAlloc
  <2>1. list.live
    BY <1>7 DEF BstrListAlloc
  <2>2. PICK m : list' = [list EXCEPT !.mlen = m]
    BY <1>7 DEF BstrListAlloc
  <2> QED
    BY <1>6, <2>1, <2>2
<1>8. CASE BstrListAllocMin
  <2>1. list.live
    BY <1>8 DEF BstrListAllocMin
  <2>2. PICK m : list' = [list EXCEPT !.mlen = m]
    BY <1>8 DEF BstrListAllocMin
  <2> QED
    BY <1>6, <2>1, <2>2
<1> QED
  BY <1>4, <1>5, <1>7, <1>8

(* bjoin makes of the entries what JoinedBy says. *)
LEMMA BjoinJoin ==
  ASSUME ListInv, JoinInv, Bjoin
  PROVE  JoinInv'
<1>1. /\ iter' = iter /\ list' = list /\ str' = str /\ iter.pc = "idle" /\ list.live
  BY DEF Bjoin, Idle
<1>2. ~Building /\ ~Building'
  BY <1>1 DEF Building
<1>3. PICK sep \in Separators :
        join' \in
          IF Qty = 0 THEN {Unjoined("NULL", sep), Joining(<<>>, SnapUpSize(2), sep)}
          ELSE IF \E k \in 1..Qty : list.entry[k].null THEN {Unjoined("crash", sep)}
          ELSE {Unjoined("NULL", sep), Unjoined("crash", sep)}
               \cup (IF Len(Joined(sep)) < IntMax
                     THEN {Joining(Joined(sep), Len(Joined(sep)) + 1, sep)} ELSE {})
  BY Zenon DEF Bjoin
<1>4. sep \in Seq(Nat) /\ list \in Lists
  BY ListAssumption, ListInvFacts
<1>5. /\ list.of \in Seq(Nat) /\ list.entry \in Seq(Entries)
      /\ Len(list.of) \in Nat /\ Len(list.entry) \in Nat
  BY <1>4, LenProperties DEF Lists
<1>6. ASSUME join'.ret = "OK"
      PROVE  \/ Qty = 0 /\ join' = Joining(<<>>, SnapUpSize(2), sep)
             \/ /\ Qty # 0 /\ ~HasNull(list)
                /\ join' = Joining(Joined(sep), Len(Joined(sep)) + 1, sep)
  <2>1. join' # Unjoined("NULL", sep) /\ join' # Unjoined("crash", sep)
    BY <1>6 DEF Unjoined
  <2>2. CASE Qty = 0
    BY <1>3, <2>1, <2>2
  <2>3. CASE Qty # 0
    <3>1. ~(\E k \in 1..Qty : list.entry[k].null)
      BY <1>3, <2>1, <2>3
    <3>2. join' = Joining(Joined(sep), Len(Joined(sep)) + 1, sep)
      BY <1>3, <2>1, <2>3, <3>1
    <3> QED
      BY <2>3, <3>1, <3>2 DEF HasNull, Qty
  <2> QED
    BY <2>2, <2>3
<1>7. ASSUME join'.ret = "OK", Restores(list, sep)
      PROVE  join'.text = list.of /\ join'.mlen > Len(list.of) /\ join'.sep = sep
  <2>1. CASE Qty = 0 /\ join' = Joining(<<>>, SnapUpSize(2), sep)
    <3>1. join'.text = <<>> /\ join'.mlen = SnapUpSize(2) /\ join'.sep = sep
      BY <2>1 DEF Joining
    <3>2. ~HasNull(list)
      BY <2>1 DEF HasNull, Qty
    <3>3. JoinedBy(list, sep) = list.of
      BY <1>1, <1>2, <1>4, <1>7, <3>2 DEF JoinInv
    <3>4. list.of = <<>>
      BY <2>1, <3>3, JoinedNone DEF Qty
    <3>5. SnapUpSize(2) \in Int /\ 2 < SnapUpSize(2)
      <4>1. 2 \in Int /\ 2 <= IntMax
        BY SizesAssumption
      <4> QED
        BY <4>1, SnapUpSizeFacts
    <3>6. Len(list.of) = 0
      BY <3>4
    <3> QED
      BY <3>1, <3>4, <3>5, <3>6
  <2>2. CASE /\ Qty # 0 /\ ~HasNull(list)
             /\ join' = Joining(Joined(sep), Len(Joined(sep)) + 1, sep)
    <3>1. /\ join'.text = Joined(sep) /\ join'.mlen = Len(Joined(sep)) + 1
          /\ join'.sep = sep
      BY <2>2 DEF Joining
    <3>2. JoinedBy(list, sep) = list.of
      BY <1>1, <1>2, <1>4, <1>7, <2>2 DEF JoinInv
    <3>3. Joined(sep) = list.of
      BY <3>2 DEF Joined, JoinedBy, Texts, Qty
    <3>4. join'.mlen > Len(list.of)
      BY <1>5, <3>1, <3>3
    <3> QED
      BY <3>1, <3>3, <3>4
  <2> QED
    BY <1>6, <1>7, <2>1, <2>2
<1>8. JoinOfSplit'
  <2> SUFFICES ASSUME join'.ret = "OK", Restores(list, join'.sep)
               PROVE  join'.text = list.of /\ join'.mlen > Len(list.of)
    BY <1>1 DEF JoinOfSplit, Restores
  <2>1. join'.sep = sep
    BY <1>6 DEF Joining
  <2> QED
    BY <1>7, <2>1
<1> QED
  BY <1>1, <1>2, <1>8 DEF JoinInv

(* JoinInv is inductive beside ListInv. *)
LEMMA NextJoinInv ==
  ASSUME ListInv, JoinInv, [Next]_vars
  PROVE  JoinInv'
<1>1. CASE Next
  BY <1>1, UserJoin, BsplitJoin, BscbJoin, ListOpsJoin, BjoinJoin DEF Next, Steps
<1>2. CASE UNCHANGED vars
  <2>1. str' = str /\ iter' = iter /\ list' = list /\ join' = join
    BY <1>2 DEF vars
  <2>2. /\ Building' <=> Building
        /\ JoinOfSplit' <=> JoinOfSplit
    BY <2>1 DEF Building, JoinOfSplit
  <2> QED
    BY <2>1, <2>2 DEF JoinInv
<1> QED
  BY <1>1, <1>2

(* A string that was split at one character, at a string or into its       *)
(* characters (bsplit, bsplits, bsplitstr), and of which no entry is NULL, *)
(* is what bjoin makes of the entries with the same separator, for all     *)
(* strings and separators and however the list was sized in between; what  *)
(* a callback gets is cut at the separators.                               *)
THEOREM JoinUndoesSplit == Spec => []SplitIsExact
<1>1. Init => JoinInv
  <2> SUFFICES ASSUME Init PROVE JoinInv
    OBVIOUS
  <2>1. ~Building /\ list.live = FALSE /\ join.ret = "none"
    BY NoListFacts DEF Init, Building, NoJoin
  <2> QED
    BY <2>1 DEF JoinInv, JoinOfSplit
<1>2. ListInv /\ JoinInv /\ [Next]_vars => JoinInv'
  BY NextJoinInv
<1>3. ListInv /\ JoinInv => SplitIsExact
  BY DEF ListInv, JoinInv, SplitIsExact
<1> QED
  BY <1>1, <1>2, <1>3, SpecListInv, PTL DEF Spec

=============================================================================

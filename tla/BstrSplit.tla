------------------------------ MODULE BstrSplit ------------------------------
(***************************************************************************)
(* Splitting a stream: bssplitscb and bssplitstrcb (bstring/bstrlib.c) as  *)
(* callers of the bStream of module BstrStream.  They read into a buffer   *)
(* of their own, cut pieces off it and hand each to a callback of the      *)
(* user, which may itself read from the stream or put characters back.     *)
(*                                                                         *)
(* An action is what the code does from one call of the stream, or of the  *)
(* callback, to the next; the steps of a read in progress are those of     *)
(* BstrStream.  binstr is modelled by what it promises (BstrSearch is      *)
(* about how it keeps it).                                                 *)
(***************************************************************************)
EXTENDS BstrStream

LOCAL INSTANCE SequencesExt

CONSTANTS
  Separators,  \* the texts given as splitStr
  SplitLen,    \* BSSSC_BUFF_LEN, 256 in the source
  MovesMax     \* bound: stream operations other than those of the split

ASSUME SplitAssumption ==
  /\ Separators \subseteq Seq(Nat)
  /\ SplitLen \in 1..IntMax
  /\ MovesMax \in Nat

(* No split comes to hold a text of INT_MAX, though each move of the user  *)
(* puts HeldMax characters back: what bconcat does with such a text is     *)
(* shown in BstrHeader.                                                    *)
ASSUME SplitFits ==
  2 * Len(Input) + HeldMax * (MovesMax + 1) + SplitLen < IntMax

VARIABLES
  split,  \* the split in progress, or the last one
  due     \* what it has to cut up: its own text and what the stream held
          \* when it began, or went on after a callback

splitVars == <<vars, split, due>>

-----------------------------------------------------------------------------
(* What the stream still holds, and what the split holds of it. *)
Left == buff.text \o src

(***************************************************************************)
(* The four ways the two functions work: bssplitscb cuts at the characters *)
(* of a set, or, without one, hands over the whole stream; bssplitstrcb    *)
(* cuts at a string, or, without one, wherever its reads end.  Given one   *)
(* character it calls bssplitscb.                                          *)
(***************************************************************************)
KindOf(fn, sep) ==
  IF sep = <<>> THEN (IF fn = "bssplitscb" THEN "whole" ELSE "blocks")
  ELSE IF fn = "bssplitscb" \/ Len(sep) = 1 THEN "chars" ELSE "string"

Chars(sep) == {sep[k] : k \in DOMAIN sep}

MatchesAt(t, sep, k) ==
  k + Len(sep) - 1 <= Len(t) /\ SubSeq(t, k, k + Len(sep) - 1) = sep

(* Where the string sep first occurs in t, 0 if it does not: binstr. *)
Binstr(t, sep) ==
  IF \E k \in 1..Len(t) : MatchesAt(t, sep, k)
  THEN CHOOSE k \in 1..Len(t) :
         MatchesAt(t, sep, k) /\ \A j \in 1..(k - 1) : ~MatchesAt(t, sep, j)
  ELSE 0

Done(ret) == [split EXCEPT !.pc = "idle", !.text = <<>>, !.ret = ret]

(* The callback is called with a piece, at offset split.ofs; what follows  *)
(* the piece and its separator in the buffer of the split is its rest.     *)
Calls(piece, rest, last) ==
  [split EXCEPT !.pc = "callback", !.text = rest, !.piece = piece, !.last = last]

(* Mutant: every separator is taken for a single character. *)
CutOne == IF split.last THEN 0 ELSE 1

(* The characters of the separator that ended the piece. *)
Cut == IF split.last \/ split.kind \in {"whole", "blocks"} THEN 0
       ELSE IF split.kind = "chars" THEN 1 ELSE Len(split.sep)

-----------------------------------------------------------------------------
SplitInit ==
  /\ Init
  /\ split = [pc |-> "idle", kind |-> "none", sep |-> <<>>, text |-> <<>>,
              mlen |-> 0, ofs |-> 0, piece |-> <<>>, last |-> FALSE, ret |-> 0,
              moves |-> 0, moved |-> FALSE, total |-> 0]
  /\ due = <<>>

(* The stream is open, with a buffer: bseof, which bssplitstrcb calls, does *)
(* not look for one.                                                       *)
Begin ==
  /\ Idle /\ split.pc = "idle" /\ buff.mlen > 0
  /\ \E fn \in {"bssplitscb", "bssplitstrcb"}, sep \in Separators,
        g \in Bfromcstr(0) :
       split' = [split EXCEPT
                   !.pc = IF g.ret = "OK" THEN "read" ELSE "idle",
                   !.kind = KindOf(fn, sep), !.sep = sep, !.text = <<>>,
                   !.mlen = g.h.mlen, !.ofs = 0, !.piece = <<>>, !.last = FALSE,
                   !.ret = IF g.ret = "OK" THEN 0 ELSE -1,
                   !.moved = FALSE, !.total = Len(Left)]
  /\ due' = Left
  /\ UNCHANGED vars

(* bsreada of a fixed length to the end of the buffer of the split. *)
Read ==
  /\ Idle /\ split.pc = "read"
  /\ ReadBlock([old |-> Len(split.text), mlen |-> split.mlen], SplitLen)
  /\ split' = [split EXCEPT !.pc = "reading"]
  /\ UNCHANGED due

(* Mutant: it is always bseof that tells. *)
ReadEndsAtEof(s) == Bseof

(* Whether the read is the last one.  For one that cuts at a string it is  *)
(* bseof that tells; for the others, that nothing came.                    *)
ReadEnds(s) ==
  CASE s.kind = "chars" -> dest.got = <<>>
    [] s.kind = "whole" -> call.ret = "ERR"
    [] s.kind = "blocks" -> call.ret = "ERR"
    [] s.kind = "string" -> Bseof

(***************************************************************************)
(* The read has returned.  After the last one the callback gets all there  *)
(* is in the buffer, uncut (but where a split into blocks gets an empty    *)
(* last read: it just returns).                                            *)
(***************************************************************************)
HasRead ==
  /\ Idle /\ split.pc = "reading"
  /\ LET s == [split EXCEPT !.text = @ \o dest.got, !.mlen = dest.mlen]
     IN  split' =
           IF ReadEnds(s)
           THEN IF s.kind = "blocks" THEN Done(0)
                ELSE [s EXCEPT !.pc = "callback", !.piece = s.text, !.text = <<>>,
                               !.last = TRUE]
           ELSE [s EXCEPT !.pc = IF s.kind = "whole" THEN "read" ELSE "scan"]
  /\ UNCHANGED <<vars, due>>

(* Mutant: what was read past the separator stays with the split. *)
CutAtCharKept(i) ==
  /\ split' = Calls(First(split.text, i - 1), After(split.text, i), FALSE)
  /\ UNCHANGED vars

(***************************************************************************)
(* The character at i is a separator: what follows it is put back into the *)
(* stream before the callback gets what precedes it.  If there is no       *)
(* memory for that the split ends, and what it had read is lost.           *)
(***************************************************************************)
CutAtChar(i) ==
  /\ \E u \in Unread(buff, After(split.text, i)) :
       /\ buff' = u.b
       /\ split' = IF u.ok THEN Calls(First(split.text, i - 1), <<>>, FALSE)
                   ELSE Done(-1)
  /\ UNCHANGED <<src, isEOF, maxBuffSz, dest, call, ended>>

(* The string occurs at i: what follows it stays with the split. *)
CutAtString(i) ==
  /\ split' = Calls(First(split.text, i - 1),
                    After(split.text, i + Len(split.sep) - 1), FALSE)
  /\ UNCHANGED vars

(* Mutant: the search begins at the second character. *)
FoundFromSecond ==
  LET t == After(split.text, 1)
      i == IF split.kind = "chars" THEN Terminator(t, Chars(split.sep))
           ELSE Binstr(t, split.sep)
  IN  IF i = 0 THEN 0 ELSE i + 1

(* Where the text has its first separator. *)
Found ==
  IF split.kind = "chars" THEN Terminator(split.text, Chars(split.sep))
  ELSE Binstr(split.text, split.sep)

(* The text is searched for a separator; without one, more is read. *)
Scan ==
  /\ Idle /\ split.pc = "scan"
  /\ LET i == Found
     IN  CASE split.kind = "blocks" ->
                split' = Calls(split.text, <<>>, FALSE) /\ UNCHANGED vars
           [] split.kind # "blocks" /\ i = 0 ->
                split' = [split EXCEPT !.pc = "read"] /\ UNCHANGED vars
           [] split.kind = "chars" /\ i > 0 -> CutAtChar(i)
           [] split.kind = "string" /\ i > 0 -> CutAtString(i)
  /\ UNCHANGED due

(* A positive value of the callback is not passed on. *)
Ret(r) == Smaller(r, 0)

(***************************************************************************)
(* The callback returns.  A negative value ends the split, which returns   *)
(* it.  Otherwise the split goes on at the position of the stream.         *)
(***************************************************************************)
Returns ==
  /\ Idle /\ split.pc = "callback"
  /\ \E r \in {-1, 0, 1} :
       split' = IF r < 0 \/ split.last THEN Done(Ret(r))
                ELSE [split EXCEPT
                        !.pc = IF split.kind = "string" THEN "scan" ELSE "read",
                        !.ofs = IF split.kind = "blocks" THEN 0
                                ELSE CInt(@ + Len(split.piece) + Cut)]
  /\ due' = split.text \o Left
  /\ UNCHANGED vars

(* The user, before a split or in a callback, acts on the stream. *)
Moves ==
  /\ split.pc \in {"idle", "callback"}
  /\ split.moves < MovesMax
  /\ Bsreada \/ Bsreadln \/ Bsunread \/ Bsbufflength
  /\ split' = [split EXCEPT !.moves = @ + 1, !.moved = split.pc = "callback"]
  /\ UNCHANGED due

Opens == split.pc = "idle" /\ Bsopen /\ UNCHANGED <<split, due>>

Closes == split.pc = "idle" /\ Bsclose /\ UNCHANGED <<split, due>>

StreamSteps == Steps /\ UNCHANGED <<split, due>>

SplitSteps == StreamSteps \/ Read \/ HasRead \/ Scan \/ Returns

SplitNext == Opens \/ Closes \/ Begin \/ Moves \/ SplitSteps

SplitSpec == SplitInit /\ [][SplitNext]_splitVars

(* A split once begun goes on: its code is a loop, the core stream is      *)
(* assumed to answer each request and the callback to return.              *)
SplitFairSpec == SplitSpec /\ WF_splitVars(SplitSteps)

-----------------------------------------------------------------------------
(* Properties. *)

Splitting == split.pc # "idle"

(* A step that calls the callback. *)
Called == split.pc # "callback" /\ split'.pc = "callback"

(* Every variable has its type. *)
SplitTypeOK ==
  /\ TypeOK
  /\ split.pc \in {"idle", "read", "reading", "scan", "callback"}
  /\ split.kind \in {"none", "whole", "blocks", "chars", "string"}
  /\ split.text \in Seq(Nat) /\ split.piece \in Seq(Nat)
  /\ split.mlen \in -1..MemMax /\ split.ofs \in IntMin..IntMax
  /\ split.last \in BOOLEAN /\ split.ret \in {-1, 0}
  /\ due \in Seq(Nat)

(***************************************************************************)
(* The callback runs while the split has text of its own, read behind the  *)
(* separator.  bstrlib.h says of bssplitscb and of bssplitstrcb that the   *)
(* stream is then positioned right after the separator; of bssplitstrcb    *)
(* that is wrong, unless it hands over the last piece.                     *)
(***************************************************************************)
ReadsAhead == split.kind = "string" /\ ~split.last

(***************************************************************************)
(* The pieces and their separators are the stream, cut up: a piece is the  *)
(* beginning of what is due, a separator follows it, and the rest is left. *)
(* When the callback is called the stream is positioned right after the    *)
(* separator, so that a callback that reads moves the next split.  The one *)
(* exception is ReadsAhead: what was read too far is then in front of the  *)
(* stream, with the split, neither lost nor repeated but out of the        *)
(* callback's reach.                                                       *)
(***************************************************************************)
PiecesPartition ==
  [][Called =>
       /\ IsPrefix(split'.piece, due)
       /\ LET n == Len(split'.piece)
              cut == SubSeq(due, n + 1, n + Cut')
          IN  /\ Cut' = 1 => cut[1] \in Chars(split'.sep)
              /\ Cut' > 1 => cut = split'.sep
              /\ After(due, n + Cut') = split'.text \o Left'
       /\ ~ReadsAhead' => Left' = After(due, Len(split'.piece) + Cut')]_splitVars

(* A piece has no separator in it, but for the last piece of a stream that *)
(* is cut at a string: bssplitstrcb does not search it, though bstrlib.h   *)
(* has the stream divided by every occurrence.                             *)
PieceIsCut ==
  split.pc = "callback" =>
    /\ split.kind = "chars" => Terminator(split.piece, Chars(split.sep)) = 0
    /\ split.kind = "string" /\ ~split.last
         => Binstr(split.piece \o split.sep, split.sep) = Len(split.piece) + 1

(* The offset given to the callback is the position of the piece in the    *)
(* stream, as long as no callback has moved in it.                         *)
OffsetIsPosition ==
  [][Called /\ ~split.moved /\ split'.kind # "blocks"
       => split'.ofs = split.total - Len(due)]_splitVars

(* The last piece is handed over as such only when the stream has ended or *)
(* a read could not get memory: a short answer does not end a split.       *)
LastPieceEnds ==
  [][Called /\ split'.last => isEOF \/ call.starved]_splitVars

(* The split and what it hands to the callback are sound. *)
SplitSound == SplitTypeOK /\ PieceIsCut

(* A piece is handed over as what it is: where it lies, and whether it is  *)
(* the last.                                                               *)
PiecesArePlaced == OffsetIsPosition /\ LastPieceEnds

(***************************************************************************)
(* A split returns, whatever the core stream answers and the callbacks do  *)
(* (they act on the stream a bounded number of times).  One that cuts at a *)
(* string ignores a read that fails and waits for bseof: it returns unless *)
(* memory is refused again and again.                                      *)
(***************************************************************************)
SplitReturns ==
  /\ (Splitting /\ split.kind # "string") ~> ~Splitting
  /\ (Splitting ~> ~Splitting) \/ []<>call.starved

=============================================================================

----------------------------- MODULE BstrStream -----------------------------
(***************************************************************************)
(* bStream, the read-ahead layer over a caller's fread-like function       *)
(* (bstring/bstrlib.c): bsopen, bsclose, bsbufflength, the line readers    *)
(* bsreadln, bsreadlna, bsreadlns, bsreadlnsa, the block readers bsread    *)
(* and bsreada, bsunread and bspeek.                                       *)
(*                                                                         *)
(* A reader may call the core stream several times.  An action is what the *)
(* code does from one of those calls to the next, so that a short answer,  *)
(* an empty one or a refused allocation can come at each of them.  Texts   *)
(* are sequences of characters; sizes follow the header operators of       *)
(* BstrMutators, so allocation succeeds, or not, where it does there.      *)
(*                                                                         *)
(* bsreadlna and bsreadlnsa differ in how they look for a terminator only: *)
(* here both are a line read up to a character of a set.                   *)
(***************************************************************************)
EXTENDS BstrMutators, Sequences

CONSTANTS
  Input,        \* what the core stream holds
  BuffSizes,    \* the sizes given to bsbufflength
  DefaultBuff,  \* BS_BUFF_SZ, 1024 in the source
  TermSets,     \* the sets of terminators given to a line read
  BlockLens,    \* the lengths given to a block read
  Dests,        \* the destinations: [old: text present, mlen: its buffer]
  Unreads,      \* the texts given to bsunread
  HeldMax       \* bound: no bsunread that buffers more than this

ASSUME StreamAssumption ==
  /\ Input \in Seq(Nat)
  /\ Unreads \subseteq Seq(Nat)
  /\ BuffSizes \subseteq IntMin..IntMax /\ DefaultBuff \in 1..IntMax
  /\ BlockLens \subseteq IntMin..IntMax
  /\ Dests \subseteq [old : 0..IntMax, mlen : -1..IntMax]
  /\ HeldMax \in Nat

(* A destination that can be written to holds a terminated text. *)
ASSUME DestsAssumption ==
  \A d \in Dests : d.mlen <= MemMax /\ (d.mlen > 0 => d.old < d.mlen)

(* No destination can come to a length of INT_MAX: what bconcat does with  *)
(* such a text is shown in BstrHeader.                                     *)
ASSUME TextsFit == \A d \in Dests : d.old + HeldMax + Len(Input) < IntMax

VARIABLES
  src,        \* what the core stream has not handed out
  buff,       \* s->buff: its text and its mlen, -1 for NULL
  isEOF,      \* s->isEOF
  maxBuffSz,  \* s->maxBuffSz
  dest,       \* the destination: the length it began with, what the call
              \* appended, and its mlen
  call,       \* the call in progress, or the last one
  ended       \* whether the core stream has answered that there is no more

vars == <<src, buff, isEOF, maxBuffSz, dest, call, ended>>

-----------------------------------------------------------------------------
First(s, k) == SubSeq(s, 1, k)

After(s, k) == SubSeq(s, k + 1, Len(s))

NoBuffer == [text |-> <<>>, mlen |-> -1]

HeaderOf(slen, mlen) ==
  [slen |-> slen, mlen |-> mlen, cap |-> mlen, nul |-> TRUE]

DestLen(d) == d.old + Len(d.got)

DestHeader(d) == HeaderOf(DestLen(d), d.mlen)

(* The position of the first terminator, 0 if there is none. *)
Terminator(t, terms) ==
  IF \E i \in 1..Len(t) : t[i] \in terms
  THEN CHOOSE i \in 1..Len(t) :
         t[i] \in terms /\ \A j \in 1..(i - 1) : t[j] \notin terms
  ELSE 0

(* The outcomes of bconcat of the text t, and of balloc, on a destination; *)
(* one that failed has ok FALSE and changes nothing.                       *)
Appended(d, t) ==
  {IF g.ret = "OK"
   THEN [ok |-> TRUE, d |-> [d EXCEPT !.got = @ \o t, !.mlen = g.h.mlen]]
   ELSE [ok |-> FALSE, d |-> d] : g \in Bconcat(DestHeader(d), Len(t), FALSE)}

Enlarged(d, n) ==
  {[ok |-> g.ret = "OK", d |-> [d EXCEPT !.mlen = g.h.mlen]] :
     g \in Balloc(DestHeader(d), CInt(n))}

(* balloc(s->buff, s->maxBuffSz + 1), b being that buffer. *)
Ready(b) ==
  {[ok |-> g.ret = "OK", b |-> [b EXCEPT !.mlen = g.h.mlen]] :
     g \in Balloc(HeaderOf(Len(b.text), b.mlen), CInt(maxBuffSz + 1))}

(***************************************************************************)
(* The answers of the core stream to a request for n characters: it may    *)
(* give fewer, and it may give none (or a negative count, which the code   *)
(* treats alike) before its end, as fread does on an error.                *)
(***************************************************************************)
Answers(n) == 0 .. Smaller(n, Len(src))

Return(ret) == [call EXCEPT !.pc = "idle", !.ret = ret]

(* What a call left behind when memory was refused to it. *)
Starved(ret) == [call EXCEPT !.pc = "idle", !.ret = ret, !.starved = TRUE]

Idle == call.pc = "idle"

NewCall(fn, terms, n) ==
  [pc |-> "idle", fn |-> fn, terms |-> terms, n |-> n, ret |-> "OK",
   starved |-> FALSE, asked |-> FALSE, direct |-> FALSE]

Begins(d) == [old |-> d.old, got |-> <<>>, mlen |-> d.mlen]

Emptied(d) == [old |-> 0, got |-> <<>>, mlen |-> d.mlen]

-----------------------------------------------------------------------------
(* bsopen and bsclose. *)

Init ==
  /\ src = Input
  /\ buff = NoBuffer
  /\ isEOF = TRUE
  /\ maxBuffSz = DefaultBuff
  /\ dest = [old |-> 0, got |-> <<>>, mlen |-> -1]
  /\ call = [NewCall("none", {}, 0) EXCEPT !.pc = "closed"]
  /\ ended = FALSE

(* bsopen does not look whether bfromcstr made the buffer. *)
Bsopen ==
  /\ call.pc = "closed"
  /\ \E g \in Bfromcstr(0) : buff' = [text |-> <<>>, mlen |-> g.h.mlen]
  /\ isEOF' = FALSE
  /\ maxBuffSz' = DefaultBuff
  /\ call' = NewCall("bsopen", {}, 0)
  /\ ended' = FALSE
  /\ UNCHANGED <<src, dest>>

Bsclose ==
  /\ Idle
  /\ buff' = NoBuffer
  /\ isEOF' = TRUE
  /\ call' = [NewCall("bsclose", {}, 0) EXCEPT !.pc = "closed"]
  /\ dest' = [dest EXCEPT !.got = <<>>]
  /\ UNCHANGED <<src, maxBuffSz, ended>>

Bsbufflength ==
  /\ Idle
  /\ \E sz \in BuffSizes :
       /\ maxBuffSz' = IF sz > 0 THEN sz ELSE maxBuffSz
       /\ call' = [NewCall("bsbufflength", {}, 0)
                     EXCEPT !.ret = IF sz < 0 THEN "ERR" ELSE "OK"]
  /\ dest' = [dest EXCEPT !.got = <<>>]
  /\ UNCHANGED <<src, buff, isEOF, ended>>

(* bseof *)
Bseof == isEOF /\ buff.text = <<>>

-----------------------------------------------------------------------------
(* The line readers. *)

(***************************************************************************)
(* From the call to the first request.  A terminator in the buffer ends    *)
(* the call, which reports success though bconcat failed.  Otherwise the   *)
(* whole buffer is appended; it is emptied only when the reading ends.     *)
(***************************************************************************)
LineFirst(b, d, c) ==
  LET i == Terminator(b.text, c.terms)
      k == IF i = 0 THEN Len(b.text) ELSE i
  IN  \E a \in Appended(d, First(b.text, k)) :
        /\ dest' = a.d
        /\ buff' = [b EXCEPT !.text = IF a.ok /\ i # 0 THEN After(@, i) ELSE @]
        /\ call' = [c EXCEPT !.pc = IF a.ok /\ i = 0 THEN "line" ELSE "idle",
                             !.ret = IF a.ok \/ i # 0 THEN "OK" ELSE "ERR",
                             !.starved = ~a.ok]

(* The call refuses its arguments, or has no memory, before it reads. *)
LineRefused(b, d, c, starved) ==
  /\ call' = [c EXCEPT !.ret = "ERR", !.starved = starved]
  /\ dest' = d
  /\ buff' = b

LineReady(b, d, c) ==
  \E g \in Ready(b) :
    IF g.ok THEN LineFirst(g.b, d, c) ELSE LineRefused(b, d, c, TRUE)

(* bsreadlna and bsreadlnsa. *)
Bsreadlna ==
  /\ Idle
  /\ \E d \in Dests, terms \in TermSets :
       LET c == NewCall("line", terms, 0)
       IN  IF buff.mlen < 0 \/ d.mlen <= 0
           THEN LineRefused(buff, Begins(d), c, FALSE)
           ELSE LineReady(buff, Begins(d), c)
  /\ UNCHANGED <<src, isEOF, maxBuffSz, ended>>

(* bsreadln and bsreadlns: the same into a destination that is emptied     *)
(* once the buffer of the stream has its size.                             *)
Bsreadln ==
  /\ Idle
  /\ \E d \in Dests, terms \in TermSets :
       LET c == NewCall("line", terms, 0)
       IN  IF buff.mlen < 0 \/ d.mlen <= 0
           THEN LineRefused(buff, Begins(d), c, FALSE)
           ELSE \E g \in Ready(buff) :
                  IF g.ok THEN LineReady(g.b, Emptied(d), c)
                  ELSE LineRefused(buff, Begins(d), c, TRUE)
  /\ UNCHANGED <<src, isEOF, maxBuffSz, ended>>

(* Mutant: room for the characters, none for the sentinel. *)
LineRoomNoSentinel == Enlarged(dest, DestLen(dest) + maxBuffSz)

(* The room the reader makes before each request: the characters and the   *)
(* sentinel after them.                                                    *)
LineRoom == Enlarged(dest, DestLen(dest) + maxBuffSz + 1)

(* Mutant: an empty answer does not end the reading, only an error does. *)
LineEndsNever(d) ==
  /\ dest' = d
  /\ call' = [call EXCEPT !.asked = TRUE]
  /\ UNCHANGED <<src, buff, isEOF, ended>>

(* Mutant: the buffer, already handed over, is left in the stream. *)
LineEndsBuffered(d) ==
  /\ dest' = d
  /\ isEOF' = TRUE
  /\ ended' = TRUE
  /\ call' = [Return(IF d.got = <<>> THEN "ERR" ELSE "OK") EXCEPT !.asked = TRUE]
  /\ UNCHANGED <<src, buff>>

(* An empty answer is the end of the stream; the buffer is emptied. *)
LineEnds(d) ==
  /\ dest' = d
  /\ buff' = [buff EXCEPT !.text = <<>>]
  /\ isEOF' = TRUE
  /\ ended' = TRUE
  /\ call' = [Return(IF d.got = <<>> THEN "ERR" ELSE "OK") EXCEPT !.asked = TRUE]
  /\ UNCHANGED src

(* Mutant: what follows the terminator is handed over with the line. *)
LineContinuesPast(d, t) ==
  LET i == Terminator(t, call.terms)
  IN  /\ dest' = [d EXCEPT !.got = @ \o t]
      /\ src' = After(src, Len(t))
      /\ IF i = 0 THEN /\ call' = [call EXCEPT !.asked = TRUE]
                       /\ UNCHANGED buff
         ELSE /\ buff' = [buff EXCEPT !.text = <<>>]
              /\ call' = [Return("OK") EXCEPT !.asked = TRUE]
      /\ UNCHANGED <<isEOF, ended>>

(* The answer t: up to its terminator it is the end of the line, and what  *)
(* follows is the new buffer; without one the reading goes on.             *)
LineContinues(d, t) ==
  LET i == Terminator(t, call.terms)
  IN  /\ dest' = [d EXCEPT !.got = @ \o (IF i = 0 THEN t ELSE First(t, i))]
      /\ src' = After(src, Len(t))
      /\ IF i = 0 THEN /\ call' = [call EXCEPT !.asked = TRUE]
                       /\ UNCHANGED buff
         ELSE /\ buff' = [buff EXCEPT !.text = After(t, i)]
              /\ call' = [Return("OK") EXCEPT !.asked = TRUE]
      /\ UNCHANGED <<isEOF, ended>>

(***************************************************************************)
(* One request.  Room is made first; if there is none the call fails with  *)
(* the buffer, which has been appended, still in the stream.               *)
(***************************************************************************)
LineStep ==
  /\ call.pc = "line"
  /\ \E g \in LineRoom :
       IF g.ok
       THEN \E l \in Answers(maxBuffSz) :
              IF l = 0 THEN LineEnds(g.d) ELSE LineContinues(g.d, First(src, l))
       ELSE /\ call' = Starved("ERR")
            /\ UNCHANGED <<src, buff, isEOF, dest, ended>>
  /\ UNCHANGED maxBuffSz

-----------------------------------------------------------------------------
(* The block readers. *)

(* Mutant: any bconcat that fails is taken for the end of the stream. *)
PassEof(b, t, d, c, eof) ==
  LET enough == Len(t) + DestLen(d) >= c.n
      k == IF enough THEN c.n - DestLen(d) ELSE Len(t)
  IN  \E a \in Appended(d, First(t, k)) :
        /\ dest' = a.d
        /\ buff' = [b EXCEPT !.text = IF a.ok THEN After(t, k) ELSE t]
        /\ isEOF' = (eof \/ ~a.ok)
        /\ call' = [c EXCEPT !.pc = IF a.ok /\ ~enough THEN "block" ELSE "idle",
                             !.ret = IF a.d.got = <<>> THEN "ERR" ELSE "OK",
                             !.starved = ~a.ok]

(***************************************************************************)
(* One pass over the text t in the buffer b, with c.n the length the       *)
(* destination is to have: the end of the call when t suffices, a request  *)
(* when it does not.  A pass whose bconcat fails ends the call with t in   *)
(* the buffer, and, when t is empty, as if the stream had ended.           *)
(***************************************************************************)
Pass(b, t, d, c, eof) ==
  LET enough == Len(t) + DestLen(d) >= c.n
      k == IF enough THEN c.n - DestLen(d) ELSE Len(t)
  IN  \E a \in Appended(d, First(t, k)) :
        /\ dest' = a.d
        /\ buff' = [b EXCEPT !.text = IF a.ok THEN After(t, k) ELSE t]
        /\ isEOF' = (eof \/ (~a.ok /\ ~enough /\ t = <<>>))
        /\ call' = [c EXCEPT !.pc = IF a.ok /\ ~enough THEN "block" ELSE "idle",
                             !.ret = IF a.d.got = <<>> THEN "ERR" ELSE "OK",
                             !.starved = ~a.ok]

(* With nothing buffered and a destination that has the room, the core     *)
(* stream is asked once, for the whole length.                             *)
Direct(d, c) ==
  \E l \in Answers(c.n - DestLen(d)) :
    /\ dest' = [d EXCEPT !.got = First(src, l)]
    /\ src' = After(src, l)
    /\ isEOF' = (isEOF \/ l = 0)
    /\ ended' = (ended \/ l = 0)
    /\ call' = [c EXCEPT !.ret = IF l = 0 THEN "ERR" ELSE "OK",
                         !.asked = TRUE, !.direct = TRUE]

BlockRefused(b, d, c, starved) ==
  LineRefused(b, d, c, starved) /\ UNCHANGED <<src, isEOF, ended>>

(* From the call of bsreada for c.n more characters to its first request.  *)
BlockFirst(b, d, c) ==
  LET n == [c EXCEPT !.n = @ + DestLen(d)]
  IN  IF c.n > IntMax - DestLen(d) \/ (b.text = <<>> /\ isEOF)
      THEN BlockRefused(b, d, c, FALSE)
      ELSE IF b.text = <<>> /\ d.mlen > n.n THEN Direct(d, n) /\ buff' = b
      ELSE \E g \in Ready(b) :
             IF g.ok
             THEN Pass(g.b, b.text, d, n, isEOF) /\ UNCHANGED <<src, ended>>
             ELSE BlockRefused(b, d, c, TRUE)

(* bsreada of n characters to the destination d. *)
ReadBlock(d, n) ==
  /\ LET c == NewCall("block", {}, n)
     IN  IF buff.mlen < 0 \/ d.mlen <= 0 \/ n <= 0
         THEN BlockRefused(buff, Begins(d), c, FALSE)
         ELSE BlockFirst(buff, Begins(d), c)
  /\ UNCHANGED maxBuffSz

Bsreada == Idle /\ \E d \in Dests, n \in BlockLens : ReadBlock(d, n)

(* bsread: the same into an emptied destination. *)
Bsread ==
  /\ Idle
  /\ \E d \in Dests, n \in BlockLens :
       LET c == NewCall("block", {}, n)
       IN  IF buff.mlen < 0 \/ d.mlen <= 0 \/ n <= 0
           THEN BlockRefused(buff, Begins(d), c, FALSE)
           ELSE \E g \in Ready(buff) :
                  IF g.ok THEN BlockFirst(g.b, Emptied(d), c)
                  ELSE BlockRefused(buff, Begins(d), c, TRUE)
  /\ UNCHANGED maxBuffSz

(* The length of a request: what is missing, at most the buffer. *)
Request == Smaller(call.n - DestLen(dest), maxBuffSz)

(* One request.  The characters come into the buffer of the stream and     *)
(* are passed on from there.                                               *)
BlockStep ==
  /\ call.pc = "block"
  /\ \E l \in Answers(Request) :
       LET c == [call EXCEPT !.asked = TRUE]
       IN  IF l = 0
           THEN /\ buff' = [buff EXCEPT !.text = <<>>]
                /\ isEOF' = TRUE
                /\ ended' = TRUE
                /\ call' = [c EXCEPT !.pc = "idle",
                                     !.ret = IF dest.got = <<>> THEN "ERR" ELSE "OK"]
                /\ UNCHANGED <<src, dest>>
           ELSE /\ src' = After(src, l)
                /\ Pass(buff, First(src, l), dest, c, isEOF)
                /\ UNCHANGED ended
  /\ UNCHANGED maxBuffSz

-----------------------------------------------------------------------------
(* bsunread of the text t: binsert at the start of the buffer b. *)
Unread(b, t) ==
  {[ok |-> g.ret = "OK",
    b |-> IF g.ret = "OK" THEN [text |-> t \o b.text, mlen |-> g.h.mlen] ELSE b] :
     g \in Binsertblk(HeaderOf(Len(b.text), b.mlen), 0, Len(t), FALSE)}

Bsunread ==
  /\ Idle
  /\ \E t \in Unreads :
       /\ Len(buff.text) + Len(t) <= HeldMax
       /\ \E u \in Unread(buff, t) :
            /\ buff' = u.b
            /\ call' = [NewCall("bsunread", {}, 0)
                          EXCEPT !.ret = IF u.ok THEN "OK" ELSE "ERR"]
  /\ dest' = [dest EXCEPT !.got = <<>>]
  /\ UNCHANGED <<src, isEOF, maxBuffSz, ended>>

(* bspeek: bassign of the buffer, which replaces the destination. *)
Bspeek ==
  /\ Idle
  /\ \E d \in Dests :
       LET c == NewCall("bspeek", {}, 0)
           refused == /\ call' = [c EXCEPT !.ret = "ERR"]
                      /\ dest' = Begins(d)
       IN  IF buff.mlen < 0 THEN refused
           ELSE \E g \in Bassign(DestHeader(Begins(d)), Len(buff.text)) :
                  IF g.ret = "OK"
                  THEN /\ call' = c
                       /\ dest' = [old |-> 0, got |-> buff.text, mlen |-> g.h.mlen]
                  ELSE refused
  /\ UNCHANGED <<src, buff, isEOF, maxBuffSz, ended>>

-----------------------------------------------------------------------------
Steps == LineStep \/ BlockStep

Next ==
  \/ Bsopen \/ Bsclose \/ Bsbufflength
  \/ Bsreadlna \/ Bsreadln \/ Bsreada \/ Bsread
  \/ Bsunread \/ Bspeek
  \/ Steps

Spec == Init /\ [][Next]_vars

(* A call once begun goes on: the code between two requests is a loop, and *)
(* the core stream is assumed to answer each request.                      *)
FairSpec == Spec /\ WF_vars(Steps)

-----------------------------------------------------------------------------
(* Properties. *)

Reading == call.pc \in {"line", "block"}

Returned(fn) == Idle /\ call.fn = fn

(* Every variable has its type. *)
TypeOK ==
  /\ src \in Seq(Nat)
  /\ buff.text \in Seq(Nat) /\ buff.mlen \in -1..MemMax
  /\ isEOF \in BOOLEAN /\ ended \in BOOLEAN
  /\ maxBuffSz \in 1..IntMax
  /\ dest.old \in Nat /\ dest.got \in Seq(Nat) /\ dest.mlen \in -1..IntMax
  /\ call.pc \in {"closed", "idle", "line", "block"}
  /\ call.ret \in {"OK", "ERR"}

(***************************************************************************)
(* The stream hands out its characters in order, each once: while a call   *)
(* reads, what the buffer holds has been handed over; between calls it     *)
(* comes before what the core stream still has.  A call that failed for    *)
(* want of memory may hand out again what it took from the buffer.         *)
(***************************************************************************)
Rest == (IF Reading THEN <<>> ELSE buff.text) \o src

Contract ==
  INSTANCE StreamContract
    WITH Whole <- Input, rest <- Rest, got <- dest.got, reading <- Reading,
         starved <- call.starved

HandsOutInOrder == Contract!Forgiving

(***************************************************************************)
(* The sentinel the search for a terminator needs, like the terminator of  *)
(* a string, lies after the text: there is room for it in the destination  *)
(* and in the buffer of the stream, whatever was granted, answered or left *)
(* over.  (bspeek is bassign, which BstrHeader is about.)                  *)
(***************************************************************************)
SentinelFits ==
  /\ call.fn \in {"line", "block"} /\ dest.mlen > 0 => DestLen(dest) < dest.mlen
  /\ buff.mlen > 0 => Len(buff.text) < buff.mlen

(* The stream and the destination are what the readers take them for. *)
StreamSound == TypeOK /\ SentinelFits

(***************************************************************************)
(* A line has no terminator but as its last character, and one without it  *)
(* is the last of the stream.                                              *)
(***************************************************************************)
LineIsALine ==
  call.fn = "line" =>
    /\ \A i \in 1 .. (Len(dest.got) - 1) : dest.got[i] \notin call.terms
    /\ (Idle /\ call.ret = "OK" /\ ~call.starved)
          => \/ dest.got[Len(dest.got)] \in call.terms
             \/ ended /\ Bseof

(* A call that had the memory it asked for says "error" exactly when it    *)
(* handed over nothing, buffered characters counted.                       *)
ReturnTellsDelivery ==
  (Returned("line") \/ Returned("block")) /\ ~call.starved
    => (call.ret = "ERR" <=> dest.got = <<>>)

(***************************************************************************)
(* A block is never longer than asked.  It is shorter only at the end of   *)
(* the stream, for want of memory, or when the core stream, asked at once  *)
(* for all of it, gave less.  The core stream is asked for no more than is *)
(* missing: nothing it gave is left in the buffer.                         *)
(***************************************************************************)
BlockIsExact ==
  call.fn = "block" =>
    /\ dest.got # <<>> => DestLen(dest) <= call.n
    /\ (Idle /\ call.ret = "OK" /\ ~call.starved /\ ~call.direct)
          => DestLen(dest) = call.n \/ (ended /\ Bseof)
    /\ Idle /\ call.asked /\ ~call.starved => buff.text = <<>>

(* A read gives what its description says, no more, and tells it. *)
ReadIsExact == LineIsALine /\ ReturnTellsDelivery /\ BlockIsExact

(***************************************************************************)
(* The stream takes itself for ended only when the core stream has said    *)
(* so, or when a block read with nothing buffered could not get memory.    *)
(***************************************************************************)
EofHasCause ==
  [][isEOF' /\ ~isEOF /\ ~ended' /\ call'.pc # "closed"
       => call'.fn = "block" /\ call'.starved /\ buff'.text = <<>>]_vars

(* Every call returns, whatever the core stream and the allocator answer. *)
CallReturns == Reading ~> Idle

=============================================================================

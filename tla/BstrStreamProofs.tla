--------------------------- MODULE BstrStreamProofs ---------------------------
(***************************************************************************)
(* bStream, for every core stream, size of the buffer, set of terminators, *)
(* length of a block and answer of the core stream and the allocator: the  *)
(* characters come out in order and once, the sentinel has its place, a    *)
(* line is a line, a block is as long as asked, and the end is not         *)
(* announced without a cause.                                              *)
(*                                                                         *)
(* Splitting a stream, for every separator and move of the callbacks as    *)
(* well: the pieces and their separators are the stream, cut up; a piece   *)
(* has no separator in it; it is handed over with its position, and as the *)
(* last one only when there is a reason.                                   *)
(*                                                                         *)
(* The inductive invariant of the stream adds to its properties what a     *)
(* call at work keeps from one request to the next: the buffer of the      *)
(* stream has room for a whole request and the sentinel; a line read has   *)
(* handed over what the buffer holds, and no terminator so far; a block    *)
(* read has emptied the buffer and is short of its length.  What is proved *)
(* of the stream cites no assumption and no definition of BstrSplit.       *)
(*                                                                         *)
(* Under a split the stream keeps that invariant without ReadIsExact: what *)
(* a split puts back is in the buffer behind the back of the last read.    *)
(* The invariant of the split says what becomes of what is due: between    *)
(* two reads it is the text of the split and what the stream holds; during *)
(* a read, what the read has handed over lies between them; in the         *)
(* callback, the piece and its separator come first.                       *)
(***************************************************************************)
EXTENDS BstrSplit, BstrLemmas

Callers ==
  [pc : {"closed", "idle", "line", "block"},
   fn : {"none", "bsopen", "bsclose", "bsbufflength", "line", "block", "bsunread",
         "bspeek"},
   terms : TermSets \cup {{}}, n : Int, ret : {"OK", "ERR"},
   starved : BOOLEAN, asked : BOOLEAN, direct : BOOLEAN]

(* The buffer of a stream, of which there is none when mlen is negative. *)
Buffer(b) ==
  /\ b \in [text : Seq(Nat), mlen : -1..MemMax]
  /\ b.mlen > 0 => Len(b.text) < b.mlen
  /\ b.mlen <= 0 => b.text = <<>>

(* A destination. *)
Target(d) ==
  /\ d \in [old : Nat, got : Seq(Nat), mlen : -1..MemMax]
  /\ d.mlen > 0 => DestLen(d) < d.mlen

(* No character of the text t ends a line. *)
Unended(t, terms) == \A i \in 1..Len(t) : t[i] \notin terms

(* Between two requests. *)
AtWork ==
  /\ 0 < dest.mlen /\ maxBuffSz < buff.mlen /\ ~call.starved
  /\ DestLen(dest) + Len(src) < IntMax
  /\ call.pc = "line" =>
       /\ call.fn = "line" /\ call.ret = "OK" /\ Unended(dest.got, call.terms)
       /\ \E k \in 0..Len(dest.got) : buff.text = First(dest.got, k)
  /\ call.pc = "block" =>
       /\ call.fn = "block" /\ ~call.direct
       /\ buff.text = <<>> /\ DestLen(dest) < call.n

Typed ==
  /\ src \in Seq(Nat) /\ isEOF \in BOOLEAN /\ ended \in BOOLEAN
  /\ maxBuffSz \in 1..IntMax
  /\ dest \in [old : Nat, got : Seq(Nat), mlen : -1..IntMax]
  /\ call \in Callers

StreamInv ==
  /\ Typed /\ Buffer(buff)
  /\ Len(src) <= Len(Input) /\ Len(buff.text) + Len(src) <= HeldMax + Len(Input)
  /\ call.fn \in {"line", "block"} => Target(dest)
  /\ Reading => AtWork
  /\ call.pc = "closed" => buff = NoBuffer /\ dest.got = <<>>

(* What every step leads to. *)
Promised == StreamInv /\ ReadIsExact

-----------------------------------------------------------------------------

(* Texts. *)

(* A text and what it is cut into. *)
LEMMA CutText ==
  ASSUME NEW t \in Seq(Nat), NEW k \in 0..Len(t)
  PROVE  /\ First(t, k) \in Seq(Nat) /\ Len(First(t, k)) = k
         /\ After(t, k) \in Seq(Nat) /\ Len(After(t, k)) = Len(t) - k
         /\ First(t, k) \o After(t, k) = t
         /\ \A i \in 1..k : First(t, k)[i] = t[i]
BY CutFacts DEF First, After

(* It is cut at its end. *)
LEMMA WholeText ==
  ASSUME NEW t \in Seq(Nat)
  PROVE  First(t, Len(t)) = t /\ After(t, Len(t)) = <<>>
<1>1. Len(t) \in Nat /\ Len(t) \in 0..Len(t)
  BY LenProperties
<1>2. First(t, Len(t)) = t
  BY SubSeqFull DEF First
<1>3. After(t, Len(t)) \in Seq(Nat) /\ Len(After(t, Len(t))) = 0
  BY <1>1, CutText, SMTT(30)
<1>4. After(t, Len(t)) = <<>>
  BY <1>3, EmptySeq
<1> QED
  BY <1>2, <1>4

(* The first terminator of a text. *)
LEMMA TerminatorFacts ==
  ASSUME NEW t \in Seq(Nat), NEW terms
  PROVE  LET i == Terminator(t, terms)
         IN  /\ i \in 0..Len(t)
             /\ i = 0 => Unended(t, terms)
             /\ i # 0 => /\ t[i] \in terms
                         /\ \A j \in 1..(i - 1) : t[j] \notin terms
<1> DEFINE S == {i \in 1..Len(t) : t[i] \in terms}
<1>1. Len(t) \in Nat
  BY LenProperties
<1>2. CASE S = {}
  <2>1. Terminator(t, terms) = 0 /\ Unended(t, terms)
    BY <1>2 DEF Terminator, Unended
  <2> QED
    BY <1>1, <2>1
<1>3. CASE S # {}
  <2>1. S \in SUBSET Nat
    BY <1>1
  <2>2. \E i \in S : \A j \in S : i <= j
    <3> HIDE DEF S
    <3> QED
      BY <1>3, <2>1, LeastExists
  <2>3. PICK i \in 1..Len(t) : t[i] \in terms /\ \A j \in S : i <= j
    BY <2>2
  <2>4. \A j \in 1..(i - 1) : t[j] \notin terms
    BY <1>1, <2>3
  <2>5. \E k \in 1..Len(t) :
          t[k] \in terms /\ \A j \in 1..(k - 1) : t[j] \notin terms
    BY <2>3, <2>4
  <2>6. Terminator(t, terms) = CHOOSE k \in 1..Len(t) :
          t[k] \in terms /\ \A j \in 1..(k - 1) : t[j] \notin terms
    BY <1>3 DEF Terminator
  <2>7. /\ Terminator(t, terms) \in 1..Len(t) /\ t[Terminator(t, terms)] \in terms
        /\ \A j \in 1..(Terminator(t, terms) - 1) : t[j] \notin terms
    BY <2>5, <2>6, Zenon
  <2> QED
    BY <1>1, <2>7
<1> QED
  BY <1>2, <1>3

-----------------------------------------------------------------------------
(* The buffer and the destination. *)

(* A header with the size and the text of one of them. *)
LEMMA HeaderOfFacts ==
  ASSUME NEW slen \in Nat, NEW mlen \in 1..MemMax, slen < mlen
  PROVE  LET h == HeaderOf(slen, mlen)
         IN  /\ Owns(h) /\ Writable(h) /\ h.slen = slen /\ h.mlen = mlen
BY SizesAssumption DEF HeaderOf, Owns, Header, Writable

(* bconcat to a destination. *)
LEMMA AppendedFacts ==
  ASSUME NEW d, Target(d), 0 < d.mlen, NEW t \in Seq(Nat),
         DestLen(d) + Len(t) < IntMax, NEW a \in Appended(d, t)
  PROVE  /\ a.ok \in BOOLEAN /\ Target(a.d) /\ 0 < a.d.mlen /\ a.d.old = d.old
         /\ ~a.ok => a.d = d
         /\ a.ok => a.d.got = d.got \o t /\ DestLen(a.d) = DestLen(d) + Len(t)
<1>1. /\ d.old \in Nat /\ d.got \in Seq(Nat) /\ d.mlen \in 1..MemMax
      /\ Len(d.got) \in Nat /\ Len(t) \in Nat /\ DestLen(d) = d.old + Len(d.got)
      /\ DestLen(d) \in Nat /\ DestLen(d) < d.mlen /\ MemMax \in Nat
  BY LenProperties, SizesAssumption DEF Target, DestLen
<1> DEFINE h == DestHeader(d)
<1>2. Owns(h) /\ Writable(h) /\ h.slen = DestLen(d) /\ h.mlen = d.mlen
  BY <1>1, HeaderOfFacts DEF DestHeader
<1>3. PICK g \in Bconcat(h, Len(t), FALSE) :
        a = IF g.ret = "OK"
            THEN [ok |-> TRUE, d |-> [d EXCEPT !.got = @ \o t, !.mlen = g.h.mlen]]
            ELSE [ok |-> FALSE, d |-> d]
  BY DEF Appended
<1> HIDE DEF h
<1>4. /\ g.ret \in {"OK", "ERR"} /\ Owns(g.h)
      /\ g.ret = "OK" => DestLen(d) + Len(t) < g.h.mlen
  <2>1. Owns(h) /\ Writable(h) /\ h.slen = DestLen(d) /\ Len(t) \in Nat
        /\ g \in Bconcat(h, Len(t), FALSE)
    BY <1>1, <1>2, <1>3
  <2>2. h.slen + Len(t) < IntMax
    BY <1>1, <2>1
  <2>3. /\ g.ret \in {"OK", "ERR"} /\ Owns(g.h)
        /\ g.ret = "OK" => h.slen + Len(t) < g.h.mlen
    BY <2>1, <2>2, BconcatOutcome
  <2> QED
    BY <2>1, <2>3, Zenon
<1>5. CASE g.ret = "OK"
  <2> DEFINE e == [d EXCEPT !.got = @ \o t, !.mlen = g.h.mlen]
  <2>1. a.ok = TRUE /\ a.d = e
    BY <1>3, <1>5
  <2>2. g.h.mlen \in 1..MemMax /\ DestLen(d) + Len(t) < g.h.mlen
    BY <1>1, <1>4, <1>5 DEF Owns, Header
  <2>3. d.got \o t \in Seq(Nat) /\ Len(d.got \o t) = Len(d.got) + Len(t)
    BY <1>1, ConcatProperties
  <2>4. /\ e \in [old : Nat, got : Seq(Nat), mlen : -1..MemMax]
        /\ e.old = d.old /\ e.got = d.got \o t /\ e.mlen = g.h.mlen
    <3> DEFINE u == d.got \o t
    <3>1. u \in Seq(Nat) /\ d \in [old : Nat, got : Seq(Nat), mlen : -1..MemMax]
      BY <2>3 DEF Target
    <3>2. e = [d EXCEPT !.got = u, !.mlen = g.h.mlen]
      OBVIOUS
    <3>3. g.h.mlen \in -1..MemMax
      BY <1>1, <2>2
    <3> HIDE DEF u, e
    <3>4. /\ e \in [old : Nat, got : Seq(Nat), mlen : -1..MemMax]
          /\ e.old = d.old /\ e.got = u /\ e.mlen = g.h.mlen
      BY <3>1, <3>2, <3>3
    <3> QED
      BY <3>4 DEF u
  <2> HIDE DEF e
  <2>5. DestLen(e) = DestLen(d) + Len(t)
    <3>1. DestLen(e) = d.old + Len(e.got)
      BY <2>4 DEF DestLen
    <3>2. Len(e.got) = Len(d.got) + Len(t)
      BY <2>3, <2>4
    <3> QED
      BY <1>1, <3>1, <3>2
  <2>6. Target(e) /\ 0 < e.mlen
    BY <2>2, <2>4, <2>5 DEF Target
  <2> QED
    BY <1>1, <2>1, <2>4, <2>5, <2>6
<1>6. CASE g.ret = "ERR"
  BY <1>3, <1>6
<1> QED
  BY <1>4, <1>5, <1>6

(* balloc of a destination. *)
LEMMA EnlargedFacts ==
  ASSUME NEW d, Target(d), 0 < d.mlen, NEW n \in Nat, n <= 2 * IntMax + 1,
         NEW g \in Enlarged(d, n)
  PROVE  /\ g.ok \in BOOLEAN
         /\ g.ok => /\ Target(g.d) /\ 0 < g.d.mlen /\ g.d.old = d.old
                    /\ g.d.got = d.got /\ n <= g.d.mlen
<1>1. /\ d.old \in Nat /\ d.got \in Seq(Nat) /\ d.mlen \in 1..MemMax
      /\ Len(d.got) \in Nat /\ DestLen(d) = d.old + Len(d.got)
      /\ DestLen(d) \in Nat /\ DestLen(d) < d.mlen /\ MemMax \in Nat
  BY LenProperties, SizesAssumption DEF Target, DestLen
<1> DEFINE h == DestHeader(d)
<1>2. Owns(h) /\ Writable(h) /\ h.slen = DestLen(d) /\ h.mlen = d.mlen
  BY <1>1, HeaderOfFacts DEF DestHeader
<1>3. PICK r \in Balloc(h, CInt(n)) :
        g = [ok |-> r.ret = "OK", d |-> [d EXCEPT !.mlen = r.h.mlen]]
  BY DEF Enlarged
<1>4. /\ CInt(n) \in Int /\ CInt(n) <= IntMax /\ (CInt(n) = n \/ CInt(n) < 0)
  BY CIntFacts, SizesAssumption DEF IntMin
<1> HIDE DEF h
<1>5. /\ r.ret \in {"OK", "ERR"} /\ Owns(r.h)
      /\ r.ret = "OK" => 0 < CInt(n) /\ CInt(n) <= r.h.mlen /\ h.mlen <= r.h.mlen
  BY <1>2, <1>4, BallocOwned
<1>6. g.ok = (r.ret = "OK")
  BY <1>3
<1>7. ASSUME r.ret = "OK"
      PROVE  /\ Target(g.d) /\ 0 < g.d.mlen /\ g.d.old = d.old
             /\ g.d.got = d.got /\ n <= g.d.mlen
  <2> DEFINE e == [d EXCEPT !.mlen = r.h.mlen]
  <2>1. g.d = e
    BY <1>3
  <2>2. r.h.mlen \in 1..MemMax /\ d.mlen <= r.h.mlen /\ n <= r.h.mlen
    BY <1>1, <1>2, <1>4, <1>5, <1>7, SMTT(30) DEF Owns, Header
  <2>3. /\ e \in [old : Nat, got : Seq(Nat), mlen : -1..MemMax]
        /\ e.old = d.old /\ e.got = d.got /\ e.mlen = r.h.mlen
    <3>1. /\ d \in [old : Nat, got : Seq(Nat), mlen : -1..MemMax]
          /\ r.h.mlen \in -1..MemMax
      BY <1>1, <2>2 DEF Target
    <3> QED
      BY <3>1
  <2> HIDE DEF e
  <2>4. DestLen(e) = DestLen(d)
    BY <2>3 DEF DestLen
  <2> QED
    BY <1>1, <2>1, <2>2, <2>3, <2>4 DEF Target
<1> QED
  BY <1>6, <1>7

(* balloc of the buffer of the stream: room for a request and a sentinel.  *)
LEMMA ReadyFacts ==
  ASSUME NEW b, Buffer(b), 0 < b.mlen, maxBuffSz \in 1..IntMax, NEW g \in Ready(b)
  PROVE  /\ g.ok \in BOOLEAN
         /\ g.ok => Buffer(g.b) /\ g.b.text = b.text /\ maxBuffSz < g.b.mlen
<1>1. /\ b.text \in Seq(Nat) /\ b.mlen \in 1..MemMax /\ Len(b.text) \in Nat
      /\ Len(b.text) < b.mlen /\ MemMax \in Nat /\ IntMax \in Nat
  BY LenProperties, SizesAssumption DEF Buffer
<1> DEFINE h == HeaderOf(Len(b.text), b.mlen)
<1>2. Owns(h) /\ Writable(h) /\ h.mlen = b.mlen
  BY <1>1, HeaderOfFacts
<1>3. PICK r \in Balloc(h, CInt(maxBuffSz + 1)) :
        g = [ok |-> r.ret = "OK", b |-> [b EXCEPT !.mlen = r.h.mlen]]
  BY DEF Ready
<1>4. /\ CInt(maxBuffSz + 1) \in Int /\ CInt(maxBuffSz + 1) <= IntMax
      /\ CInt(maxBuffSz + 1) = maxBuffSz + 1 \/ CInt(maxBuffSz + 1) < 0
  BY <1>1, CIntFacts DEF IntMin
<1> HIDE DEF h
<1>5. /\ r.ret \in {"OK", "ERR"} /\ Owns(r.h)
      /\ r.ret = "OK" => /\ 0 < CInt(maxBuffSz + 1)
                         /\ CInt(maxBuffSz + 1) <= r.h.mlen /\ h.mlen <= r.h.mlen
  BY <1>2, <1>4, BallocOwned
<1>6. g.ok = (r.ret = "OK")
  BY <1>3
<1>7. ASSUME r.ret = "OK"
      PROVE  Buffer(g.b) /\ g.b.text = b.text /\ maxBuffSz < g.b.mlen
  <2> DEFINE e == [b EXCEPT !.mlen = r.h.mlen]
  <2>1. g.b = e
    BY <1>3
  <2>2. r.h.mlen \in 1..MemMax /\ b.mlen <= r.h.mlen /\ maxBuffSz < r.h.mlen
    BY <1>1, <1>2, <1>4, <1>5, <1>7, SMTT(30) DEF Owns, Header
  <2>3. /\ e \in [text : Seq(Nat), mlen : -1..MemMax]
        /\ e.text = b.text /\ e.mlen = r.h.mlen
    BY <1>1, <2>2, SMTT(30) DEF Buffer
  <2> HIDE DEF e
  <2> QED
    BY <1>1, <2>1, <2>2, <2>3 DEF Buffer
<1> QED
  BY <1>6, <1>7

-----------------------------------------------------------------------------
(* The steps of the contract. *)

(* What is handed over by a step: the call in progress goes on, or a call  *)
(* begins.                                                                 *)
Delivered == IF Reading THEN dest.got ELSE <<>>

EofCaused ==
  isEOF' /\ ~isEOF /\ ~ended' /\ call'.pc # "closed"
    => call'.fn = "block" /\ call'.starved /\ buff'.text = <<>>

(* A read hands over the beginning of the rest of the stream. *)
HandsOut == \E p \in Seq(Nat) : Rest = p \o Rest' /\ dest'.got = Delivered \o p

Moved ==
  call'.fn \in {"line", "block", "bsbufflength"}
    => HandsOut \/ (call'.fn = "line" /\ Contract!Relapse)

(* What every step is shown to be. *)
Lawful ==
  /\ Promised' /\ Moved /\ EofCaused
  /\ Contract!Deliveries \/ Contract!Relapse

Delivery == Contract!Deliveries /\ HandsOut

(* A block read begins with the destination d, and adds to it.             *)
Kept(d) ==
  /\ dest'.old = d.old /\ 0 < dest'.mlen
  /\ call'.fn = "block" /\ call'.pc \in {"idle", "block"}

(* One that had memory and gives nothing has come to the end.              *)
Dry == call'.pc = "idle" /\ ~call'.starved /\ dest'.got = <<>> => isEOF'

(* A step that hands over p and leaves q is one of the contract. *)
LEMMA DeliverStep ==
  ASSUME NEW p \in Seq(Nat), NEW q \in Seq(Nat), Rest = p \o q, Rest' = q,
         Delivered \in Seq(Nat), dest'.got = Delivered \o p,
         call'.starved \in BOOLEAN
  PROVE  Delivery
<1>1. /\ SubSeq(p \o q, 1, Len(p)) = p /\ Len(p) \in 0..Len(p \o q)
      /\ SubSeq(p \o q, Len(p) + 1, Len(p \o q)) = q
  BY CutOfConcat
<1>2. \E k \in 0..Len(Rest) :
        p = Contract!First(Rest, k) /\ Rest' = Contract!After(Rest, k)
  BY <1>1 DEF Contract!First, Contract!After
<1>3. Reading' \in BOOLEAN
  BY DEF Reading
<1>6. HandsOut
  BY DEF HandsOut
<1>4. CASE Reading
  <2>1. Contract!Deliver
    BY <1>2, <1>3, <1>4 DEF Delivered, Contract!Deliver
  <2> QED
    BY <1>6, <2>1 DEF Contract!Deliveries, Delivery
<1>5. CASE ~Reading
  <2>1. dest'.got = p
    BY <1>5, ConcatEmptySeq DEF Delivered
  <2>2. Contract!Begin
    BY <1>2, <1>3, <1>5, <2>1 DEF Contract!Begin
  <2> QED
    BY <1>6, <2>2 DEF Contract!Deliveries, Delivery
<1> QED
  BY <1>4, <1>5

(* A step that hands over nothing. *)
LEMMA NothingStep ==
  ASSUME Rest \in Seq(Nat), Rest' = Rest, Delivered \in Seq(Nat),
         dest'.got = Delivered, call'.starved \in BOOLEAN
  PROVE  Delivery
<1> DEFINE e == <<>>
<1>1. e \in Seq(Nat) /\ Rest = e \o Rest /\ dest'.got = Delivered \o e
  BY TextFacts
<1> HIDE DEF e
<1> QED
  BY <1>1, DeliverStep

(* A call that fails with the beginning of what it handed over still in    *)
(* the stream.                                                             *)
LEMMA RelapseStep ==
  ASSUME Reading, ~Reading', call'.starved, dest'.got = dest.got, NEW k \in 1..Len(dest.got),
         Rest' = First(dest.got, k) \o Rest
  PROVE  Contract!Relapse
BY DEF Contract!Relapse, Contract!First, First

-----------------------------------------------------------------------------
(* The invariant, by the kind of the call. *)

(* A call that has just begun. *)
Fresh(c, fn) ==
  /\ c \in Callers /\ c.pc = "idle" /\ c.fn = fn /\ c.ret = "OK"
  /\ ~c.starved /\ ~c.asked /\ ~c.direct

(* A call that has just been made has its arguments and nothing else. *)
LEMMA NewCallFresh ==
  ASSUME NEW fn \in {"none", "bsopen", "bsclose", "bsbufflength", "line", "block",
                     "bsunread", "bspeek"},
         NEW terms \in TermSets \cup {{}}, NEW n \in Int
  PROVE  /\ Fresh(NewCall(fn, terms, n), fn) /\ NewCall(fn, terms, n).terms = terms
         /\ NewCall(fn, terms, n).n = n
BY DEF NewCall, Fresh, Callers

(* The same for a call that is given no terminators. *)
LEMMA PlainCallFresh ==
  ASSUME NEW fn \in {"none", "bsopen", "bsclose", "bsbufflength", "line", "block",
                     "bsunread", "bspeek"},
         NEW n \in Int
  PROVE  Fresh(NewCall(fn, {}, n), fn) /\ NewCall(fn, {}, n).n = n
<1> DEFINE e == {}
<1>1. e \in TermSets \cup {{}}
  OBVIOUS
<1> HIDE DEF e
<1>2. Fresh(NewCall(fn, e, n), fn) /\ NewCall(fn, e, n).n = n
  BY <1>1, NewCallFresh
<1> QED
  BY <1>2 DEF e

(* What every step leaves of the text and of the buffer. *)
Stored ==
  /\ src' \in Seq(Nat) /\ Len(src') <= Len(Input)
  /\ isEOF' \in BOOLEAN /\ ended' \in BOOLEAN /\ maxBuffSz' \in 1..IntMax
  /\ buff' \in [text : Seq(Nat), mlen : -1..MemMax]
  /\ buff'.mlen > 0 => Len(buff'.text) < buff'.mlen
  /\ buff'.mlen <= 0 => buff'.text = <<>>
  /\ Len(buff'.text) + Len(src') <= HeldMax + Len(Input)

(* After a call that reads nothing. *)
LEMMA OtherInv ==
  ASSUME Stored, dest' \in [old : Nat, got : Seq(Nat), mlen : -1..IntMax],
         call' \in Callers, call'.fn \notin {"line", "block"},
         call'.pc \in {"idle", "closed"},
         call'.pc = "closed" => buff' = NoBuffer /\ dest'.got = <<>>
  PROVE  Promised'
<1>1. call'.pc \notin {"line", "block"} /\ call'.fn # "line" /\ call'.fn # "block"
  OBVIOUS
<1>2. ReadIsExact'
  BY <1>1 DEF ReadIsExact, LineIsALine, ReturnTellsDelivery, BlockIsExact, Returned
<1> QED
  BY <1>1, <1>2 DEF Promised, StreamInv, Typed, Stored, Buffer, Reading

(* In and after a line read. *)
LEMMA LineInv ==
  ASSUME Stored, Target(dest'), call' \in Callers,
         call'.fn = "line", call'.pc \in {"idle", "line"},
         call'.pc = "line" => AtWork',
         LineIsALine', ReturnTellsDelivery'
  PROVE  Promised'
<1>1. Target(dest)' /\ dest' \in [old : Nat, got : Seq(Nat), mlen : -1..IntMax]
  <2>1. /\ dest' \in [old : Nat, got : Seq(Nat), mlen : -1..MemMax]
        /\ dest'.mlen > 0 => DestLen(dest') < dest'.mlen
    BY DEF Target
  <2>2. MemMax \in Nat /\ IntMax \in Nat /\ MemMax <= IntMax
    BY SizesAssumption
  <2> QED
    BY <2>1, <2>2 DEF Target, DestLen
<1>2. ReadIsExact'
  BY DEF ReadIsExact, BlockIsExact
<1>3. Reading' => AtWork'
  BY DEF Reading
<1> QED
  BY <1>1, <1>2, <1>3 DEF Promised, StreamInv, Typed, Stored, Buffer

(* In and after a block read. *)
LEMMA BlockInv ==
  ASSUME Stored, Target(dest'), call' \in Callers,
         call'.fn = "block", call'.pc \in {"idle", "block"},
         call'.pc = "block" => AtWork',
         BlockIsExact', ReturnTellsDelivery'
  PROVE  Promised'
<1>1. Target(dest)' /\ dest' \in [old : Nat, got : Seq(Nat), mlen : -1..IntMax]
  <2>1. /\ dest' \in [old : Nat, got : Seq(Nat), mlen : -1..MemMax]
        /\ dest'.mlen > 0 => DestLen(dest') < dest'.mlen
    BY DEF Target
  <2>2. MemMax \in Nat /\ IntMax \in Nat /\ MemMax <= IntMax
    BY SizesAssumption
  <2> QED
    BY <2>1, <2>2 DEF Target, DestLen
<1>2. ReadIsExact'
  BY DEF ReadIsExact, LineIsALine
<1>3. Reading' => AtWork'
  BY DEF Reading
<1> QED
  BY <1>1, <1>2, <1>3 DEF Promised, StreamInv, Typed, Stored, Buffer

-----------------------------------------------------------------------------
(* Between two calls. *)

(* Between calls what is left is the buffer, then the core stream, and     *)
(* nothing is being handed over.                                           *)
LEMMA IdleFacts ==
  ASSUME StreamInv, call.pc \in {"idle", "closed"}
  PROVE  /\ src \in Seq(Nat) /\ buff.text \in Seq(Nat) /\ ~Reading
         /\ Rest = buff.text \o src /\ Rest \in Seq(Nat) /\ Delivered = <<>>
         /\ Delivered \in Seq(Nat)
<1>1. ~Reading /\ src \in Seq(Nat) /\ buff.text \in Seq(Nat)
  BY DEF Reading, StreamInv, Typed, Buffer
<1>2. Rest = buff.text \o src /\ Rest \in Seq(Nat)
  BY <1>1, ConcatProperties DEF Rest
<1> QED
  BY <1>1, <1>2, EmptySeq DEF Delivered

(* A buffer whose text and stream are unchanged is what the invariant      *)
(* asks for.                                                               *)
LEMMA SameStored ==
  ASSUME StreamInv, Buffer(buff'), buff'.text = buff.text, src' = src,
         isEOF' \in BOOLEAN, ended' \in BOOLEAN, maxBuffSz' \in 1..IntMax
  PROVE  Stored
BY DEF StreamInv, Typed, Stored, Buffer

(* A read that ends before it reads anything. *)
LEMMA RefusedLawful ==
  ASSUME StreamInv, Idle, NEW fn \in {"line", "block"},
         NEW b, Buffer(b), b.text = buff.text,
         NEW d, Target(d), d.got = <<>>, NEW c, Fresh(c, fn), NEW starved \in BOOLEAN,
         LineRefused(b, d, c, starved), UNCHANGED <<src, isEOF, maxBuffSz, ended>>
  PROVE  Lawful /\ dest' = d /\ call'.starved = starved /\ call'.fn = fn /\ call'.pc = "idle"
<1>1. /\ dest' = d /\ buff' = b /\ src' = src /\ isEOF' = isEOF /\ ended' = ended
      /\ maxBuffSz' = maxBuffSz /\ call' = [c EXCEPT !.ret = "ERR", !.starved = starved]
  BY DEF LineRefused
<1>2. /\ call' \in Callers /\ call'.pc = "idle" /\ call'.fn = fn /\ call'.ret = "ERR"
      /\ call'.starved = starved /\ ~call'.asked
  BY <1>1 DEF Fresh, Callers
<1>3. Stored
  BY <1>1, SameStored DEF StreamInv, Typed
<1>4. dest'.got = <<>> /\ Target(dest')
  BY <1>1
<1>5. ReturnTellsDelivery'
  BY <1>2, <1>4 DEF ReturnTellsDelivery
<1>6. Promised'
  <2>1. CASE fn = "line"
    <3>1. Len(dest'.got) = 0
      BY <1>4, EmptySeq
    <3>2. LineIsALine'
      BY <1>2, <3>1 DEF LineIsALine
    <3> QED
      BY <1>2, <1>3, <1>4, <1>5, <2>1, <3>2, LineInv
  <2>2. CASE fn = "block"
    <3>1. BlockIsExact'
      BY <1>2, <1>4 DEF BlockIsExact
    <3> QED
      BY <1>2, <1>3, <1>4, <1>5, <2>2, <3>1, BlockInv
  <2> QED
    BY <2>1, <2>2
<1>7. Delivery
  <2>1. Rest' = Rest
    <3>1. ~Reading'
      BY <1>2 DEF Reading
    <3>2. Rest' = buff'.text \o src'
      BY <3>1 DEF Rest
    <3> QED
      BY <1>1, <3>2, IdleFacts DEF Idle
  <2> QED
    BY <1>2, <1>4, <2>1, IdleFacts, NothingStep DEF Idle
<1>8. EofCaused
  BY <1>1 DEF EofCaused
<1> QED
  BY <1>1, <1>2, <1>6, <1>7, <1>8 DEF Lawful, Moved, Delivery

-----------------------------------------------------------------------------
(* The line readers. *)

(* A text whose terminator, if it has one, is its last character. *)
LEMMA CutAtTerminator ==
  ASSUME NEW t \in Seq(Nat), NEW terms, NEW i, i = Terminator(t, terms), i # 0
  PROVE  /\ i \in 1..Len(t) /\ First(t, i)[i] \in terms
         /\ \A j \in 1..(i - 1) : First(t, i)[j] \notin terms
<1>1. Len(t) \in Nat /\ i \in 0..Len(t) /\ i \in 1..Len(t)
  BY LenProperties, TerminatorFacts
<1>2. t[i] \in terms /\ \A j \in 1..(i - 1) : t[j] \notin terms
  BY TerminatorFacts
<1>3. \A j \in 1..i : First(t, i)[j] = t[j]
  BY <1>1, CutText
<1> QED
  BY <1>1, <1>2, <1>3, SMTT(30)

(* From the call to the first request. *)
LEMMA LineFirstLawful ==
  ASSUME StreamInv, Idle, NEW b, Buffer(b), b.text = buff.text, maxBuffSz < b.mlen,
         NEW d, Target(d), d.got = <<>>, 0 < d.mlen,
         d.old + HeldMax + Len(Input) < IntMax, NEW c, Fresh(c, "line"),
         LineFirst(b, d, c), UNCHANGED <<src, isEOF, maxBuffSz, ended>>
  PROVE  Lawful
<1> DEFINE t == b.text
           i == Terminator(t, c.terms)
           k == IF i = 0 THEN Len(t) ELSE i
<1>1. PICK a \in Appended(d, First(t, k)) :
        /\ dest' = a.d
        /\ buff' = [b EXCEPT !.text = IF a.ok /\ i # 0 THEN After(@, i) ELSE @]
        /\ call' = [c EXCEPT !.pc = IF a.ok /\ i = 0 THEN "line" ELSE "idle",
                             !.ret = IF a.ok \/ i # 0 THEN "OK" ELSE "ERR",
                             !.starved = ~a.ok]
  BY Zenon DEF LineFirst
<1>2. /\ t \in Seq(Nat) /\ Len(t) \in Nat /\ i \in 0..Len(t) /\ k \in 0..Len(t)
      /\ b \in [text : Seq(Nat), mlen : -1..MemMax] /\ 0 < b.mlen /\ Len(t) < b.mlen
  <2>1. /\ t \in Seq(Nat) /\ b \in [text : Seq(Nat), mlen : -1..MemMax]
        /\ b.mlen > 0 => Len(t) < b.mlen
    BY DEF Buffer
  <2>2. Len(t) \in Nat /\ maxBuffSz \in Nat
    BY <2>1, LenProperties DEF StreamInv, Typed
  <2>3. i \in 0..Len(t)
    BY <2>1, TerminatorFacts
  <2>4. b.mlen \in Int
    BY <2>1, SizesAssumption
  <2> QED
    BY <2>1, <2>2, <2>3, <2>4
<1>3. /\ src \in Seq(Nat) /\ Len(src) \in Nat /\ Len(Input) \in Nat /\ HeldMax \in Nat
      /\ Len(t) + Len(src) <= HeldMax + Len(Input) /\ Len(src) <= Len(Input)
      /\ isEOF \in BOOLEAN /\ ended \in BOOLEAN /\ maxBuffSz \in 1..IntMax
  BY LenProperties, StreamAssumption DEF StreamInv, Typed
<1>4. First(t, k) \in Seq(Nat) /\ Len(First(t, k)) = k
  BY <1>2, CutText
<1>5. d.old \in Nat /\ DestLen(d) = d.old /\ IntMax \in Nat
  BY EmptySeq, SizesAssumption DEF Target, DestLen
<1>6. /\ a.ok \in BOOLEAN /\ Target(a.d) /\ 0 < a.d.mlen
      /\ ~a.ok => a.d = d
      /\ a.ok => a.d.got = First(t, k) /\ DestLen(a.d) = d.old + k
  <2>1. DestLen(d) + Len(First(t, k)) < IntMax
    <3> HIDE DEF k, i, t
    <3> QED
      BY <1>2, <1>3, <1>4, <1>5, SMTT(30)
  <2>2. <<>> \o First(t, k) = First(t, k)
    BY <1>4, TextFacts
  <2> DEFINE p == First(t, k)
  <2>3. p \in Seq(Nat) /\ Len(p) = k /\ DestLen(d) + Len(p) < IntMax /\ <<>> \o p = p
    BY <1>4, <2>1, <2>2
  <2>4. a \in Appended(d, p)
    OBVIOUS
  <2> HIDE DEF k, i, t, p
  <2>5. /\ a.ok \in BOOLEAN /\ Target(a.d) /\ 0 < a.d.mlen
        /\ ~a.ok => a.d = d
        /\ a.ok => a.d.got = d.got \o p /\ DestLen(a.d) = DestLen(d) + Len(p)
    BY <2>3, <2>4, AppendedFacts
  <2>6. a.ok => a.d.got = p /\ DestLen(a.d) = d.old + k
    BY <1>5, <2>3, <2>5, Zenon
  <2> QED
    BY <2>5, <2>6 DEF p
<1>7. UNCHANGED <<src, isEOF, maxBuffSz, ended>>
  OBVIOUS
<1>8. Rest = t \o src /\ Rest \in Seq(Nat) /\ Delivered = <<>> /\ Delivered \in Seq(Nat)
  BY IdleFacts DEF Idle
<1> HIDE DEF k, i
<1>9. CASE a.ok /\ i # 0
  <2>1. /\ dest' = a.d /\ k = i /\ i \in 1..Len(t)
        /\ buff' = [b EXCEPT !.text = After(t, i)]
        /\ call' = [c EXCEPT !.pc = "idle", !.ret = "OK", !.starved = FALSE]
    <3>1. i \in 1..Len(t) /\ k = i
      BY <1>2, <1>9 DEF k
    <3>2. (~a.ok) = FALSE /\ (a.ok /\ i # 0) = TRUE
      BY <1>6, <1>9, Zenon
    <3>3. (a.ok /\ i = 0) = FALSE /\ (a.ok \/ i # 0) = TRUE
      BY <1>6, <1>9, Zenon
    <3>4. buff' = [b EXCEPT !.text = After(t, i)]
      BY <1>1, <1>9, Zenon
    <3>5. call' = [c EXCEPT !.pc = IF FALSE THEN "line" ELSE "idle",
                            !.ret = IF TRUE THEN "OK" ELSE "ERR", !.starved = FALSE]
      BY <1>1, <3>2, <3>3, Zenon
    <3> QED
      BY <1>1, <3>1, <3>4, <3>5
  <2>2. /\ call' \in Callers /\ call'.pc = "idle" /\ call'.fn = "line"
        /\ call'.ret = "OK" /\ call'.starved = FALSE /\ call'.terms = c.terms
    BY <2>1 DEF Fresh, Callers
  <2>3. /\ After(t, i) \in Seq(Nat) /\ Len(After(t, i)) = Len(t) - i
        /\ t = First(t, i) \o After(t, i) /\ First(t, i) \in Seq(Nat)
        /\ Len(First(t, i)) = i
    BY <1>2, <2>1, CutText
  <2>4. /\ buff' \in [text : Seq(Nat), mlen : -1..MemMax]
        /\ buff'.text = After(t, i) /\ buff'.mlen = b.mlen
    BY <1>2, <2>1, <2>3
  <2>5. Stored
    <3>1. /\ Len(buff'.text) < buff'.mlen /\ 0 < buff'.mlen
          /\ Len(buff'.text) + Len(src') <= HeldMax + Len(Input)
      <4>1. Len(buff'.text) = Len(t) - i /\ src' = src /\ buff'.mlen = b.mlen
        BY <1>7, <2>3, <2>4
      <4>2. b.mlen \in Int
        BY <1>2, SizesAssumption
      <4> HIDE DEF t
      <4> QED
        BY <1>2, <1>3, <4>1, <4>2, SMTT(30)
    <3>2. buff'.mlen \in Int
      BY <1>2, <2>4, SizesAssumption
    <3> QED
      BY <1>3, <1>7, <2>3, <2>4, <3>1, <3>2 DEF Stored
  <2>6. /\ dest'.got = First(t, i) /\ dest'.got[i] \in c.terms
        /\ \A j \in 1..(i - 1) : dest'.got[j] \notin c.terms
    BY <1>2, <1>6, <1>9, <2>1, CutAtTerminator, SMTT(30) DEF i
  <2>7. LineIsALine'
    BY <2>2, <2>3, <2>6 DEF LineIsALine
  <2>8. ReturnTellsDelivery'
    <3>1. dest'.got # <<>>
      BY <2>1, <2>3, <2>6, EmptySeq
    <3> QED
      BY <2>2, <3>1 DEF ReturnTellsDelivery
  <2>9. Promised'
    BY <1>6, <2>1, <2>2, <2>5, <2>7, <2>8, LineInv
  <2>10. Delivery
    <3> DEFINE p == First(t, i)
               q == After(t, i) \o src
    <3>1. p \in Seq(Nat) /\ q \in Seq(Nat) /\ Rest = p \o q
      <4>1. (First(t, i) \o After(t, i)) \o src = First(t, i) \o (After(t, i) \o src)
        BY <1>3, <2>3, TextFacts
      <4> QED
        BY <1>3, <1>8, <2>3, <4>1, TextFacts
    <3>2. Rest' = q
      <4>1. ~Reading'
        BY <2>2 DEF Reading
      <4>2. Rest' = buff'.text \o src'
        BY <4>1 DEF Rest
      <4> QED
        BY <1>7, <2>4, <4>2
    <3>3. dest'.got = Delivered \o p
      BY <1>8, <2>6, <3>1, TextFacts
    <3> HIDE DEF p, q
    <3> QED
      BY <1>8, <2>2, <3>1, <3>2, <3>3, DeliverStep
  <2> QED
    BY <1>7, <2>9, <2>10 DEF Lawful, Moved, Delivery, EofCaused
<1>10. CASE a.ok /\ i = 0
  <2>1. /\ dest' = a.d /\ k = Len(t)
        /\ call' = [c EXCEPT !.pc = "line", !.ret = "OK", !.starved = FALSE]
    BY <1>1, <1>10 DEF k
  <2>2. buff' = b
    <3>1. buff' = [b EXCEPT !.text = t]
      BY <1>1, <1>10
    <3> QED
      BY <1>2, <3>1
  <2>3. /\ call' \in Callers /\ call'.pc = "line" /\ call'.fn = "line"
        /\ call'.ret = "OK" /\ call'.starved = FALSE /\ call'.terms = c.terms
    BY <2>1 DEF Fresh, Callers
  <2>4. Stored
    BY <1>3, <1>7, <2>2, SameStored
  <2>5. First(t, Len(t)) = t
    BY <1>2, WholeText
  <2>6. dest'.got = t /\ DestLen(dest') = d.old + Len(t)
    BY <1>6, <1>10, <2>1, <2>5
  <2>7. Unended(t, c.terms)
    BY <1>2, <1>10, TerminatorFacts DEF i
  <2>8. AtWork'
    <3>1. 0 < dest'.mlen /\ maxBuffSz' < buff'.mlen /\ ~call'.starved
      BY <1>6, <1>7, <2>1, <2>2, <2>3
    <3>2. DestLen(dest') + Len(src') < IntMax
      <4>1. DestLen(dest') + Len(src') = (d.old + Len(t)) + Len(src)
        BY <1>7, <2>6
      <4>2. \A x, y, z, h, n, m \in Nat :
              y + z <= h + n /\ x + h + n < m => (x + y) + z < m
        OBVIOUS
      <4>3. (d.old + Len(t)) + Len(src) < IntMax
        BY <1>2, <1>3, <1>5, <4>2
      <4> QED
        BY <4>1, <4>3
    <3>3. \E n \in 0..Len(dest'.got) : buff'.text = First(dest'.got, n)
      <4>1. Len(t) \in 0..Len(dest'.got) /\ buff'.text = First(dest'.got, Len(t))
        BY <1>2, <2>2, <2>5, <2>6
      <4> QED
        BY <4>1
    <3>4. Unended(dest'.got, call'.terms)
      BY <2>3, <2>6, <2>7
    <3>5. DestLen(dest)' + Len(src') < IntMax
      BY <3>2 DEF DestLen
    <3>6. Unended(dest.got, call.terms)'
      BY <3>4 DEF Unended
    <3>7. (\E n \in 0..Len(dest.got) : buff.text = First(dest.got, n))'
      BY <3>3 DEF First
    <3> QED
      BY <2>3, <3>1, <3>5, <3>6, <3>7 DEF AtWork
  <2>9. LineIsALine'
    BY <1>2, <2>3, <2>6, <2>7 DEF LineIsALine, Unended, Idle
  <2>10. ReturnTellsDelivery'
    BY <2>3 DEF ReturnTellsDelivery, Returned, Idle
  <2>11. Promised'
    BY <1>6, <2>1, <2>3, <2>4, <2>8, <2>9, <2>10, LineInv
  <2>12. Delivery
    <3>1. Rest' = src
      <4>1. Rest' = <<>> \o src'
        BY <2>3 DEF Rest, Reading
      <4> QED
        BY <1>3, <1>7, <4>1, TextFacts
    <3>2. dest'.got = Delivered \o t
      BY <1>2, <1>8, <2>6, TextFacts
    <3> QED
      BY <1>2, <1>3, <1>8, <2>3, <3>1, <3>2, DeliverStep
  <2> QED
    BY <1>7, <2>11, <2>12 DEF Lawful, Moved, Delivery, EofCaused
<1>11. CASE ~a.ok
  <2>1. /\ dest' = d /\ buff' = [b EXCEPT !.text = t]
        /\ call' = [c EXCEPT !.pc = "idle", !.ret = IF i # 0 THEN "OK" ELSE "ERR",
                             !.starved = TRUE]
    BY <1>1, <1>6, <1>11
  <2>2. buff' = b
    BY <1>2, <2>1
  <2>3. /\ call' \in Callers /\ call'.pc = "idle" /\ call'.fn = "line"
        /\ call'.starved = TRUE
    BY <2>1 DEF Fresh, Callers
  <2>4. Stored
    BY <1>3, <1>7, <2>2, SameStored
  <2>5. dest'.got = <<>> /\ Len(dest'.got) = 0
    BY <2>1, EmptySeq
  <2>6. LineIsALine' /\ ReturnTellsDelivery'
    BY <2>3, <2>5 DEF LineIsALine, ReturnTellsDelivery
  <2>7. Promised'
    BY <2>1, <2>3, <2>4, <2>6, LineInv
  <2>8. Delivery
    <3>1. ~Reading'
      BY <2>3 DEF Reading
    <3>2. Rest' = buff'.text \o src'
      BY <3>1 DEF Rest
    <3>3. Rest' = Rest
      BY <1>7, <1>8, <2>2, <3>2
    <3> QED
      BY <1>8, <2>3, <2>5, <3>3, NothingStep
  <2> QED
    BY <1>7, <2>7, <2>8 DEF Lawful, Moved, Delivery, EofCaused
<1> QED
  BY <1>6, <1>9, <1>10, <1>11

(* A stream whose buffer was never made is not made ready. *)
LEMMA ReadyOutcome ==
  ASSUME NEW b, Buffer(b), 0 <= b.mlen, maxBuffSz \in 1..IntMax, NEW g \in Ready(b)
  PROVE  /\ g.ok \in BOOLEAN
         /\ g.ok => /\ Buffer(g.b) /\ g.b.text = b.text /\ maxBuffSz < g.b.mlen
                    /\ 0 <= g.b.mlen
<1>1. maxBuffSz \in Nat /\ b.mlen \in Int
  BY SizesAssumption DEF Buffer
<1>2. CASE 0 < b.mlen
  <2>1. /\ g.ok \in BOOLEAN
        /\ g.ok => Buffer(g.b) /\ g.b.text = b.text /\ maxBuffSz < g.b.mlen
    BY <1>2, ReadyFacts
  <2>2. g.ok => g.b.mlen \in Int
    BY <2>1, SizesAssumption DEF Buffer
  <2> QED
    BY <1>1, <2>1, <2>2
<1>3. CASE b.mlen = 0
  <2> DEFINE h == HeaderOf(Len(b.text), b.mlen)
  <2>1. PICK r \in Balloc(h, CInt(maxBuffSz + 1)) :
          g = [ok |-> r.ret = "OK", b |-> [b EXCEPT !.mlen = r.h.mlen]]
    BY DEF Ready
  <2>2. ~Writable(h)
    BY <1>3 DEF HeaderOf, Writable
  <2>3. r.ret = "ERR"
    BY <2>1, <2>2 DEF Balloc, Refused, Result
  <2> QED
    BY <2>1, <2>3
<1> QED
  BY <1>1, <1>2, <1>3

(* A destination as a call finds it, and emptied. *)
LEMMA DestFacts ==
  ASSUME NEW d \in Dests
  PROVE  /\ d.mlen \in Int /\ d.old \in Nat
         /\ Target(Begins(d)) /\ Begins(d).got = <<>> /\ Begins(d).mlen = d.mlen
         /\ Begins(d).old = d.old /\ d.old + HeldMax + Len(Input) < IntMax
         /\ Target(Emptied(d)) /\ Emptied(d).got = <<>> /\ Emptied(d).mlen = d.mlen
         /\ Emptied(d).old = 0 /\ 0 + HeldMax + Len(Input) < IntMax
<1>1. /\ d.old \in Nat /\ d.mlen \in -1..MemMax
      /\ d.mlen > 0 => d.old < d.mlen
      /\ d.old + HeldMax + Len(Input) < IntMax
  <2>1. d \in [old : 0..IntMax, mlen : -1..IntMax]
    BY StreamAssumption
  <2>2. /\ d.mlen <= MemMax /\ d.old + HeldMax + Len(Input) < IntMax
        /\ d.mlen > 0 => d.old < d.mlen
    BY DestsAssumption, TextsFit
  <2> QED
    BY <2>1, <2>2, SizesAssumption
<1>2. Len(Input) \in Nat /\ HeldMax \in Nat /\ IntMax \in Nat
  BY StreamAssumption, SizesAssumption, LenProperties
<1>3. Target(Begins(d))
  <2> DEFINE e == [old |-> d.old, got |-> <<>>, mlen |-> d.mlen]
  <2>1. e \in [old : Nat, got : Seq(Nat), mlen : -1..MemMax]
    BY <1>1, EmptySeq
  <2>2. e.old + Len(e.got) = d.old /\ e.mlen = d.mlen
    BY <1>1, EmptySeq
  <2> QED
    BY <1>1, <2>1, <2>2 DEF Target, Begins, DestLen
<1>4. Target(Emptied(d))
  <2> DEFINE e == [old |-> 0, got |-> <<>>, mlen |-> d.mlen]
  <2>1. e \in [old : Nat, got : Seq(Nat), mlen : -1..MemMax]
    BY <1>1, EmptySeq
  <2>2. e.old + Len(e.got) = 0 /\ e.mlen = d.mlen
    BY <1>1, EmptySeq
  <2> QED
    BY <1>1, <2>1, <2>2 DEF Target, Emptied, DestLen
<1>5. /\ d.mlen \in Int /\ 0 + HeldMax + Len(Input) < IntMax
  BY <1>1, <1>2, SizesAssumption
<1> QED
  BY <1>1, <1>3, <1>4, <1>5 DEF Begins, Emptied

(* A line read, from the size its buffer is given to its first request. *)
LEMMA LineReadyLawful ==
  ASSUME StreamInv, Idle, NEW b, Buffer(b), b.text = buff.text, 0 <= b.mlen,
         NEW d, Target(d), d.got = <<>>, 0 < d.mlen,
         d.old + HeldMax + Len(Input) < IntMax, NEW c, Fresh(c, "line"),
         LineReady(b, d, c), UNCHANGED <<src, isEOF, maxBuffSz, ended>>
  PROVE  Lawful
<1>1. PICK g \in Ready(b) :
        IF g.ok THEN LineFirst(g.b, d, c) ELSE LineRefused(b, d, c, TRUE)
  BY DEF LineReady
<1>2. /\ g.ok \in BOOLEAN
      /\ g.ok => Buffer(g.b) /\ g.b.text = b.text /\ maxBuffSz < g.b.mlen
  BY ReadyOutcome DEF StreamInv, Typed
<1>3. CASE g.ok
  BY <1>1, <1>2, <1>3, LineFirstLawful
<1>4. CASE ~g.ok
  BY <1>1, <1>2, <1>4, RefusedLawful
<1> QED
  BY <1>2, <1>3, <1>4

(* bsreadlna and bsreadlnsa, up to their first request. *)
LEMMA BsreadlnaLawful ==
  ASSUME StreamInv, Bsreadlna
  PROVE  Lawful
<1>1. PICK d \in Dests, terms \in TermSets :
        LET c == NewCall("line", terms, 0)
        IN  IF buff.mlen < 0 \/ d.mlen <= 0
            THEN LineRefused(buff, Begins(d), c, FALSE)
            ELSE LineReady(buff, Begins(d), c)
  BY DEF Bsreadlna
<1> DEFINE c == NewCall("line", terms, 0)
<1>2. Idle /\ UNCHANGED <<src, isEOF, maxBuffSz, ended>> /\ Buffer(buff)
  BY DEF Bsreadlna, StreamInv
<1>3. Fresh(c, "line")
  BY NewCallFresh
<1>4. CASE buff.mlen < 0 \/ d.mlen <= 0
  <2>1. LineRefused(buff, Begins(d), c, FALSE)
    BY <1>1, <1>4
  <2> HIDE DEF c
  <2> QED
    BY <1>2, <1>3, <2>1, DestFacts, RefusedLawful
<1>5. CASE ~(buff.mlen < 0 \/ d.mlen <= 0)
  <2>1. LineReady(buff, Begins(d), c)
    BY <1>1, <1>5
  <2>2. 0 <= buff.mlen /\ 0 < d.mlen
    BY <1>2, <1>5, DestFacts, SizesAssumption DEF Buffer
  <2> HIDE DEF c
  <2> QED
    BY <1>2, <1>3, <2>1, <2>2, DestFacts, LineReadyLawful
<1> QED
  BY <1>4, <1>5

(* bsreadln and bsreadlns, up to their first request. *)
LEMMA BsreadlnLawful ==
  ASSUME StreamInv, Bsreadln
  PROVE  Lawful
<1>1. PICK d \in Dests, terms \in TermSets :
        LET c == NewCall("line", terms, 0)
        IN  IF buff.mlen < 0 \/ d.mlen <= 0
            THEN LineRefused(buff, Begins(d), c, FALSE)
            ELSE \E g \in Ready(buff) :
                   IF g.ok THEN LineReady(g.b, Emptied(d), c)
                   ELSE LineRefused(buff, Begins(d), c, TRUE)
  BY DEF Bsreadln
<1> DEFINE c == NewCall("line", terms, 0)
<1>2. Idle /\ UNCHANGED <<src, isEOF, maxBuffSz, ended>> /\ Buffer(buff)
  BY DEF Bsreadln, StreamInv
<1>3. Fresh(c, "line")
  BY NewCallFresh
<1>4. CASE buff.mlen < 0 \/ d.mlen <= 0
  <2>1. LineRefused(buff, Begins(d), c, FALSE)
    BY <1>1, <1>4
  <2> HIDE DEF c
  <2> QED
    BY <1>2, <1>3, <2>1, DestFacts, RefusedLawful
<1>5. CASE ~(buff.mlen < 0 \/ d.mlen <= 0)
  <2>1. PICK g \in Ready(buff) : IF g.ok THEN LineReady(g.b, Emptied(d), c)
                                 ELSE LineRefused(buff, Begins(d), c, TRUE)
    BY <1>1, <1>5
  <2>2. 0 <= buff.mlen /\ 0 < d.mlen
    BY <1>2, <1>5, DestFacts, SizesAssumption DEF Buffer
  <2>3. /\ g.ok \in BOOLEAN
        /\ g.ok => Buffer(g.b) /\ g.b.text = buff.text /\ 0 <= g.b.mlen
    BY <1>2, <2>2, ReadyOutcome DEF StreamInv, Typed
  <2> HIDE DEF c
  <2>4. CASE g.ok
    BY <1>2, <1>3, <2>1, <2>2, <2>3, <2>4, DestFacts, LineReadyLawful
  <2>5. CASE ~g.ok
    BY <1>2, <1>3, <2>1, <2>3, <2>5, DestFacts, RefusedLawful
  <2> QED
    BY <2>3, <2>4, <2>5
<1> QED
  BY <1>4, <1>5

(* Between two requests of a line read. *)
LEMMA LineWorks ==
  ASSUME StreamInv, call.pc = "line"
  PROVE  /\ src \in Seq(Nat) /\ Len(src) \in Nat /\ Len(src) <= Len(Input)
         /\ Len(Input) \in Nat /\ HeldMax \in Nat
         /\ isEOF \in BOOLEAN /\ ended \in BOOLEAN /\ maxBuffSz \in 1..IntMax
         /\ IntMax \in Nat /\ Target(dest) /\ 0 < dest.mlen /\ dest.got \in Seq(Nat)
         /\ Len(dest.got) \in Nat /\ DestLen(dest) \in Nat /\ dest.old \in Nat
         /\ DestLen(dest) + Len(src) < IntMax
         /\ Buffer(buff) /\ maxBuffSz < buff.mlen
         /\ call \in Callers /\ call.fn = "line" /\ call.ret = "OK" /\ ~call.starved
         /\ Unended(dest.got, call.terms)
         /\ \E k \in 0..Len(dest.got) : buff.text = First(dest.got, k)
         /\ Reading /\ Delivered = dest.got /\ Rest = src
<1>1. Reading /\ AtWork
  BY DEF StreamInv, Reading
<1>2. /\ src \in Seq(Nat) /\ dest.got \in Seq(Nat) /\ Target(dest) /\ dest.old \in Nat
      /\ call.fn = "line"
  BY <1>1 DEF StreamInv, Typed, Target, AtWork
<1>3. /\ Len(src) \in Nat /\ Len(dest.got) \in Nat /\ Len(Input) \in Nat
      /\ HeldMax \in Nat /\ IntMax \in Nat /\ DestLen(dest) \in Nat
  BY <1>2, LenProperties, StreamAssumption, SizesAssumption DEF DestLen
<1>4. Delivered = dest.got /\ Rest = src
  BY <1>1, <1>2, TextFacts DEF Delivered, Rest
<1> QED
  BY <1>1, <1>2, <1>3, <1>4 DEF StreamInv, Typed, AtWork

(* What the reader has made room for. *)
Roomy(d) ==
  /\ Target(d) /\ 0 < d.mlen /\ d.old = dest.old /\ d.got = dest.got

(* An empty answer ends a line read, and with it the stream. *)
LEMMA LineEndsLawful ==
  ASSUME StreamInv, call.pc = "line", NEW d, Roomy(d), LineEnds(d),
         UNCHANGED maxBuffSz
  PROVE  Lawful
<1>1. /\ dest' = d /\ buff' = [buff EXCEPT !.text = <<>>] /\ isEOF' = TRUE
      /\ ended' = TRUE /\ src' = src /\ maxBuffSz' = maxBuffSz
      /\ call' = [Return(IF d.got = <<>> THEN "ERR" ELSE "OK") EXCEPT !.asked = TRUE]
  BY DEF LineEnds
<1> DEFINE r == IF d.got = <<>> THEN "ERR" ELSE "OK"
<1>2. /\ call' \in Callers /\ call'.pc = "idle" /\ call'.fn = "line" /\ call'.ret = r
      /\ ~call'.starved /\ call'.terms = call.terms
  <2>1. call' = [[call EXCEPT !.pc = "idle", !.ret = r] EXCEPT !.asked = TRUE]
    BY <1>1 DEF Return
  <2>2. call \in Callers /\ call.fn = "line" /\ ~call.starved /\ r \in {"OK", "ERR"}
    BY LineWorks
  <2> HIDE DEF r
  <2> QED
    BY <2>1, <2>2 DEF Callers
<1>3. /\ buff' \in [text : Seq(Nat), mlen : -1..MemMax] /\ buff'.text = <<>>
      /\ buff'.mlen = buff.mlen
  BY <1>1, LineWorks, EmptySeq DEF Buffer
<1>4. Stored
  <2>1. Len(buff'.text) = 0 /\ buff.mlen \in Int /\ MemMax \in Nat
    BY <1>3, EmptySeq, SizesAssumption
  <2>2. 0 < buff'.mlen /\ Len(buff'.text) + Len(src') <= HeldMax + Len(Input)
    BY <1>1, <1>3, <2>1, LineWorks, SMTT(30)
  <2> QED
    BY <1>1, <1>3, <2>1, <2>2, LineWorks DEF Stored
<1>5. dest'.got = dest.got
  BY <1>1 DEF Roomy
<1>6. LineIsALine'
  <2>1. \A i \in 1 .. (Len(dest'.got) - 1) : dest'.got[i] \notin call'.terms
    BY <1>2, <1>5, LineWorks DEF Unended
  <2>2. ended' /\ Bseof'
    BY <1>1, <1>3 DEF Bseof
  <2> QED
    BY <2>1, <2>2 DEF LineIsALine
<1>7. ReturnTellsDelivery'
  BY <1>1, <1>2 DEF ReturnTellsDelivery
<1>8. Promised'
  BY <1>1, <1>2, <1>4, <1>6, <1>7, LineInv DEF Roomy
<1>9. Delivery
  <2>1. Rest' = Rest
    <3>1. Rest' = buff'.text \o src'
      BY <1>2 DEF Rest, Reading
    <3> QED
      BY <1>1, <1>3, <3>1, LineWorks, TextFacts
  <2> QED
    BY <1>2, <1>5, <2>1, LineWorks, NothingStep DEF Callers
<1> QED
  BY <1>1, <1>8, <1>9 DEF Lawful, Moved, Delivery, EofCaused

(* A line read that gets no room fails: what it appended is still in the   *)
(* buffer, and the stream may relapse.                                     *)
LEMMA LineStarvedLawful ==
  ASSUME StreamInv, call.pc = "line", call' = Starved("ERR"),
         UNCHANGED <<src, buff, isEOF, maxBuffSz, dest, ended>>
  PROVE  Lawful
<1>1. /\ call' \in Callers /\ call'.pc = "idle" /\ call'.fn = "line"
      /\ call'.ret = "ERR" /\ call'.starved = TRUE /\ call'.terms = call.terms
  <2>1. call' = [call EXCEPT !.pc = "idle", !.ret = "ERR", !.starved = TRUE]
    BY DEF Starved
  <2> QED
    BY <2>1, LineWorks DEF Callers
<1>2. Stored
  <2>1. Buffer(buff') /\ buff'.text = buff.text
    BY LineWorks
  <2> QED
    BY <2>1, LineWorks, SameStored
<1>3. LineIsALine'
  <2>1. \A i \in 1 .. (Len(dest'.got) - 1) : dest'.got[i] \notin call'.terms
    <3>1. dest'.got = dest.got /\ call'.terms = call.terms
      BY <1>1
    <3>2. \A i \in 1 .. (Len(dest.got) - 1) : dest.got[i] \notin call.terms
      <4>1. Unended(dest.got, call.terms) /\ Len(dest.got) \in Nat
        BY LineWorks
      <4> QED
        BY <4>1 DEF Unended
    <3> QED
      BY <3>1, <3>2
  <2> QED
    BY <1>1, <2>1 DEF LineIsALine
<1>4. ReturnTellsDelivery'
  BY <1>1 DEF ReturnTellsDelivery
<1>5. Promised'
  BY <1>1, <1>2, <1>3, <1>4, LineWorks, LineInv
<1>6. PICK k \in 0..Len(dest.got) : buff.text = First(dest.got, k)
  BY LineWorks
<1>7. Rest' = First(dest.got, k) \o Rest /\ ~Reading'
  <2>1. ~Reading'
    BY <1>1 DEF Reading
  <2>2. Rest' = buff'.text \o src'
    BY <2>1 DEF Rest
  <2> QED
    BY <1>6, <2>1, <2>2, LineWorks
<1>8. Delivery \/ Contract!Relapse
  <2>1. CASE k = 0
    <3>1. First(dest.got, k) = <<>>
      <4>1. First(dest.got, k) \in Seq(Nat) /\ Len(First(dest.got, k)) = 0
        BY <2>1, LineWorks, CutText
      <4> QED
        BY <4>1, EmptySeq
    <3>2. Rest' = Rest
      BY <1>7, <3>1, LineWorks, TextFacts
    <3>3. dest'.got = Delivered /\ Delivered \in Seq(Nat) /\ Rest \in Seq(Nat)
      BY LineWorks
    <3> QED
      BY <1>1, <3>2, <3>3, NothingStep
  <2>2. CASE k # 0
    <3>1. k \in 1..Len(dest.got)
      BY <2>2, LineWorks
    <3> QED
      BY <1>1, <1>7, <3>1, LineWorks, RelapseStep
  <2> QED
    BY <2>1, <2>2
<1> QED
  BY <1>1, <1>5, <1>8 DEF Lawful, Moved, Delivery, EofCaused

(* A text is the beginning of another still when more is appended to that. *)
LEMMA FirstOfConcat ==
  ASSUME NEW s \in Seq(Nat), NEW t \in Seq(Nat), NEW k \in 0..Len(s)
  PROVE  First(s \o t, k) = First(s, k) /\ k \in 0..Len(s \o t)
<1>1. /\ s \o t \in Seq(Nat) /\ Len(s \o t) = Len(s) + Len(t)
      /\ \A i \in 1 .. Len(s) + Len(t) : (s \o t)[i] =
           IF i <= Len(s) THEN s[i] ELSE t[i - Len(s)]
      /\ Len(s) \in Nat /\ Len(t) \in Nat
  BY ConcatProperties, LenProperties
<1>2. k \in 0..Len(s \o t)
  BY <1>1
<1>3. /\ First(s \o t, k) \in Seq(Nat) /\ Len(First(s \o t, k)) = k
      /\ \A i \in 1..k : First(s \o t, k)[i] = (s \o t)[i]
  BY <1>1, <1>2, CutText
<1>4. /\ First(s, k) \in Seq(Nat) /\ Len(First(s, k)) = k
      /\ \A i \in 1..k : First(s, k)[i] = s[i]
  BY CutText
<1>5. \A i \in 1..k : (s \o t)[i] = s[i]
  BY <1>1
<1>6. First(s \o t, k) = First(s, k)
  <2> DEFINE u == First(s \o t, k)
             v == First(s, k)
  <2>1. \A i \in 1..Len(u) : u[i] = v[i]
    BY <1>3, <1>4, <1>5
  <2>2. u \in Seq(Nat) /\ v \in Seq(Nat) /\ Len(u) = Len(v)
    BY <1>3, <1>4
  <2> HIDE DEF u, v
  <2>3. u = v
    BY <2>1, <2>2, SeqEqual
  <2> QED
    BY <2>3 DEF u, v
<1> QED
  BY <1>2, <1>6

(* Two texts without a terminator make one; a terminator at the end of the *)
(* second is the only one.                                                 *)
LEMMA UnendedConcat ==
  ASSUME NEW s \in Seq(Nat), NEW t \in Seq(Nat), NEW terms, Unended(s, terms)
  PROVE  /\ Unended(t, terms) => Unended(s \o t, terms)
         /\ (/\ 0 < Len(t) /\ t[Len(t)] \in terms
             /\ \A j \in 1..(Len(t) - 1) : t[j] \notin terms)
            => /\ (s \o t)[Len(s \o t)] \in terms
               /\ \A j \in 1..(Len(s \o t) - 1) : (s \o t)[j] \notin terms
<1>1. /\ s \o t \in Seq(Nat) /\ Len(s \o t) = Len(s) + Len(t)
      /\ \A i \in 1 .. Len(s) + Len(t) : (s \o t)[i] =
           IF i <= Len(s) THEN s[i] ELSE t[i - Len(s)]
      /\ Len(s) \in Nat /\ Len(t) \in Nat
  BY ConcatProperties, LenProperties
<1>2. ASSUME Unended(t, terms) PROVE Unended(s \o t, terms)
  <2> SUFFICES ASSUME NEW j \in 1 .. Len(s) + Len(t) PROVE (s \o t)[j] \notin terms
    BY <1>1 DEF Unended
  <2>1. CASE j <= Len(s)
    BY <1>1, <2>1 DEF Unended
  <2>2. CASE ~(j <= Len(s))
    <3>1. j - Len(s) \in 1..Len(t)
      BY <1>1, <2>2
    <3> QED
      BY <1>1, <1>2, <2>2, <3>1 DEF Unended
  <2> QED
    BY <2>1, <2>2
<1>3. ASSUME 0 < Len(t), t[Len(t)] \in terms,
             \A j \in 1..(Len(t) - 1) : t[j] \notin terms
      PROVE  /\ (s \o t)[Len(s \o t)] \in terms
             /\ \A j \in 1..(Len(s \o t) - 1) : (s \o t)[j] \notin terms
  <2>1. (s \o t)[Len(s) + Len(t)] = t[Len(t)]
    <3>1. Len(s) + Len(t) \in 1 .. Len(s) + Len(t) /\ ~(Len(s) + Len(t) <= Len(s))
      BY <1>1, <1>3
    <3>2. Len(s) + Len(t) - Len(s) = Len(t)
      BY <1>1
    <3> QED
      BY <1>1, <3>1, <3>2
  <2>2. ASSUME NEW j \in 1 .. (Len(s) + Len(t) - 1) PROVE (s \o t)[j] \notin terms
    <3>1. j \in 1 .. Len(s) + Len(t)
      BY <1>1
    <3>2. CASE j <= Len(s)
      BY <1>1, <3>1, <3>2 DEF Unended
    <3>3. CASE ~(j <= Len(s))
      <4>1. j - Len(s) \in 1..(Len(t) - 1)
        BY <1>1, <3>3
      <4> QED
        BY <1>1, <1>3, <3>1, <3>3, <4>1
    <3> QED
      BY <3>2, <3>3
  <2> QED
    BY <1>1, <1>3, <2>1, <2>2
<1> QED
  BY <1>2, <1>3

(* An answer of l characters: what the core stream is cut into. *)
LEMMA AnswerFacts ==
  ASSUME src \in Seq(Nat), NEW n \in Int, NEW l \in Answers(n)
  PROVE  /\ l \in 0..Len(src) /\ l <= n
         /\ First(src, l) \in Seq(Nat) /\ Len(First(src, l)) = l
         /\ After(src, l) \in Seq(Nat) /\ Len(After(src, l)) = Len(src) - l
         /\ src = First(src, l) \o After(src, l)
<1>1. Len(src) \in Nat
  BY LenProperties
<1>2. l \in 0..Len(src) /\ l <= n
  BY <1>1 DEF Answers, Smaller
<1> QED
  BY <1>2, CutText

(* A destination with room for a whole answer keeps its sentinel. *)
LEMMA RoomForAnswer ==
  ASSUME NEW d, Target(d), NEW u \in Seq(Nat), NEW n \in Nat,
         DestLen(d) + n + 1 <= d.mlen, 0 < d.mlen, Len(u) <= n
  PROVE  LET e == [old |-> d.old, got |-> d.got \o u, mlen |-> d.mlen]
         IN  /\ [d EXCEPT !.got = @ \o u] = e /\ Target(e) /\ 0 < e.mlen
             /\ DestLen(e) = DestLen(d) + Len(u)
<1>1. /\ d.old \in Nat /\ d.got \in Seq(Nat) /\ d.mlen \in Int /\ Len(d.got) \in Nat
      /\ Len(u) \in Nat /\ d \in [old : Nat, got : Seq(Nat), mlen : -1..MemMax]
  BY LenProperties, SizesAssumption DEF Target
<1> DEFINE w == d.got \o u
           e == [old |-> d.old, got |-> w, mlen |-> d.mlen]
<1>2. w \in Seq(Nat) /\ Len(w) = Len(d.got) + Len(u)
  BY <1>1, TextFacts
<1> HIDE DEF w
<1>3. [d EXCEPT !.got = w] = e
  <2>1. d \in [old : Nat, got : Seq(Nat), mlen : -1..MemMax]
    BY <1>1
  <2> QED
    BY <2>1, SMTT(30)
<1>4. /\ e \in [old : Nat, got : Seq(Nat), mlen : -1..MemMax]
      /\ e.old = d.old /\ e.got = w /\ e.mlen = d.mlen
  BY <1>1, <1>2
<1> HIDE DEF e
<1>5. DestLen(e) = d.old + Len(w) /\ DestLen(d) = d.old + Len(d.got)
  BY <1>4 DEF DestLen
<1>6. DestLen(e) = DestLen(d) + Len(u) /\ DestLen(e) < d.mlen
  BY <1>1, <1>2, <1>5
<1>7. Target(e)
  BY <1>1, <1>4, <1>6 DEF Target
<1>8. e = [old |-> d.old, got |-> d.got \o u, mlen |-> d.mlen]
  BY DEF w, e
<1>9. [d EXCEPT !.got = @ \o u] = e
  BY <1>3 DEF w
<1>10. 0 < e.mlen
  BY <1>4
<1> QED
  BY <1>6, <1>7, <1>8, <1>9, <1>10, Zenon

(* An answer ends the line at its terminator, or the line goes on. *)
LEMMA LineContinuesLawful ==
  ASSUME StreamInv, call.pc = "line", NEW d, Roomy(d),
         DestLen(dest) + maxBuffSz + 1 <= d.mlen, NEW l \in Answers(maxBuffSz), l # 0,
         LineContinues(d, First(src, l)), UNCHANGED maxBuffSz
  PROVE  Lawful
<1> DEFINE t == First(src, l)
           i == Terminator(t, call.terms)
           u == IF i = 0 THEN t ELSE First(t, i)
<1>1. /\ dest' = [d EXCEPT !.got = @ \o u] /\ src' = After(src, Len(t))
      /\ isEOF' = isEOF /\ ended' = ended /\ maxBuffSz' = maxBuffSz
      /\ i = 0 => call' = [call EXCEPT !.asked = TRUE] /\ buff' = buff
      /\ i # 0 => /\ buff' = [buff EXCEPT !.text = After(t, i)]
                  /\ call' = [Return("OK") EXCEPT !.asked = TRUE]
  BY DEF LineContinues
<1>0. /\ t = First(src, l) /\ i = Terminator(t, call.terms)
      /\ u = IF i = 0 THEN t ELSE First(t, i)
  OBVIOUS
<1> HIDE DEF t, i, u
<1>2. /\ t \in Seq(Nat) /\ Len(t) = l /\ l \in 1..Len(src) /\ l <= maxBuffSz
      /\ src' \in Seq(Nat) /\ Len(src') = Len(src) - l /\ src = t \o src'
  <2>1. maxBuffSz \in Int /\ src \in Seq(Nat) /\ Len(src) \in Nat
    BY LineWorks
  <2>2. /\ l \in 0..Len(src) /\ l <= maxBuffSz /\ t \in Seq(Nat) /\ Len(t) = l
        /\ After(src, l) \in Seq(Nat) /\ Len(After(src, l)) = Len(src) - l
        /\ src = t \o After(src, l)
    BY <1>0, <2>1, AnswerFacts
  <2>3. src' = After(src, l)
    BY <1>1, <2>2
  <2>4. l \in 1..Len(src)
    BY <2>1, <2>2
  <2> QED
    BY <2>2, <2>3, <2>4
<1>3. i \in 0..l
  BY <1>0, <1>2, TerminatorFacts
<1>4. u \in Seq(Nat) /\ Len(u) \in Nat /\ Len(u) <= l
  <2>1. l \in Nat
    BY <1>2, LenProperties
  <2>2. CASE i = 0
    BY <1>0, <1>2, <2>1, <2>2
  <2>3. CASE i # 0
    <3>1. i \in 0..Len(t) /\ u = First(t, i)
      BY <1>0, <1>2, <1>3, <2>3
    <3>2. u \in Seq(Nat) /\ Len(u) = i
      BY <1>2, <3>1, CutText
    <3> QED
      BY <1>3, <2>1, <3>2
  <2> QED
    BY <2>2, <2>3
<1>5. /\ Target(dest') /\ 0 < dest'.mlen /\ dest'.got = dest.got \o u
      /\ DestLen(dest') = DestLen(dest) + Len(u)
  <2>1. /\ Target(d) /\ 0 < d.mlen /\ d.got = dest.got /\ d.old = dest.old
        /\ DestLen(d) = DestLen(dest)
    BY DEF Roomy, DestLen
  <2>2. maxBuffSz \in Nat /\ Len(u) <= maxBuffSz /\ DestLen(d) + maxBuffSz + 1 <= d.mlen
    <3>1. maxBuffSz \in Nat /\ IntMax \in Nat
      BY LineWorks
    <3>2. l \in Nat
      BY <1>2, LenProperties
    <3>3. DestLen(d) + maxBuffSz + 1 <= d.mlen
      BY <2>1
    <3> QED
      BY <1>2, <1>4, <3>1, <3>2, <3>3
  <2>3. dest' = [d EXCEPT !.got = @ \o u]
    BY <1>1
  <2>4. /\ Target(dest') /\ 0 < dest'.mlen /\ dest'.got = d.got \o u
        /\ DestLen(dest') = DestLen(d) + Len(u)
    <3>1. /\ Target(d) /\ 0 < d.mlen /\ u \in Seq(Nat) /\ maxBuffSz \in Nat
          /\ DestLen(d) + maxBuffSz + 1 <= d.mlen /\ Len(u) <= maxBuffSz
      BY <1>4, <2>1, <2>2
    <3> DEFINE e == [old |-> d.old, got |-> d.got \o u, mlen |-> d.mlen]
    <3>2. /\ [d EXCEPT !.got = @ \o u] = e /\ Target(e) /\ 0 < e.mlen
          /\ DestLen(e) = DestLen(d) + Len(u)
      BY <3>1, RoomForAnswer
    <3>3. e.got = d.got \o u
      OBVIOUS
    <3>4. dest' = e
      BY <2>3, <3>2
    <3> HIDE DEF e
    <3> QED
      BY <3>2, <3>3, <3>4
  <2> QED
    BY <2>1, <2>4
<1>6. dest.got \in Seq(Nat) /\ Unended(dest.got, call.terms) /\ Len(dest.got) \in Nat
  BY LineWorks
<1>7. dest'.got \in Seq(Nat) /\ Len(dest'.got) = Len(dest.got) + Len(u)
  BY <1>4, <1>5, <1>6, TextFacts
<1>8. CASE i = 0
  <2>1. u = t /\ Unended(t, call.terms)
    BY <1>0, <1>2, <1>8, TerminatorFacts
  <2>2. /\ call' \in Callers /\ call'.pc = "line" /\ call'.fn = "line"
        /\ call'.ret = "OK" /\ ~call'.starved /\ call'.terms = call.terms
    <3>1. call' = [call EXCEPT !.asked = TRUE]
      BY <1>1, <1>8
    <3>2. /\ call \in Callers /\ call.fn = "line" /\ call.ret = "OK" /\ ~call.starved
      BY LineWorks
    <3> QED
      BY <3>1, <3>2 DEF Callers
  <2>3. buff' = buff
    BY <1>1, <1>8
  <2>4. Len(src') <= Len(src) /\ Len(src') \in Nat
    BY <1>2, LineWorks, LenProperties
  <2>5. Stored
    <3>1. /\ isEOF \in BOOLEAN /\ ended \in BOOLEAN /\ maxBuffSz \in 1..IntMax
          /\ Buffer(buff) /\ Len(buff.text) + Len(src) <= HeldMax + Len(Input)
          /\ Len(buff.text) \in Nat /\ Len(src) \in Nat /\ Len(Input) \in Nat
          /\ HeldMax \in Nat /\ Len(src) <= Len(Input)
      BY LineWorks, LenProperties DEF StreamInv, Buffer
    <3>2. Len(src') <= Len(Input) /\ Len(buff.text) + Len(src') <= HeldMax + Len(Input)
      BY <2>4, <3>1
    <3> QED
      BY <1>1, <1>2, <2>3, <3>1, <3>2 DEF Stored, Buffer
  <2>6. Unended(dest'.got, call'.terms)
    BY <1>2, <1>5, <1>6, <2>1, <2>2, UnendedConcat
  <2>7. AtWork'
    <3>1. 0 < dest'.mlen /\ maxBuffSz' < buff'.mlen /\ ~call'.starved
      BY <1>1, <1>5, <2>2, <2>3, LineWorks
    <3>2. DestLen(dest') + Len(src') < IntMax
      <4>1. /\ DestLen(dest) \in Nat /\ Len(src) \in Nat
            /\ DestLen(dest) + Len(src) < IntMax
        BY LineWorks
      <4>2. DestLen(dest') = DestLen(dest) + l /\ Len(src') = Len(src) - l /\ l \in Nat
        BY <1>2, <1>5, <2>1
      <4>3. (DestLen(dest) + l) + (Len(src) - l) = DestLen(dest) + Len(src)
        BY <4>1, <4>2
      <4> QED
        BY <4>1, <4>2, <4>3
    <3>3. \E n \in 0..Len(dest'.got) : buff'.text = First(dest'.got, n)
      <4>1. PICK n \in 0..Len(dest.got) : buff.text = First(dest.got, n)
        BY LineWorks
      <4> QED
        BY <1>4, <1>5, <1>6, <2>3, <4>1, FirstOfConcat
    <3>4. DestLen(dest)' + Len(src') < IntMax
      BY <3>2 DEF DestLen
    <3>5. Unended(dest.got, call.terms)'
      BY <2>6 DEF Unended
    <3>6. (\E n \in 0..Len(dest.got) : buff.text = First(dest.got, n))'
      BY <3>3 DEF First
    <3> QED
      BY <2>2, <3>1, <3>4, <3>5, <3>6 DEF AtWork
  <2>8. LineIsALine'
    <3>1. \A j \in 1..(Len(dest'.got) - 1) : dest'.got[j] \notin call'.terms
      <4>1. Len(dest'.got) \in Nat
        BY <1>7, LenProperties
      <4> QED
        BY <2>6, <4>1 DEF Unended
    <3> QED
      BY <2>2, <3>1 DEF LineIsALine, Idle
  <2>9. ReturnTellsDelivery'
    BY <2>2 DEF ReturnTellsDelivery, Returned, Idle
  <2>10. Promised'
    BY <1>5, <2>2, <2>5, <2>7, <2>8, <2>9, LineInv
  <2>11. Delivery
    <3>1. Rest' = src'
      <4>1. Rest' = <<>> \o src'
        BY <2>2 DEF Rest, Reading
      <4> QED
        BY <1>2, <4>1, TextFacts
    <3>2. dest'.got = Delivered \o t /\ Delivered \in Seq(Nat) /\ Rest = t \o src'
      BY <1>2, <1>5, <2>1, LineWorks
    <3>3. call'.starved \in BOOLEAN
      BY <2>2 DEF Callers
    <3> QED
      BY <1>2, <3>1, <3>2, <3>3, DeliverStep
  <2> QED
    BY <1>1, <2>10, <2>11 DEF Lawful, Moved, Delivery, EofCaused
<1>9. CASE i # 0
  <2>1. /\ u = First(t, i) /\ i \in 1..l /\ Len(u) = i /\ u[i] \in call.terms
        /\ \A j \in 1..(i - 1) : u[j] \notin call.terms
    <3>1. i \in 1..Len(t) /\ u = First(t, i)
      BY <1>0, <1>2, <1>9, CutAtTerminator
    <3>2. u[i] \in call.terms /\ \A j \in 1..(i - 1) : u[j] \notin call.terms
      BY <1>0, <1>2, <1>9, <3>1, CutAtTerminator, SMTT(30)
    <3>3. i \in 0..Len(t)
      BY <1>2, <1>3
    <3>4. Len(u) = i
      BY <1>2, <3>1, <3>3, CutText
    <3> QED
      BY <1>2, <3>1, <3>2, <3>4
  <2>2. /\ call' \in Callers /\ call'.pc = "idle" /\ call'.fn = "line"
        /\ call'.ret = "OK" /\ ~call'.starved /\ call'.terms = call.terms
    <3>1. call' = [[call EXCEPT !.pc = "idle", !.ret = "OK"] EXCEPT !.asked = TRUE]
      BY <1>1, <1>9 DEF Return
    <3>2. /\ call \in Callers /\ call.fn = "line" /\ ~call.starved
      BY LineWorks
    <3> QED
      BY <3>1, <3>2 DEF Callers
  <2>3. /\ After(t, i) \in Seq(Nat) /\ Len(After(t, i)) = l - i
        /\ t = u \o After(t, i)
    <3>1. i \in 0..Len(t)
      BY <1>2, <1>3
    <3> QED
      BY <1>2, <2>1, <3>1, CutText
  <2>4. /\ buff' \in [text : Seq(Nat), mlen : -1..MemMax]
        /\ buff'.text = After(t, i) /\ buff'.mlen = buff.mlen
    <3>1. buff' = [buff EXCEPT !.text = After(t, i)]
      BY <1>1, <1>9
    <3>2. buff \in [text : Seq(Nat), mlen : -1..MemMax]
      BY LineWorks DEF Buffer
    <3> QED
      BY <2>3, <3>1, <3>2
  <2>5. Stored
    <3>1. /\ isEOF \in BOOLEAN /\ ended \in BOOLEAN /\ maxBuffSz \in 1..IntMax
          /\ Len(src) \in Nat /\ Len(Input) \in Nat /\ HeldMax \in Nat
          /\ Len(src) <= Len(Input) /\ maxBuffSz < buff.mlen /\ IntMax \in Nat
      BY LineWorks
    <3>2. Len(buff'.text) = l - i /\ Len(src') = Len(src) - l /\ buff'.mlen \in Int
      BY <1>2, <2>3, <2>4, SizesAssumption
    <3>3. /\ Len(src') <= Len(Input) /\ Len(buff'.text) < buff'.mlen /\ 0 < buff'.mlen
          /\ Len(buff'.text) + Len(src') <= HeldMax + Len(Input)
      <4>1. l \in Nat /\ i \in Nat /\ l <= maxBuffSz /\ i <= l
        BY <1>2, <2>1
      <4> QED
        BY <2>4, <3>1, <3>2, <4>1
    <3>4. /\ isEOF' \in BOOLEAN /\ ended' \in BOOLEAN /\ maxBuffSz' \in 1..IntMax
          /\ src' \in Seq(Nat)
      BY <1>1, <1>2, <3>1
    <3> QED
      BY <2>4, <3>2, <3>3, <3>4 DEF Stored
  <2>6. LineIsALine'
    <3>1. Len(u) = i /\ 0 < Len(u)
      BY <2>1
    <3>2. u[Len(u)] \in call.terms /\ \A j \in 1..(Len(u) - 1) : u[j] \notin call.terms
      BY <2>1
    <3>3. /\ dest'.got[Len(dest'.got)] \in call'.terms
          /\ \A j \in 1..(Len(dest'.got) - 1) : dest'.got[j] \notin call'.terms
      BY <1>4, <1>5, <1>6, <2>2, <3>1, <3>2, UnendedConcat
    <3> QED
      BY <3>3 DEF LineIsALine
  <2>7. ReturnTellsDelivery'
    <3>1. Len(dest'.got) > 0
      BY <1>4, <1>6, <1>7, <2>1
    <3>2. dest'.got # <<>>
      BY <3>1, EmptySeq
    <3> QED
      BY <2>2, <3>2 DEF ReturnTellsDelivery
  <2>8. Promised'
    BY <1>5, <2>2, <2>5, <2>6, <2>7, LineInv
  <2>9. Delivery
    <3> DEFINE q == After(t, i) \o src'
    <3>1. q \in Seq(Nat) /\ Rest = u \o q
      <4>1. (u \o After(t, i)) \o src' = u \o (After(t, i) \o src')
        BY <1>2, <1>4, <2>3, TextFacts
      <4>2. Rest = (u \o After(t, i)) \o src'
        BY <1>2, <2>3, LineWorks
      <4> QED
        BY <1>2, <2>3, <4>1, <4>2, TextFacts
    <3>2. Rest' = q
      <4>1. Rest' = buff'.text \o src'
        BY <2>2 DEF Rest, Reading
      <4> QED
        BY <2>4, <4>1
    <3>3. dest'.got = Delivered \o u /\ Delivered \in Seq(Nat)
      BY <1>5, LineWorks
    <3>4. call'.starved \in BOOLEAN
      BY <2>2 DEF Callers
    <3> HIDE DEF q
    <3> QED
      BY <1>4, <3>1, <3>2, <3>3, <3>4, DeliverStep
  <2> QED
    BY <1>1, <2>8, <2>9 DEF Lawful, Moved, Delivery, EofCaused
<1> QED
  BY <1>8, <1>9

(* One request of a line read, whatever is granted and answered. *)
LEMMA LineStepLawful ==
  ASSUME StreamInv, LineStep
  PROVE  Lawful
<1>1. call.pc = "line" /\ UNCHANGED maxBuffSz
  BY DEF LineStep
<1>2. PICK g \in LineRoom :
        IF g.ok
        THEN \E l \in Answers(maxBuffSz) :
               IF l = 0 THEN LineEnds(g.d) ELSE LineContinues(g.d, First(src, l))
        ELSE /\ call' = Starved("ERR")
             /\ UNCHANGED <<src, buff, isEOF, dest, ended>>
  BY DEF LineStep
<1> DEFINE n == DestLen(dest) + maxBuffSz + 1
<1>3. /\ g.ok \in BOOLEAN
      /\ g.ok => Roomy(g.d) /\ n <= g.d.mlen
  <2>1. /\ Target(dest) /\ 0 < dest.mlen /\ DestLen(dest) \in Nat
        /\ maxBuffSz \in 1..IntMax /\ IntMax \in Nat
    BY <1>1, LineWorks
  <2>2. DestLen(dest) < dest.mlen /\ dest.mlen \in Int /\ dest.mlen <= IntMax
    BY <2>1, SizesAssumption DEF Target
  <2>3. n \in Nat /\ n <= 2 * IntMax + 1
    BY <2>1, <2>2
  <2>4. g \in Enlarged(dest, n)
    BY DEF LineRoom
  <2> HIDE DEF n
  <2> QED
    BY <2>1, <2>3, <2>4, EnlargedFacts DEF Roomy
<1>4. CASE g.ok
  <2>1. PICK l \in Answers(maxBuffSz) :
          IF l = 0 THEN LineEnds(g.d) ELSE LineContinues(g.d, First(src, l))
    BY <1>2, <1>4
  <2>2. CASE l = 0
    BY <1>1, <1>3, <1>4, <2>1, <2>2, LineEndsLawful
  <2>3. CASE l # 0
    BY <1>1, <1>3, <1>4, <2>1, <2>3, LineContinuesLawful
  <2> QED
    BY <2>2, <2>3
<1>5. CASE ~g.ok
  BY <1>1, <1>2, <1>5, LineStarvedLawful
<1> QED
  BY <1>3, <1>4, <1>5

-----------------------------------------------------------------------------
(* The block readers. *)

(* A text whose first characters are handed over, and what is left of it. *)
LEMMA PassCut ==
  ASSUME NEW t \in Seq(Nat), NEW n \in Int, NEW old \in Nat, old < n
  PROVE  LET enough == Len(t) + old >= n
             k == IF enough THEN n - old ELSE Len(t)
         IN  /\ enough \in BOOLEAN /\ k \in 0..Len(t) /\ old + k <= n
             /\ enough => old + k = n /\ 0 < k
             /\ ~enough => k = Len(t) /\ old + k < n
BY LenProperties

(* What a pass over the text t finds, whether the call has just begun or   *)
(* goes on; the characters of t are no longer in the core stream.          *)
PassBegins(t, b, d, c) ==
  /\ t \in Seq(Nat) /\ b \in [text : Seq(Nat), mlen : -1..MemMax]
  /\ Len(t) < b.mlen /\ maxBuffSz < b.mlen
  /\ Target(d) /\ 0 < d.mlen /\ d.got = Delivered
  /\ c \in Callers /\ c.fn = "block" /\ ~c.direct /\ DestLen(d) < c.n
  /\ c.asked => Len(t) <= c.n - DestLen(d) /\ t # <<>>
  /\ src' \in Seq(Nat) /\ Len(src') <= Len(Input) /\ Rest = t \o src'
  /\ DestLen(d) + Len(t) + Len(src') < IntMax
  /\ Len(t) + Len(src') <= HeldMax + Len(Input)

(* A pass of a block read hands over what the buffer has, ends the call    *)
(* when that suffices, and keeps the buffer when there is no memory.       *)
LEMMA PassLawful ==
  ASSUME StreamInv, NEW t, NEW b, NEW d, NEW c, PassBegins(t, b, d, c),
         Pass(b, t, d, c, isEOF), UNCHANGED <<maxBuffSz, ended>>
  PROVE  Lawful /\ Kept(d) /\ Dry
<1> DEFINE old == DestLen(d)
           enough == Len(t) + old >= c.n
           k == IF enough THEN c.n - old ELSE Len(t)
<1>1. PICK a \in Appended(d, First(t, k)) :
        /\ dest' = a.d
        /\ buff' = [b EXCEPT !.text = IF a.ok THEN After(t, k) ELSE t]
        /\ isEOF' = (isEOF \/ (~a.ok /\ ~enough /\ t = <<>>))
        /\ call' = [c EXCEPT !.pc = IF a.ok /\ ~enough THEN "block" ELSE "idle",
                             !.ret = IF a.d.got = <<>> THEN "ERR" ELSE "OK",
                             !.starved = ~a.ok]
  BY Zenon DEF Pass
<1>0. /\ t \in Seq(Nat) /\ b \in [text : Seq(Nat), mlen : -1..MemMax]
      /\ Len(t) < b.mlen /\ maxBuffSz < b.mlen
      /\ Target(d) /\ 0 < d.mlen /\ d.got = Delivered
      /\ c \in Callers /\ c.fn = "block" /\ ~c.direct /\ src' \in Seq(Nat)
      /\ Len(src') <= Len(Input) /\ Rest = t \o src'
      /\ Len(t) + Len(src') <= HeldMax + Len(Input)
  BY DEF PassBegins
<1>2. /\ old \in Nat /\ old < d.mlen /\ Len(t) \in Nat /\ Len(src') \in Nat
      /\ c.n \in Int /\ d.got \in Seq(Nat) /\ d.old \in Nat /\ Len(d.got) \in Nat
      /\ old = d.old + Len(d.got) /\ IntMax \in Nat /\ old < c.n /\ old = DestLen(d)
      /\ old + Len(t) + Len(src') < IntMax
      /\ c.asked => Len(t) <= c.n - old /\ t # <<>>
  <2>1. d.old \in Nat /\ d.got \in Seq(Nat) /\ Len(d.got) \in Nat
    BY <1>0, LenProperties DEF Target
  <2>2. old \in Nat /\ old < d.mlen /\ old = d.old + Len(d.got)
    BY <1>0, <2>1 DEF Target, DestLen
  <2>3. /\ Len(t) \in Nat /\ Len(src') \in Nat /\ c.n \in Int /\ IntMax \in Nat
    BY <1>0, LenProperties, SizesAssumption DEF Callers
  <2>4. /\ DestLen(d) < c.n /\ DestLen(d) + Len(t) + Len(src') < IntMax
        /\ c.asked => Len(t) <= c.n - DestLen(d) /\ t # <<>>
    BY DEF PassBegins
  <2> QED
    BY <2>1, <2>2, <2>3, <2>4
<1>3. /\ isEOF \in BOOLEAN /\ ended \in BOOLEAN /\ maxBuffSz \in 1..IntMax
  BY DEF StreamInv, Typed
<1>4. /\ enough \in BOOLEAN /\ k \in 0..Len(t) /\ old + k <= c.n
      /\ enough => old + k = c.n /\ 0 < k
      /\ ~enough => k = Len(t) /\ old + k < c.n
  <2> HIDE DEF old
  <2> QED
    BY <1>0, <1>2, PassCut
<1>5. /\ First(t, k) \in Seq(Nat) /\ Len(First(t, k)) = k /\ k \in Nat /\ k <= Len(t)
      /\ After(t, k) \in Seq(Nat) /\ Len(After(t, k)) = Len(t) - k
      /\ t = First(t, k) \o After(t, k)
  <2> HIDE DEF k, enough
  <2>1. k \in Nat /\ k <= Len(t)
    BY <1>2, <1>4
  <2> QED
    BY <1>0, <1>4, <2>1, CutText
<1> DEFINE p == First(t, k)
<1>6. a \in Appended(d, p)
  OBVIOUS
<1>7. c.n = DestLen(d) + k => enough
  BY <1>2, <1>4
<1>8. enough <=> Len(t) + old >= c.n
  OBVIOUS
<1> HIDE DEF p, k, enough, old
<1>9. p = First(t, k) /\ p \in Seq(Nat) /\ Len(p) = k
  BY <1>5 DEF p
<1>10. /\ a.ok \in BOOLEAN /\ Target(a.d) /\ 0 < a.d.mlen /\ a.d.old = d.old
       /\ ~a.ok => a.d = d
       /\ a.ok => a.d.got = d.got \o p /\ DestLen(a.d) = old + k
  <2>1. DestLen(d) + Len(p) < IntMax /\ DestLen(d) = old
    <3>1. Len(p) <= Len(t) /\ Len(p) \in Nat
      BY <1>5, <1>9
    <3>2. /\ old \in Nat /\ Len(t) \in Nat /\ Len(src') \in Nat /\ IntMax \in Nat
          /\ old + Len(t) + Len(src') < IntMax
      BY <1>2
    <3>3. old + Len(p) < IntMax
      BY <3>1, <3>2
    <3> QED
      BY <1>2, <3>3, Zenon
  <2>2. /\ a.ok \in BOOLEAN /\ Target(a.d) /\ 0 < a.d.mlen /\ a.d.old = d.old
        /\ ~a.ok => a.d = d
        /\ a.ok => a.d.got = d.got \o p /\ DestLen(a.d) = DestLen(d) + Len(p)
    <3>1. a \in Appended(d, p) /\ p \in Seq(Nat) /\ DestLen(d) + Len(p) < IntMax
      BY <1>6, <1>9, <2>1, Zenon
    <3>2. Target(d) /\ 0 < d.mlen
      BY <1>0
    <3> QED
      BY <3>1, <3>2, AppendedFacts
  <2> QED
    BY <1>9, <2>1, <2>2

<1> DEFINE r == IF a.d.got = <<>> THEN "ERR" ELSE "OK"
<1>11. /\ dest' = a.d /\ maxBuffSz' = maxBuffSz /\ ended' = ended
       /\ r \in {"OK", "ERR"} /\ (r = "ERR" <=> a.d.got = <<>>)
  BY <1>1
<1>12. /\ isEOF' = (isEOF \/ (~a.ok /\ ~enough /\ t = <<>>)) /\ isEOF' \in BOOLEAN
       /\ a.ok => isEOF' = isEOF
  <2>1. isEOF' = (isEOF \/ (~a.ok /\ ~enough /\ t = <<>>))
    BY <1>1
  <2>2. (isEOF \/ (~a.ok /\ ~enough /\ t = <<>>)) \in BOOLEAN
    OBVIOUS
  <2>3. a.ok => (isEOF \/ (~a.ok /\ ~enough /\ t = <<>>)) = isEOF
    BY <1>3, <1>10, Zenon
  <2> QED
    BY <2>1, <2>2, <2>3, Zenon
<1>13. ASSUME NEW u \in Seq(Nat), buff' = [b EXCEPT !.text = u],
              Len(u) <= Len(t)
       PROVE  Stored /\ buff'.text = u /\ buff'.mlen = b.mlen
  <2>1. /\ buff' \in [text : Seq(Nat), mlen : -1..MemMax]
        /\ buff'.text = u /\ buff'.mlen = b.mlen
    BY <1>0, <1>13
  <2>2. Len(u) \in Nat /\ b.mlen \in Int /\ HeldMax \in Nat /\ Len(Input) \in Nat
    BY <1>0, <1>13, LenProperties, SizesAssumption, StreamAssumption
  <2>3. /\ Len(buff'.text) < buff'.mlen /\ 0 < buff'.mlen
        /\ Len(buff'.text) + Len(src') <= HeldMax + Len(Input)
    <3>1. /\ Len(t) < b.mlen /\ Len(t) + Len(src') <= HeldMax + Len(Input)
          /\ Len(t) \in Nat /\ Len(src') \in Nat
      BY <1>0, <1>2
    <3>2. Len(u) <= Len(t) /\ Len(buff'.text) = Len(u) /\ buff'.mlen = b.mlen
      BY <1>13, <2>1
    <3> QED
      BY <2>2, <3>1, <3>2
  <2>4. buff'.mlen \in Int /\ ended' \in BOOLEAN /\ maxBuffSz' \in 1..IntMax
    BY <1>3, <1>11, <2>1, <2>2
  <2> QED
    BY <1>0, <1>12, <2>1, <2>3, <2>4 DEF Stored
<1>14. Rest = t \o src' /\ Delivered \in Seq(Nat) /\ d.got = Delivered
  BY <1>0, <1>2
<1> HIDE DEF r
<1>15. Kept(d)
  <2>1. call' = [c EXCEPT !.pc = IF a.ok /\ ~enough THEN "block" ELSE "idle",
                          !.ret = r, !.starved = ~a.ok]
    BY <1>1 DEF r
  <2>2. call'.fn = "block" /\ call'.pc \in {"idle", "block"}
    BY <1>0, <2>1 DEF Callers
  <2> QED
    BY <1>10, <1>11, <2>2 DEF Kept
<1>16. CASE a.ok /\ enough
  <2>1. /\ call' = [c EXCEPT !.pc = "idle", !.ret = r, !.starved = FALSE]
        /\ buff' = [b EXCEPT !.text = After(t, k)]
    <3>1. (~a.ok) = FALSE /\ (a.ok /\ ~enough) = FALSE
      BY <1>10, <1>16, Zenon
    <3>2. call' = [c EXCEPT !.pc = IF FALSE THEN "block" ELSE "idle",
                            !.ret = IF a.d.got = <<>> THEN "ERR" ELSE "OK",
                            !.starved = FALSE]
      BY <1>1, <3>1, Zenon
    <3> QED
      BY <1>1, <1>16, <3>2 DEF r
  <2>2. /\ call' \in Callers /\ call'.pc = "idle" /\ call'.fn = "block"
        /\ call'.ret = r /\ call'.starved = FALSE /\ call'.n = c.n
        /\ call'.asked = c.asked /\ call'.direct = c.direct
    BY <1>0, <1>11, <2>1 DEF Callers
  <2>3. Stored /\ buff'.text = After(t, k)
    BY <1>2, <1>5, <1>13, <2>1
  <2>4. /\ dest'.got = Delivered \o p /\ DestLen(dest') = c.n /\ Target(dest')
        /\ dest'.got # <<>>
    <3>1. a.d.got = d.got \o p /\ DestLen(a.d) = c.n
      <4>1. old + k = c.n
        BY <1>4, <1>16
      <4>2. a.d.got = d.got \o p /\ DestLen(a.d) = old + k
        BY <1>10, <1>16
      <4> QED
        BY <4>1, <4>2, Zenon
    <3>2. Len(a.d.got) = Len(d.got) + k /\ 0 < k
      <4>1. 0 < k
        BY <1>4, <1>16
      <4>2. Len(a.d.got) = Len(d.got) + Len(p)
        BY <1>2, <1>9, <3>1, TextFacts
      <4> QED
        BY <1>9, <4>1, <4>2, Zenon
    <3>3. a.d.got # <<>>
      <4>1. Len(a.d.got) # 0
        BY <1>2, <1>5, <3>2
      <4> QED
        BY <4>1, EmptySeq
    <3> QED
      BY <1>10, <1>11, <1>14, <3>1, <3>3
  <2>5. c.asked => After(t, k) = <<>>
    <3>1. ASSUME c.asked PROVE Len(After(t, k)) = 0
      <4>1. Len(t) <= c.n - old /\ old + k = c.n
        BY <1>2, <1>4, <1>16, <3>1
      <4>2. Len(t) <= k
        BY <1>2, <1>5, <4>1
      <4> QED
        BY <1>2, <1>5, <4>2
    <3> QED
      BY <1>5, <3>1, EmptySeq
  <2>6. BlockIsExact'
    <3>1. DestLen(dest)' = c.n
      BY <2>4 DEF DestLen
    <3>2. c.n <= c.n
      BY <1>2
    <3> QED
      BY <2>2, <2>3, <2>5, <3>1, <3>2 DEF BlockIsExact
  <2>7. ReturnTellsDelivery'
    BY <1>11, <2>2, <2>4 DEF ReturnTellsDelivery
  <2>8. Promised'
    BY <2>2, <2>3, <2>4, <2>6, <2>7, BlockInv
  <2>9. Delivery
    <3> DEFINE q == After(t, k) \o src'
    <3>1. q \in Seq(Nat) /\ Rest = p \o q
      <4>1. (p \o After(t, k)) \o src' = p \o (After(t, k) \o src')
        <5>1. p \in Seq(Nat) /\ After(t, k) \in Seq(Nat) /\ src' \in Seq(Nat)
          BY <1>0, <1>5, <1>9, Zenon
        <5> QED
          BY <5>1, TextFacts, ZenonT(60)
      <4>2. Rest = (p \o After(t, k)) \o src'
        BY <1>5, <1>9, <1>14
      <4> QED
        BY <1>0, <1>5, <4>1, <4>2, TextFacts
    <3>2. Rest' = q
      <4>1. Rest' = buff'.text \o src'
        BY <2>2 DEF Rest, Reading
      <4> QED
        BY <2>3, <4>1
    <3>3. call'.starved \in BOOLEAN
      BY <2>2
    <3> HIDE DEF q
    <3> QED
      BY <1>9, <1>14, <2>4, <3>1, <3>2, <3>3, DeliverStep
  <2>10. Dry
    BY <2>4 DEF Dry
  <2> QED
    BY <1>12, <1>15, <1>16, <2>8, <2>9, <2>10 DEF Lawful, Moved, Delivery, EofCaused

<1>17. CASE a.ok /\ ~enough
  <2>1. k = Len(t) /\ old + k < c.n /\ p = t /\ After(t, k) = <<>>
    <3>1. k = Len(t) /\ old + k < c.n
      BY <1>4, <1>17
    <3> QED
      BY <1>0, <1>9, <3>1, WholeText
  <2>2. /\ call' = [c EXCEPT !.pc = "block", !.ret = r, !.starved = FALSE]
        /\ buff' = [b EXCEPT !.text = <<>>]
    <3>1. (~a.ok) = FALSE /\ (a.ok /\ ~enough) = TRUE
      BY <1>10, <1>17, Zenon
    <3>2. call' = [c EXCEPT !.pc = IF TRUE THEN "block" ELSE "idle",
                            !.ret = IF a.d.got = <<>> THEN "ERR" ELSE "OK",
                            !.starved = FALSE]
      BY <1>1, <3>1, Zenon
    <3>3. buff' = [b EXCEPT !.text = After(t, k)]
      BY <1>1, <1>17
    <3> QED
      BY <2>1, <3>2, <3>3 DEF r
  <2>3. /\ call' \in Callers /\ call'.pc = "block" /\ call'.fn = "block"
        /\ call'.starved = FALSE /\ call'.n = c.n /\ ~call'.direct
    BY <1>0, <1>11, <2>2 DEF Callers
  <2>4. Stored /\ buff'.text = <<>> /\ buff'.mlen = b.mlen
    <3>1. <<>> \in Seq(Nat) /\ Len(<<>>) <= Len(t)
      BY <1>2, EmptySeq
    <3> QED
      BY <1>13, <2>2, <3>1
  <2>5. dest'.got = Delivered \o t /\ DestLen(dest') = old + Len(t) /\ Target(dest')
        /\ 0 < dest'.mlen
    <3>1. a.d.got = d.got \o p /\ DestLen(a.d) = old + k
      BY <1>10, <1>17
    <3> QED
      BY <1>10, <1>11, <1>14, <2>1, <3>1
  <2>6. AtWork'
    <3>1. /\ 0 < dest'.mlen /\ maxBuffSz' < buff'.mlen /\ ~call'.starved
      BY <1>0, <1>11, <2>3, <2>4, <2>5
    <3>2. DestLen(dest)' = old + Len(t)
      BY <2>5 DEF DestLen
    <3>3. DestLen(dest)' + Len(src') < IntMax
      <4>1. (old + Len(t)) + Len(src') < IntMax
        BY <1>2
      <4> QED
        BY <3>2, <4>1, Zenon
    <3>4. DestLen(dest)' < call'.n
      <4>1. old + Len(t) < c.n
        BY <2>1
      <4> QED
        BY <2>3, <3>2, <4>1, Zenon
    <3> QED
      BY <2>3, <2>4, <3>1, <3>3, <3>4 DEF AtWork
  <2>7. BlockIsExact'
    <3>1. DestLen(dest)' <= call'.n
      <4>1. old + Len(t) <= c.n
        BY <1>2, <2>1, SMTT(30)
      <4>2. DestLen(dest)' = old + Len(t)
        BY <2>5 DEF DestLen
      <4> QED
        BY <2>3, <4>1, <4>2, Zenon
    <3> QED
      BY <2>3, <3>1 DEF BlockIsExact, Idle
  <2>8. ReturnTellsDelivery'
    BY <2>3 DEF ReturnTellsDelivery, Returned, Idle
  <2>9. Promised'
    BY <2>3, <2>4, <2>5, <2>6, <2>7, <2>8, BlockInv
  <2>10. Delivery
    <3>1. Rest' = src'
      <4>1. Rest' = <<>> \o src'
        BY <2>3 DEF Rest, Reading
      <4> QED
        BY <1>0, <4>1, TextFacts
    <3>2. call'.starved \in BOOLEAN
      BY <2>3
    <3> QED
      BY <1>0, <1>14, <2>5, <3>1, <3>2, DeliverStep
  <2>11. Dry
    BY <2>3 DEF Dry
  <2> QED
    BY <1>12, <1>15, <1>17, <2>9, <2>10, <2>11 DEF Lawful, Moved, Delivery, EofCaused
<1>18. CASE ~a.ok
  <2>1. a.d = d
    BY <1>10, <1>18
  <2>2. /\ call' = [c EXCEPT !.pc = "idle", !.ret = r, !.starved = TRUE]
        /\ buff' = [b EXCEPT !.text = t]
    <3>1. (~a.ok) = TRUE /\ (a.ok /\ ~enough) = FALSE
      BY <1>18, Zenon
    <3>2. call' = [c EXCEPT !.pc = IF FALSE THEN "block" ELSE "idle",
                            !.ret = IF a.d.got = <<>> THEN "ERR" ELSE "OK",
                            !.starved = TRUE]
      BY <1>1, <3>1, Zenon
    <3>3. buff' = [b EXCEPT !.text = t]
      BY <1>1, <1>18
    <3> QED
      BY <3>2, <3>3 DEF r
  <2>3. /\ call' \in Callers /\ call'.pc = "idle" /\ call'.fn = "block"
        /\ call'.starved = TRUE /\ call'.n = c.n
    BY <1>0, <1>11, <2>2 DEF Callers
  <2>4. Stored /\ buff'.text = t
    <3>1. t \in Seq(Nat) /\ Len(t) <= Len(t)
      BY <1>0, <1>2
    <3>2. buff' = [b EXCEPT !.text = t]
      BY <2>2
    <3> QED
      BY <1>13, <3>1, <3>2
  <2>5. dest'.got = Delivered /\ Target(dest') /\ DestLen(dest') = old
    BY <1>0, <1>2, <1>11, <2>1
  <2>6. BlockIsExact'
    <3>1. DestLen(dest)' <= call'.n
      <4>1. old <= c.n
        BY <1>2
      <4>2. DestLen(dest)' = old
        BY <2>5 DEF DestLen
      <4> QED
        BY <2>3, <4>1, <4>2, Zenon
    <3> QED
      BY <2>3, <3>1 DEF BlockIsExact
  <2>7. ReturnTellsDelivery'
    BY <2>3 DEF ReturnTellsDelivery
  <2>8. Promised'
    BY <2>3, <2>4, <2>5, <2>6, <2>7, BlockInv
  <2>9. Delivery
    <3>1. Rest' = Rest
      <4>1. Rest' = buff'.text \o src'
        BY <2>3 DEF Rest, Reading
      <4> QED
        BY <1>14, <2>4, <4>1
    <3>2. Rest \in Seq(Nat)
      BY <1>0, TextFacts
    <3>3. call'.starved \in BOOLEAN
      BY <2>3
    <3> QED
      BY <1>14, <2>5, <3>1, <3>2, <3>3, NothingStep
  <2>10. EofCaused
    <3>1. ~isEOF /\ isEOF' => t = <<>>
      BY <1>12
    <3> QED
      BY <2>3, <2>4, <3>1 DEF EofCaused
  <2>11. Dry
    BY <2>3 DEF Dry
  <2> QED
    BY <1>15, <2>8, <2>9, <2>10, <2>11 DEF Lawful, Moved, Delivery
<1> QED
  BY <1>4, <1>10, <1>16, <1>17, <1>18

(* Between two requests of a block read. *)
LEMMA BlockWorks ==
  ASSUME StreamInv, call.pc = "block"
  PROVE  /\ src \in Seq(Nat) /\ Len(src) \in Nat /\ Len(src) <= Len(Input)
         /\ Len(Input) \in Nat /\ HeldMax \in Nat
         /\ isEOF \in BOOLEAN /\ ended \in BOOLEAN /\ maxBuffSz \in 1..IntMax
         /\ IntMax \in Nat /\ Target(dest) /\ 0 < dest.mlen /\ dest.got \in Seq(Nat)
         /\ DestLen(dest) \in Nat /\ DestLen(dest) + Len(src) < IntMax
         /\ Buffer(buff) /\ maxBuffSz < buff.mlen /\ buff.text = <<>>
         /\ call \in Callers /\ call.fn = "block" /\ ~call.starved /\ ~call.direct
         /\ DestLen(dest) < call.n /\ call.n \in Int
         /\ Reading /\ Delivered = dest.got /\ Rest = src
<1>1. Reading /\ AtWork
  BY DEF StreamInv, Reading
<1>2. /\ src \in Seq(Nat) /\ dest.got \in Seq(Nat) /\ Target(dest) /\ dest.old \in Nat
      /\ call.fn = "block"
  BY <1>1 DEF StreamInv, Typed, Target, AtWork
<1>3. /\ Len(src) \in Nat /\ Len(dest.got) \in Nat /\ Len(Input) \in Nat
      /\ HeldMax \in Nat /\ IntMax \in Nat /\ DestLen(dest) \in Nat
  BY <1>2, LenProperties, StreamAssumption, SizesAssumption DEF DestLen
<1>4. Delivered = dest.got /\ Rest = src
  BY <1>1, <1>2, TextFacts DEF Delivered, Rest
<1> QED
  BY <1>1, <1>2, <1>3, <1>4 DEF StreamInv, Typed, AtWork, Callers

(* An empty answer ends a block read, and with it the stream. *)
LEMMA BlockEndsLawful ==
  ASSUME StreamInv, call.pc = "block",
         buff' = [buff EXCEPT !.text = <<>>], isEOF' = TRUE, ended' = TRUE,
         call' = [[call EXCEPT !.asked = TRUE]
                    EXCEPT !.pc = "idle",
                           !.ret = IF dest.got = <<>> THEN "ERR" ELSE "OK"],
         UNCHANGED <<src, dest, maxBuffSz>>
  PROVE  Lawful /\ Kept(dest) /\ Dry
<1> DEFINE r == IF dest.got = <<>> THEN "ERR" ELSE "OK"
<1>1. /\ call' \in Callers /\ call'.pc = "idle" /\ call'.fn = "block" /\ call'.ret = r
      /\ ~call'.starved /\ call'.n = call.n
  <2>1. call \in Callers /\ call.fn = "block" /\ ~call.starved /\ r \in {"OK", "ERR"}
    BY BlockWorks
  <2>2. call' = [[call EXCEPT !.asked = TRUE] EXCEPT !.pc = "idle", !.ret = r]
    OBVIOUS
  <2> HIDE DEF r
  <2> QED
    BY <2>1, <2>2 DEF Callers
<1>2. /\ buff' \in [text : Seq(Nat), mlen : -1..MemMax] /\ buff'.text = <<>>
      /\ buff'.mlen = buff.mlen /\ Len(buff'.text) = 0 /\ buff.mlen \in Int
  BY BlockWorks, EmptySeq, SizesAssumption, SMTT(30) DEF Buffer
<1>3. Stored
  <2>1. /\ src \in Seq(Nat) /\ Len(src) \in Nat /\ Len(src) <= Len(Input)
        /\ Len(Input) \in Nat /\ HeldMax \in Nat /\ maxBuffSz \in 1..IntMax
        /\ maxBuffSz < buff.mlen /\ IntMax \in Nat
    BY BlockWorks
  <2>2. 0 < buff'.mlen /\ Len(buff'.text) + Len(src') <= HeldMax + Len(Input)
    BY <1>2, <2>1
  <2> QED
    BY <1>2, <2>1, <2>2 DEF Stored
<1>4. BlockIsExact'
  <2>1. DestLen(dest)' <= call'.n
    <3>1. DestLen(dest) <= call.n
      BY BlockWorks
    <3>2. DestLen(dest)' = DestLen(dest)
      BY DEF DestLen
    <3> QED
      BY <1>1, <3>1, <3>2, Zenon
  <2>2. ended' /\ Bseof'
    BY <1>2 DEF Bseof
  <2> QED
    BY <1>2, <2>1, <2>2 DEF BlockIsExact
<1>5. ReturnTellsDelivery'
  BY <1>1 DEF ReturnTellsDelivery
<1>6. Promised'
  BY <1>1, <1>3, <1>4, <1>5, BlockWorks, BlockInv
<1>7. Delivery
  <2>1. Rest' = Rest
    <3>1. Rest' = buff'.text \o src'
      BY <1>1 DEF Rest, Reading
    <3> QED
      BY <1>2, <3>1, BlockWorks, TextFacts
  <2> QED
    BY <1>1, <2>1, BlockWorks, NothingStep DEF Callers
<1>8. Kept(dest) /\ Dry
  BY BlockWorks DEF Kept, Dry
<1> QED
  BY <1>6, <1>7, <1>8 DEF Lawful, Moved, Delivery, EofCaused

(* One request of a block read, whatever is answered and granted. *)
LEMMA BlockStepLawful ==
  ASSUME StreamInv, BlockStep
  PROVE  Lawful /\ Kept(dest) /\ Dry
<1>1. call.pc = "block" /\ UNCHANGED maxBuffSz
  BY DEF BlockStep
<1> DEFINE c == [call EXCEPT !.asked = TRUE]
<1>2. PICK l \in Answers(Request) :
        IF l = 0
        THEN /\ buff' = [buff EXCEPT !.text = <<>>]
             /\ isEOF' = TRUE
             /\ ended' = TRUE
             /\ call' = [c EXCEPT !.pc = "idle",
                                  !.ret = IF dest.got = <<>> THEN "ERR" ELSE "OK"]
             /\ UNCHANGED <<src, dest>>
        ELSE /\ src' = After(src, l)
             /\ Pass(buff, First(src, l), dest, c, isEOF)
             /\ UNCHANGED ended
  BY Zenon DEF BlockStep
<1>3. CASE l = 0
  BY <1>1, <1>2, <1>3, BlockEndsLawful
<1>4. CASE l # 0
  <2>1. /\ c \in Callers /\ c.fn = "block" /\ c.n = call.n
        /\ ~c.direct
    BY <1>1, BlockWorks DEF Callers
  <2>2. /\ src' = After(src, l) /\ Pass(buff, First(src, l), dest, c, isEOF)
        /\ ended' = ended
    BY <1>2, <1>4
  <2> DEFINE t == First(src, l)
  <2> HIDE DEF c
  <2>3. Request \in Int /\ Request <= maxBuffSz /\ Request <= call.n - DestLen(dest)
    <3>1. call.n \in Int /\ DestLen(dest) \in Nat /\ maxBuffSz \in Int
      BY <1>1, BlockWorks
    <3> QED
      BY <3>1 DEF Request, Smaller
  <2>4. /\ l \in 0..Len(src) /\ l <= Request /\ t \in Seq(Nat) /\ Len(t) = l
        /\ src' \in Seq(Nat) /\ Len(src') = Len(src) - l /\ src = t \o src'
    BY <1>1, <2>2, <2>3, AnswerFacts, BlockWorks
  <2> HIDE DEF t
  <2>5. PassBegins(t, buff, dest, c)
    <3>1. /\ buff \in [text : Seq(Nat), mlen : -1..MemMax] /\ maxBuffSz < buff.mlen
          /\ maxBuffSz \in Int /\ buff.mlen \in Int /\ Len(src) \in Nat
          /\ DestLen(dest) \in Nat /\ call.n \in Int /\ DestLen(dest) < call.n
          /\ DestLen(dest) + Len(src) < IntMax /\ IntMax \in Nat
          /\ Len(src) <= Len(Input) /\ Len(Input) \in Nat /\ HeldMax \in Nat
      BY <1>1, BlockWorks, SizesAssumption DEF Buffer
    <3>2. /\ Target(dest) /\ 0 < dest.mlen /\ dest.got = Delivered
          /\ Rest = t \o src'
      BY <1>1, <2>4, BlockWorks
    <3>3. /\ Len(t) < buff.mlen /\ DestLen(dest) < c.n /\ Len(src') <= Len(Input)
          /\ Len(t) <= c.n - DestLen(dest)
          /\ Len(t) + Len(src') <= HeldMax + Len(Input)
      BY <2>1, <2>3, <2>4, <3>1, SMTT(30)
    <3>4. DestLen(dest) + Len(t) + Len(src') < IntMax
      <4>1. Len(t) + Len(src') = Len(src) /\ Len(t) \in Nat /\ Len(src') \in Nat
        BY <2>4, <3>1
      <4> QED
        BY <3>1, <4>1
    <3>5. t # <<>>
      BY <1>4, <2>4, EmptySeq
    <3> QED
      BY <2>1, <2>4, <3>1, <3>2, <3>3, <3>4, <3>5 DEF PassBegins
  <2> QED
    BY <1>1, <2>2, <2>5, PassLawful DEF t
<1> QED
  BY <1>3, <1>4

(* One request for the whole length, with nothing buffered. *)
LEMMA DirectLawful ==
  ASSUME StreamInv, Idle, NEW b, Buffer(b), b.text = buff.text, b.text = <<>>,
         NEW d, Target(d), d.got = <<>>, 0 < d.mlen,
         NEW c, Fresh(c, "block"), DestLen(d) < c.n, c.n < d.mlen,
         Direct(d, c), buff' = b, UNCHANGED maxBuffSz
  PROVE  Lawful /\ Kept(d) /\ Dry
<1> DEFINE old == DestLen(d)
<1>1. PICK l \in Answers(c.n - old) :
        /\ dest' = [d EXCEPT !.got = First(src, l)]
        /\ src' = After(src, l)
        /\ isEOF' = (isEOF \/ l = 0)
        /\ ended' = (ended \/ l = 0)
        /\ call' = [c EXCEPT !.ret = IF l = 0 THEN "ERR" ELSE "OK",
                             !.asked = TRUE, !.direct = TRUE]
  BY DEF Direct
<1>2. /\ src \in Seq(Nat) /\ isEOF \in BOOLEAN /\ ended \in BOOLEAN
      /\ maxBuffSz \in 1..IntMax /\ Len(src) \in Nat /\ Len(Input) \in Nat
      /\ HeldMax \in Nat /\ Len(src) <= Len(Input)
  BY LenProperties, StreamAssumption DEF StreamInv, Typed
<1>3. /\ d.old \in Nat /\ old = d.old /\ c.n \in Int /\ d.mlen \in Int
      /\ d \in [old : Nat, got : Seq(Nat), mlen : -1..MemMax]
  BY EmptySeq, SizesAssumption DEF Target, DestLen, Fresh, Callers
<1> DEFINE p == First(src, l)
           r == IF l = 0 THEN "ERR" ELSE "OK"
<1>4. dest' = [d EXCEPT !.got = p] /\ r \in {"OK", "ERR"} /\ (r = "ERR" <=> l = 0)
  BY <1>1
<1>5. /\ l \in 0..Len(src) /\ l <= c.n - old /\ p \in Seq(Nat) /\ Len(p) = l
      /\ src' \in Seq(Nat) /\ Len(src') = Len(src) - l /\ src = p \o src'
  <2>1. c.n - old \in Int
    BY <1>3
  <2>2. /\ l \in 0..Len(src) /\ l <= c.n - old /\ p \in Seq(Nat) /\ Len(p) = l
        /\ After(src, l) \in Seq(Nat) /\ Len(After(src, l)) = Len(src) - l
        /\ src = p \o After(src, l)
    <3> HIDE DEF old
    <3> QED
      BY <1>2, <2>1, AnswerFacts
  <2>3. src' = After(src, l)
    BY <1>1
  <2> HIDE DEF p
  <2> QED
    BY <2>2, <2>3
<1>6. call' = [c EXCEPT !.ret = r, !.asked = TRUE, !.direct = TRUE]
  BY <1>1
<1> HIDE DEF p, r, old
<1>7. /\ call' \in Callers /\ call'.pc = "idle" /\ call'.fn = "block" /\ call'.ret = r
      /\ ~call'.starved /\ call'.n = c.n /\ call'.direct = TRUE
  BY <1>4, <1>6 DEF Fresh, Callers
<1>8. /\ dest' \in [old : Nat, got : Seq(Nat), mlen : -1..MemMax]
      /\ dest'.old = d.old /\ dest'.got = p /\ dest'.mlen = d.mlen
  BY <1>3, <1>4, <1>5
<1>9. DestLen(dest') = d.old + l /\ DestLen(dest') <= c.n /\ DestLen(dest') < d.mlen
  <2>1. DestLen(dest') = d.old + l
    BY <1>5, <1>8 DEF DestLen
  <2>2. d.old + l <= c.n /\ d.old + l < d.mlen
    <3>1. l \in Nat /\ l <= c.n - d.old
      BY <1>2, <1>3, <1>5
    <3> QED
      BY <1>3, <3>1
  <2> QED
    BY <2>1, <2>2, Zenon
<1>10. Target(dest')
  BY <1>8, <1>9 DEF Target
<1>11. isEOF' \in BOOLEAN /\ ended' \in BOOLEAN
  <2>1. (isEOF \/ l = 0) \in BOOLEAN /\ (ended \/ l = 0) \in BOOLEAN
    OBVIOUS
  <2> QED
    BY <1>1, <2>1, Zenon
<1>12. buff'.text = <<>> /\ Len(buff'.text) = 0
  BY EmptySeq
<1>13. Stored
  <2>1. Len(src') <= Len(Input) /\ Len(buff'.text) + Len(src') <= HeldMax + Len(Input)
    <3>1. l \in Nat /\ Len(src') = Len(src) - l
      BY <1>2, <1>5
    <3> QED
      BY <1>2, <1>12, <3>1
  <2> QED
    BY <1>2, <1>5, <1>11, <2>1 DEF Stored, Buffer
<1>14. BlockIsExact'
  <2>1. DestLen(dest)' <= call'.n
    <3>1. DestLen(dest)' = DestLen(dest')
      BY DEF DestLen
    <3> QED
      BY <1>7, <1>9, <3>1, Zenon
  <2> QED
    BY <1>7, <1>12, <2>1 DEF BlockIsExact
<1>15. ReturnTellsDelivery'
  <2>1. p = <<>> <=> l = 0
    BY <1>5, EmptySeq
  <2> QED
    BY <1>4, <1>7, <1>8, <2>1 DEF ReturnTellsDelivery
<1>16. Promised'
  BY <1>7, <1>10, <1>13, <1>14, <1>15, BlockInv
<1>17. Delivery
  <2>1. Rest = p \o src' /\ Delivered = <<>> /\ Delivered \in Seq(Nat)
    <3>1. Rest = buff.text \o src /\ Delivered = <<>> /\ Delivered \in Seq(Nat)
      BY IdleFacts DEF Idle
    <3>2. <<>> \o src = src
      BY <1>2, TextFacts
    <3> QED
      BY <1>5, <3>1, <3>2
  <2>2. Rest' = src'
    <3>1. Rest' = buff'.text \o src'
      BY <1>7 DEF Rest, Reading
    <3> QED
      BY <1>5, <1>12, <3>1, TextFacts
  <2>3. dest'.got = Delivered \o p
    BY <1>5, <1>8, <2>1, TextFacts
  <2>4. call'.starved \in BOOLEAN
    BY <1>7 DEF Callers
  <2> QED
    BY <1>5, <2>1, <2>2, <2>3, <2>4, DeliverStep
<1>18. EofCaused
  <2>1. isEOF' /\ ~isEOF => ended'
    BY <1>1, Zenon
  <2> QED
    BY <2>1 DEF EofCaused
<1>19. Kept(d)
  BY <1>3, <1>4, <1>7 DEF Kept
<1>20. Dry
  <2>1. dest'.got = <<>> => l = 0
    BY <1>5, <1>8, EmptySeq
  <2> QED
    BY <1>1, <2>1 DEF Dry
<1> QED
  BY <1>16, <1>17, <1>18, <1>19, <1>20 DEF Lawful, Moved, Delivery

(* From the call to the first request. *)
LEMMA BlockFirstLawful ==
  ASSUME StreamInv, Idle, NEW b, Buffer(b), b.text = buff.text, 0 <= b.mlen,
         NEW d, Target(d), d.got = <<>>, 0 < d.mlen,
         d.old + HeldMax + Len(Input) < IntMax,
         NEW c, Fresh(c, "block"), 0 < c.n, BlockFirst(b, d, c), UNCHANGED maxBuffSz
  PROVE  Lawful /\ Kept(d) /\ (c.n <= IntMax - d.old => Dry)
<1> DEFINE n == [c EXCEPT !.n = @ + DestLen(d)]
           none == c.n > IntMax - DestLen(d) \/ (b.text = <<>> /\ isEOF)
<1>1. /\ none => BlockRefused(b, d, c, FALSE)
      /\ ~none /\ b.text = <<>> /\ d.mlen > n.n => Direct(d, n) /\ buff' = b
      /\ ~none /\ ~(b.text = <<>> /\ d.mlen > n.n) =>
           \E g \in Ready(b) :
             IF g.ok
             THEN Pass(g.b, b.text, d, n, isEOF) /\ UNCHANGED <<src, ended>>
             ELSE BlockRefused(b, d, c, TRUE)
  BY DEF BlockFirst
<1>2. /\ d.old \in Nat /\ DestLen(d) = d.old /\ c.n \in Int /\ d.mlen \in Int
  BY EmptySeq, SizesAssumption DEF Target, DestLen, Fresh, Callers
<1>3. Fresh(n, "block") /\ n.n = c.n + DestLen(d) /\ DestLen(d) < n.n /\ n.n \in Int
  <2>1. n = [c EXCEPT !.n = c.n + DestLen(d)] /\ c.n + DestLen(d) \in Int
    BY <1>2
  <2>2. Fresh(n, "block") /\ n.n = c.n + DestLen(d)
    BY <2>1 DEF Fresh, Callers
  <2>3. DestLen(d) < c.n + DestLen(d)
    BY <1>2
  <2> HIDE DEF n
  <2> QED
    BY <2>1, <2>2, <2>3
<1> HIDE DEF n
<1>4. CASE none
  <2>1. LineRefused(b, d, c, FALSE) /\ UNCHANGED <<src, isEOF, ended>>
    BY <1>1, <1>4 DEF BlockRefused
  <2>2. c.n <= IntMax - d.old => isEOF'
    BY <1>2, <1>4, <2>1, SizesAssumption
  <2> QED
    BY <2>1, <2>2, RefusedLawful DEF Kept, Dry
<1>5. CASE ~none /\ b.text = <<>> /\ d.mlen > n.n
  <2>1. Direct(d, n) /\ buff' = b /\ n.n < d.mlen
    BY <1>1, <1>2, <1>3, <1>5
  <2> QED
    BY <1>3, <1>5, <2>1, DirectLawful
<1>6. CASE ~none /\ ~(b.text = <<>> /\ d.mlen > n.n)
  <2>1. PICK g \in Ready(b) :
          IF g.ok THEN Pass(g.b, b.text, d, n, isEOF) /\ UNCHANGED <<src, ended>>
          ELSE BlockRefused(b, d, c, TRUE)
    BY <1>1, <1>6
  <2>2. /\ g.ok \in BOOLEAN
        /\ g.ok => Buffer(g.b) /\ g.b.text = b.text /\ maxBuffSz < g.b.mlen
    BY ReadyOutcome DEF StreamInv, Typed
  <2>3. CASE g.ok
    <3> DEFINE t == b.text
    <3>1. /\ Pass(g.b, t, d, n, isEOF) /\ src' = src /\ ended' = ended
      BY <2>1, <2>3
    <3>2. /\ src \in Seq(Nat) /\ t \in Seq(Nat) /\ Len(src) \in Nat /\ Len(t) \in Nat
          /\ Len(Input) \in Nat /\ HeldMax \in Nat /\ IntMax \in Nat
          /\ Len(src) <= Len(Input) /\ Len(t) + Len(src) <= HeldMax + Len(Input)
          /\ maxBuffSz \in 1..IntMax
      BY LenProperties, StreamAssumption, SizesAssumption DEF StreamInv, Typed, Buffer
    <3>3. /\ g.b \in [text : Seq(Nat), mlen : -1..MemMax] /\ Len(t) < g.b.mlen
          /\ maxBuffSz < g.b.mlen
      <4>1. /\ g.b \in [text : Seq(Nat), mlen : -1..MemMax] /\ maxBuffSz < g.b.mlen
            /\ g.b.mlen \in Int /\ g.b.text = t
        BY <2>2, <2>3, SizesAssumption DEF Buffer
      <4>2. 0 < g.b.mlen
        BY <3>2, <4>1
      <4> QED
        BY <2>2, <2>3, <4>1, <4>2 DEF Buffer
    <3>4. d.got = Delivered /\ Rest = t \o src'
      BY <3>1, IdleFacts DEF Idle
    <3>5. DestLen(d) + Len(t) + Len(src') < IntMax
      <4> DEFINE x == Len(t)
                 y == Len(src)
      <4>1. x \in Nat /\ y \in Nat /\ x + y <= HeldMax + Len(Input)
        BY <3>2
      <4> HIDE DEF x, y
      <4>2. d.old + x + y < IntMax
        BY <1>2, <3>2, <4>1, SMTT(30)
      <4> QED
        BY <1>2, <3>1, <4>2 DEF x, y
    <3> HIDE DEF t
    <3>6. PassBegins(t, g.b, d, n)
      BY <1>3, <3>1, <3>2, <3>3, <3>4, <3>5 DEF PassBegins, Fresh
    <3> QED
      BY <3>1, <3>6, PassLawful
  <2>4. CASE ~g.ok
    <3>1. LineRefused(b, d, c, TRUE) /\ UNCHANGED <<src, isEOF, ended>>
      BY <2>1, <2>4 DEF BlockRefused
    <3> QED
      BY <3>1, RefusedLawful DEF Kept, Dry
  <2> QED
    BY <2>2, <2>3, <2>4
<1> QED
  BY <1>4, <1>5, <1>6

(* The lengths of blocks are numbers. *)
LEMMA BlockLen ==
  ASSUME NEW n \in BlockLens
  PROVE  n \in Int
BY StreamAssumption, SizesAssumption DEF IntMin

(* bsreada, up to its first request. *)
LEMMA BsreadaLawful ==
  ASSUME StreamInv, Bsreada
  PROVE  Lawful
<1>1. Idle /\ Buffer(buff)
  BY DEF Bsreada, StreamInv
<1>2. PICK d \in Dests, n \in BlockLens : ReadBlock(d, n)
  BY DEF Bsreada
<1> DEFINE c == NewCall("block", {}, n)
<1>3. /\ UNCHANGED maxBuffSz
      /\ IF buff.mlen < 0 \/ d.mlen <= 0 \/ n <= 0
         THEN BlockRefused(buff, Begins(d), c, FALSE)
         ELSE BlockFirst(buff, Begins(d), c)
  BY <1>2 DEF ReadBlock
<1>4. n \in Int /\ Fresh(c, "block") /\ c.n = n
  BY BlockLen, PlainCallFresh
<1>5. CASE buff.mlen < 0 \/ d.mlen <= 0 \/ n <= 0
  <2>1. LineRefused(buff, Begins(d), c, FALSE) /\ UNCHANGED <<src, isEOF, ended>>
    BY <1>3, <1>5 DEF BlockRefused
  <2> HIDE DEF c
  <2> QED
    BY <1>1, <1>3, <1>4, <2>1, DestFacts, RefusedLawful
<1>6. CASE ~(buff.mlen < 0 \/ d.mlen <= 0 \/ n <= 0)
  <2>1. BlockFirst(buff, Begins(d), c)
    BY <1>3, <1>6
  <2>2. 0 <= buff.mlen /\ 0 < d.mlen /\ 0 < c.n
    <3>1. buff.mlen \in Int /\ d.mlen \in Int
      BY <1>1, DestFacts, SizesAssumption DEF Buffer
    <3> HIDE DEF c
    <3> QED
      BY <1>4, <1>6, <3>1
  <2> HIDE DEF c
  <2> QED
    BY <1>1, <1>3, <1>4, <2>1, <2>2, DestFacts, BlockFirstLawful
<1> QED
  BY <1>5, <1>6

(* bsread, up to its first request. *)
LEMMA BsreadLawful ==
  ASSUME StreamInv, Bsread
  PROVE  Lawful
<1>1. Idle /\ Buffer(buff) /\ UNCHANGED maxBuffSz
  BY DEF Bsread, StreamInv
<1>2. PICK d \in Dests, n \in BlockLens :
        LET c == NewCall("block", {}, n)
        IN  IF buff.mlen < 0 \/ d.mlen <= 0 \/ n <= 0
            THEN BlockRefused(buff, Begins(d), c, FALSE)
            ELSE \E g \in Ready(buff) :
                   IF g.ok THEN BlockFirst(g.b, Emptied(d), c)
                   ELSE BlockRefused(buff, Begins(d), c, TRUE)
  BY DEF Bsread
<1> DEFINE c == NewCall("block", {}, n)
<1>3. n \in Int /\ Fresh(c, "block") /\ c.n = n
  BY BlockLen, PlainCallFresh
<1>4. CASE buff.mlen < 0 \/ d.mlen <= 0 \/ n <= 0
  <2>1. LineRefused(buff, Begins(d), c, FALSE) /\ UNCHANGED <<src, isEOF, ended>>
    BY <1>2, <1>4 DEF BlockRefused
  <2> HIDE DEF c
  <2> QED
    BY <1>1, <1>3, <2>1, DestFacts, RefusedLawful
<1>5. CASE ~(buff.mlen < 0 \/ d.mlen <= 0 \/ n <= 0)
  <2>1. PICK g \in Ready(buff) : IF g.ok THEN BlockFirst(g.b, Emptied(d), c)
                                 ELSE BlockRefused(buff, Begins(d), c, TRUE)
    BY <1>2, <1>5
  <2> HIDE DEF c
  <2>2. 0 <= buff.mlen /\ 0 < d.mlen /\ 0 < c.n
    <3>1. buff.mlen \in Int /\ d.mlen \in Int
      BY <1>1, DestFacts, SizesAssumption DEF Buffer
    <3> QED
      BY <1>3, <1>5, <3>1
  <2>3. /\ g.ok \in BOOLEAN
        /\ g.ok => Buffer(g.b) /\ g.b.text = buff.text /\ 0 <= g.b.mlen
    BY <1>1, <2>2, ReadyOutcome DEF StreamInv, Typed
  <2>4. CASE g.ok
    BY <1>1, <1>3, <2>1, <2>2, <2>3, <2>4, DestFacts, BlockFirstLawful
  <2>5. CASE ~g.ok
    <3>1. LineRefused(buff, Begins(d), c, TRUE) /\ UNCHANGED <<src, isEOF, ended>>
      BY <2>1, <2>5 DEF BlockRefused
    <3> QED
      BY <1>1, <1>3, <3>1, DestFacts, RefusedLawful
  <2> QED
    BY <2>3, <2>4, <2>5
<1> QED
  BY <1>4, <1>5

-----------------------------------------------------------------------------
(* The other operations. *)

(* A call that leaves the stream as it is. *)
LEMMA QuietLawful ==
  ASSUME StreamInv, call.pc \in {"idle", "closed"}, Buffer(buff'),
         buff'.text = buff.text, src' = src, isEOF' \in BOOLEAN, ended' \in BOOLEAN,
         maxBuffSz' \in 1..IntMax, isEOF' => isEOF,
         dest' \in [old : Nat, got : Seq(Nat), mlen : -1..IntMax], dest'.got = <<>>,
         call' \in Callers, call'.pc = "idle", call'.fn \notin {"line", "block"}
  PROVE  Lawful
<1>1. Stored
  BY SameStored
<1>2. Promised'
  BY <1>1, OtherInv
<1>3. Rest' = Rest
  <2>1. Rest' = buff'.text \o src'
    BY DEF Rest, Reading
  <2> QED
    BY <2>1, IdleFacts
<1>4. Delivery
  BY <1>3, IdleFacts, NothingStep DEF Callers
<1> QED
  BY <1>2, <1>4 DEF Lawful, Moved, Delivery, EofCaused

(* bsopen: a string that bfromcstr made, or none. *)
LEMMA BsopenLawful ==
  ASSUME StreamInv, Bsopen
  PROVE  Lawful
<1>1. /\ call.pc = "closed" /\ buff = NoBuffer /\ dest.got = <<>>
      /\ dest \in [old : Nat, got : Seq(Nat), mlen : -1..IntMax] /\ ended \in BOOLEAN
  BY DEF Bsopen, StreamInv, Typed
<1>2. /\ isEOF' = FALSE /\ maxBuffSz' = DefaultBuff /\ ended' = FALSE
      /\ call' = NewCall("bsopen", {}, 0) /\ src' = src /\ dest' = dest
  BY DEF Bsopen
<1>3. PICK g \in Bfromcstr(0) : buff' = [text |-> <<>>, mlen |-> g.h.mlen]
  BY DEF Bsopen
<1>4. g.h.mlen \in -1..MemMax
  <2>1. /\ g.ret \in {"OK", "ERR"} /\ Owns(g.h)
        /\ g.ret = "ERR" => g.h = NoString
        /\ g.ret = "OK" => 0 < g.h.mlen
    BY BfromcstrOutcome
  <2>2. g.h.mlen \in Int /\ g.h.mlen <= MemMax /\ MemMax \in Nat
    BY <2>1, SizesAssumption DEF Owns, Header
  <2>3. g.ret = "ERR" => g.h.mlen = -1
    BY <2>1 DEF NoString
  <2> QED
    BY <2>1, <2>2, <2>3
<1>5. Buffer(buff') /\ buff'.text = buff.text
  BY <1>1, <1>3, <1>4, EmptySeq DEF Buffer, NoBuffer
<1>6. Fresh(call', "bsopen")
  BY <1>2, PlainCallFresh
<1>7. DefaultBuff \in 1..IntMax
  BY StreamAssumption
<1> QED
  BY <1>1, <1>2, <1>5, <1>6, <1>7, QuietLawful DEF Fresh

(* bsbufflength changes the size of later requests only. *)
LEMMA BsbufflengthLawful ==
  ASSUME StreamInv, Bsbufflength
  PROVE  Lawful
<1>1. PICK sz \in BuffSizes :
        /\ maxBuffSz' = IF sz > 0 THEN sz ELSE maxBuffSz
        /\ call' = [NewCall("bsbufflength", {}, 0)
                      EXCEPT !.ret = IF sz < 0 THEN "ERR" ELSE "OK"]
  BY DEF Bsbufflength
<1>2. /\ Idle /\ dest' = [dest EXCEPT !.got = <<>>] /\ src' = src /\ buff' = buff
      /\ isEOF' = isEOF /\ ended' = ended
  BY DEF Bsbufflength
<1>3. /\ dest \in [old : Nat, got : Seq(Nat), mlen : -1..IntMax] /\ Buffer(buff)
      /\ isEOF \in BOOLEAN /\ ended \in BOOLEAN /\ maxBuffSz \in 1..IntMax
  BY DEF StreamInv, Typed
<1>4. maxBuffSz' \in 1..IntMax
  <2>1. sz \in Int /\ sz <= IntMax /\ IntMax \in Nat
    BY StreamAssumption, SizesAssumption DEF IntMin
  <2> QED
    BY <1>1, <1>3, <2>1
<1>5. /\ call' \in Callers /\ call'.pc = "idle" /\ call'.fn = "bsbufflength"
  <2> DEFINE c == NewCall("bsbufflength", {}, 0)
  <2>1. Fresh(c, "bsbufflength")
    BY PlainCallFresh
  <2>2. call' = [c EXCEPT !.ret = IF sz < 0 THEN "ERR" ELSE "OK"]
    BY <1>1
  <2> HIDE DEF c
  <2> QED
    BY <2>1, <2>2 DEF Fresh, Callers
<1>6. /\ dest' \in [old : Nat, got : Seq(Nat), mlen : -1..IntMax] /\ dest'.got = <<>>
  BY <1>2, <1>3, EmptySeq
<1>7. Buffer(buff') /\ buff'.text = buff.text
  BY <1>2, <1>3
<1> QED
  BY <1>2, <1>3, <1>4, <1>5, <1>6, <1>7, QuietLawful DEF Idle

(* bsclose loses what is buffered to the next stream, and no more. *)
LEMMA BscloseLawful ==
  ASSUME StreamInv, Bsclose
  PROVE  Lawful
<1>1. /\ Idle /\ buff' = NoBuffer /\ isEOF' = TRUE
      /\ call' = [NewCall("bsclose", {}, 0) EXCEPT !.pc = "closed"]
      /\ dest' = [dest EXCEPT !.got = <<>>]
      /\ src' = src /\ maxBuffSz' = maxBuffSz /\ ended' = ended
  BY DEF Bsclose
<1>2. /\ dest \in [old : Nat, got : Seq(Nat), mlen : -1..IntMax] /\ src \in Seq(Nat)
      /\ ended \in BOOLEAN /\ maxBuffSz \in 1..IntMax /\ buff.text \in Seq(Nat)
      /\ Len(src) \in Nat /\ Len(Input) \in Nat /\ HeldMax \in Nat
      /\ Len(src) <= Len(Input) /\ MemMax \in Nat
  BY LenProperties, StreamAssumption, SizesAssumption DEF StreamInv, Typed, Buffer
<1>3. /\ call' \in Callers /\ call'.pc = "closed" /\ call'.fn = "bsclose"
      /\ ~call'.starved
  <2> DEFINE c == NewCall("bsclose", {}, 0)
  <2>1. Fresh(c, "bsclose")
    BY PlainCallFresh
  <2>2. call' = [c EXCEPT !.pc = "closed"]
    BY <1>1
  <2> HIDE DEF c
  <2> QED
    BY <2>1, <2>2 DEF Fresh, Callers
<1>4. dest' \in [old : Nat, got : Seq(Nat), mlen : -1..IntMax] /\ dest'.got = <<>>
  BY <1>1, <1>2, EmptySeq
<1>5. Stored
  <2>1. /\ buff' \in [text : Seq(Nat), mlen : -1..MemMax] /\ buff'.text = <<>>
        /\ buff'.mlen = -1 /\ Len(buff'.text) = 0
    BY <1>1, <1>2, EmptySeq DEF NoBuffer
  <2>2. Len(buff'.text) + Len(src') <= HeldMax + Len(Input)
    BY <1>1, <1>2, <2>1
  <2> QED
    BY <1>1, <1>2, <2>1, <2>2 DEF Stored
<1>6. Promised'
  BY <1>1, <1>3, <1>4, <1>5, OtherInv
<1>7. Contract!Close
  <2>1. ~Reading /\ Rest = buff.text \o src
    BY <1>1, IdleFacts DEF Idle
  <2>2. ~Reading'
    BY <1>3 DEF Reading
  <2>3. Rest' = src
    <3>1. Rest' = <<>> \o src
      BY <1>1, <2>2 DEF Rest, NoBuffer
    <3> QED
      BY <1>2, <3>1, TextFacts
  <2>4. \E k \in 0..Len(Rest) : Rest' = Contract!After(Rest, k)
    <3> DEFINE p == buff.text
    <3>1. p \in Seq(Nat) /\ src \in Seq(Nat) /\ Rest = p \o src /\ Rest' = src
      BY <1>2, <2>1, <2>3
    <3> HIDE DEF p
    <3>2. Len(p) \in 0..Len(p \o src) /\ SubSeq(p \o src, Len(p) + 1, Len(p \o src)) = src
      BY <3>1, CutOfConcat
    <3>3. Len(p) \in 0..Len(Rest) /\ Rest' = SubSeq(Rest, Len(p) + 1, Len(Rest))
      BY <3>1, <3>2, Zenon
    <3> QED
      BY <3>3 DEF Contract!After
  <2> QED
    BY <1>4, <2>1, <2>2, <2>4 DEF Contract!Close
<1>8. call'.starved \in BOOLEAN
  BY <1>3 DEF Callers
<1>9. Contract!Deliveries
  BY <1>7, <1>8 DEF Contract!Deliveries
<1>10. EofCaused
  BY <1>3 DEF EofCaused
<1> QED
  BY <1>3, <1>6, <1>9, <1>10 DEF Lawful, Moved

(* What is put back comes before what the buffer holds; or nothing is. *)
LEMMA UnreadFacts ==
  ASSUME NEW b, Buffer(b), NEW t \in Seq(Nat), NEW u \in Unread(b, t)
  PROVE  /\ u.ok \in BOOLEAN /\ Buffer(u.b)
         /\ ~u.ok => u.b = b
         /\ u.ok => 0 < u.b.mlen /\ u.b.text = t \o b.text
<1> DEFINE s == b.text
           w == t \o s
           h == HeaderOf(Len(s), b.mlen)
<1>1. PICK g \in Binsertblk(h, 0, Len(t), FALSE) :
        u = [ok |-> g.ret = "OK",
             b |-> IF g.ret = "OK" THEN [text |-> w, mlen |-> g.h.mlen] ELSE b]
  BY DEF Unread
<1>2. /\ s \in Seq(Nat) /\ Len(s) \in Nat /\ Len(t) \in Nat /\ b.mlen \in -1..MemMax
      /\ w \in Seq(Nat) /\ Len(w) = Len(t) + Len(s)
  BY LenProperties, TextFacts DEF Buffer
<1> HIDE DEF w, h
<1>3. CASE g.ret # "OK"
  BY <1>1, <1>3
<1>4. CASE g.ret = "OK"
  <2>1. 0 < b.mlen
    <3> SUFFICES ASSUME ~(0 < b.mlen) PROVE FALSE
      OBVIOUS
    <3>1. ~Writable(h)
      BY <1>2, SizesAssumption DEF h, HeaderOf, Writable
    <3>2. g.ret = "ERR"
      BY <1>1, <3>1 DEF Binsertblk, Refused, Result
    <3> QED
      BY <1>4, <3>2
  <2>2. Owns(h) /\ Writable(h) /\ h.slen = Len(s)
    <3>1. Len(s) < b.mlen /\ b.mlen \in 1..MemMax
      BY <1>2, <2>1, SizesAssumption DEF Buffer
    <3> QED
      BY <1>2, <3>1, HeaderOfFacts DEF h
  <2>3. Owns(g.h) /\ Len(s) + Len(t) < g.h.mlen
    <3>1. g \in Binsertblk(h, 0, Len(t), FALSE)
      BY <1>1
    <3>2. g.ret = "OK" => Owns(g.h) /\ h.slen + Len(t) < g.h.mlen
      BY <1>2, <2>2, <3>1, BinsertOutcome
    <3> QED
      BY <1>4, <2>2, <3>2, Zenon
  <2>4. g.h.mlen \in Int /\ g.h.mlen <= MemMax /\ MemMax \in Nat
    BY <2>3, SizesAssumption DEF Owns, Header
  <2>5. /\ Len(w) < g.h.mlen /\ 0 < g.h.mlen /\ g.h.mlen \in -1..MemMax
        /\ ~(g.h.mlen <= 0)
    <3>1. \A m, x, y, top \in Int :
             x >= 0 /\ y >= 0 /\ y + x < m /\ m <= top
               => x + y < m /\ 0 < m /\ m \in -1..top /\ ~(m <= 0)
      OBVIOUS
    <3>2. /\ Len(t) \in Int /\ Len(s) \in Int /\ MemMax \in Int
          /\ Len(t) >= 0 /\ Len(s) >= 0 /\ Len(w) = Len(t) + Len(s)
      BY <1>2, <2>4
    <3> QED
      BY <2>3, <2>4, <3>1, <3>2
  <2>6. u.ok = TRUE /\ u.b = [text |-> w, mlen |-> g.h.mlen]
    BY <1>1, <1>4
  <2>7. /\ u.b \in [text : Seq(Nat), mlen : -1..MemMax] /\ u.b.text = w
        /\ u.b.mlen = g.h.mlen
    BY <1>2, <2>5, <2>6
  <2>8. Buffer(u.b)
    BY <2>5, <2>7 DEF Buffer
  <2>9. u.b.text = t \o b.text
    BY <2>7 DEF w
  <2> QED
    BY <2>5, <2>6, <2>7, <2>8, <2>9
<1> QED
  BY <1>3, <1>4

(* bsunread: what is put back will be read first; or nothing is. *)
LEMMA BsunreadLawful ==
  ASSUME StreamInv, Bsunread
  PROVE  Lawful
<1>1. PICK t \in Unreads :
        /\ Len(buff.text) + Len(t) <= HeldMax
        /\ \E u \in Unread(buff, t) :
             /\ buff' = u.b
             /\ call' = [NewCall("bsunread", {}, 0)
                           EXCEPT !.ret = IF u.ok THEN "OK" ELSE "ERR"]
  BY DEF Bsunread
<1>2. PICK u \in Unread(buff, t) :
        /\ buff' = u.b
        /\ call' = [NewCall("bsunread", {}, 0)
                      EXCEPT !.ret = IF u.ok THEN "OK" ELSE "ERR"]
  BY <1>1
<1>3. /\ Idle /\ dest' = [dest EXCEPT !.got = <<>>] /\ src' = src
      /\ isEOF' = isEOF /\ ended' = ended /\ maxBuffSz' = maxBuffSz
  BY DEF Bsunread
<1> DEFINE s == buff.text
           w == t \o s
<1>4. /\ t \in Seq(Nat) /\ s \in Seq(Nat) /\ src \in Seq(Nat) /\ Buffer(buff)
      /\ Len(t) \in Nat /\ Len(s) \in Nat /\ Len(src) \in Nat /\ Len(Input) \in Nat
      /\ HeldMax \in Nat /\ Len(src) <= Len(Input) /\ buff.mlen \in -1..MemMax
      /\ w \in Seq(Nat) /\ Len(w) = Len(t) + Len(s)
      /\ dest \in [old : Nat, got : Seq(Nat), mlen : -1..IntMax]
      /\ isEOF \in BOOLEAN /\ ended \in BOOLEAN /\ maxBuffSz \in 1..IntMax
  BY StreamAssumption, LenProperties, TextFacts DEF StreamInv, Typed, Buffer
<1>5. dest' \in [old : Nat, got : Seq(Nat), mlen : -1..IntMax] /\ dest'.got = <<>>
  BY <1>3, <1>4, EmptySeq
<1>6. call' \in Callers /\ call'.pc = "idle" /\ call'.fn = "bsunread" /\ ~call'.starved
  <2> DEFINE c == NewCall("bsunread", {}, 0)
  <2>1. Fresh(c, "bsunread")
    BY PlainCallFresh
  <2>2. call' = [c EXCEPT !.ret = IF u.ok THEN "OK" ELSE "ERR"]
    BY <1>2
  <2> HIDE DEF c
  <2> QED
    BY <2>1, <2>2 DEF Fresh, Callers
<1> HIDE DEF w
<1>7. /\ Buffer(buff') /\ (u.ok => buff'.text = w) /\ (~u.ok => buff' = buff)
      /\ u.ok \in BOOLEAN
  <2>1. /\ u.ok \in BOOLEAN /\ Buffer(u.b) /\ (~u.ok => u.b = buff)
        /\ (u.ok => u.b.text = t \o buff.text)
    BY <1>2, <1>4, UnreadFacts
  <2> QED
    BY <1>2, <2>1 DEF w
<1>8. CASE u.ok /\ t # <<>>
  <2>1. buff'.text = w
    BY <1>7, <1>8
  <2>2. Stored
    <3>1. Len(w) + Len(src) <= HeldMax + Len(Input)
      BY <1>1, <1>4
    <3>2. Len(buff'.text) + Len(src') <= HeldMax + Len(Input)
      BY <1>3, <2>1, <3>1
    <3>3. /\ src' \in Seq(Nat) /\ Len(src') <= Len(Input) /\ isEOF' \in BOOLEAN
          /\ ended' \in BOOLEAN /\ maxBuffSz' \in 1..IntMax
      BY <1>3, <1>4
    <3> QED
      BY <1>7, <3>2, <3>3 DEF Stored, Buffer
  <2>3. Promised'
    BY <1>5, <1>6, <2>2, OtherInv
  <2>4. Contract!Unread
    <3>1. ~Reading /\ Rest = s \o src
      BY <1>3, IdleFacts DEF Idle
    <3>2. ~Reading'
      BY <1>6 DEF Reading
    <3>3. Rest' = w \o src
      BY <1>3, <2>1, <3>2 DEF Rest
    <3> DEFINE r == s \o src
    <3>4. r \in Seq(Nat) /\ Rest' = t \o r
      <4>1. (t \o s) \o src = t \o (s \o src)
        <5>1. t \in Seq(Nat) /\ s \in Seq(Nat) /\ src \in Seq(Nat)
          BY <1>4, Zenon
        <5> HIDE DEF s
        <5> QED
          BY <5>1, TextFacts, ZenonT(60)
      <4> QED
        BY <1>4, <3>3, <4>1, TextFacts DEF w
    <3>5. Rest = r
      BY <3>1
    <3> HIDE DEF r, s
    <3>6. Len(t \o r) = Len(t) + Len(r) /\ Len(r) \in Nat /\ Len(t) # 0
      BY <1>4, <1>8, <3>4, TextFacts, EmptySeq
    <3>7. SubSeq(t \o r, Len(t) + 1, Len(t \o r)) = r
      BY <1>4, <3>4, CutOfConcat
    <3>8. Len(Rest') > Len(Rest) /\ Len(Rest') - Len(Rest) = Len(t)
      <4>1. Len(Rest') = Len(t) + Len(r) /\ Len(Rest) = Len(r)
        BY <3>4, <3>5, <3>6
      <4> QED
        BY <1>4, <3>6, <4>1
    <3>9. SubSeq(Rest', Len(t) + 1, Len(Rest')) = Rest
      BY <3>4, <3>5, <3>7, Zenon
    <3> QED
      BY <1>5, <3>1, <3>2, <3>8, <3>9 DEF Contract!Unread, Contract!After
  <2>5. call'.starved \in BOOLEAN
    BY <1>6 DEF Callers
  <2>6. Contract!Deliveries
    BY <2>4, <2>5 DEF Contract!Deliveries
  <2> QED
    BY <1>3, <1>6, <2>3, <2>6 DEF Lawful, Moved, EofCaused
<1>9. CASE ~u.ok
  BY <1>3, <1>4, <1>5, <1>6, <1>7, <1>9, QuietLawful DEF Idle
<1>10. CASE u.ok /\ t = <<>>
  <2>1. w = s
    BY <1>4, <1>10, TextFacts DEF w
  <2>2. buff'.text = buff.text
    BY <1>7, <1>10, <2>1
  <2> QED
    BY <1>3, <1>4, <1>5, <1>6, <1>7, <2>2, QuietLawful DEF Idle
<1> QED
  BY <1>7, <1>8, <1>9, <1>10

(* What bassign of a text of length len leaves of a destination: it is     *)
(* refused by one that cannot be written to.                               *)
LEMMA PeekedFacts ==
  ASSUME NEW d, Target(d), NEW len \in Nat, len <= IntMax,
         NEW g \in Bassign(DestHeader(d), len), g.ret = "OK"
  PROVE  g.h.mlen \in -1..IntMax
<1>1. /\ d.mlen \in -1..MemMax /\ DestLen(d) \in Nat
      /\ d.mlen > 0 => DestLen(d) < d.mlen
  BY LenProperties DEF Target, DestLen
<1>2. MemMax \in Nat /\ MemMax <= IntMax /\ IntMax \in Nat
  BY SizesAssumption
<1> DEFINE n == DestLen(d)
           m == d.mlen
           h == HeaderOf(n, m)
<1>3. g \in Bassign(h, len)
  BY DEF DestHeader
<1>4. n \in Nat /\ m \in -1..MemMax /\ (m > 0 => n < m)
  BY <1>1
<1> HIDE DEF n, m
<1>5. CASE 0 < m
  <2>1. Owns(h)
    BY <1>4, <1>2, <1>5, HeaderOfFacts
  <2> HIDE DEF h
  <2>2. Owns(g.h) /\ h.mlen <= g.h.mlen
    BY <1>3, <2>1, BassignKeeps
  <2>3. g.h.mlen \in Int /\ g.h.mlen <= MemMax
    BY <1>2, <2>2 DEF Owns, Header
  <2>4. 0 <= g.h.mlen
    BY <1>2, <1>4, <1>5, <2>2, <2>3 DEF h, HeaderOf
  <2> QED
    BY <1>2, <2>3, <2>4
<1>6. CASE ~(0 < m)
  <2>1. ~Writable(h) /\ h.mlen = m /\ h.slen = n
    BY <1>4, <1>2, <1>6 DEF Writable, HeaderOf
  <2>2. h.mlen < h.slen \/ h.mlen = 0
    BY <1>4, <1>2, <1>6, <2>1
  <2> HIDE DEF h
  <2>3. Bassign(h, len) = {Refused(h)} \/ Bassign(h, len) = {Finish(Refused(h), len)}
    <3>1. CASE len # 0
      <4>1. Balloc(h, len) = {Refused(h)}
        BY <2>1 DEF Balloc
      <4> QED
        BY <3>1, <4>1 DEF Bassign
    <3>2. CASE len = 0
      BY <2>2, <3>2 DEF Bassign
    <3> QED
      BY <3>1, <3>2
  <2>4. g.ret = "ERR"
    BY <1>3, <2>3 DEF Finish, Refused, Result
  <2> QED
    BY <2>4
<1> QED
  BY <1>5, <1>6

(* bspeek: what will be read next is shown, and stays. *)
LEMMA BspeekLawful ==
  ASSUME StreamInv, Bspeek
  PROVE  Lawful
<1> DEFINE c == NewCall("bspeek", {}, 0)
<1>1. PICK d \in Dests :
        \/ call' = [c EXCEPT !.ret = "ERR"] /\ dest' = Begins(d)
        \/ \E g \in Bassign(DestHeader(Begins(d)), Len(buff.text)) :
             /\ g.ret = "OK" /\ call' = c
             /\ dest' = [old |-> 0, got |-> buff.text, mlen |-> g.h.mlen]
  BY DEF Bspeek
<1>2. /\ Idle /\ src' = src /\ buff' = buff /\ isEOF' = isEOF /\ ended' = ended
      /\ maxBuffSz' = maxBuffSz
  BY DEF Bspeek
<1>3. Fresh(c, "bspeek")
  BY PlainCallFresh
<1> HIDE DEF c
<1>4. Buffer(buff) /\ isEOF \in BOOLEAN /\ ended \in BOOLEAN /\ maxBuffSz \in 1..IntMax
  BY DEF StreamInv, Typed
<1>5. CASE call' = [c EXCEPT !.ret = "ERR"] /\ dest' = Begins(d)
  <2>1. call' \in Callers /\ call'.pc = "idle" /\ call'.fn = "bspeek"
    BY <1>3, <1>5 DEF Fresh, Callers
  <2>2. /\ dest' \in [old : Nat, got : Seq(Nat), mlen : -1..IntMax] /\ dest'.got = <<>>
    <3>1. Target(Begins(d)) /\ Begins(d).got = <<>> /\ MemMax \in Nat /\ MemMax <= IntMax
          /\ IntMax \in Nat
      BY DestFacts, SizesAssumption
    <3>2. -1..MemMax \subseteq -1..IntMax
      BY <3>1
    <3> QED
      BY <1>5, <3>1, <3>2 DEF Target
  <2> QED
    BY <1>2, <1>4, <2>1, <2>2, QuietLawful DEF Idle
<1>6. ASSUME NEW g \in Bassign(DestHeader(Begins(d)), Len(buff.text)),
             g.ret = "OK", call' = c,
             dest' = [old |-> 0, got |-> buff.text, mlen |-> g.h.mlen]
      PROVE  Lawful
  <2>1. /\ call' \in Callers /\ call'.pc = "idle" /\ call'.fn = "bspeek"
        /\ call'.starved \in BOOLEAN
    BY <1>3, <1>6 DEF Fresh, Callers
  <2>2. buff.text \in Seq(Nat) /\ Len(buff.text) \in Nat /\ Len(buff.text) <= IntMax
    <3>1. /\ buff.text \in Seq(Nat) /\ src \in Seq(Nat) /\ Input \in Seq(Nat)
          /\ Len(buff.text) + Len(src) <= HeldMax + Len(Input)
      BY <1>4, StreamAssumption DEF StreamInv, Typed, Buffer
    <3>2. /\ Len(buff.text) \in Nat /\ Len(src) \in Nat /\ Len(Input) \in Nat
          /\ HeldMax \in Nat /\ IntMax \in Nat
      BY <3>1, LenProperties, StreamAssumption, SizesAssumption
    <3>3. d.old \in Nat /\ d.old + HeldMax + Len(Input) < IntMax
      BY DestFacts
    <3>4. Len(buff.text) <= IntMax
      BY <3>1, <3>2, <3>3
    <3> QED
      BY <3>1, <3>2, <3>4
  <2>3. g.h.mlen \in -1..IntMax
    <3>1. Target(Begins(d))
      BY DestFacts
    <3> QED
      BY <1>6, <2>2, <3>1, PeekedFacts
  <2>4. dest' \in [old : Nat, got : Seq(Nat), mlen : -1..IntMax]
        /\ dest'.got = buff.text
    BY <1>6, <2>2, <2>3
  <2>5. Stored
    BY <1>2, <1>4, SameStored
  <2>6. Promised'
    BY <2>1, <2>4, <2>5, OtherInv
  <2>7. Contract!Peek
    <3>1. ~Reading /\ Rest = buff.text \o src /\ src \in Seq(Nat)
      BY <1>2, IdleFacts DEF Idle
    <3>2. ~Reading'
      BY <2>1 DEF Reading
    <3>3. Rest' = Rest
      BY <1>2, <3>1, <3>2 DEF Rest
    <3>4. /\ Len(buff.text) \in 0..Len(Rest)
          /\ SubSeq(Rest, 1, Len(buff.text)) = buff.text
      BY <2>2, <3>1, CutOfConcat
    <3> QED
      BY <2>4, <3>1, <3>2, <3>3, <3>4 DEF Contract!Peek, Contract!First
  <2>8. Contract!Deliveries
    BY <2>1, <2>7 DEF Contract!Deliveries
  <2> QED
    BY <1>2, <2>1, <2>6, <2>8 DEF Lawful, Moved, EofCaused
<1> QED
  BY <1>1, <1>5, <1>6

-----------------------------------------------------------------------------

(* The invariant holds at first: nothing is read and nothing is buffered.  *)
LEMMA InitStreamInv == Init => Promised
<1> SUFFICES ASSUME Init PROVE Promised
  OBVIOUS
<1> DEFINE c == NewCall("none", {}, 0)
<1>1. /\ src = Input /\ buff = NoBuffer /\ isEOF = TRUE /\ maxBuffSz = DefaultBuff
      /\ dest = [old |-> 0, got |-> <<>>, mlen |-> -1]
      /\ call = [c EXCEPT !.pc = "closed"] /\ ended = FALSE
  BY DEF Init
<1>2. Fresh(c, "none")
  BY PlainCallFresh
<1> HIDE DEF c
<1>3. call \in Callers /\ call.pc = "closed" /\ call.fn = "none"
  BY <1>1, <1>2 DEF Fresh, Callers
<1>4. /\ Input \in Seq(Nat) /\ Len(Input) \in Nat /\ HeldMax \in Nat
      /\ DefaultBuff \in 1..IntMax /\ IntMax \in Nat /\ MemMax \in Nat
  BY StreamAssumption, SizesAssumption, LenProperties
<1>5. Typed
  <2>1. src \in Seq(Nat) /\ isEOF \in BOOLEAN /\ ended \in BOOLEAN
    BY <1>1, <1>4
  <2>2. dest \in [old : Nat, got : Seq(Nat), mlen : -1..IntMax]
    <3>1. <<>> \in Seq(Nat) /\ -1 \in -1..IntMax
      BY <1>4, EmptySeq
    <3> QED
      BY <1>1, <3>1
  <2>3. maxBuffSz \in 1..IntMax
    BY <1>1, <1>4
  <2> QED
    BY <1>3, <2>1, <2>2, <2>3 DEF Typed
<1>6. Buffer(buff) /\ buff.text = <<>>
  BY <1>1, <1>4, EmptySeq DEF Buffer, NoBuffer
<1>7. Len(src) <= Len(Input) /\ Len(buff.text) + Len(src) <= HeldMax + Len(Input)
  <2>1. Len(buff.text) = 0 /\ Len(src) = Len(Input)
    BY <1>1, <1>6, EmptySeq
  <2> QED
    BY <1>4, <2>1
<1>8. ReadIsExact
  BY <1>3 DEF ReadIsExact, LineIsALine, ReturnTellsDelivery, BlockIsExact, Returned
<1>9. ~Reading /\ dest.got = <<>>
  BY <1>1, <1>3 DEF Reading
<1> QED
  BY <1>1, <1>3, <1>5, <1>6, <1>7, <1>8, <1>9 DEF Promised, StreamInv

(* Every action keeps the invariant, is a step of the contract, and does   *)
(* not announce an end without a cause.                                    *)
LEMMA NextLawful ==
  ASSUME StreamInv, Next
  PROVE  Lawful
<1>1. CASE Bsopen
  BY <1>1, BsopenLawful
<1>2. CASE Bsclose
  BY <1>2, BscloseLawful
<1>3. CASE Bsbufflength
  BY <1>3, BsbufflengthLawful
<1>4. CASE Bsreadlna
  BY <1>4, BsreadlnaLawful
<1>5. CASE Bsreadln
  BY <1>5, BsreadlnLawful
<1>6. CASE Bsreada
  BY <1>6, BsreadaLawful
<1>7. CASE Bsread
  BY <1>7, BsreadLawful
<1>8. CASE Bsunread
  BY <1>8, BsunreadLawful
<1>9. CASE Bspeek
  BY <1>9, BspeekLawful
<1>10. CASE LineStep
  BY <1>10, LineStepLawful
<1>11. CASE BlockStep
  BY <1>11, BlockStepLawful
<1> QED
  BY <1>1, <1>2, <1>3, <1>4, <1>5, <1>6, <1>7, <1>8, <1>9, <1>10, <1>11
     DEF Next, Steps

(* A step that changes nothing keeps the invariant. *)
LEMMA StutterStreamInv ==
  ASSUME StreamInv, UNCHANGED vars
  PROVE  StreamInv'
<1>1. /\ src' = src /\ buff' = buff /\ isEOF' = isEOF /\ maxBuffSz' = maxBuffSz
      /\ dest' = dest /\ call' = call /\ ended' = ended
  BY DEF vars
<1>2. Typed' /\ Buffer(buff')
  BY <1>1 DEF StreamInv, Typed
<1>3. Reading' = Reading /\ AtWork' = AtWork
  BY <1>1 DEF Reading, AtWork, Unended
<1> QED
  BY <1>1, <1>2, <1>3 DEF StreamInv

(* The invariant holds throughout. *)
LEMMA SpecStreamInv == Spec => []Promised
<1>1. Promised /\ [Next]_vars => Promised'
  <2> SUFFICES ASSUME Promised, [Next]_vars PROVE Promised'
    OBVIOUS
  <2>1. StreamInv
    BY DEF Promised
  <2>2. CASE Next
    BY <2>1, <2>2, NextLawful DEF Lawful
  <2>3. CASE UNCHANGED vars
    <3>1. ReadIsExact'
      BY <2>3 DEF Promised, ReadIsExact, LineIsALine, ReturnTellsDelivery, BlockIsExact,
                  Returned, Idle, Bseof, DestLen, vars
    <3> QED
      BY <2>1, <2>3, <3>1, StutterStreamInv DEF Promised
  <2> QED
    BY <2>2, <2>3
<1> QED
  BY <1>1, InitStreamInv, PTL DEF Spec

(* The sentinel of every line read and of every block has its place, and   *)
(* so has that of the buffer of the stream, whatever the core stream       *)
(* answers and the allocator grants.                                       *)
THEOREM StreamIsSound == Spec => []StreamSound
<1>1. Promised => StreamSound
  <2> SUFFICES ASSUME Promised PROVE StreamSound
    OBVIOUS
  <2>1. Typed /\ Buffer(buff) /\ (call.fn \in {"line", "block"} => Target(dest))
    BY DEF Promised, StreamInv
  <2>2. TypeOK
    BY <2>1 DEF TypeOK, Typed, Buffer, Callers
  <2>3. SentinelFits
    BY <2>1 DEF SentinelFits, Buffer, Target
  <2> QED
    BY <2>2, <2>3 DEF StreamSound
<1> QED
  BY <1>1, SpecStreamInv, PTL

(* A line read gives a line, and a block read no more than was asked for,  *)
(* and less only at the end of the stream, for want of memory, or when the *)
(* core stream, asked at once for all of it, gave less.  Where memory was  *)
(* not refused both say whether they gave anything.                        *)
THEOREM StreamReadsAreExact == Spec => []ReadIsExact
<1>1. Promised => ReadIsExact
  BY DEF Promised
<1> QED
  BY <1>1, SpecStreamInv, PTL

(* The end of a stream is announced when the core stream has ended, or for *)
(* the one reason the code has besides: a block read that had nothing      *)
(* buffered and got no memory.                                             *)
THEOREM EndHasACause == Spec => EofHasCause
<1>1. Promised /\ [Next]_vars
        => [isEOF' /\ ~isEOF /\ ~ended' /\ call'.pc # "closed"
              => call'.fn = "block" /\ call'.starved /\ buff'.text = <<>>]_vars
  BY NextLawful DEF Lawful, EofCaused, Promised
<1> QED
  BY <1>1, SpecStreamInv, PTL DEF Spec, EofHasCause

(* Whatever the stream buffers, it hands out the characters of the core    *)
(* stream in order and each once; a call that fails for want of memory may *)
(* leave the beginning of what it handed over to be read again.            *)
THEOREM StreamImplementsContract == Spec => HandsOutInOrder
<1>1. Init => Contract!Init
  <2> SUFFICES ASSUME Init PROVE Contract!Init
    OBVIOUS
  <2>1. /\ src = Input /\ buff.text = <<>> /\ dest.got = <<>>
        /\ call = [NewCall("none", {}, 0) EXCEPT !.pc = "closed"]
    BY DEF Init, NoBuffer
  <2>2. call.pc = "closed" /\ call.starved = FALSE
    BY <2>1 DEF NewCall
  <2>3. Reading = FALSE
    BY <2>2 DEF Reading
  <2>4. Rest = Input
    <3>1. Rest = <<>> \o src
      BY <2>1, <2>3 DEF Rest
    <3> QED
      BY <2>1, <3>1, StreamAssumption, TextFacts
  <2> QED
    BY <2>1, <2>2, <2>3, <2>4 DEF Contract!Init
<1>2. Promised /\ [Next]_vars
        => [Contract!Deliveries \/ Contract!Relapse]_(Contract!vars)
  <2> SUFFICES ASSUME Promised, [Next]_vars
               PROVE  \/ Contract!Deliveries \/ Contract!Relapse
                      \/ UNCHANGED Contract!vars
    OBVIOUS
  <2>1. CASE Next
    BY <2>1, NextLawful DEF Lawful, Promised
  <2>2. CASE UNCHANGED vars
    <3>1. src' = src /\ buff' = buff /\ dest' = dest /\ call' = call
      BY <2>2 DEF vars
    <3>2. Reading' = Reading /\ Rest' = Rest
      BY <3>1 DEF Reading, Rest
    <3> QED
      BY <3>1, <3>2 DEF Contract!vars
  <2> QED
    BY <2>1, <2>2
<1> QED
  BY <1>1, <1>2, SpecStreamInv, PTL DEF Spec, HandsOutInOrder, Contract!Forgiving

-----------------------------------------------------------------------------
(* Splitting a stream. *)

(* The length of all there is, the user having put back at most HeldMax    *)
(* characters in each of m operations.                                     *)
Most(m) == Len(Input) + HeldMax * m

(* A split, at work or not. *)
Splits ==
  [pc : {"idle", "read", "reading", "scan", "callback"},
   kind : {"none", "whole", "blocks", "chars", "string"},
   sep : Seq(Nat), text : Seq(Nat), mlen : -1..MemMax, ofs : IntMin..IntMax,
   piece : Seq(Nat), last : BOOLEAN, ret : {-1, 0}, moves : 0..MovesMax,
   moved : BOOLEAN, total : Nat]

SplitTyped ==
  /\ split \in Splits
  /\ due \in Seq(Nat)
  /\ split.kind = "chars" => split.sep # <<>>
  /\ split.kind = "string" => 2 <= Len(split.sep)

(* A split works on an open stream, with a buffer of its own; it searches  *)
(* for something.                                                          *)
Working ==
  /\ split.kind # "none" /\ 0 < buff.mlen
  /\ split.pc = "scan" => split.kind # "whole"
  /\ Len(split.text) < split.mlen /\ split.total <= IntMax

(* What the user may do to the stream, and what the split has cut off,     *)
(* stays within bounds: of all there is, and of the stream alone.          *)
Bounded ==
  /\ split.pc \in {"idle", "callback"} =>
       Len(split.text) + Len(Delivered) + Len(Rest) <= Most(split.moves)
  /\ split.pc \in {"read", "reading", "scan"} =>
       /\ Len(due) <= Most(split.moves)
       /\ split.kind = "chars" => Len(due) <= HeldMax + Len(Input)

(* Between two reads. *)
Between == Idle /\ due = split.text \o Left

(* During a read, and when it has returned: one that gave nothing has come *)
(* to the end, or had no memory.                                           *)
InRead ==
  /\ call.pc \in {"idle", "block"} /\ call.fn = "block"
  /\ dest.old = Len(split.text) /\ 0 < dest.mlen
  /\ due = (split.text \o dest.got) \o Rest
  /\ Idle /\ (dest.got = <<>> \/ call.ret = "ERR") => isEOF \/ call.starved

(* While the user has the piece. *)
InCallback ==
  /\ split.kind # "string" => split.text = <<>>
  /\ Cut \in Nat /\ Len(split.piece) + Cut <= IntMax
  /\ ~split.moved =>
       /\ Idle
       /\ Len(due) = Len(split.piece) + Cut + Len(split.text) + Len(Left)

(* The position of what is due. *)
Positioned ==
  split.pc # "idle" /\ split.kind # "blocks" /\ ~split.moved
    => split.ofs = split.total - Len(due)

(* What has been searched has no separator. *)
Searched ==
  split.kind = "chars" /\ split.pc \in {"read", "reading"}
    => Terminator(split.text, Chars(split.sep)) = 0

SplitInv ==
  /\ StreamInv /\ SplitTyped
  /\ split.pc = "idle" => split.text = <<>>
  /\ split.pc # "idle" => Working
  /\ Bounded
  /\ split.pc \in {"read", "scan"} => Between
  /\ split.pc = "reading" => InRead
  /\ split.pc = "callback" => InCallback
  /\ Positioned /\ Searched /\ PieceIsCut

-----------------------------------------------------------------------------
(* The bound on what there is. *)

(* A move of the user adds HeldMax to the most there can be, which with    *)
(* one more read stays a length.                                           *)
LEMMA MostFacts ==
  ASSUME NEW m \in 0..MovesMax
  PROVE  /\ Most(m) \in Nat /\ Len(Input) \in Nat /\ HeldMax \in Nat
         /\ SplitLen \in 1..IntMax /\ IntMax \in Nat
         /\ Most(m) + HeldMax + Len(Input) + SplitLen < IntMax
         /\ Most(m + 1) = Most(m) + HeldMax
<1>1. /\ Len(Input) \in Nat /\ HeldMax \in Nat /\ SplitLen \in 1..IntMax
      /\ IntMax \in Nat /\ MovesMax \in Nat /\ m \in Nat /\ m <= MovesMax
  BY LenProperties, StreamAssumption, SizesAssumption, SplitAssumption
<1>2. \A x, a, b \in Nat : a <= b => x * a \in Nat /\ x * a <= x * b
  OBVIOUS
<1>3. \A x, a \in Nat : x * (a + 1) = x * a + x /\ x * a \in Nat
  OBVIOUS
<1> DEFINE low == HeldMax * m
           high == HeldMax * MovesMax
           next == HeldMax * (m + 1)
           top == HeldMax * (MovesMax + 1)
<1>4. low \in Nat /\ high \in Nat /\ low <= high
  BY <1>1, <1>2
<1>5. next = low + HeldMax /\ top = high + HeldMax
  BY <1>1, <1>3
<1>6. 2 * Len(Input) + top + SplitLen < IntMax
  BY SplitFits
<1>7. Most(m) = Len(Input) + low /\ Most(m + 1) = Len(Input) + next
  BY DEF Most
<1> HIDE DEF low, high, next, top
<1> QED
  BY <1>1, <1>4, <1>5, <1>6, <1>7

-----------------------------------------------------------------------------
(* The split between two steps. *)

(* A split has fields of their types. *)
LEMMA SplitFields ==
  ASSUME SplitTyped
  PROVE  /\ split \in Splits /\ due \in Seq(Nat) /\ Len(due) \in Nat
         /\ split.text \in Seq(Nat) /\ Len(split.text) \in Nat
         /\ split.sep \in Seq(Nat) /\ Len(split.sep) \in Nat
         /\ split.piece \in Seq(Nat) /\ Len(split.piece) \in Nat
         /\ split.mlen \in Int /\ split.mlen <= MemMax /\ split.ofs \in Int
         /\ IntMin <= split.ofs /\ split.ofs <= IntMax
         /\ split.moves \in 0..MovesMax /\ split.total \in Nat
         /\ split.last \in BOOLEAN /\ split.moved \in BOOLEAN /\ split.ret \in {-1, 0}
<1>1. split \in Splits /\ due \in Seq(Nat)
  BY DEF SplitTyped
<1>2. /\ split.text \in Seq(Nat) /\ split.sep \in Seq(Nat) /\ split.piece \in Seq(Nat)
      /\ split.mlen \in -1..MemMax /\ split.ofs \in IntMin..IntMax
      /\ split.moves \in 0..MovesMax /\ split.total \in Nat
      /\ split.last \in BOOLEAN /\ split.moved \in BOOLEAN /\ split.ret \in {-1, 0}
  BY <1>1 DEF Splits
<1>3. MemMax \in Nat /\ IntMax \in Nat /\ IntMin \in Int
  BY SizesAssumption DEF IntMin
<1> QED
  BY <1>1, <1>2, <1>3, LenProperties

(* Between calls the stream holds what is left of it. *)
LEMMA LeftFacts ==
  ASSUME StreamInv, Idle
  PROVE  /\ Left \in Seq(Nat) /\ Len(Left) \in Nat /\ Rest = Left /\ Delivered = <<>>
         /\ buff.text \in Seq(Nat) /\ src \in Seq(Nat)
         /\ Len(Left) = Len(buff.text) + Len(src)
         /\ Len(Left) <= HeldMax + Len(Input)
<1>1. /\ src \in Seq(Nat) /\ buff.text \in Seq(Nat) /\ Rest = buff.text \o src
      /\ Delivered = <<>>
  BY IdleFacts DEF Idle
<1>2. Len(buff.text) + Len(src) <= HeldMax + Len(Input)
  BY DEF StreamInv
<1> QED
  BY <1>1, <1>2, TextFacts DEF Left

(* The ways of cutting, by the separator. *)
LEMMA KindFacts ==
  ASSUME NEW fn, NEW sep \in Seq(Nat)
  PROVE  /\ KindOf(fn, sep) \in {"whole", "blocks", "chars", "string"}
         /\ KindOf(fn, sep) = "chars" => sep # <<>>
         /\ KindOf(fn, sep) = "string" => 2 <= Len(sep)
<1>1. Len(sep) \in Nat /\ (Len(sep) = 0 => sep = <<>>)
  BY LenProperties, EmptySeq
<1>2. CASE sep = <<>>
  BY <1>2 DEF KindOf
<1>3. CASE sep # <<>> /\ (fn = "bssplitscb" \/ Len(sep) = 1)
  BY <1>3 DEF KindOf
<1>4. CASE sep # <<>> /\ ~(fn = "bssplitscb" \/ Len(sep) = 1)
  <2>1. KindOf(fn, sep) = "string"
    BY <1>4 DEF KindOf
  <2>2. Len(sep) # 0 /\ Len(sep) # 1
    BY <1>1, <1>4, Zenon
  <2>3. 2 <= Len(sep)
    <3>1. \A x \in Nat : x # 0 /\ x # 1 => 2 <= x
      OBVIOUS
    <3> QED
      BY <1>1, <2>2, <3>1, Zenon
  <2> QED
    BY <2>1, <2>3
<1> QED
  BY <1>2, <1>3, <1>4

(* No character, no separator. *)
LEMMA NothingToFind ==
  ASSUME NEW terms
  PROVE  Terminator(<<>>, terms) = 0
<1>1. <<>> \in Seq(Nat) /\ Len(<<>>) = 0
  BY EmptySeq
<1>2. Terminator(<<>>, terms) \in 0..Len(<<>>)
  BY <1>1, TerminatorFacts
<1> QED
  BY <1>1, <1>2

(* A step that leaves the stream alone leaves all of it. *)
LEMMA StreamStays ==
  ASSUME StreamInv, UNCHANGED vars
  PROVE  /\ StreamInv' /\ Left' = Left /\ Rest' = Rest /\ Delivered' = Delivered
         /\ buff' = buff /\ src' = src /\ dest' = dest /\ call' = call /\ isEOF' = isEOF
         /\ Idle' = Idle
<1>1. /\ src' = src /\ buff' = buff /\ isEOF' = isEOF /\ maxBuffSz' = maxBuffSz
      /\ dest' = dest /\ call' = call /\ ended' = ended
  BY DEF vars
<1>2. StreamInv'
  BY StutterStreamInv
<1> QED
  BY <1>1, <1>2 DEF Left, Rest, Delivered, Reading, Idle

(* A split begins with nothing of its own, and what the stream holds due. *)
LEMMA BeginInv ==
  ASSUME SplitInv, Begin
  PROVE  SplitInv'
<1>1. /\ Idle /\ split.pc = "idle" /\ 0 < buff.mlen /\ due' = Left /\ UNCHANGED vars
  BY StreamAssumption DEF Begin, SplitInv, StreamInv, Buffer
<1>2. PICK fn \in {"bssplitscb", "bssplitstrcb"}, sep \in Separators,
           g \in Bfromcstr(0) :
        split' = [split EXCEPT
                    !.pc = IF g.ret = "OK" THEN "read" ELSE "idle",
                    !.kind = KindOf(fn, sep), !.sep = sep, !.text = <<>>,
                    !.mlen = g.h.mlen, !.ofs = 0, !.piece = <<>>, !.last = FALSE,
                    !.ret = IF g.ret = "OK" THEN 0 ELSE -1,
                    !.moved = FALSE, !.total = Len(Left)]
  BY DEF Begin
<1>3. /\ StreamInv' /\ Left' = Left /\ Rest' = Rest /\ Delivered' = Delivered
      /\ buff' = buff /\ Idle' = Idle
  BY <1>1, StreamStays DEF SplitInv
<1>4. /\ Left \in Seq(Nat) /\ Len(Left) \in Nat /\ Rest = Left /\ Delivered = <<>>
      /\ Len(Left) <= HeldMax + Len(Input) /\ Len(<<>>) = 0 /\ <<>> \in Seq(Nat)
  BY <1>1, LeftFacts, EmptySeq DEF SplitInv
<1>5. /\ g.h.mlen \in -1..MemMax /\ g.ret \in {"OK", "ERR"}
      /\ g.ret = "OK" => 0 < g.h.mlen
  <2>1. /\ g.ret \in {"OK", "ERR"} /\ Owns(g.h)
        /\ g.ret = "ERR" => g.h = NoString
        /\ g.ret = "OK" => 0 < g.h.mlen
    BY BfromcstrOutcome
  <2>2. g.h.mlen \in Int /\ g.h.mlen <= MemMax /\ MemMax \in Nat
    BY <2>1, SizesAssumption DEF Owns, Header
  <2>3. g.ret = "ERR" => g.h.mlen = -1
    BY <2>1 DEF NoString
  <2> QED
    BY <2>1, <2>2, <2>3
<1> DEFINE kind == KindOf(fn, sep)
           pc == IF g.ret = "OK" THEN "read" ELSE "idle"
           ret == IF g.ret = "OK" THEN 0 ELSE -1
<1>6. /\ sep \in Seq(Nat) /\ kind \in {"whole", "blocks", "chars", "string"}
      /\ kind = "chars" => sep # <<>>
      /\ kind = "string" => 2 <= Len(sep)
  BY SplitAssumption, KindFacts
<1>7. /\ pc \in {"read", "idle"} /\ ret \in {0, -1}
      /\ pc = "read" => 0 < g.h.mlen
  BY <1>5
<1>8. /\ SplitTyped /\ split.moves \in 0..MovesMax /\ 0 \in IntMin..IntMax
  BY SplitFields, SizesAssumption DEF SplitInv, IntMin
<1>9. split' = [split EXCEPT !.pc = pc, !.kind = kind, !.sep = sep, !.text = <<>>,
                             !.mlen = g.h.mlen, !.ofs = 0, !.piece = <<>>,
                             !.last = FALSE, !.ret = ret, !.moved = FALSE,
                             !.total = Len(Left)]
  BY <1>2
<1> HIDE DEF kind, pc, ret
<1>10. /\ split' \in Splits /\ split'.pc = pc /\ split'.kind = kind /\ split'.sep = sep
       /\ split'.text = <<>> /\ split'.mlen = g.h.mlen /\ split'.ofs = 0
       /\ split'.moves = split.moves /\ split'.moved = FALSE /\ split'.total = Len(Left)
  <2>1. split' = [pc |-> pc, kind |-> kind, sep |-> sep, text |-> <<>>,
                  mlen |-> g.h.mlen, ofs |-> 0, piece |-> <<>>, last |-> FALSE,
                  ret |-> ret, moves |-> split.moves, moved |-> FALSE,
                  total |-> Len(Left)]
    BY <1>8, <1>9 DEF SplitTyped, Splits
  <2> QED
    BY <1>4, <1>5, <1>6, <1>7, <1>8, <2>1 DEF Splits
<1>11. SplitTyped'
  BY <1>1, <1>4, <1>6, <1>10 DEF SplitTyped
<1>12. Len(Left) <= Most(split.moves)
  <2>1. Len(split.text) + Len(Delivered) + Len(Rest) <= Most(split.moves)
    BY <1>1 DEF SplitInv, Bounded
  <2>2. Len(split.text) = 0 /\ Len(Delivered) = 0
    BY <1>1, <1>4 DEF SplitInv
  <2>3. 0 + 0 + Len(Left) <= Most(split.moves)
    BY <1>4, <2>1, <2>2, Zenon
  <2> QED
    BY <1>4, <1>8, <2>3, MostFacts
<1>13. Most(split'.moves) = Most(split.moves)
  BY <1>10 DEF Most
<1>14. CASE pc = "idle"
  <2>1. Bounded'
    BY <1>3, <1>4, <1>10, <1>12, <1>13, <1>14 DEF Bounded
  <2> QED
    BY <1>3, <1>10, <1>11, <1>14, <2>1
       DEF SplitInv, Positioned, Searched, PieceIsCut
<1>15. CASE pc = "read"
  <2>1. Working'
    <3>1. Len(Left) <= IntMax
      BY <1>4, <1>8, <1>12, MostFacts
    <3>2. split'.kind # "none" /\ 0 < buff'.mlen
      BY <1>1, <1>3, <1>6, <1>10
    <3>3. ~(split'.pc = "scan")
      BY <1>10, <1>15
    <3>4. Len(split'.text) = 0 /\ 0 < split'.mlen
      BY <1>4, <1>7, <1>10, <1>15
    <3>5. Len(split'.text) < split'.mlen
      BY <3>4, Zenon
    <3>6. split'.total <= IntMax
      BY <1>10, <3>1
    <3> QED
      BY <3>2, <3>3, <3>5, <3>6 DEF Working
  <2>2. Between'
    BY <1>1, <1>3, <1>4, <1>10, TextFacts DEF Between
  <2>3. Bounded'
    BY <1>1, <1>4, <1>10, <1>12, <1>13, <1>15 DEF Bounded
  <2>4. Positioned'
    BY <1>1, <1>4, <1>10 DEF Positioned
  <2>5. Searched' /\ PieceIsCut'
    BY <1>10, <1>15, NothingToFind DEF Searched, PieceIsCut
  <2> QED
    BY <1>3, <1>10, <1>11, <1>15, <2>1, <2>2, <2>3, <2>4, <2>5 DEF SplitInv
<1> QED
  BY <1>7, <1>14, <1>15

-----------------------------------------------------------------------------
(* The reads of the split. *)

(* What is left after a step. *)
LEMMA RestAfter ==
  ASSUME StreamInv'
  PROVE  /\ Rest' \in Seq(Nat) /\ Len(Rest') \in Nat /\ Delivered' \in Seq(Nat)
         /\ Len(Delivered') \in Nat /\ dest'.got \in Seq(Nat) /\ Left' \in Seq(Nat)
         /\ Len(Left') \in Nat
         /\ Idle' => Rest' = Left' /\ Delivered' = <<>>
         /\ ~Idle' /\ call'.pc # "closed" => Delivered' = dest'.got
         /\ call'.fn \in {"line", "block"} => Target(dest')
<1>1. /\ src' \in Seq(Nat) /\ dest'.got \in Seq(Nat) /\ buff'.text \in Seq(Nat)
      /\ <<>> \in Seq(Nat) /\ call'.pc \in {"closed", "idle", "line", "block"}
  BY TextFacts DEF StreamInv, Typed, Buffer, Callers
<1>2. Left' = buff'.text \o src' /\ Left' \in Seq(Nat)
  BY <1>1, TextFacts DEF Left
<1>3. CASE Reading'
  <2>1. /\ Rest' = <<>> \o src' /\ Delivered' = dest'.got /\ ~Idle'
    BY <1>3 DEF Rest, Delivered, Reading, Idle
  <2> QED
    BY <1>1, <1>2, <2>1, TextFacts DEF StreamInv, Target, DestLen
<1>4. CASE ~Reading'
  <2>1. /\ Rest' = Left' /\ Delivered' = <<>>
        /\ ~Idle' => call'.pc = "closed"
    BY <1>1, <1>2, <1>4 DEF Rest, Delivered, Reading, Idle
  <2> QED
    BY <1>1, <1>2, <2>1, TextFacts DEF StreamInv, Target, DestLen
<1> QED
  BY <1>3, <1>4

(* A step of a read of the split, its first one included: what it hands    *)
(* over lies between the text of the split and what is left.               *)
LEMMA ReadMoves ==
  ASSUME SplitInv, split.pc \in {"read", "reading"}, Delivered \in Seq(Nat),
         due = (split.text \o Delivered) \o Rest, due' = due,
         Lawful, Dry, NEW d, Kept(d), d.old = Len(split.text), 0 < buff'.mlen,
         split' \in Splits, split'.pc = "reading", split'.kind = split.kind,
         split'.sep = split.sep, split'.text = split.text, split'.mlen = split.mlen,
         split'.ofs = split.ofs, split'.moves = split.moves,
         split'.moved = split.moved, split'.total = split.total
  PROVE  SplitInv'
<1>1. /\ SplitTyped /\ Working /\ Bounded /\ Positioned /\ Searched
      /\ split.text \in Seq(Nat)
  BY SplitFields DEF SplitInv
<1>2. StreamInv' /\ ReadIsExact' /\ HandsOut
  BY DEF Lawful, Promised, Moved, Kept
<1>3. PICK p \in Seq(Nat) : Rest = p \o Rest' /\ dest'.got = Delivered \o p
  BY <1>2 DEF HandsOut
<1>4. Rest' \in Seq(Nat) /\ dest'.got \in Seq(Nat)
  BY <1>2, RestAfter
<1>5. due = (split.text \o dest'.got) \o Rest'
  <2>1. /\ split.text \in Seq(Nat) /\ Delivered \in Seq(Nat) /\ p \in Seq(Nat)
        /\ Rest' \in Seq(Nat)
    BY <1>1, <1>3, <1>4
  <2> DEFINE e == split.text \o Delivered
             left == Rest'
  <2>2. e \in Seq(Nat) /\ left \in Seq(Nat)
    BY <2>1, TextFacts
  <2>3. e \o p = split.text \o (Delivered \o p)
    BY <2>1, TextFacts
  <2>4. due = e \o (p \o left)
    BY <1>3, Zenon
  <2> HIDE DEF e, left
  <2>5. (e \o p) \o left = e \o (p \o left)
    BY <2>1, <2>2, TextFacts
  <2>6. due = (split.text \o (Delivered \o p)) \o left
    BY <2>3, <2>4, <2>5, Zenon
  <2> QED
    BY <1>3, <2>6, Zenon DEF left
<1>6. Idle' /\ (dest'.got = <<>> \/ call'.ret = "ERR") => isEOF' \/ call'.starved
  <2>1. Idle' /\ ~call'.starved => (call'.ret = "ERR" <=> dest'.got = <<>>)
    BY <1>2 DEF ReadIsExact, ReturnTellsDelivery, Returned, Kept
  <2> QED
    BY <2>1 DEF Dry, Idle
<1>7. InRead'
  BY <1>5, <1>6 DEF InRead, Kept
<1>8. SplitTyped' /\ Working'
  BY <1>1 DEF SplitTyped, Working
<1>9. Bounded'
  BY <1>1 DEF Bounded, Most
<1>10. Positioned' /\ Searched' /\ PieceIsCut'
  BY <1>1 DEF Positioned, Searched, PieceIsCut, Chars
<1> QED
  BY <1>2, <1>7, <1>8, <1>9, <1>10 DEF SplitInv

(* The buffer of the stream survives a block read. *)
LEMMA BlockKeepsBuffer ==
  ASSUME NEW b, Buffer(b), 0 < b.mlen, maxBuffSz \in 1..IntMax,
         NEW d, NEW c, BlockFirst(b, d, c)
  PROVE  0 < buff'.mlen
<1> DEFINE n == [c EXCEPT !.n = @ + DestLen(d)]
<1>1. CASE buff' = b
  BY <1>1
<1>2. CASE buff' # b
  <2>1. PICK g \in Ready(b) : g.ok /\ Pass(g.b, b.text, d, n, isEOF)
    BY <1>2 DEF BlockFirst, BlockRefused, LineRefused
  <2>2. Buffer(g.b) /\ maxBuffSz < g.b.mlen
    BY <2>1, ReadyFacts
  <2>3. g.b \in [text : Seq(Nat), mlen : -1..MemMax] /\ 0 < g.b.mlen
    BY <2>2, SizesAssumption DEF Buffer
  <2> HIDE DEF n
  <2>4. \E u : buff' = [g.b EXCEPT !.text = u]
    BY <2>1 DEF Pass
  <2> QED
    BY <2>3, <2>4
<1> QED
  BY <1>1, <1>2

(* bsreada, called by the split with its own buffer.                       *)
LEMMA ReadInv ==
  ASSUME SplitInv, Read
  PROVE  SplitInv'
<1> DEFINE a == [old |-> Len(split.text), mlen |-> split.mlen]
           d == Begins(a)
           c == NewCall("block", {}, SplitLen)
<1>1. /\ Idle /\ split.pc = "read" /\ due' = due /\ UNCHANGED maxBuffSz
      /\ split' = [split EXCEPT !.pc = "reading"] /\ ReadBlock(a, SplitLen)
  BY DEF Read, ReadBlock
<1>2. /\ StreamInv /\ SplitTyped /\ Working /\ Bounded /\ Between
  BY <1>1 DEF SplitInv
<1>3. /\ split.text \in Seq(Nat) /\ Len(split.text) \in Nat /\ split.mlen \in Int
      /\ split.mlen <= MemMax /\ split.moves \in 0..MovesMax /\ split \in Splits
      /\ Len(split.text) < split.mlen /\ 0 < split.mlen /\ Len(due) \in Nat
      /\ split.mlen \in 0..MemMax
  <2>1. /\ split.text \in Seq(Nat) /\ Len(split.text) \in Nat /\ split.mlen \in Int
        /\ split.mlen <= MemMax /\ split.moves \in 0..MovesMax /\ split \in Splits
        /\ Len(split.text) < split.mlen /\ Len(due) \in Nat
    BY <1>2, SplitFields DEF Working
  <2> QED
    BY <2>1, SizesAssumption
<1>4. /\ Left \in Seq(Nat) /\ Len(Left) \in Nat /\ Rest = Left /\ Delivered = <<>>
      /\ due = split.text \o Left /\ Delivered \in Seq(Nat)
  BY <1>1, <1>2, LeftFacts, TextFacts DEF Between
<1>5. /\ Target(d) /\ d.got = <<>> /\ d.mlen = split.mlen /\ d.old = Len(split.text)
  <2>1. /\ d = [old |-> Len(split.text), got |-> <<>>, mlen |-> split.mlen]
    BY DEF Begins
  <2>2. DestLen(d) = Len(split.text)
    BY <1>3, <2>1, EmptySeq DEF DestLen
  <2>3. d \in [old : Nat, got : Seq(Nat), mlen : -1..MemMax]
    <3>1. split.mlen \in -1..MemMax
      BY <1>3, SizesAssumption
    <3> HIDE DEF d
    <3> QED
      BY <1>3, <2>1, <3>1, EmptySeq
  <2> QED
    BY <1>3, <2>1, <2>2, <2>3 DEF Target
<1>6. Fresh(c, "block") /\ c.n = SplitLen /\ SplitLen \in Int /\ 0 < SplitLen
  BY PlainCallFresh, SplitAssumption, SizesAssumption
<1>7. /\ d.old + HeldMax + Len(Input) < IntMax
      /\ c.n <= IntMax - d.old
  <2>1. Len(due) = Len(split.text) + Len(Left)
    BY <1>3, <1>4, TextFacts
  <2>2. Len(due) <= Most(split.moves)
    BY <1>1, <1>2 DEF Bounded
  <2>3. /\ Most(split.moves) \in Nat /\ Len(Input) \in Nat /\ HeldMax \in Nat
        /\ SplitLen \in Nat /\ IntMax \in Nat
        /\ Most(split.moves) + HeldMax + Len(Input) + SplitLen < IntMax
    BY <1>3, MostFacts
  <2>4. Len(split.text) <= Most(split.moves)
    BY <1>3, <1>4, <2>1, <2>2, <2>3
  <2>5. \A x, m, h, i, l, t \in Nat :
          x <= m /\ m + h + i + l < t => x + h + i < t /\ l <= t - x
    OBVIOUS
  <2>6. /\ Len(split.text) + HeldMax + Len(Input) < IntMax
        /\ SplitLen <= IntMax - Len(split.text)
    BY <1>3, <2>3, <2>4, <2>5, Zenon
  <2> QED
    BY <1>5, <1>6, <2>6, Zenon
<1>8. BlockFirst(buff, d, c)
  <2>1. ~(buff.mlen < 0 \/ a.mlen <= 0 \/ SplitLen <= 0)
    BY <1>2, <1>3, <1>6, SizesAssumption DEF Working, StreamInv, Buffer
  <2> QED
    BY <1>1, <2>1 DEF ReadBlock
<1> HIDE DEF a, d, c
<1>9. Buffer(buff) /\ 0 <= buff.mlen /\ 0 < buff.mlen /\ maxBuffSz \in 1..IntMax
  BY <1>2, SizesAssumption DEF Working, StreamInv, Typed, Buffer
<1>10. 0 < d.mlen
  BY <1>3, <1>5
<1>11. Lawful /\ Kept(d) /\ Dry
  BY <1>1, <1>2, <1>5, <1>6, <1>7, <1>8, <1>9, <1>10, BlockFirstLawful
<1>12. 0 < buff'.mlen
  BY <1>8, <1>9, BlockKeepsBuffer
<1>13. due = (split.text \o Delivered) \o Rest
  BY <1>3, <1>4, TextFacts
<1>14. /\ split' \in Splits /\ split'.pc = "reading" /\ split'.kind = split.kind
       /\ split'.sep = split.sep /\ split'.text = split.text
       /\ split'.mlen = split.mlen /\ split'.ofs = split.ofs
       /\ split'.moves = split.moves /\ split'.moved = split.moved
       /\ split'.total = split.total
  BY <1>1, <1>3 DEF Splits
<1> QED
  BY <1>1, <1>4, <1>5, <1>11, <1>12, <1>13, <1>14, ReadMoves

-----------------------------------------------------------------------------
(* What the callback is given. *)

(* The pieces and their separators are the stream, cut up. *)
Partitioned ==
  Called =>
    /\ IsPrefix(split'.piece, due)
    /\ LET n == Len(split'.piece)
           cut == SubSeq(due, n + 1, n + Cut')
       IN  /\ Cut' = 1 => cut[1] \in Chars(split'.sep)
           /\ Cut' > 1 => cut = split'.sep
           /\ After(due, n + Cut') = split'.text \o Left'
    /\ ~ReadsAhead' => Left' = After(due, Len(split'.piece) + Cut')

(* A piece has its position, and the last one its reason. *)
Placed ==
  Called =>
    /\ ~split.moved /\ split'.kind # "blocks"
         => split'.ofs = split.total - Len(due)
    /\ split'.last => isEOF \/ call.starved

(* A read that ends the split gave nothing when it searches characters,    *)
(* and has a reason unless it hands over blocks.                           *)
LEMMA ReadEndsFor ==
  ASSUME InRead, Idle, NEW s, s.kind \in {"whole", "blocks", "chars", "string"},
         ReadEnds(s)
  PROVE  /\ s.kind = "chars" => dest.got = <<>>
         /\ isEOF \/ call.starved
<1>1. dest.got = <<>> \/ call.ret = "ERR" => isEOF \/ call.starved
  BY DEF InRead
<1>2. CASE s.kind = "chars"
  <2>1. dest.got = <<>>
    BY <1>2 DEF ReadEnds
  <2> QED
    BY <1>1, <2>1
<1>3. CASE s.kind \in {"whole", "blocks"}
  <2>1. call.ret = "ERR" /\ s.kind # "chars"
    BY <1>3 DEF ReadEnds
  <2> QED
    BY <1>1, <2>1
<1>4. CASE s.kind = "string"
  <2>1. Bseof /\ s.kind # "chars"
    BY <1>4 DEF ReadEnds
  <2> QED
    BY <2>1 DEF Bseof
<1> QED
  BY <1>2, <1>3, <1>4

(* A text is the beginning of what it is followed by. *)
LEMMA PieceFirst ==
  ASSUME NEW p \in Seq(Nat), NEW q \in Seq(Nat), NEW t, t = p \o q
  PROVE  /\ IsPrefix(p, t) /\ After(t, Len(p)) = q /\ Len(t) = Len(p) + Len(q)
         /\ Len(p) \in Nat /\ Len(q) \in Nat /\ t \in Seq(Nat)
<1>1. /\ Len(p) \in Nat /\ Len(q) \in Nat /\ Len(t) = Len(p) + Len(q) /\ t \in Seq(Nat)
  BY TextFacts
<1>2. /\ SubSeq(t, 1, Len(p)) = p /\ SubSeq(t, Len(p) + 1, Len(t)) = q
  BY CutOfConcat
<1>3. SubSeq(p, 1, Len(p)) = p
  BY SubSeqFull
<1>4. Len(p) <= Len(t)
  BY <1>1
<1> QED
  BY <1>1, <1>2, <1>3, <1>4 DEF IsPrefix, After

(* The text t is cut into p, q and r. *)
CutUp(t, p, q, r) ==
  /\ IsPrefix(p, t) /\ After(t, Len(p) + Len(q)) = r
  /\ Len(t) = Len(p) + Len(q) + Len(r)
  /\ Len(p) \in Nat /\ Len(q) \in Nat /\ Len(r) \in Nat
  /\ q # <<>> => SubSeq(t, Len(p) + 1, Len(p) + Len(q)) = q

(* A piece, what ended it, and what is left. *)
LEMMA PieceCut ==
  ASSUME NEW p \in Seq(Nat), NEW q \in Seq(Nat), NEW r \in Seq(Nat),
         NEW t, t = (p \o q) \o r
  PROVE  CutUp(t, p, q, r)
<1> DEFINE e == p \o q
           w == q \o r
<1>1. /\ e \in Seq(Nat) /\ w \in Seq(Nat) /\ Len(e) = Len(p) + Len(q)
      /\ Len(p) \in Nat /\ Len(q) \in Nat /\ Len(r) \in Nat
  BY TextFacts
<1>2. e \o r = p \o w
  BY TextFacts
<1>3. t = e \o r
  OBVIOUS
<1>4. SubSeq(e, Len(p) + 1, Len(e)) = q
  BY CutOfConcat
<1> HIDE DEF e, w
<1>5. t = p \o w
  BY <1>2, <1>3
<1>6. IsPrefix(p, t)
  BY <1>1, <1>5, PieceFirst
<1>7. After(t, Len(e)) = r /\ Len(t) = Len(e) + Len(r) /\ t \in Seq(Nat)
  BY <1>1, <1>3, PieceFirst, ZenonT(60)
<1>8. ASSUME q # <<>> PROVE SubSeq(t, Len(p) + 1, Len(p) + Len(q)) = q
  <2>1. Len(q) # 0
    BY <1>8, EmptySeq
  <2>2. Len(p) + 1 \in 1..Len(e) /\ Len(p) + Len(q) \in 1..Len(e)
    BY <1>1, <2>1
  <2>3. SubSeq(e \o r, Len(p) + 1, Len(p) + Len(q)) = SubSeq(e, Len(p) + 1, Len(p) + Len(q))
    BY <1>1, <2>2, SubSeqOfConcat1
  <2> QED
    BY <1>1, <1>3, <1>4, <2>3
<1> QED
  BY <1>1, <1>6, <1>7, <1>8 DEF CutUp

-----------------------------------------------------------------------------
(* The end of a split, and the call of the callback. *)

(* A split that has ended holds nothing. *)
LEMMA IdleInv ==
  ASSUME StreamInv', SplitTyped', split'.pc = "idle", split'.text = <<>>,
         Len(Delivered') + Len(Rest') <= Most(split'.moves)
  PROVE  SplitInv'
<1>1. Len(Delivered') \in Nat /\ Len(Rest') \in Nat
  BY RestAfter, LenProperties
<1>2. Len(split'.text) = 0
  BY EmptySeq
<1>3. Len(split'.text) + Len(Delivered') + Len(Rest') = Len(Delivered') + Len(Rest')
  BY <1>1, <1>2
<1>4. Bounded'
  BY <1>3 DEF Bounded, Most
<1> QED
  BY <1>4 DEF SplitInv, Positioned, Searched, PieceIsCut

(* The callback is given a piece, q has ended it, and what is left follows *)
(* it.                                                                     *)
LEMMA GivesInv ==
  ASSUME SplitInv, split.pc \in {"reading", "scan"}, due' = due,
         StreamInv', Idle', SplitTyped', Working', PieceIsCut',
         split'.pc = "callback", split'.kind = split.kind, split'.ofs = split.ofs,
         split'.moves = split.moves, split'.moved = split.moved,
         split'.total = split.total,
         NEW q \in Seq(Nat), Len(q) = Cut',
         due = (split'.piece \o q) \o (split'.text \o Left'),
         ~ReadsAhead' => split'.text = <<>>,
         Cut' = 1 => q[1] \in Chars(split'.sep),
         Cut' > 1 => q = split'.sep,
         split'.last => isEOF \/ call.starved
  PROVE  SplitInv' /\ Partitioned /\ Placed
<1> DEFINE p == split'.piece
           s == split'.text
           l == Left'
           r == s \o l
<1>1. /\ p \in Seq(Nat) /\ s \in Seq(Nat) /\ l \in Seq(Nat) /\ Len(l) \in Nat
      /\ Len(s) \in Nat /\ split.moves \in 0..MovesMax
  <2>1. split' \in Splits /\ split.moves \in 0..MovesMax
    BY SplitFields DEF SplitInv, SplitTyped
  <2>2. split'.piece \in Seq(Nat) /\ split'.text \in Seq(Nat)
    BY <2>1 DEF Splits
  <2> QED
    BY <2>1, <2>2, RestAfter, LenProperties
<1>2. r \in Seq(Nat) /\ Len(r) = Len(s) + Len(l)
  BY <1>1, TextFacts
<1>3. due = (p \o q) \o r
  OBVIOUS
<1>4. Rest' = l /\ Delivered' = <<>> /\ Len(Delivered') = 0
  BY RestAfter, EmptySeq
<1> HIDE DEF p, s, l, r
<1>5. /\ IsPrefix(p, due) /\ After(due, Len(p) + Len(q)) = r
      /\ Len(due) = Len(p) + Len(q) + Len(r)
      /\ Len(p) \in Nat /\ Len(q) \in Nat /\ Len(r) \in Nat
      /\ q # <<>> => SubSeq(due, Len(p) + 1, Len(p) + Len(q)) = q
  <2>1. CutUp(due, p, q, r)
    BY <1>1, <1>2, <1>3, PieceCut, Zenon
  <2> QED
    BY <2>1 DEF CutUp
<1>6. Partitioned
  <2> DEFINE c == Cut'
             cut == SubSeq(due, Len(p) + 1, Len(p) + c)
  <2>1. c # 0 => cut = q
    <3>1. c # 0 => q # <<>>
      BY EmptySeq
    <3> QED
      BY <1>5, <3>1
  <2>2. After(due, Len(p) + c) = s \o l
    BY <1>5 DEF r
  <2>3. c \in Nat /\ (c = 1 => q[1] \in Chars(split'.sep)) /\ (c > 1 => q = split'.sep)
    BY <1>5
  <2>4. (c = 1 => cut[1] \in Chars(split'.sep)) /\ (c > 1 => cut = split'.sep)
    <3> HIDE DEF c, cut
    <3>1. (c = 1 => c # 0) /\ (c > 1 => c # 0)
      BY <2>3
    <3> QED
      BY <2>1, <2>3, <3>1, Zenon
  <2>5. ~ReadsAhead' => l = After(due, Len(p) + c)
    <3>1. ~ReadsAhead' => s = <<>>
      BY DEF s
    <3>2. <<>> \o l = l
      BY <1>1, TextFacts
    <3> HIDE DEF c
    <3> QED
      BY <2>2, <3>1, <3>2
  <2> QED
    BY <1>5, <2>2, <2>4, <2>5 DEF Partitioned, p, s, l
<1>7. Placed
  BY DEF SplitInv, Positioned, Placed
<1>8. Bounded'
  <2>1. Len(due) <= Most(split.moves)
    BY DEF SplitInv, Bounded
  <2>2. Most(split.moves) \in Nat /\ Most(split'.moves) = Most(split.moves)
    BY <1>1, MostFacts DEF Most
  <2>3. Len(s) + 0 + Len(l) <= Most(split.moves)
    BY <1>1, <1>2, <1>5, <2>1, <2>2
  <2>4. Len(split'.text) + Len(Delivered') + Len(Rest') <= Most(split'.moves)
    BY <1>4, <2>2, <2>3, Zenon DEF s
  <2> QED
    BY <2>4 DEF Bounded, Most
<1>9. InCallback'
  <2>1. Len(due) = Len(p) + Cut' + Len(s) + Len(l)
    BY <1>1, <1>2, <1>5
  <2>2. Len(due) <= Most(split.moves)
    BY DEF SplitInv, Bounded
  <2>3. Most(split.moves) \in Nat /\ Most(split.moves) <= IntMax
    BY <1>1, MostFacts
  <2>4. Cut' \in Nat /\ Len(p) + Cut' <= IntMax
    <3> DEFINE c == Cut'
    <3>1. c \in Nat /\ Len(due) = Len(p) + c + Len(s) + Len(l)
      BY <1>5, <2>1
    <3> HIDE DEF c
    <3>2. Len(p) + c <= IntMax
      <4>1. \A a, b, d, e, n \in Nat : n = a + b + d + e => a + b <= n /\ a + b \in Nat
        OBVIOUS
      <4>2. \A k, n, m, top \in Nat : k <= n /\ n <= m /\ m <= top => k <= top
        OBVIOUS
      <4>3. /\ Len(p) \in Nat /\ Len(s) \in Nat /\ Len(l) \in Nat /\ IntMax \in Nat
            /\ Len(due) \in Nat
        BY <1>1, <1>5, <3>1, SizesAssumption
      <4>4. Len(p) + c <= Len(due) /\ Len(p) + c \in Nat
        BY <3>1, <4>1, <4>3, Zenon
      <4> QED
        BY <2>2, <2>3, <4>2, <4>3, <4>4, Zenon
    <3> QED
      BY <3>1, <3>2 DEF c
  <2>5. split'.kind # "string" => split'.text = <<>>
    BY DEF ReadsAhead
  <2> QED
    BY <2>1, <2>4, <2>5 DEF InCallback, p, s, l
<1>10. Positioned' /\ Searched'
  BY DEF SplitInv, Positioned, Searched
<1> QED
  BY <1>6, <1>7, <1>8, <1>9, <1>10 DEF SplitInv

(* The read has returned: its characters become text of the split, to be   *)
(* searched, handed over as the last piece, or, if there are none, nothing. *)
LEMMA HasReadInv ==
  ASSUME SplitInv, HasRead
  PROVE  SplitInv' /\ Partitioned /\ Placed
<1> DEFINE t == split.text \o dest.got
           s == [split EXCEPT !.text = t, !.mlen = dest.mlen]
<1>1. /\ Idle /\ split.pc = "reading" /\ due' = due /\ UNCHANGED vars
      /\ split' = IF ReadEnds(s)
                  THEN IF s.kind = "blocks" THEN Done(0)
                       ELSE [s EXCEPT !.pc = "callback", !.piece = s.text, !.text = <<>>,
                                      !.last = TRUE]
                  ELSE [s EXCEPT !.pc = IF s.kind = "whole" THEN "read" ELSE "scan"]
  BY DEF HasRead
<1>2. /\ StreamInv /\ SplitTyped /\ Working /\ Bounded /\ InRead /\ Positioned /\ Searched
      /\ split \in Splits
  BY <1>1 DEF SplitInv, SplitTyped
<1>3. /\ StreamInv' /\ Left' = Left /\ Rest' = Rest /\ Delivered' = Delivered
      /\ buff' = buff /\ Idle'
  BY <1>1, <1>2, StreamStays
<1>4. /\ Left \in Seq(Nat) /\ Len(Left) \in Nat /\ Rest = Left /\ Delivered = <<>>
      /\ Rest' = Left /\ Delivered' = <<>>
  BY <1>1, <1>2, <1>3, LeftFacts
<1>5. /\ dest.got \in Seq(Nat) /\ dest.mlen \in 1..MemMax /\ dest.mlen \in -1..MemMax
      /\ dest.old + Len(dest.got) < dest.mlen /\ Len(dest.got) \in Nat
  <2>1. /\ dest \in [old : Nat, got : Seq(Nat), mlen : -1..MemMax] /\ 0 < dest.mlen
        /\ DestLen(dest) < dest.mlen
    BY <1>2 DEF StreamInv, InRead, Target
  <2> QED
    BY <2>1, SizesAssumption, LenProperties DEF DestLen
<1>6. /\ t \in Seq(Nat) /\ Len(t) \in Nat /\ Len(t) < dest.mlen /\ due = t \o Left
      /\ Len(due) = Len(t) + Len(Left) /\ split.text \in Seq(Nat)
      /\ split.moves \in 0..MovesMax
  <2>1. /\ split.text \in Seq(Nat) /\ split.moves \in 0..MovesMax
    BY <1>2, SplitFields
  <2>2. t \in Seq(Nat) /\ Len(t) = Len(split.text) + Len(dest.got) /\ Len(t) \in Nat
    BY <1>5, <2>1, TextFacts
  <2>3. due = t \o Left
    BY <1>2, <1>4 DEF InRead
  <2>4. Len(t) < dest.mlen
    BY <1>2, <1>5, <2>2 DEF InRead
  <2> HIDE DEF t, s
  <2> QED
    BY <1>4, <2>1, <2>2, <2>3, <2>4, TextFacts
<1>7. Len(Left) <= Most(split.moves) /\ Most(split.moves) \in Nat
  <2>1. Most(split.moves) \in Nat
    BY <1>6, MostFacts
  <2>2. Len(due) <= Most(split.moves)
    BY <1>1, <1>2 DEF Bounded
  <2> HIDE DEF t, s
  <2> QED
    BY <1>4, <1>6, <2>1, <2>2
<1>8. /\ s.kind = split.kind /\ s.text = t
      /\ s.kind \in {"whole", "blocks", "chars", "string"}
  BY <1>2 DEF Splits, Working
<1> HIDE DEF t
<1>9. CASE ReadEnds(s) /\ s.kind = "blocks"
  <2>1. split' = Done(0)
    BY <1>1, <1>9
  <2>2. /\ split' \in Splits /\ split'.pc = "idle" /\ split'.kind = split.kind
        /\ split'.sep = split.sep /\ split'.text = <<>> /\ split'.moves = split.moves
    BY <1>2, <2>1, EmptySeq DEF Done, Splits
  <2>3. SplitTyped'
    BY <1>1, <1>2, <2>2 DEF SplitTyped
  <2>4. Len(Delivered') + Len(Rest') <= Most(split'.moves)
    <3>1. Len(Delivered') = 0 /\ Rest' = Left
      BY <1>4, EmptySeq
    <3>2. Most(split'.moves) = Most(split.moves)
      BY <2>2 DEF Most
    <3> QED
      BY <1>4, <1>7, <3>1, <3>2
  <2>5. SplitInv'
    BY <1>3, <2>2, <2>3, <2>4, IdleInv
  <2> QED
    BY <2>2, <2>5 DEF Partitioned, Placed, Called
<1>10. CASE ReadEnds(s) /\ s.kind # "blocks"
  <2> DEFINE e == <<>>
  <2>1. split' = [s EXCEPT !.pc = "callback", !.piece = t, !.text = <<>>, !.last = TRUE]
    BY <1>1, <1>8, <1>10
  <2>2. split' = [pc |-> "callback", kind |-> split.kind, sep |-> split.sep,
                  text |-> <<>>, mlen |-> dest.mlen, ofs |-> split.ofs, piece |-> t,
                  last |-> TRUE, ret |-> split.ret, moves |-> split.moves,
                  moved |-> split.moved, total |-> split.total]
    BY <1>2, <2>1 DEF Splits
  <2>3. /\ split' \in Splits /\ split'.pc = "callback" /\ split'.kind = split.kind
        /\ split'.sep = split.sep /\ split'.text = <<>> /\ split'.mlen = dest.mlen
        /\ split'.ofs = split.ofs /\ split'.piece = t /\ split'.last = TRUE
        /\ split'.moves = split.moves /\ split'.moved = split.moved
        /\ split'.total = split.total
    BY <1>2, <1>5, <1>6, <2>2, EmptySeq DEF Splits
  <2>4. SplitTyped'
    BY <1>1, <1>2, <2>3 DEF SplitTyped
  <2>5. Working'
    <3>1. Len(split'.text) = 0
      BY <2>3, EmptySeq
    <3> QED
      BY <1>2, <1>3, <1>5, <2>3, <3>1 DEF Working
  <2>6. e \in Seq(Nat) /\ Len(e) = 0 /\ Cut' = 0
    BY <2>3, EmptySeq DEF Cut
  <2>7. due = (split'.piece \o e) \o (split'.text \o Left')
    BY <1>3, <1>4, <1>6, <2>3, TextFacts
  <2>8. /\ s.kind = "chars" => dest.got = <<>>
        /\ isEOF \/ call.starved
    <3> HIDE DEF s
    <3> QED
      BY <1>1, <1>2, <1>8, <1>10, ReadEndsFor
  <2>9. PieceIsCut'
    <3>1. CASE split.kind = "chars"
      <4>1. t = split.text
        <5>1. dest.got = <<>>
          BY <1>8, <2>8, <3>1
        <5>2. t = split.text \o <<>>
          BY <5>1 DEF t
        <5> QED
          BY <1>6, <5>2, TextFacts
      <4>2. Terminator(split.text, Chars(split.sep)) = 0
        BY <1>1, <1>2, <3>1 DEF Searched
      <4> QED
        BY <2>3, <3>1, <4>1, <4>2 DEF PieceIsCut, Chars
    <3>2. CASE split.kind # "chars"
      BY <2>3, <3>2 DEF PieceIsCut
    <3> QED
      BY <3>1, <3>2
  <2>10. /\ Len(e) = Cut' /\ (Cut' = 1 => e[1] \in Chars(split'.sep))
         /\ (Cut' > 1 => e = split'.sep)
    BY <2>6
  <2> HIDE DEF e, s
  <2>11. /\ split.pc \in {"reading", "scan"}
         /\ split'.last => isEOF \/ call.starved
    BY <1>1, <2>8
  <2> QED
    BY <1>1, <1>3, <2>3, <2>4, <2>5, <2>6, <2>7, <2>9, <2>10, <2>11, GivesInv
<1>11. CASE ~ReadEnds(s)
  <2> DEFINE pc == IF s.kind = "whole" THEN "read" ELSE "scan"
  <2>1. split' = [s EXCEPT !.pc = pc]
    BY <1>1, <1>11
  <2>2. /\ pc \in {"read", "scan"} /\ (pc = "read" <=> split.kind = "whole")
    BY <1>8
  <2> HIDE DEF pc
  <2>3. split' = [pc |-> pc, kind |-> split.kind, sep |-> split.sep,
                  text |-> t, mlen |-> dest.mlen, ofs |-> split.ofs,
                  piece |-> split.piece, last |-> split.last, ret |-> split.ret,
                  moves |-> split.moves, moved |-> split.moved, total |-> split.total]
    BY <1>2, <2>1 DEF Splits
  <2>4. /\ split' \in Splits /\ split'.pc = pc /\ split'.kind = split.kind
        /\ split'.sep = split.sep /\ split'.text = t /\ split'.mlen = dest.mlen
        /\ split'.ofs = split.ofs /\ split'.moves = split.moves
        /\ split'.moved = split.moved /\ split'.total = split.total
    BY <1>2, <1>5, <1>6, <2>2, <2>3 DEF Splits
  <2>5. SplitTyped'
    BY <1>1, <1>2, <2>4 DEF SplitTyped
  <2>6. Working'
    BY <1>2, <1>3, <1>6, <2>2, <2>4 DEF Working
  <2>7. Between'
    BY <1>1, <1>3, <1>6, <2>4 DEF Between
  <2>8. Bounded'
    BY <1>1, <1>2, <2>2, <2>4 DEF Bounded, Most
  <2>9. Positioned' /\ Searched' /\ PieceIsCut'
    BY <1>1, <1>2, <2>2, <2>4 DEF Positioned, Searched, PieceIsCut
  <2>10. SplitInv'
    BY <1>3, <2>2, <2>4, <2>5, <2>6, <2>7, <2>8, <2>9 DEF SplitInv
  <2> QED
    BY <2>2, <2>4, <2>10 DEF Partitioned, Placed, Called
<1> QED
  BY <1>9, <1>10, <1>11

-----------------------------------------------------------------------------
(* Searching the text. *)

(* A text is cut in two places. *)
LEMMA CutAround ==
  ASSUME NEW t \in Seq(Nat), NEW m \in 0..Len(t), NEW n \in m..Len(t)
  PROVE  /\ First(t, m) \in Seq(Nat) /\ Len(First(t, m)) = m
         /\ After(t, n) \in Seq(Nat) /\ Len(After(t, n)) = Len(t) - n
         /\ SubSeq(t, m + 1, n) \in Seq(Nat)
         /\ First(t, m) \o SubSeq(t, m + 1, n) = First(t, n)
         /\ (First(t, m) \o SubSeq(t, m + 1, n)) \o After(t, n) = t
<1>1. Len(t) \in Nat /\ n \in 0..Len(t) /\ 1 \in 1..(Len(t) + 1) /\ m \in 0..Len(t)
  BY LenProperties
<1>2. First(t, m) \in Seq(Nat) /\ Len(First(t, m)) = m
  BY CutText
<1>3. /\ After(t, n) \in Seq(Nat) /\ Len(After(t, n)) = Len(t) - n
      /\ First(t, n) \o After(t, n) = t
  BY <1>1, CutText
<1>4. SubSeq(t, m + 1, n) \in Seq(Nat)
  <2>1. \A i \in (m + 1)..n : t[i] \in Nat
    BY <1>1, ElementOfSeq
  <2> QED
    BY <1>1, <2>1, SubSeqProperties
<1>5. First(t, m) \o SubSeq(t, m + 1, n) = First(t, n)
  <2>1. m \in (1 - 1)..Len(t)
    BY <1>1
  <2> QED
    BY <1>1, <2>1, ConcatAdjacentSubSeq DEF First
<1> QED
  BY <1>2, <1>3, <1>4, <1>5

(* A text without a terminator has none to find. *)
LEMMA UnendedTerminator ==
  ASSUME NEW t, NEW terms, Unended(t, terms)
  PROVE  Terminator(t, terms) = 0
BY DEF Unended, Terminator

(* The string is found where it first occurs. *)
LEMMA BinstrFacts ==
  ASSUME NEW t \in Seq(Nat), NEW sep, Binstr(t, sep) # 0
  PROVE  LET i == Binstr(t, sep)
         IN  /\ i \in 1..Len(t) /\ MatchesAt(t, sep, i)
             /\ \A j \in 1..(i - 1) : ~MatchesAt(t, sep, j)
<1> DEFINE S == {k \in 1..Len(t) : MatchesAt(t, sep, k)}
<1>1. Len(t) \in Nat
  BY LenProperties
<1>2. S # {}
  BY DEF Binstr
<1>3. PICK i \in S : \A j \in S : i <= j
  <2> HIDE DEF S
  <2>1. S \in SUBSET Nat
    BY <1>1 DEF S
  <2> QED
    BY <1>2, <2>1, LeastExists
<1>4. i \in 1..Len(t) /\ MatchesAt(t, sep, i)
  BY <1>3
<1>5. \A j \in 1..(i - 1) : ~MatchesAt(t, sep, j)
  <2> SUFFICES ASSUME NEW j \in 1..(i - 1), MatchesAt(t, sep, j) PROVE FALSE
    OBVIOUS
  <2>1. j \in 1..Len(t) /\ ~(i <= j)
    BY <1>1, <1>4
  <2> QED
    BY <1>3, <2>1
<1>6. \E k \in 1..Len(t) : MatchesAt(t, sep, k) /\ \A j \in 1..(k - 1) : ~MatchesAt(t, sep, j)
  BY <1>4, <1>5, Zenon
<1>7. Binstr(t, sep) = CHOOSE k \in 1..Len(t) :
        MatchesAt(t, sep, k) /\ \A j \in 1..(k - 1) : ~MatchesAt(t, sep, j)
  BY <1>4 DEF Binstr
<1> QED
  BY <1>6, <1>7, Zenon

(* There is one such place. *)
LEMMA BinstrUnique ==
  ASSUME NEW t \in Seq(Nat), NEW sep, NEW i \in 1..Len(t), MatchesAt(t, sep, i),
         \A j \in 1..(i - 1) : ~MatchesAt(t, sep, j)
  PROVE  Binstr(t, sep) = i
<1> DEFINE b == Binstr(t, sep)
<1>1. Len(t) \in Nat
  BY LenProperties
<1>2. b = CHOOSE k \in 1..Len(t) :
        MatchesAt(t, sep, k) /\ \A j \in 1..(k - 1) : ~MatchesAt(t, sep, j)
  BY DEF Binstr
<1>3. b \in 1..Len(t) /\ MatchesAt(t, sep, b) /\ \A j \in 1..(b - 1) : ~MatchesAt(t, sep, j)
  BY <1>2, Zenon
<1> HIDE DEF b
<1>4. ~(i < b) /\ ~(b < i)
  <2>1. i < b => i \in 1..(b - 1)
    BY <1>1, <1>3
  <2>2. b < i => b \in 1..(i - 1)
    BY <1>1, <1>3
  <2> QED
    BY <1>3, <2>1, <2>2
<1>5. b = i
  BY <1>1, <1>3, <1>4
<1> QED
  BY <1>5 DEF b

(* Cut where the string first occurs, a text with the string behind it has *)
(* it there only.                                                          *)
LEMMA BinstrOfPiece ==
  ASSUME NEW t \in Seq(Nat), NEW sep \in Seq(Nat), sep # <<>>,
         NEW i, i = Binstr(t, sep), i # 0
  PROVE  /\ i \in 1..Len(t) /\ Len(sep) \in Nat /\ Len(sep) # 0
         /\ i - 1 \in 0..Len(t) /\ i + Len(sep) - 1 \in (i - 1)..Len(t)
         /\ SubSeq(t, (i - 1) + 1, i + Len(sep) - 1) = sep
         /\ Binstr(First(t, i - 1) \o sep, sep) = i
<1>1. /\ i \in 1..Len(t) /\ MatchesAt(t, sep, i) /\ Len(t) \in Nat
      /\ \A j \in 1..(i - 1) : ~MatchesAt(t, sep, j)
  BY BinstrFacts, LenProperties
<1>2. Len(sep) \in Nat /\ Len(sep) # 0
  BY LenProperties, EmptySeq
<1> DEFINE n == i + Len(sep) - 1
           u == First(t, n)
<1>3. n <= Len(t) /\ SubSeq(t, i, n) = sep
  BY <1>1 DEF MatchesAt
<1>4. i - 1 \in 0..Len(t) /\ n \in (i - 1)..Len(t) /\ n \in 0..Len(t) /\ (i - 1) + 1 = i
  <2>1. \A x, l, k \in Nat : x \in 1..l /\ x + k - 1 <= l =>
          /\ x - 1 \in 0..l /\ x + k - 1 \in (x - 1)..l /\ x + k - 1 \in 0..l
          /\ (x - 1) + 1 = x
    OBVIOUS
  <2>2. i \in Nat
    BY <1>1
  <2> QED
    BY <1>1, <1>2, <1>3, <2>1, <2>2, Zenon
<1>5. First(t, i - 1) \o sep = u
  <2> HIDE DEF n
  <2>1. First(t, i - 1) \o SubSeq(t, (i - 1) + 1, n) = First(t, n)
    BY <1>4, CutAround
  <2> QED
    BY <1>3, <1>4, <2>1
<1>6. u \in Seq(Nat) /\ Len(u) = n /\ i \in 1..Len(u)
  <2> HIDE DEF n
  <2>1. u \in Seq(Nat) /\ Len(u) = n
    BY <1>4, CutText
  <2>2. n = i + Len(sep) - 1
    BY DEF n
  <2> QED
    BY <1>1, <1>2, <2>1, <2>2
<1>7. ASSUME NEW k \in 1..i PROVE MatchesAt(u, sep, k) <=> MatchesAt(t, sep, k)
  <2> DEFINE e == k + Len(sep) - 1
             v == After(t, n)
  <2>1. e \in 1..n /\ k \in 1..n /\ e <= Len(t)
    <3>1. e <= n /\ 1 <= e /\ k <= n /\ e \in Int
      <4>1. \A x, y, l \in Nat : x \in 1..y /\ l # 0 =>
              /\ x + l - 1 <= y + l - 1 /\ 1 <= x + l - 1 /\ x <= y + l - 1
              /\ x + l - 1 \in Int
        OBVIOUS
      <4>2. i \in Nat /\ k \in Nat
        BY <1>1, <1>7
      <4> QED
        BY <1>2, <1>7, <4>1, <4>2, Zenon
    <3> HIDE DEF n, e
    <3> QED
      BY <1>1, <1>4, <1>7, <3>1
  <2>2. v \in Seq(Nat) /\ u \o v = t
    <3> HIDE DEF n
    <3> QED
      BY <1>4, CutText
  <2>3. SubSeq(u \o v, k, e) = SubSeq(u, k, e)
    <3> HIDE DEF n, e, u, v
    <3> QED
      BY <1>6, <2>1, <2>2, SubSeqOfConcat1
  <2>4. SubSeq(t, k, e) = SubSeq(u, k, e)
    <3> HIDE DEF n, e, u, v
    <3> QED
      BY <2>2, <2>3
  <2>5. e <= Len(u) /\ e <= Len(t)
    <3> HIDE DEF n, e, u
    <3> QED
      BY <1>6, <2>1
  <2> QED
    BY <2>4, <2>5 DEF MatchesAt
<1>8. MatchesAt(u, sep, i) /\ \A j \in 1..(i - 1) : ~MatchesAt(u, sep, j)
  <2>1. i \in 1..i /\ \A j \in 1..(i - 1) : j \in 1..i
    BY <1>1
  <2> HIDE DEF u
  <2> QED
    BY <1>1, <1>7, <2>1
<1> HIDE DEF u
<1>9. Binstr(u, sep) = i
  BY <1>6, <1>8, BinstrUnique
<1> QED
  BY <1>1, <1>2, <1>3, <1>4, <1>5, <1>9

(* A split that calls the callback has the piece and the rest. *)
LEMMA CallsFields ==
  ASSUME split \in Splits, NEW piece \in Seq(Nat), NEW rest \in Seq(Nat),
         NEW last \in BOOLEAN, split' = Calls(piece, rest, last)
  PROVE  /\ split' \in Splits /\ split'.pc = "callback" /\ split'.kind = split.kind
         /\ split'.sep = split.sep /\ split'.text = rest /\ split'.mlen = split.mlen
         /\ split'.ofs = split.ofs /\ split'.piece = piece /\ split'.last = last
         /\ split'.moves = split.moves /\ split'.moved = split.moved
         /\ split'.total = split.total
<1>1. split' = [pc |-> "callback", kind |-> split.kind, sep |-> split.sep,
                text |-> rest, mlen |-> split.mlen, ofs |-> split.ofs, piece |-> piece,
                last |-> last, ret |-> split.ret, moves |-> split.moves,
                moved |-> split.moved, total |-> split.total]
  BY DEF Calls, Splits
<1>2. /\ split.kind \in {"none", "whole", "blocks", "chars", "string"}
      /\ split.sep \in Seq(Nat) /\ split.mlen \in -1..MemMax
      /\ split.ofs \in IntMin..IntMax /\ split.ret \in {-1, 0}
      /\ split.piece \in Seq(Nat) /\ split.last \in BOOLEAN
      /\ split.moves \in 0..MovesMax /\ split.moved \in BOOLEAN /\ split.total \in Nat
  BY DEF Splits
<1>3. <<>> \in Seq(Nat)
  BY EmptySeq
<1>4. split' \in Splits
  BY <1>1, <1>2, <1>3 DEF Splits
<1> QED
  BY <1>1, <1>4

(* A split that has ended. *)
LEMMA DoneFields ==
  ASSUME split \in Splits, NEW ret \in {-1, 0}, split' = Done(ret)
  PROVE  /\ split' \in Splits /\ split'.pc = "idle" /\ split'.kind = split.kind
         /\ split'.sep = split.sep /\ split'.text = <<>> /\ split'.moves = split.moves
<1>1. split' = [pc |-> "idle", kind |-> split.kind, sep |-> split.sep,
                text |-> <<>>, mlen |-> split.mlen, ofs |-> split.ofs,
                piece |-> split.piece, last |-> split.last, ret |-> ret,
                moves |-> split.moves, moved |-> split.moved, total |-> split.total]
  BY DEF Done, Splits
<1>2. /\ split.kind \in {"none", "whole", "blocks", "chars", "string"}
      /\ split.sep \in Seq(Nat) /\ split.mlen \in -1..MemMax
      /\ split.ofs \in IntMin..IntMax /\ split.ret \in {-1, 0}
      /\ split.piece \in Seq(Nat) /\ split.last \in BOOLEAN
      /\ split.moves \in 0..MovesMax /\ split.moved \in BOOLEAN /\ split.total \in Nat
  BY DEF Splits
<1>3. <<>> \in Seq(Nat)
  BY EmptySeq
<1>4. split' \in Splits
  BY <1>1, <1>2, <1>3 DEF Splits
<1> QED
  BY <1>1, <1>4

(* What a split has when it searches its text. *)
LEMMA ScanFacts ==
  ASSUME SplitInv, Idle, split.pc = "scan"
  PROVE  /\ StreamInv /\ SplitTyped /\ split \in Splits /\ Working /\ Between
         /\ split.text \in Seq(Nat) /\ Len(split.text) \in Nat
         /\ Left \in Seq(Nat) /\ Len(Left) \in Nat
         /\ due = split.text \o Left /\ Len(due) = Len(split.text) + Len(Left)
         /\ Len(due) \in Nat /\ split.moves \in 0..MovesMax
         /\ Most(split.moves) \in Nat /\ Len(due) <= Most(split.moves)
         /\ split.kind = "chars" => Len(due) <= HeldMax + Len(Input)
         /\ 0 < split.mlen /\ split.mlen \in Int
<1>1. /\ StreamInv /\ SplitTyped /\ split \in Splits /\ Working /\ Between /\ Bounded
  BY DEF SplitInv, SplitTyped
<1>2. /\ split.text \in Seq(Nat) /\ Len(split.text) \in Nat /\ split.moves \in 0..MovesMax
      /\ split.mlen \in Int
  BY <1>1, SplitFields
<1>3. Left \in Seq(Nat) /\ Len(Left) \in Nat /\ due = split.text \o Left
  BY <1>1, LeftFacts DEF Between
<1>4. Len(due) = Len(split.text) + Len(Left) /\ Len(due) \in Nat
  BY <1>2, <1>3, TextFacts
<1>5. Most(split.moves) \in Nat
  BY <1>2, MostFacts
<1>6. /\ Len(due) <= Most(split.moves)
      /\ split.kind = "chars" => Len(due) <= HeldMax + Len(Input)
  BY <1>1 DEF Bounded
<1>7. 0 < split.mlen
  BY <1>1, <1>2 DEF Working
<1> QED
  BY <1>1, <1>2, <1>3, <1>4, <1>5, <1>6, <1>7

(* There is nothing to cut: more is read. *)
LEMMA NotFoundInv ==
  ASSUME SplitInv, Idle, split.pc = "scan", due' = due, UNCHANGED vars,
         split.kind \in {"chars", "string"}, Found = 0,
         split' = [split EXCEPT !.pc = "read"]
  PROVE  SplitInv' /\ Partitioned /\ Placed
<1>1. /\ StreamInv /\ SplitTyped /\ split \in Splits /\ Working /\ Between /\ Bounded
      /\ Positioned
  BY ScanFacts DEF SplitInv
<1>2. /\ StreamInv' /\ Left' = Left /\ buff' = buff /\ Idle'
  BY <1>1, StreamStays
<1>3. /\ split' \in Splits /\ split'.pc = "read" /\ split'.kind = split.kind
      /\ split'.sep = split.sep /\ split'.text = split.text
      /\ split'.mlen = split.mlen /\ split'.ofs = split.ofs
      /\ split'.moves = split.moves /\ split'.moved = split.moved
      /\ split'.total = split.total
  BY <1>1 DEF Splits
<1>4. SplitTyped' /\ Working'
  BY <1>1, <1>2, <1>3 DEF SplitTyped, Working
<1>5. Between' /\ Bounded' /\ Positioned' /\ PieceIsCut'
  BY <1>1, <1>2, <1>3 DEF Between, Bounded, Most, Positioned, PieceIsCut
<1>6. Searched'
  BY <1>3 DEF Searched, Found, Chars
<1> QED
  BY <1>2, <1>3, <1>4, <1>5, <1>6 DEF SplitInv, Partitioned, Placed, Called

(* Without a separator the callback is given what was read. *)
LEMMA BlockGivenInv ==
  ASSUME SplitInv, Idle, split.pc = "scan", due' = due, UNCHANGED vars,
         split.kind = "blocks", split' = Calls(split.text, <<>>, FALSE)
  PROVE  SplitInv' /\ Partitioned /\ Placed
<1> DEFINE e == <<>>
<1>1. /\ StreamInv /\ SplitTyped /\ split \in Splits /\ Working
      /\ split.text \in Seq(Nat) /\ Left \in Seq(Nat) /\ due = split.text \o Left
      /\ 0 < split.mlen
  BY ScanFacts
<1>2. /\ StreamInv' /\ Left' = Left /\ buff' = buff /\ Idle'
  BY <1>1, StreamStays
<1>3. e \in Seq(Nat) /\ Len(e) = 0
  BY EmptySeq
<1> HIDE DEF e
<1>4. /\ split' \in Splits /\ split'.pc = "callback" /\ split'.kind = split.kind
      /\ split'.sep = split.sep /\ split'.text = e /\ split'.mlen = split.mlen
      /\ split'.ofs = split.ofs /\ split'.piece = split.text /\ split'.last = FALSE
      /\ split'.moves = split.moves /\ split'.moved = split.moved
      /\ split'.total = split.total
  <2> DEFINE no == FALSE
  <2>1. split' = Calls(split.text, e, no) /\ no \in BOOLEAN
    BY DEF e
  <2> HIDE DEF no
  <2>2. /\ split' \in Splits /\ split'.pc = "callback" /\ split'.kind = split.kind
        /\ split'.sep = split.sep /\ split'.text = e /\ split'.mlen = split.mlen
        /\ split'.ofs = split.ofs /\ split'.piece = split.text /\ split'.last = no
        /\ split'.moves = split.moves /\ split'.moved = split.moved
        /\ split'.total = split.total
    BY <1>1, <1>3, <2>1, CallsFields
  <2> QED
    BY <2>2 DEF no
<1>5. SplitTyped' /\ Working' /\ PieceIsCut'
  BY <1>1, <1>2, <1>3, <1>4 DEF SplitTyped, Working, PieceIsCut
<1>6. Cut' = 0
  BY <1>4 DEF Cut
<1>7. due = (split'.piece \o e) \o (split'.text \o Left')
  BY <1>1, <1>2, <1>4, TextFacts DEF e
<1>8. split'.text = <<>>
  BY <1>4 DEF e
<1>9. Len(e) = Cut' /\ ~(Cut' = 1) /\ ~(Cut' > 1)
  BY <1>3, <1>6
<1>10. split.pc \in {"reading", "scan"} /\ ~split'.last
  BY <1>4
<1> QED
  BY <1>2, <1>3, <1>4, <1>5, <1>7, <1>8, <1>9, <1>10, GivesInv

(* A character of the text is a separator: what follows it goes back into  *)
(* the stream, or, without memory, is lost with the split.                 *)
LEMMA CutAtCharInv ==
  ASSUME SplitInv, Idle, split.pc = "scan", due' = due, split.kind = "chars",
         NEW i, i = Found, i # 0, CutAtChar(i)
  PROVE  SplitInv' /\ Partitioned /\ Placed
<1> DEFINE t == split.text
           p == First(t, i - 1)
           q == SubSeq(t, (i - 1) + 1, i)
           r == After(t, i)
           s == buff.text
<1>1. /\ StreamInv /\ SplitTyped /\ split \in Splits /\ Working /\ t \in Seq(Nat)
      /\ Len(t) \in Nat /\ Left \in Seq(Nat) /\ Len(Left) \in Nat /\ due = t \o Left
      /\ Len(due) = Len(t) + Len(Left) /\ Most(split.moves) \in Nat
      /\ Len(due) <= Most(split.moves) /\ Len(due) <= HeldMax + Len(Input)
      /\ 0 < split.mlen /\ s \in Seq(Nat) /\ src \in Seq(Nat) /\ Left = s \o src
      /\ Rest = Left /\ Delivered = <<>> /\ HeldMax + Len(Input) \in Nat
  <2>1. /\ StreamInv /\ SplitTyped /\ split \in Splits /\ Working /\ t \in Seq(Nat)
        /\ Len(t) \in Nat /\ Left \in Seq(Nat) /\ Len(Left) \in Nat /\ due = t \o Left
        /\ Len(due) = Len(t) + Len(Left) /\ Most(split.moves) \in Nat
        /\ Len(due) <= Most(split.moves) /\ Len(due) <= HeldMax + Len(Input)
        /\ 0 < split.mlen
    BY ScanFacts
  <2>2. /\ s \in Seq(Nat) /\ src \in Seq(Nat) /\ Rest = Left /\ Delivered = <<>>
    BY <2>1, LeftFacts
  <2>3. HeldMax + Len(Input) \in Nat
    BY LenProperties, StreamAssumption
  <2>4. Left = s \o src
    BY DEF Left
  <2> QED
    BY <2>1, <2>2, <2>3, <2>4
<1>2. PICK u \in Unread(buff, r) :
        /\ buff' = u.b
        /\ split' = IF u.ok THEN Calls(p, <<>>, FALSE) ELSE Done(-1)
  BY DEF CutAtChar
<1>3. /\ src' = src /\ isEOF' = isEOF /\ maxBuffSz' = maxBuffSz /\ dest' = dest
      /\ call' = call /\ ended' = ended
  BY DEF CutAtChar
<1>4. /\ i \in 1..Len(t) /\ t[i] \in Chars(split.sep)
      /\ \A j \in 1..(i - 1) : t[j] \notin Chars(split.sep)
  <2>1. i = Terminator(t, Chars(split.sep))
    BY DEF Found
  <2>2. /\ i \in 0..Len(t) /\ t[i] \in Chars(split.sep)
        /\ \A j \in 1..(i - 1) : t[j] \notin Chars(split.sep)
    BY <1>1, <2>1, TerminatorFacts
  <2>3. \A n \in Nat : \A k \in 0..n : k # 0 => k \in 1..n
    OBVIOUS
  <2>4. Len(t) \in Nat
    BY <1>1
  <2> HIDE DEF t
  <2>5. i \in 1..Len(t)
    BY <2>2, <2>3, <2>4, Zenon
  <2> QED
    BY <2>2, <2>5, Zenon
<1>5. i - 1 \in 0..Len(t) /\ i \in (i - 1)..Len(t) /\ i \in Int
  BY <1>1, <1>4
<1>6. /\ p \in Seq(Nat) /\ q \in Seq(Nat) /\ r \in Seq(Nat) /\ Len(p) = i - 1
      /\ Len(r) = Len(t) - i /\ (p \o q) \o r = t
  <2> HIDE DEF t
  <2> QED
    BY <1>1, <1>5, CutAround
<1>7. Len(q) = 1 /\ q[1] \in Chars(split.sep)
  <2>1. \A k \in i..i : t[k] \in Nat
    BY <1>1, <1>4, ElementOfSeq
  <2>2. (i - 1) + 1 = i
    BY <1>5
  <2>3. Len(SubSeq(t, i, i)) = 1 /\ SubSeq(t, i, i)[1] = t[i]
    BY <1>5, <2>1, SubSeqProperties
  <2> QED
    BY <1>4, <2>2, <2>3
<1> HIDE DEF t, p, q, r
<1>8. /\ u.ok \in BOOLEAN /\ Buffer(u.b) /\ (~u.ok => u.b = buff)
      /\ (u.ok => 0 < u.b.mlen /\ u.b.text = r \o s)
  <2>1. Buffer(buff) /\ r \in Seq(Nat) /\ u \in Unread(buff, r) /\ s = buff.text
    BY <1>1, <1>2, <1>6 DEF StreamInv, s
  <2> HIDE DEF s
  <2> QED
    BY <2>1, UnreadFacts
<1>9. CASE u.ok
  <2> DEFINE e == <<>>
  <2>1. /\ buff'.text = r \o s /\ 0 < buff'.mlen /\ Buffer(buff')
        /\ Left' = (r \o s) \o src
    BY <1>2, <1>3, <1>8, <1>9 DEF Left
  <2>2. Left' = r \o Left
    <3>1. (r \o s) \o src = r \o (s \o src)
      <4>1. r \in Seq(Nat) /\ s \in Seq(Nat) /\ src \in Seq(Nat)
        BY <1>1, <1>6
      <4> HIDE DEF s
      <4> QED
        BY <4>1, TextFacts, ZenonT(60)
    <3> QED
      BY <1>1, <2>1, <3>1
  <2>3. Len(Left') = Len(r) + Len(Left) /\ Len(buff'.text) + Len(src') = Len(Left')
    <3>1. /\ Len(r \o Left) = Len(r) + Len(Left) /\ r \o s \in Seq(Nat)
          /\ Len((r \o s) \o src) = Len(r \o s) + Len(src)
      BY <1>1, <1>6, TextFacts
    <3> QED
      BY <1>3, <2>1, <2>2, <3>1
  <2>4. StreamInv'
    <3>1. Len(Left') <= HeldMax + Len(Input)
      <4>1. \A x, y, l, k, m \in Nat : k \in 1..x /\ x + y <= m /\ l = x - k
              => l + y <= m
        OBVIOUS
      <4>2. i \in Nat /\ Len(r) \in Nat /\ Len(t) + Len(Left) <= HeldMax + Len(Input)
        BY <1>1, <1>4, <1>6, LenProperties
      <4>3. Len(r) + Len(Left) <= HeldMax + Len(Input)
        BY <1>1, <1>4, <1>6, <4>1, <4>2, Zenon
      <4> QED
        BY <2>3, <4>3
    <3>2. Typed' /\ ~Reading' /\ call'.pc # "closed"
      BY <1>1, <1>3 DEF StreamInv, Typed, Reading, Idle
    <3> QED
      BY <1>1, <1>3, <2>1, <2>3, <3>1, <3>2 DEF StreamInv
  <2>5. Idle'
    BY <1>3 DEF Idle
  <2>6. e \in Seq(Nat) /\ Len(e) = 0
    BY EmptySeq
  <2>7. split' = Calls(p, e, FALSE)
    BY <1>2, <1>9
  <2> HIDE DEF e
  <2>8. /\ split' \in Splits /\ split'.pc = "callback" /\ split'.kind = split.kind
        /\ split'.sep = split.sep /\ split'.text = e /\ split'.mlen = split.mlen
        /\ split'.ofs = split.ofs /\ split'.piece = p /\ split'.last = FALSE
        /\ split'.moves = split.moves /\ split'.moved = split.moved
        /\ split'.total = split.total
    BY <1>1, <1>6, <2>6, <2>7, CallsFields
  <2>9. SplitTyped' /\ Working'
    BY <1>1, <2>1, <2>6, <2>8 DEF SplitTyped, Working
  <2>10. Cut' = 1
    BY <2>8 DEF Cut
  <2>11. PieceIsCut'
    <3>1. Unended(p, Chars(split.sep))
      <4>1. \A j \in 1..(i - 1) : p[j] = t[j]
        BY <1>1, <1>5, CutText DEF p
      <4> QED
        BY <1>4, <1>6, <4>1 DEF Unended
    <3>2. Terminator(p, Chars(split.sep)) = 0
      BY <3>1, UnendedTerminator
    <3> QED
      BY <2>8, <3>2 DEF PieceIsCut, Chars
  <2>12. due = (split'.piece \o q) \o (split'.text \o Left')
    <3> DEFINE w == p \o q
               l == Left
    <3>1. w \in Seq(Nat) /\ l \in Seq(Nat)
      BY <1>1, <1>6, TextFacts
    <3>2. due = (w \o r) \o l
      BY <1>1, <1>6
    <3> HIDE DEF w, l
    <3>3. due = w \o (r \o l)
      BY <1>6, <3>1, <3>2, TextFacts
    <3>4. r \o l \in Seq(Nat) /\ e \o (r \o l) = r \o l
      BY <1>6, <3>1, TextFacts DEF e
    <3> QED
      BY <2>2, <2>8, <3>3, <3>4 DEF w, l
  <2>13. /\ Len(q) = Cut' /\ (Cut' = 1 => q[1] \in Chars(split'.sep)) /\ ~(Cut' > 1)
    BY <1>7, <2>8, <2>10 DEF Chars
  <2>14. split.pc \in {"reading", "scan"} /\ ~split'.last /\ split'.text = <<>>
    BY <2>8 DEF e
  <2> QED
    BY <1>6, <2>4, <2>5, <2>8, <2>9, <2>11, <2>12, <2>13, <2>14, GivesInv
<1>10. CASE ~u.ok
  <2>1. buff' = buff /\ split' = Done(-1)
    BY <1>2, <1>8, <1>10
  <2>2. /\ StreamInv' /\ Rest' = Rest /\ Delivered' = Delivered
    <3>1. UNCHANGED vars
      BY <1>3, <2>1 DEF vars
    <3> QED
      BY <1>1, <3>1, StreamStays
  <2>3. /\ split' \in Splits /\ split'.pc = "idle" /\ split'.kind = split.kind
        /\ split'.sep = split.sep /\ split'.text = <<>> /\ split'.moves = split.moves
    BY <1>1, <2>1, DoneFields
  <2>4. SplitTyped'
    BY <1>1, <2>3 DEF SplitTyped
  <2>5. Len(Delivered') + Len(Rest') <= Most(split'.moves)
    <3>1. Len(Delivered') = 0 /\ Rest' = Left /\ Most(split'.moves) = Most(split.moves)
      BY <1>1, <2>2, <2>3, EmptySeq DEF Most
    <3> QED
      BY <1>1, <3>1
  <2>6. SplitInv'
    BY <2>2, <2>3, <2>4, <2>5, IdleInv
  <2> QED
    BY <2>3, <2>6 DEF Partitioned, Placed, Called
<1> QED
  BY <1>8, <1>9, <1>10

(* The string occurs in the text: the callback is given what precedes it,  *)
(* and the split keeps what follows.                                       *)
LEMMA CutAtStringInv ==
  ASSUME SplitInv, Idle, split.pc = "scan", due' = due, split.kind = "string",
         NEW i, i = Found, i # 0, CutAtString(i)
  PROVE  SplitInv' /\ Partitioned /\ Placed
<1> DEFINE t == split.text
           q == split.sep
           n == i + Len(q) - 1
           p == First(t, i - 1)
           r == After(t, n)
           l == Left
<1>1. /\ StreamInv /\ SplitTyped /\ split \in Splits /\ Working /\ t \in Seq(Nat)
      /\ Len(t) \in Nat /\ l \in Seq(Nat) /\ due = t \o l /\ 0 < split.mlen
      /\ split.mlen \in Int
  BY ScanFacts
<1>2. split' = Calls(p, r, FALSE) /\ UNCHANGED vars
  BY DEF CutAtString
<1>3. /\ StreamInv' /\ Left' = l /\ buff' = buff /\ Idle'
  BY <1>1, <1>2, StreamStays
<1>4. q \in Seq(Nat) /\ 2 <= Len(q) /\ q # <<>> /\ Len(q) \in Nat
  <2>1. q \in Seq(Nat) /\ 2 <= Len(q) /\ Len(q) \in Nat
    BY <1>1, SplitFields DEF SplitTyped
  <2>2. q # <<>>
    <3> SUFFICES ASSUME q = <<>> PROVE FALSE
      OBVIOUS
    <3>1. Len(q) = 0
      BY EmptySeq
    <3> QED
      BY <2>1, <3>1
  <2> QED
    BY <2>1, <2>2
<1>5. i = Binstr(t, q)
  BY DEF Found
<1>6. /\ i \in 1..Len(t) /\ i - 1 \in 0..Len(t) /\ n \in (i - 1)..Len(t)
      /\ SubSeq(t, (i - 1) + 1, n) = q /\ Binstr(p \o q, q) = i
  <2>1. t \in Seq(Nat) /\ q \in Seq(Nat) /\ q # <<>> /\ i = Binstr(t, q) /\ i # 0
    BY <1>1, <1>4, <1>5
  <2> HIDE DEF t, q
  <2>2. /\ i \in 1..Len(t) /\ i - 1 \in 0..Len(t)
        /\ i + Len(q) - 1 \in (i - 1)..Len(t)
        /\ SubSeq(t, (i - 1) + 1, i + Len(q) - 1) = q
        /\ Binstr(First(t, i - 1) \o q, q) = i
    BY <2>1, BinstrOfPiece, Zenon
  <2> QED
    BY <2>2 DEF n, p
<1>7. /\ p \in Seq(Nat) /\ r \in Seq(Nat) /\ Len(p) = i - 1 /\ Len(r) = Len(t) - n
      /\ (p \o q) \o r = t
  <2> HIDE DEF t, q, n
  <2> QED
    BY <1>1, <1>6, CutAround DEF p, r
<1> HIDE DEF p, r, n, l
<1>8. /\ split' \in Splits /\ split'.pc = "callback" /\ split'.kind = split.kind
      /\ split'.sep = q /\ split'.text = r /\ split'.mlen = split.mlen
      /\ split'.ofs = split.ofs /\ split'.piece = p /\ split'.last = FALSE
      /\ split'.moves = split.moves /\ split'.moved = split.moved
      /\ split'.total = split.total
  BY <1>1, <1>2, <1>7, CallsFields
<1> HIDE DEF t, q
<1>9. SplitTyped'
  BY <1>1, <1>4, <1>8 DEF SplitTyped, q
<1>10. Working'
  <2>1. Len(r) <= Len(t) /\ Len(r) \in Int
    BY <1>1, <1>6, <1>7
  <2>2. Len(t) < split.mlen
    BY <1>1 DEF Working, t
  <2>3. Len(r) < split.mlen
    BY <1>1, <2>1, <2>2
  <2> QED
    BY <1>1, <1>3, <1>8, <2>3 DEF Working
<1>11. Cut' = Len(q)
  BY <1>8 DEF Cut
<1>12. PieceIsCut'
  <2>1. Len(p) + 1 = i
    BY <1>1, <1>6, <1>7
  <2>2. Binstr(split'.piece \o split'.sep, split'.sep) = Len(split'.piece) + 1
    BY <1>6, <1>8, <2>1
  <2> QED
    BY <1>8, <2>2 DEF PieceIsCut
<1>13. due = (split'.piece \o q) \o (split'.text \o Left')
  <2> DEFINE w == p \o q
  <2>1. w \in Seq(Nat)
    BY <1>4, <1>7, TextFacts
  <2>2. due = (w \o r) \o l /\ r \in Seq(Nat) /\ l \in Seq(Nat)
    BY <1>1, <1>7, Zenon
  <2> HIDE DEF w
  <2>3. due = w \o (r \o l)
    BY <2>1, <2>2, TextFacts, ZenonT(60)
  <2> QED
    BY <1>3, <1>8, <2>3 DEF w
<1>14. /\ Len(q) = Cut' /\ ~(Cut' = 1) /\ q = split'.sep
  BY <1>4, <1>8, <1>11
<1>15. split.pc \in {"reading", "scan"} /\ ~split'.last /\ ReadsAhead'
  BY <1>8 DEF ReadsAhead
<1> QED
  BY <1>3, <1>4, <1>8, <1>9, <1>10, <1>12, <1>13, <1>14, <1>15, GivesInv

(* The text is searched, whichever way the split cuts.                     *)
LEMMA ScanInv ==
  ASSUME SplitInv, Scan
  PROVE  SplitInv' /\ Partitioned /\ Placed
<1> DEFINE i == Found
<1>1. /\ Idle /\ split.pc = "scan" /\ due' = due
      /\ CASE split.kind = "blocks" ->
                split' = Calls(split.text, <<>>, FALSE) /\ UNCHANGED vars
           [] split.kind # "blocks" /\ i = 0 ->
                split' = [split EXCEPT !.pc = "read"] /\ UNCHANGED vars
           [] split.kind = "chars" /\ i > 0 -> CutAtChar(i)
           [] split.kind = "string" /\ i > 0 -> CutAtString(i)
  BY DEF Scan
<1>2. split.kind \in {"blocks", "chars", "string"} /\ split.text \in Seq(Nat)
  BY <1>1, ScanFacts DEF Splits, Working
<1>3. CASE split.kind = "blocks"
  <2>1. split' = Calls(split.text, <<>>, FALSE) /\ UNCHANGED vars
    BY <1>1, <1>3
  <2> QED
    BY <1>1, <1>3, <2>1, BlockGivenInv
<1>4. CASE split.kind # "blocks" /\ i = 0
  <2>1. split' = [split EXCEPT !.pc = "read"] /\ UNCHANGED vars
    BY <1>1, <1>2, <1>4
  <2> QED
    BY <1>1, <1>2, <1>4, <2>1, NotFoundInv
<1>5. CASE split.kind = "chars" /\ i # 0
  <2>1. i = Terminator(split.text, Chars(split.sep))
    BY <1>5 DEF Found
  <2>2. i \in 0..Len(split.text) /\ Len(split.text) \in Nat
    BY <1>2, <2>1, TerminatorFacts, LenProperties
  <2> HIDE DEF i
  <2>3. i > 0
    BY <1>5, <2>2
  <2>4. CutAtChar(i)
    BY <1>1, <1>5, <2>3
  <2> QED
    BY <1>1, <1>5, <2>4, CutAtCharInv DEF i
<1>6. CASE split.kind = "string" /\ i # 0
  <2>1. i = Binstr(split.text, split.sep)
    BY <1>6 DEF Found
  <2>2. i \in 1..Len(split.text) /\ Len(split.text) \in Nat
    BY <1>2, <1>6, <2>1, BinstrFacts, LenProperties
  <2> HIDE DEF i
  <2>3. i > 0
    BY <1>6, <2>2
  <2>4. CutAtString(i)
    BY <1>1, <1>6, <2>3
  <2> QED
    BY <1>1, <1>6, <2>4, CutAtStringInv DEF i
<1> QED
  BY <1>2, <1>3, <1>4, <1>5, <1>6

-----------------------------------------------------------------------------
(* The callback returns. *)

(* The split goes on with its text and the stream, wherever that is.       *)
LEMMA ReturnsInv ==
  ASSUME SplitInv, Returns
  PROVE  SplitInv'
<1>1. Idle /\ split.pc = "callback" /\ due' = split.text \o Left /\ UNCHANGED vars
  BY DEF Returns
<1>2. PICK r \in {-1, 0, 1} :
        split' = IF r < 0 \/ split.last THEN Done(Ret(r))
                 ELSE [split EXCEPT
                         !.pc = IF split.kind = "string" THEN "scan" ELSE "read",
                         !.ofs = IF split.kind = "blocks" THEN 0
                                 ELSE CInt(@ + Len(split.piece) + Cut)]
  BY DEF Returns
<1>3. /\ StreamInv /\ SplitTyped /\ split \in Splits /\ Working /\ Bounded /\ InCallback
      /\ Positioned
  BY <1>1 DEF SplitInv, SplitTyped
<1>4. /\ StreamInv' /\ Left' = Left /\ Rest' = Rest /\ Delivered' = Delivered
      /\ buff' = buff /\ Idle'
  BY <1>1, <1>3, StreamStays
<1>5. /\ Left \in Seq(Nat) /\ Len(Left) \in Nat /\ Rest = Left /\ Delivered = <<>>
      /\ Len(Left) <= HeldMax + Len(Input)
      /\ split.text \in Seq(Nat) /\ Len(split.text) \in Nat
      /\ split.moves \in 0..MovesMax /\ split.ofs \in Int /\ split.total \in Nat
      /\ IntMin <= split.ofs /\ split.ofs <= IntMax /\ Len(split.piece) \in Nat
  BY <1>1, <1>3, LeftFacts, SplitFields
<1>6. due' \in Seq(Nat) /\ Len(due') = Len(split.text) + Len(Left) /\ Len(due') \in Nat
  BY <1>1, <1>5, TextFacts
<1>7. /\ Most(split.moves) \in Nat /\ Most(split.moves) <= IntMax
      /\ Len(due') <= Most(split.moves) /\ IntMax \in Nat
  <2>1. Len(Delivered) = 0
    BY <1>5, EmptySeq
  <2>2. Len(split.text) + Len(Delivered) + Len(Rest) <= Most(split.moves)
    BY <1>1, <1>3 DEF Bounded
  <2>3. /\ Most(split.moves) \in Nat /\ IntMax \in Nat
        /\ Most(split.moves) <= IntMax
    BY <1>5, MostFacts
  <2>4. Len(split.text) + 0 + Len(Left) <= Most(split.moves)
    BY <1>5, <2>1, <2>2, Zenon
  <2> QED
    BY <1>5, <1>6, <2>3, <2>4
<1>8. CASE r < 0 \/ split.last
  <2> DEFINE ret == Ret(r)
  <2>1. ret \in {-1, 0} /\ split' = Done(ret)
    BY <1>2, <1>8 DEF Ret, Smaller
  <2> HIDE DEF ret
  <2>2. /\ split' \in Splits /\ split'.pc = "idle" /\ split'.kind = split.kind
        /\ split'.sep = split.sep /\ split'.text = <<>> /\ split'.moves = split.moves
    BY <1>3, <2>1, DoneFields
  <2>3. SplitTyped'
    BY <1>3, <1>6, <2>2 DEF SplitTyped
  <2>4. Len(Delivered') + Len(Rest') <= Most(split'.moves)
    <3>1. Len(Delivered') = 0 /\ Rest' = Left /\ Most(split'.moves) = Most(split.moves)
      BY <1>4, <1>5, <2>2, EmptySeq DEF Most
    <3>2. Len(Left) <= Most(split.moves)
      BY <1>5, <1>6, <1>7
    <3> QED
      BY <1>5, <1>7, <3>1, <3>2
  <2> QED
    BY <1>4, <2>2, <2>3, <2>4, IdleInv
<1>9. CASE ~(r < 0 \/ split.last)
  <2> DEFINE pc == IF split.kind = "string" THEN "scan" ELSE "read"
             x == split.ofs + Len(split.piece) + Cut
             ofs == IF split.kind = "blocks" THEN 0 ELSE CInt(x)
  <2>1. split' = [split EXCEPT !.pc = pc, !.ofs = ofs]
    BY <1>2, <1>9
  <2>2. /\ pc \in {"read", "scan"} /\ (pc = "scan" => split.kind = "string")
        /\ (split.kind = "string" => pc = "scan")
    OBVIOUS
  <2>3. Cut \in Nat /\ Len(split.piece) + Cut <= IntMax
    BY <1>3 DEF InCallback
  <2>4. x \in Int /\ IntMin <= x /\ x <= 2 * IntMax + 1
    <3>1. \A o, n, c, t, l \in Int :
            l <= o /\ o <= t /\ 0 <= n /\ 0 <= c /\ 0 <= t /\ n + c <= t
              => l <= o + n + c /\ o + n + c <= 2 * t + 1 /\ o + n + c \in Int
      OBVIOUS
    <3>2. /\ IntMin \in Int /\ Cut \in Int /\ 0 <= Cut /\ Len(split.piece) \in Int
          /\ 0 <= Len(split.piece) /\ IntMax \in Int /\ 0 <= IntMax
      BY <1>5, <1>7, <2>3 DEF IntMin
    <3> QED
      BY <1>5, <2>3, <3>1, <3>2, Zenon
  <2>5. ofs \in IntMin..IntMax
    <3> HIDE DEF x
    <3>1. CInt(x) \in IntMin..IntMax /\ 0 \in IntMin..IntMax
      BY <1>7, <2>4 DEF CInt, IntMin
    <3> QED
      BY <3>1
  <2>6. ~split.moved /\ split.kind # "blocks" => ofs = split.total - Len(due')
    <3> SUFFICES ASSUME ~split.moved, split.kind # "blocks"
                 PROVE  ofs = split.total - Len(due')
      OBVIOUS
    <3>1. /\ split.ofs = split.total - Len(due)
          /\ Len(due) = Len(split.piece) + Cut + Len(split.text) + Len(Left)
      BY <1>1, <1>3 DEF Positioned, InCallback
    <3>2. x = split.total - Len(due')
      <4>1. \A t, p, c, s, l \in Int :
              (t - (p + c + s + l)) + p + c = t - (s + l)
        OBVIOUS
      <4>2. /\ split.total \in Int /\ Len(split.piece) \in Int /\ Cut \in Int
            /\ Len(split.text) \in Int /\ Len(Left) \in Int
        BY <1>5, <2>3
      <4>3. x = (split.total - (Len(split.piece) + Cut + Len(split.text) + Len(Left)))
                  + Len(split.piece) + Cut
        BY <3>1, Zenon
      <4> HIDE DEF x
      <4>4. x = split.total - (Len(split.text) + Len(Left))
        <5> DEFINE t == split.total
                   p == Len(split.piece)
                   c == Cut
                   w == Len(split.text)
                   l == Len(Left)
        <5>1. t \in Int /\ p \in Int /\ c \in Int /\ w \in Int /\ l \in Int
          BY <4>2
        <5>2. x = (t - (p + c + w + l)) + p + c
          BY <4>3
        <5> HIDE DEF t, p, c, w, l
        <5>3. x = t - (w + l)
          BY <5>1, <5>2
        <5> QED
          BY <5>3 DEF t, w, l
      <4> QED
        BY <1>6, <4>4, Zenon
    <3>3. split.total <= IntMax
      BY <1>3 DEF Working
    <3>4. IntMin <= x /\ x <= IntMax /\ x \in Int
      <4>1. \A t, d, m, top \in Nat :
              t <= top /\ d <= m /\ m <= top
                => -top - 1 <= t - d /\ t - d <= top /\ t - d \in Int
        OBVIOUS
      <4>2. /\ -IntMax - 1 <= split.total - Len(due') /\ split.total - Len(due') <= IntMax
            /\ split.total - Len(due') \in Int
        BY <1>5, <1>6, <1>7, <3>3, <4>1, Zenon
      <4> HIDE DEF x
      <4> QED
        BY <3>2, <4>2, Zenon DEF IntMin
    <3>5. CInt(x) = x
      <4> HIDE DEF x
      <4> QED
        BY <1>7, <3>4 DEF CInt, IntMin
    <3> QED
      BY <3>2, <3>5
  <2> HIDE DEF pc, ofs, x
  <2>7. /\ split' \in Splits /\ split'.pc = pc /\ split'.kind = split.kind
        /\ split'.sep = split.sep /\ split'.text = split.text
        /\ split'.mlen = split.mlen /\ split'.ofs = ofs
        /\ split'.moves = split.moves /\ split'.moved = split.moved
        /\ split'.total = split.total
    <3>1. pc \in {"idle", "read", "reading", "scan", "callback"}
      BY <2>2
    <3> QED
      BY <1>3, <2>1, <2>5, <3>1 DEF Splits
  <2>8. SplitTyped' /\ Working'
    BY <1>3, <1>4, <1>6, <2>2, <2>7 DEF SplitTyped, Working
  <2>9. Between'
    BY <1>1, <1>4, <2>7 DEF Between
  <2>10. split.kind = "chars" => split.text = <<>> /\ Len(due') <= HeldMax + Len(Input)
    <3> SUFFICES ASSUME split.kind = "chars"
                 PROVE  split.text = <<>> /\ Len(due') <= HeldMax + Len(Input)
      OBVIOUS
    <3>1. split.text = <<>>
      BY <1>3 DEF InCallback
    <3>2. Len(split.text) = 0
      BY <3>1, EmptySeq
    <3>3. HeldMax + Len(Input) \in Nat
      BY <1>5, MostFacts
    <3> QED
      BY <1>5, <1>6, <3>1, <3>2, <3>3
  <2>11. Bounded'
    <3>1. Most(split'.moves) = Most(split.moves)
      BY <2>7 DEF Most
    <3>2. Len(due') <= Most(split'.moves)
      BY <1>7, <3>1
    <3> QED
      BY <2>2, <2>7, <2>10, <3>2 DEF Bounded, Most
  <2>12. Positioned'
    BY <2>6, <2>7 DEF Positioned
  <2>13. Searched' /\ PieceIsCut'
    BY <2>2, <2>7, <2>10, NothingToFind DEF Searched, PieceIsCut
  <2> QED
    BY <1>4, <2>2, <2>7, <2>8, <2>9, <2>11, <2>12, <2>13 DEF SplitInv
<1> QED
  BY <1>8, <1>9

-----------------------------------------------------------------------------
(* The stream, moved by the user. *)

(* A call that gives more, or fails and leaves to be read again what it    *)
(* gave, has no more to give than before.                                  *)
LEMMA MovesShrink ==
  ASSUME StreamInv, StreamInv', Rest \in Seq(Nat), Delivered \in Seq(Nat),
         Contract!Relapse => Reading,
         HandsOut \/ Contract!Relapse
  PROVE  /\ Len(Delivered') + Len(Rest') <= Len(Delivered) + Len(Rest)
         /\ Len(Delivered) \in Nat /\ Len(Rest) \in Nat
<1>1. /\ Rest' \in Seq(Nat) /\ Delivered' \in Seq(Nat) /\ dest'.got \in Seq(Nat)
      /\ Len(Rest) \in Nat /\ Len(Rest') \in Nat /\ Len(Delivered) \in Nat
      /\ Len(Delivered') \in Nat /\ Len(dest'.got) \in Nat
  BY RestAfter, LenProperties
<1>2. Len(Delivered') <= Len(dest'.got)
  <2>1. Delivered' = IF Reading' THEN dest'.got ELSE <<>>
    BY DEF Delivered
  <2>2. Len(<<>>) = 0
    BY EmptySeq
  <2> QED
    BY <1>1, <2>1, <2>2
<1>3. CASE HandsOut
  <2>1. PICK p \in Seq(Nat) : Rest = p \o Rest' /\ dest'.got = Delivered \o p
    BY <1>3 DEF HandsOut
  <2>2. /\ Len(Rest) = Len(p) + Len(Rest') /\ Len(dest'.got) = Len(Delivered) + Len(p)
        /\ Len(p) \in Nat
    <3>1. /\ Len(p \o Rest') = Len(p) + Len(Rest') /\ Len(p) \in Nat
          /\ Len(Delivered \o p) = Len(Delivered) + Len(p)
      BY <1>1, <2>1, TextFacts
    <3> QED
      BY <2>1, <3>1, Zenon
  <2>3. \A a, b, c, d, e, g \in Nat :
          a = c + b /\ e = d + c /\ g <= e => g + b <= d + a
    OBVIOUS
  <2> QED
    BY <1>1, <1>2, <2>2, <2>3, Zenon
<1>4. CASE Contract!Relapse
  <2>1. PICK k \in 1..Len(dest.got) : Rest' = First(dest.got, k) \o Rest
    BY <1>4 DEF Contract!Relapse, Contract!First, First
  <2>2. Reading /\ ~Reading' /\ dest.got \in Seq(Nat)
    BY <1>4 DEF Contract!Relapse, StreamInv, Typed
  <2>3. Delivered = dest.got /\ Delivered' = <<>> /\ Len(Delivered') = 0
    BY <2>2, EmptySeq DEF Delivered
  <2>4. /\ First(dest.got, k) \in Seq(Nat) /\ Len(First(dest.got, k)) = k
        /\ k \in Nat /\ k <= Len(dest.got)
    <3>1. k \in 0..Len(dest.got) /\ k \in Nat /\ k <= Len(dest.got)
      BY <1>1, <2>1, <2>3
    <3> QED
      BY <2>2, <3>1, CutText
  <2>5. Len(Rest') = k + Len(Rest)
    <3>1. Len(First(dest.got, k) \o Rest) = Len(First(dest.got, k)) + Len(Rest)
      BY <2>4, TextFacts
    <3> QED
      BY <2>1, <2>4, <3>1, Zenon
  <2> QED
    BY <1>1, <2>3, <2>4, <2>5
<1> QED
  BY <1>3, <1>4

(* What is left, and what the call in progress has handed over. *)
LEMMA LengthsLeft ==
  ASSUME StreamInv
  PROVE  /\ Rest \in Seq(Nat) /\ Delivered \in Seq(Nat)
         /\ Len(Rest) \in Nat /\ Len(Delivered) \in Nat
<1>1. /\ src \in Seq(Nat) /\ buff.text \in Seq(Nat) /\ dest.got \in Seq(Nat)
      /\ <<>> \in Seq(Nat)
  BY TextFacts DEF StreamInv, Typed, Buffer
<1>2. CASE Reading
  <2>1. Rest = <<>> \o src /\ Delivered = dest.got
    BY <1>2 DEF Rest, Delivered
  <2> QED
    BY <1>1, <2>1, TextFacts
<1>3. CASE ~Reading
  <2>1. Rest = buff.text \o src /\ Delivered = <<>>
    BY <1>3 DEF Rest, Delivered
  <2> QED
    BY <1>1, <2>1, TextFacts
<1> QED
  BY <1>2, <1>3

(* What the user does to the stream leaves the split as it is, but for the *)
(* count of the moves.                                                     *)
LEMMA UserInv ==
  ASSUME SplitInv, split.pc \in {"idle", "callback"}, StreamInv', due' = due,
         split' \in Splits, split'.pc = split.pc, split'.kind = split.kind,
         split'.sep = split.sep, split'.text = split.text, split'.mlen = split.mlen,
         split'.ofs = split.ofs, split'.piece = split.piece,
         split'.last = split.last, split'.total = split.total,
         split.pc = "callback" => split'.moved /\ 0 < buff'.mlen,
         Len(split.text) + Len(Delivered') + Len(Rest') <= Most(split'.moves)
  PROVE  SplitInv'
<1>1. /\ SplitTyped /\ PieceIsCut
      /\ split.pc = "idle" => split.text = <<>>
      /\ split.pc = "callback" => Working /\ InCallback
  BY DEF SplitInv
<1>2. SplitTyped'
  BY <1>1 DEF SplitTyped
<1>3. split'.pc = "callback" => Working' /\ InCallback'
  BY <1>1 DEF Working, InCallback, Cut
<1>4. Bounded'
  BY DEF Bounded, Most
<1>5. PieceIsCut'
  BY <1>1 DEF PieceIsCut, Chars
<1>6. Positioned' /\ Searched'
  BY DEF Positioned, Searched
<1> QED
  BY <1>1, <1>2, <1>3, <1>4, <1>5, <1>6 DEF SplitInv

(* Each of the calls the user makes has its name. *)
LEMMA CallNames ==
  /\ Bsreada => call'.fn = "block"
  /\ Bsreadln => call'.fn = "line"
  /\ Bsbufflength => call'.fn = "bsbufflength"
<1>1. ASSUME Bsreada PROVE call'.fn = "block"
  <2>1. PICK d \in Dests, n \in BlockLens : ReadBlock(d, n)
    BY <1>1 DEF Bsreada
  <2> DEFINE c == NewCall("block", {}, n)
             m == [c EXCEPT !.n = @ + DestLen(Begins(d))]
  <2>2. c.fn = "block" /\ m.fn = "block" /\ "fn" \in DOMAIN c /\ "fn" \in DOMAIN m
    BY DEF NewCall
  <2>3. \/ \E s : LineRefused(buff, Begins(d), c, s)
        \/ Direct(Begins(d), m)
        \/ \E g \in Ready(buff) : Pass(g.b, buff.text, Begins(d), m, isEOF)
        \/ \E s : LineRefused(buff, Begins(d), c, s)
    BY <2>1 DEF ReadBlock, BlockFirst, BlockRefused
  <2> HIDE DEF c, m
  <2>4. ASSUME NEW s, LineRefused(buff, Begins(d), c, s) PROVE call'.fn = "block"
    BY <2>2, <2>4 DEF LineRefused
  <2>5. ASSUME Direct(Begins(d), m) PROVE call'.fn = "block"
    BY <2>2, <2>5 DEF Direct
  <2>6. ASSUME NEW g \in Ready(buff), Pass(g.b, buff.text, Begins(d), m, isEOF)
        PROVE  call'.fn = "block"
    BY <2>2, <2>6 DEF Pass
  <2> QED
    BY <2>3, <2>4, <2>5, <2>6
<1>2. ASSUME Bsreadln PROVE call'.fn = "line"
  <2>1. PICK d \in Dests, terms \in TermSets :
          LET c == NewCall("line", terms, 0)
          IN  IF buff.mlen < 0 \/ d.mlen <= 0
              THEN LineRefused(buff, Begins(d), c, FALSE)
              ELSE \E g \in Ready(buff) :
                     IF g.ok THEN LineReady(g.b, Emptied(d), c)
                     ELSE LineRefused(buff, Begins(d), c, TRUE)
    BY <1>2 DEF Bsreadln
  <2> DEFINE c == NewCall("line", terms, 0)
  <2>2. c.fn = "line" /\ "fn" \in DOMAIN c
    BY DEF NewCall
  <2>3. \/ \E b, d1, s : LineRefused(b, d1, c, s)
        \/ \E b, d1 : LineFirst(b, d1, c)
    BY <2>1, Zenon DEF LineReady
  <2> HIDE DEF c
  <2>4. ASSUME NEW b, NEW d1, NEW s, LineRefused(b, d1, c, s) PROVE call'.fn = "line"
    BY <2>2, <2>4 DEF LineRefused
  <2>5. ASSUME NEW b, NEW d1, LineFirst(b, d1, c) PROVE call'.fn = "line"
    BY <2>2, <2>5 DEF LineFirst
  <2> QED
    BY <2>3, <2>4, <2>5
<1>3. ASSUME Bsbufflength PROVE call'.fn = "bsbufflength"
  BY <1>3 DEF Bsbufflength, NewCall
<1> QED
  BY <1>1, <1>2, <1>3

(* The buffer of the stream survives what the user does. *)
LEMMA UserKeepsBuffer ==
  ASSUME StreamInv, 0 < buff.mlen, Bsreada \/ Bsreadln \/ Bsunread \/ Bsbufflength
  PROVE  0 < buff'.mlen
<1>1. Buffer(buff) /\ maxBuffSz \in 1..IntMax
  BY DEF StreamInv, Typed
<1>2. CASE Bsreada
  <2>1. PICK d \in Dests, n \in BlockLens : ReadBlock(d, n)
    BY <1>2 DEF Bsreada
  <2> DEFINE c == NewCall("block", {}, n)
             e == Begins(d)
  <2>2. BlockRefused(buff, e, c, FALSE) \/ BlockFirst(buff, e, c)
    BY <2>1 DEF ReadBlock
  <2> HIDE DEF c, e
  <2>3. CASE BlockRefused(buff, e, c, FALSE)
    BY <2>3 DEF BlockRefused, LineRefused
  <2>4. CASE BlockFirst(buff, e, c)
    BY <1>1, <2>4, BlockKeepsBuffer
  <2> QED
    BY <2>2, <2>3, <2>4
<1>3. CASE Bsreadln
  <2>1. PICK d \in Dests, terms \in TermSets :
          LET c == NewCall("line", terms, 0)
          IN  IF buff.mlen < 0 \/ d.mlen <= 0
              THEN LineRefused(buff, Begins(d), c, FALSE)
              ELSE \E g \in Ready(buff) :
                     IF g.ok THEN LineReady(g.b, Emptied(d), c)
                     ELSE LineRefused(buff, Begins(d), c, TRUE)
    BY <1>3 DEF Bsreadln
  <2> DEFINE c == NewCall("line", terms, 0)
  <2>2. \/ buff' = buff
        \/ \E g \in Ready(buff) : g.ok /\ LineReady(g.b, Emptied(d), c)
    BY <2>1 DEF LineRefused
  <2> HIDE DEF c
  <2>3. ASSUME NEW g \in Ready(buff), g.ok, LineReady(g.b, Emptied(d), c)
        PROVE  0 < buff'.mlen
    <3>1. Buffer(g.b) /\ maxBuffSz < g.b.mlen
      BY <1>1, <2>3, ReadyFacts
    <3>2. 0 < g.b.mlen
      BY <1>1, <3>1, SizesAssumption DEF Buffer
    <3>3. \/ buff' = g.b
          \/ \E h \in Ready(g.b) : h.ok /\ LineFirst(h.b, Emptied(d), c)
      BY <2>3 DEF LineReady, LineRefused
    <3>4. ASSUME NEW h \in Ready(g.b), h.ok, LineFirst(h.b, Emptied(d), c)
          PROVE  0 < buff'.mlen
      <4>1. Buffer(h.b) /\ maxBuffSz < h.b.mlen
        BY <1>1, <3>1, <3>2, <3>4, ReadyFacts
      <4>2. 0 < h.b.mlen /\ h.b \in [text : Seq(Nat), mlen : -1..MemMax]
        BY <1>1, <4>1, SizesAssumption DEF Buffer
      <4>3. \E u : buff' = [h.b EXCEPT !.text = u]
        BY <3>4 DEF LineFirst
      <4> QED
        BY <4>2, <4>3
    <3> QED
      BY <3>2, <3>3, <3>4
  <2> QED
    BY <2>2, <2>3
<1>4. CASE Bsunread
  <2>1. PICK t \in Unreads : \E u \in Unread(buff, t) : buff' = u.b
    BY <1>4 DEF Bsunread
  <2>2. PICK u \in Unread(buff, t) : buff' = u.b
    BY <2>1
  <2>3. t \in Seq(Nat)
    BY StreamAssumption
  <2>4. /\ u.ok \in BOOLEAN
        /\ ~u.ok => u.b = buff
        /\ u.ok => 0 < u.b.mlen
    BY <1>1, <2>3, UnreadFacts
  <2> QED
    BY <2>2, <2>4
<1>5. CASE Bsbufflength
  BY <1>5 DEF Bsbufflength
<1> QED
  BY <1>2, <1>3, <1>4, <1>5

(* What the user puts back is all there is more of. *)
LEMMA UnreadGrows ==
  ASSUME StreamInv, Bsunread
  PROVE  /\ StreamInv'
         /\ Len(Delivered') + Len(Rest') <= (Len(Delivered) + Len(Rest)) + HeldMax
         /\ Len(Delivered) + Len(Rest) \in Nat
         /\ Len(Delivered') \in Nat /\ Len(Rest') \in Nat
<1>1. PICK t \in Unreads : /\ Len(buff.text) + Len(t) <= HeldMax
                           /\ \E u \in Unread(buff, t) : buff' = u.b
  BY DEF Bsunread
<1>2. PICK u \in Unread(buff, t) : buff' = u.b
  BY <1>1
<1>3. Idle /\ Idle' /\ src' = src
  BY DEF Bsunread, NewCall, Idle
<1>4. StreamInv' /\ t \in Seq(Nat) /\ Buffer(buff)
  BY BsunreadLawful, StreamAssumption DEF Lawful, Promised, StreamInv
<1>5. /\ Len(Left) = Len(buff.text) + Len(src) /\ Rest = Left /\ Delivered = <<>>
      /\ buff.text \in Seq(Nat) /\ src \in Seq(Nat) /\ Len(Left) \in Nat
  BY <1>3, LeftFacts
<1>6. /\ Rest' = Left' /\ Delivered' = <<>> /\ Len(Rest') \in Nat /\ Len(<<>>) = 0
  BY <1>3, <1>4, RestAfter, EmptySeq
<1>7. /\ u.ok \in BOOLEAN
      /\ ~u.ok => u.b = buff
      /\ u.ok => u.b.text = t \o buff.text
  BY <1>4, UnreadFacts
<1>8. /\ Len(t) \in Nat /\ Len(buff.text) \in Nat /\ Len(src) \in Nat /\ HeldMax \in Nat
      /\ t \o buff.text \in Seq(Nat) /\ Len(t \o buff.text) = Len(t) + Len(buff.text)
  BY <1>4, <1>5, TextFacts, StreamAssumption
<1>9. Len(t) <= HeldMax
  BY <1>1, <1>8
<1>10. Len(Left') <= Len(Left) + HeldMax
  <2>1. CASE u.ok
    <3>1. Left' = (t \o buff.text) \o src
      BY <1>2, <1>3, <1>7, <2>1 DEF Left
    <3>2. Len(Left') = Len(t \o buff.text) + Len(src)
      BY <1>5, <1>8, <3>1, TextFacts
    <3> QED
      BY <1>5, <1>8, <1>9, <3>2
  <2>2. CASE ~u.ok
    <3>1. Left' = Left
      BY <1>2, <1>3, <1>7, <2>2 DEF Left
    <3> QED
      BY <1>5, <1>8, <3>1
  <2> QED
    BY <1>7, <2>1, <2>2
<1> QED
  BY <1>4, <1>5, <1>6, <1>8, <1>10

(* What the user moves in the stream, before a split or in a callback. *)
LEMMA MovesInv ==
  ASSUME SplitInv, Moves
  PROVE  SplitInv'
<1>1. /\ split.pc \in {"idle", "callback"} /\ split.moves < MovesMax /\ due' = due
      /\ Bsreada \/ Bsreadln \/ Bsunread \/ Bsbufflength
      /\ split' = [split EXCEPT !.moves = @ + 1, !.moved = split.pc = "callback"]
  BY DEF Moves
<1>2. /\ StreamInv /\ split \in Splits /\ split.moves \in 0..MovesMax
      /\ split.text \in Seq(Nat) /\ Len(split.text) \in Nat /\ MovesMax \in Nat
  BY SplitFields, SplitAssumption DEF SplitInv
<1>3. /\ split' \in Splits /\ split'.pc = split.pc /\ split'.kind = split.kind
      /\ split'.sep = split.sep /\ split'.text = split.text
      /\ split'.mlen = split.mlen /\ split'.ofs = split.ofs
      /\ split'.piece = split.piece /\ split'.last = split.last
      /\ split'.total = split.total /\ split'.moves = split.moves + 1
      /\ split'.moved = (split.pc = "callback")
  <2> DEFINE m == split.moves + 1
             b == split.pc = "callback"
  <2>1. m \in 0..MovesMax /\ b \in BOOLEAN
    BY <1>1, <1>2
  <2>2. split' = [split EXCEPT !.moves = m, !.moved = b]
    BY <1>1
  <2> HIDE DEF m, b
  <2>3. /\ split' \in Splits /\ split'.pc = split.pc /\ split'.kind = split.kind
        /\ split'.sep = split.sep /\ split'.text = split.text
        /\ split'.mlen = split.mlen /\ split'.ofs = split.ofs
        /\ split'.piece = split.piece /\ split'.last = split.last
        /\ split'.total = split.total /\ split'.moves = m /\ split'.moved = b
    BY <1>2, <2>1, <2>2 DEF Splits
  <2> QED
    BY <2>3 DEF m, b
<1>4. /\ StreamInv'
      /\ Len(Delivered') + Len(Rest') <= (Len(Delivered) + Len(Rest)) + HeldMax
      /\ Len(Delivered) + Len(Rest) \in Nat
      /\ Len(Delivered') \in Nat /\ Len(Rest') \in Nat /\ HeldMax \in Nat
  <2>1. HeldMax \in Nat
    BY StreamAssumption
  <2>2. CASE Bsunread
    BY <1>2, <2>1, <2>2, UnreadGrows
  <2>3. CASE Bsreada \/ Bsreadln \/ Bsbufflength
    <3>1. Lawful
      BY <1>2, <2>3, BsreadaLawful, BsreadlnLawful, BsbufflengthLawful
    <3>2. Idle
      BY <2>3 DEF Bsreada, Bsreadln, Bsbufflength
    <3>3. call'.fn \in {"line", "block", "bsbufflength"}
      BY <2>3, CallNames
    <3>4. StreamInv' /\ (HandsOut \/ Contract!Relapse)
      BY <3>1, <3>3 DEF Lawful, Promised, Moved
    <3>5. Rest \in Seq(Nat) /\ Delivered \in Seq(Nat) /\ ~Reading
      BY <1>2, <3>2, IdleFacts DEF Idle
    <3>6. Contract!Relapse => Reading
      BY DEF Contract!Relapse
    <3>7. /\ Len(Delivered') + Len(Rest') <= Len(Delivered) + Len(Rest)
          /\ Len(Delivered) \in Nat /\ Len(Rest) \in Nat
      BY <1>2, <3>4, <3>5, <3>6, MovesShrink
    <3>8. Len(Delivered') \in Nat /\ Len(Rest') \in Nat
      BY <3>4, RestAfter
    <3> QED
      BY <2>1, <3>4, <3>7, <3>8
  <2> QED
    BY <1>1, <2>2, <2>3
<1>5. Len(split.text) + Len(Delivered') + Len(Rest') <= Most(split'.moves)
  <2> DEFINE w == Len(split.text)
             a == Len(Delivered)
             b == Len(Rest)
             c == Len(Delivered')
             d == Len(Rest')
             m == Most(split.moves)
  <2>1. w + a + b <= m
    BY <1>1 DEF SplitInv, Bounded
  <2>2. m \in Nat /\ Most(split'.moves) = m + HeldMax
    <3>1. Most(split'.moves) = Most(split.moves + 1)
      BY <1>3 DEF Most
    <3> QED
      BY <1>2, <3>1, MostFacts
  <2>3. a \in Nat /\ b \in Nat
    BY <1>2, LengthsLeft
  <2>4. /\ w \in Nat /\ c \in Nat /\ d \in Nat /\ HeldMax \in Nat
        /\ c + d <= (a + b) + HeldMax
    BY <1>2, <1>4
  <2> SUFFICES w + c + d <= m + HeldMax
    BY <2>2, Zenon
  <2> HIDE DEF w, a, b, c, d, m
  <2> QED
    BY <2>1, <2>2, <2>3, <2>4
<1>6. split.pc = "callback" => split'.moved /\ 0 < buff'.mlen
  <2> SUFFICES ASSUME split.pc = "callback" PROVE split'.moved /\ 0 < buff'.mlen
    OBVIOUS
  <2>1. 0 < buff.mlen
    BY DEF SplitInv, Working
  <2> QED
    BY <1>1, <1>2, <1>3, <2>1, UserKeepsBuffer
<1> QED
  BY <1>1, <1>3, <1>4, <1>5, <1>6, UserInv

(* A stream opened or closed has nothing buffered. *)
LEMMA EmptiedInv ==
  ASSUME SplitInv, split.pc = "idle", StreamInv', split' = split, due' = due,
         call.pc \in {"idle", "closed"}, call'.pc \in {"idle", "closed"},
         src' = src, buff'.text = <<>>
  PROVE  SplitInv'
<1>1. /\ StreamInv /\ split \in Splits
  BY SplitFields DEF SplitInv
<1>2. /\ src \in Seq(Nat) /\ buff.text \in Seq(Nat) /\ Rest = buff.text \o src
      /\ Delivered = <<>>
  BY <1>1, IdleFacts
<1>3. Rest' = src /\ Delivered' = <<>>
  <2>1. ~Reading'
    BY DEF Reading
  <2>2. Rest' = <<>> \o src /\ Delivered' = <<>>
    BY <2>1 DEF Rest, Delivered
  <2> QED
    BY <1>2, <2>2, TextFacts
<1>4. /\ Len(src) \in Nat /\ Len(buff.text) \in Nat
      /\ Len(Rest) = Len(buff.text) + Len(src) /\ Len(<<>>) = 0
  BY <1>2, TextFacts, EmptySeq
<1>5. Len(split.text) + Len(Delivered') + Len(Rest') <= Most(split'.moves)
  <2> DEFINE w == Len(split.text)
             m == Most(split.moves)
             b == Len(Rest)
             d == Len(Rest')
  <2>1. w + 0 + b <= m
    <3>1. Len(split.text) + Len(Delivered) + Len(Rest) <= Most(split.moves)
      BY DEF SplitInv, Bounded
    <3> QED
      BY <1>2, <1>4, <3>1, Zenon
  <2>2. w \in Nat /\ m \in Nat
    BY SplitFields, MostFacts DEF SplitInv
  <2>3. b \in Nat /\ d \in Nat /\ d <= b
    BY <1>3, <1>4
  <2>4. Len(Delivered') = 0 /\ Most(split'.moves) = m
    BY <1>3, <1>4 DEF Most
  <2> SUFFICES w + 0 + d <= m
    BY <2>4, Zenon
  <2> HIDE DEF w, m, b, d
  <2> QED
    BY <2>1, <2>2, <2>3
<1> QED
  BY <1>1, <1>5, UserInv

(* bsopen, before a split. *)
LEMMA OpensInv ==
  ASSUME SplitInv, Opens
  PROVE  SplitInv'
<1>1. /\ split.pc = "idle" /\ Bsopen /\ split' = split /\ due' = due /\ StreamInv
  BY DEF Opens, SplitInv
<1>2. StreamInv'
  BY <1>1, BsopenLawful DEF Lawful, Promised
<1>3. call.pc = "closed" /\ call'.pc = "idle" /\ src' = src /\ buff'.text = <<>>
  BY <1>1 DEF Bsopen, NewCall
<1> QED
  BY <1>1, <1>2, <1>3, EmptiedInv

(* bsclose, before a split. *)
LEMMA ClosesInv ==
  ASSUME SplitInv, Closes
  PROVE  SplitInv'
<1>1. /\ split.pc = "idle" /\ Bsclose /\ split' = split /\ due' = due /\ StreamInv
  BY DEF Closes, SplitInv
<1>2. StreamInv'
  BY <1>1, BscloseLawful DEF Lawful, Promised
<1>3. call.pc = "idle" /\ call'.pc = "closed" /\ src' = src /\ buff'.text = <<>>
  BY <1>1 DEF Bsclose, NewCall, NoBuffer, Idle
<1> QED
  BY <1>1, <1>2, <1>3, EmptiedInv

(* A request of a read in progress, and what it leaves alone. *)
LEMMA StepFacts ==
  ASSUME StreamInv, Steps
  PROVE  /\ Lawful /\ call.pc \in {"line", "block"} /\ buff'.mlen = buff.mlen
         /\ call'.fn \in {"line", "block"}
         /\ BlockStep => call.pc = "block" /\ Kept(dest) /\ Dry
         /\ LineStep => call.pc = "line"
<1>1. buff \in [text : Seq(Nat), mlen : -1..MemMax] /\ call \in Callers
  BY DEF StreamInv, Typed, Buffer
<1>2. CASE LineStep
  <2>1. Lawful /\ call.pc = "line" /\ call.fn = "line"
    BY <1>2, LineStepLawful, LineWorks DEF LineStep
  <2>2. \/ call' = Starved("ERR") /\ buff' = buff
        \/ \E d : LineEnds(d)
        \/ \E d, t : LineContinues(d, t)
    BY <1>2 DEF LineStep
  <2>3. call'.fn = "line" /\ buff'.mlen = buff.mlen
    <3>1. CASE call' = Starved("ERR") /\ buff' = buff
      BY <1>1, <2>1, <3>1 DEF Starved, Callers
    <3>2. ASSUME NEW d, LineEnds(d) PROVE call'.fn = "line" /\ buff'.mlen = buff.mlen
      BY <1>1, <2>1, <3>2 DEF LineEnds, Return, Callers
    <3>3. ASSUME NEW d, NEW t, LineContinues(d, t)
          PROVE  call'.fn = "line" /\ buff'.mlen = buff.mlen
      BY <1>1, <2>1, <3>3 DEF LineContinues, Return, Callers
    <3> QED
      BY <2>2, <3>1, <3>2, <3>3
  <2>4. ~BlockStep
    BY <2>1 DEF BlockStep
  <2> QED
    BY <2>1, <2>3, <2>4
<1>3. CASE BlockStep
  <2>1. Lawful /\ Kept(dest) /\ Dry /\ call.pc = "block"
    BY <1>3, BlockStepLawful DEF BlockStep
  <2>2. \E u : buff' = [buff EXCEPT !.text = u]
    BY <1>3 DEF BlockStep, Pass
  <2>3. call'.fn = "block" /\ buff'.mlen = buff.mlen
    BY <1>1, <2>1, <2>2 DEF Kept
  <2>4. ~LineStep
    BY <2>1 DEF LineStep
  <2> QED
    BY <2>1, <2>3, <2>4
<1> QED
  BY <1>2, <1>3 DEF Steps

(* A request of a read of the split, or of the user. *)
LEMMA StepsInv ==
  ASSUME SplitInv, StreamSteps
  PROVE  SplitInv'
<1>1. StreamInv /\ Steps /\ split' = split /\ due' = due
  BY DEF StreamSteps, SplitInv
<1>2. /\ Lawful /\ call.pc \in {"line", "block"} /\ buff'.mlen = buff.mlen
      /\ call'.fn \in {"line", "block"} /\ ~Idle
      /\ BlockStep => call.pc = "block" /\ Kept(dest) /\ Dry
      /\ LineStep => call.pc = "line"
  BY <1>1, StepFacts DEF Idle
<1>3. StreamInv'
  BY <1>2 DEF Lawful, Promised
<1>4. split \in Splits
  BY SplitFields DEF SplitInv
<1>5. CASE split.pc = "reading"
  <2>1. /\ InRead /\ 0 < buff.mlen
    BY <1>5 DEF SplitInv, Working
  <2>2. call.pc = "block" /\ dest.old = Len(split.text)
    BY <1>2, <2>1 DEF InRead
  <2>3. Kept(dest) /\ Dry
    BY <1>1, <1>2, <2>2 DEF Steps
  <2>4. Delivered = dest.got /\ Delivered \in Seq(Nat)
    BY <1>1, <2>2, LengthsLeft DEF Delivered, Reading
  <2>5. due = (split.text \o Delivered) \o Rest
    BY <2>1, <2>4 DEF InRead
  <2>6. 0 < buff'.mlen
    BY <1>2, <2>1
  <2> QED
    BY <1>1, <1>2, <1>4, <1>5, <2>2, <2>3, <2>4, <2>5, <2>6, ReadMoves
<1>6. CASE split.pc \in {"idle", "callback"}
  <2>1. HandsOut \/ Contract!Relapse
    BY <1>2 DEF Lawful, Moved
  <2>2. Contract!Relapse => Reading
    BY DEF Contract!Relapse
  <2>3. /\ Rest \in Seq(Nat) /\ Delivered \in Seq(Nat)
    BY <1>1, LengthsLeft
  <2> DEFINE w == Len(split.text)
             a == Len(Delivered)
             b == Len(Rest)
             c == Len(Delivered')
             d == Len(Rest')
             m == Most(split.moves)
  <2>4. c + d <= a + b /\ a \in Nat /\ b \in Nat
    BY <1>1, <1>3, <2>1, <2>2, <2>3, MovesShrink
  <2>5. w \in Nat /\ m \in Nat /\ c \in Nat /\ d \in Nat
    BY <1>3, RestAfter, SplitFields, MostFacts DEF SplitInv
  <2>6. w + a + b <= m
    BY <1>6 DEF SplitInv, Bounded
  <2>7. Len(split.text) + Len(Delivered') + Len(Rest') <= Most(split'.moves)
    <3>1. Most(split'.moves) = m
      BY <1>1 DEF Most
    <3> SUFFICES w + c + d <= m
      BY <3>1, Zenon
    <3> HIDE DEF w, a, b, c, d, m
    <3> QED
      BY <2>4, <2>5, <2>6
  <2>8. split.pc = "callback" => split'.moved /\ 0 < buff'.mlen
    <3> SUFFICES ASSUME split.pc = "callback" PROVE split'.moved /\ 0 < buff'.mlen
      OBVIOUS
    <3>1. InCallback /\ 0 < buff.mlen
      BY DEF SplitInv, Working
    <3> QED
      BY <1>1, <1>2, <3>1 DEF InCallback
  <2> HIDE DEF w, a, b, c, d, m
  <2> QED
    BY <1>1, <1>3, <1>4, <1>6, <2>7, <2>8, UserInv
<1>7. CASE split.pc \in {"read", "scan"}
  <2>1. Idle
    BY <1>7 DEF SplitInv, Between
  <2> QED
    BY <1>2, <2>1
<1> QED
  BY <1>4, <1>5, <1>6, <1>7 DEF Splits

-----------------------------------------------------------------------------
(* Every step. *)

(* At first there is no split, and the stream is closed. *)
LEMMA InitSplitInv == SplitInit => SplitInv
<1> SUFFICES ASSUME SplitInit PROVE SplitInv
  OBVIOUS
<1>1. /\ Init /\ due = <<>>
      /\ split = [pc |-> "idle", kind |-> "none", sep |-> <<>>, text |-> <<>>,
                  mlen |-> 0, ofs |-> 0, piece |-> <<>>, last |-> FALSE, ret |-> 0,
                  moves |-> 0, moved |-> FALSE, total |-> 0]
  BY DEF SplitInit
<1>2. StreamInv
  BY <1>1, InitStreamInv DEF Promised
<1>3. /\ <<>> \in Seq(Nat) /\ Len(<<>>) = 0 /\ MemMax \in Nat /\ MovesMax \in Nat
      /\ HeldMax \in Nat /\ Len(Input) \in Nat /\ Input \in Seq(Nat)
  BY EmptySeq, SizesAssumption, SplitAssumption, StreamAssumption, LenProperties
<1>4. split \in Splits
  <2>1. /\ 0 \in -1..MemMax /\ 0 \in 0..MovesMax /\ 0 \in IntMin..IntMax
    BY <1>3, SizesAssumption DEF IntMin
  <2> QED
    BY <1>1, <1>3, <2>1 DEF Splits
<1>5. SplitTyped
  BY <1>1, <1>3, <1>4 DEF SplitTyped
<1>6. Rest = Input /\ Delivered = <<>>
  <2>1. call.pc = "closed" /\ buff.text = <<>> /\ src = Input
    BY <1>1 DEF Init, NewCall, NoBuffer
  <2>2. Rest = <<>> \o Input /\ Delivered = <<>>
    BY <1>2, <2>1, IdleFacts
  <2> QED
    BY <1>3, <2>2, TextFacts
<1>7. Bounded
  <2>1. Most(0) = Len(Input)
    BY <1>3 DEF Most
  <2>2. Len(split.text) + Len(Delivered) + Len(Rest) = Len(Input)
    BY <1>1, <1>3, <1>6
  <2>3. Len(split.text) + Len(Delivered) + Len(Rest) <= Most(split.moves)
    BY <1>1, <1>3, <2>1, <2>2
  <2> QED
    BY <1>1, <2>3 DEF Bounded
<1>8. Positioned /\ Searched /\ PieceIsCut
  BY <1>1 DEF Positioned, Searched, PieceIsCut
<1> QED
  BY <1>1, <1>2, <1>5, <1>7, <1>8 DEF SplitInv

(* Only the end of a read and the search call the callback. *)
LEMMA OnlyTheseCall ==
  ASSUME SplitTyped, Opens \/ Closes \/ Begin \/ Moves \/ StreamSteps \/ Read \/ Returns
  PROVE  ~Called
<1>1. split \in Splits
  BY SplitFields
<1>2. CASE Opens \/ Closes \/ StreamSteps
  BY <1>2 DEF Opens, Closes, StreamSteps, Called
<1>3. CASE Begin
  <2>1. PICK fn \in {"bssplitscb", "bssplitstrcb"}, sep \in Separators,
             g \in Bfromcstr(0) :
          split' = [split EXCEPT
                      !.pc = IF g.ret = "OK" THEN "read" ELSE "idle",
                      !.kind = KindOf(fn, sep), !.sep = sep, !.text = <<>>,
                      !.mlen = g.h.mlen, !.ofs = 0, !.piece = <<>>, !.last = FALSE,
                      !.ret = IF g.ret = "OK" THEN 0 ELSE -1,
                      !.moved = FALSE, !.total = Len(Left)]
    BY <1>3 DEF Begin
  <2>2. split'.pc \in {"read", "idle"}
    BY <1>1, <2>1 DEF Splits
  <2> QED
    BY <2>2 DEF Called
<1>4. CASE Moves
  BY <1>1, <1>4 DEF Moves, Called, Splits
<1>5. CASE Read
  BY <1>1, <1>5 DEF Read, Called, Splits
<1>6. CASE Returns
  BY <1>6 DEF Returns, Called
<1> QED
  BY <1>2, <1>3, <1>4, <1>5, <1>6

(* A step that changes nothing. *)
LEMMA StutterSplitInv ==
  ASSUME SplitInv, UNCHANGED splitVars
  PROVE  SplitInv' /\ ~Called
<1>1. UNCHANGED vars /\ split' = split /\ due' = due
  BY DEF splitVars
<1>2. /\ StreamInv' /\ Left' = Left /\ Rest' = Rest /\ Delivered' = Delivered
      /\ buff' = buff /\ dest' = dest /\ call' = call /\ isEOF' = isEOF
      /\ Idle' = Idle
  BY <1>1, StreamStays DEF SplitInv
<1>3. /\ SplitTyped' = SplitTyped /\ Working' = Working /\ Bounded' = Bounded
  BY <1>1, <1>2 DEF SplitTyped, Working, Bounded
<1>4. /\ Between' = Between /\ InRead' = InRead
  BY <1>1, <1>2 DEF Between, InRead
<1>5. InCallback' = InCallback
  BY <1>1, <1>2 DEF InCallback, Cut
<1>6. Positioned' = Positioned /\ Searched' = Searched /\ PieceIsCut' = PieceIsCut
  BY <1>1 DEF Positioned, Searched, PieceIsCut
<1> QED
  BY <1>1, <1>2, <1>3, <1>4, <1>5, <1>6 DEF SplitInv, Called

(* Every step keeps the invariant, and a step that calls the callback      *)
(* hands over a piece cut where it should be, and placed.                  *)
LEMMA SplitNextInv ==
  ASSUME SplitInv, [SplitNext]_splitVars
  PROVE  SplitInv' /\ Partitioned /\ Placed
<1>1. ~Called => Partitioned /\ Placed
  BY DEF Partitioned, Placed
<1>2. SplitTyped
  BY DEF SplitInv
<1>3. CASE Opens
  BY <1>1, <1>2, <1>3, OpensInv, OnlyTheseCall
<1>4. CASE Closes
  BY <1>1, <1>2, <1>4, ClosesInv, OnlyTheseCall
<1>5. CASE Begin
  BY <1>1, <1>2, <1>5, BeginInv, OnlyTheseCall
<1>6. CASE Moves
  BY <1>1, <1>2, <1>6, MovesInv, OnlyTheseCall
<1>7. CASE StreamSteps
  BY <1>1, <1>2, <1>7, StepsInv, OnlyTheseCall
<1>8. CASE Read
  BY <1>1, <1>2, <1>8, ReadInv, OnlyTheseCall
<1>9. CASE HasRead
  BY <1>9, HasReadInv
<1>10. CASE Scan
  BY <1>10, ScanInv
<1>11. CASE Returns
  BY <1>1, <1>2, <1>11, ReturnsInv, OnlyTheseCall
<1>12. CASE UNCHANGED splitVars
  BY <1>1, <1>12, StutterSplitInv
<1> QED
  BY <1>3, <1>4, <1>5, <1>6, <1>7, <1>8, <1>9, <1>10, <1>11, <1>12
     DEF SplitNext, SplitSteps

(* The invariant holds throughout. *)
LEMMA SpecSplitInv == SplitSpec => []SplitInv
<1>1. SplitInv /\ [SplitNext]_splitVars => SplitInv'
  BY SplitNextInv
<1> QED
  BY <1>1, InitSplitInv, PTL DEF SplitSpec

(* A piece that bssplitscb or bssplitstrcb hands to its callback has no    *)
(* separator in it, whatever the stream answers, memory there is, and the  *)
(* callbacks read or put back; the last piece of a stream cut at a string  *)
(* is not searched.                                                        *)
THEOREM SplitIsSound == SplitSpec => []SplitSound
<1>1. SplitInv => SplitSound
  <2> SUFFICES ASSUME SplitInv PROVE SplitSound
    OBVIOUS
  <2>1. Typed /\ Buffer(buff) /\ split \in Splits /\ due \in Seq(Nat) /\ PieceIsCut
    BY DEF SplitInv, StreamInv, SplitTyped
  <2>2. TypeOK
    BY <2>1 DEF TypeOK, Typed, Buffer, Callers
  <2>3. SplitTypeOK
    BY <2>1, <2>2 DEF SplitTypeOK, Splits
  <2> QED
    BY <2>1, <2>3 DEF SplitSound
<1> QED
  BY <1>1, SpecSplitInv, PTL

(* The pieces and their separators are the stream, cut up: nothing is lost *)
(* between a piece and the next, and nothing handed over twice.  The       *)
(* callback finds the stream right after the separator, but where          *)
(* bssplitstrcb has read ahead and keeps the text (ReadsAhead).            *)
THEOREM SplitPartitions == SplitSpec => PiecesPartition
<1>1. SplitInv /\ [SplitNext]_splitVars => [Partitioned]_splitVars
  BY SplitNextInv
<1> QED
  BY <1>1, SpecSplitInv, PTL DEF SplitSpec, PiecesPartition, Partitioned

(* The offset a callback is given is where its piece lies, unless a        *)
(* callback moved in the stream; and a piece is called the last one only   *)
(* when the stream has ended or a read got no memory.                      *)
THEOREM SplitPlacesPieces == SplitSpec => PiecesArePlaced
<1>1. SplitInv /\ [SplitNext]_splitVars
        => [Called /\ ~split.moved /\ split'.kind # "blocks"
              => split'.ofs = split.total - Len(due)]_splitVars
  BY SplitNextInv DEF Placed
<1>2. SplitInv /\ [SplitNext]_splitVars
        => [Called /\ split'.last => isEOF \/ call.starved]_splitVars
  BY SplitNextInv DEF Placed
<1> QED
  BY <1>1, <1>2, SpecSplitInv, PTL
     DEF SplitSpec, PiecesArePlaced, OffsetIsPosition, LastPieceEnds

=============================================================================

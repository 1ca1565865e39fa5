--------------------------- MODULE BwsStreamProofs ---------------------------
(***************************************************************************)
(* bwriteStream is a pipe, for every size of its buffer, of memory and of  *)
(* the texts.                                                              *)
(*                                                                         *)
(* A call is a sequence of steps on an outcome (the stream so far, what    *)
(* the sink got so far).  What is followed through them is the flow of the *)
(* call, what the sink got followed by what the buffer holds: a step       *)
(* extends it by its text, leaves it alone, or breaks the pipe somewhere   *)
(* in it.  The steps compose to the operations, and the operations are the *)
(* steps of PipeContract.                                                  *)
(***************************************************************************)
EXTENDS BwsStream, BstrLemmas

(* The stream as a record: the type of ws. *)
Stream ==
  [open : BOOLEAN, held : Seq(Nat), mlen : Int, isEOF : BOOLEAN, min : Int,
   ret : {"OK", "ERR"}, asked : Seq(Nat), fn : {"none", "other", "write"}]

Outcomes == [w : Stream, out : Seq(Nat)]

(* What holds of an open stream: there is room for the terminator of what  *)
(* it holds, and its buffer is one that can be had.                        *)
Buffer(w) ==
  /\ w \in Stream /\ w.open
  /\ w.mlen <= MemMax /\ Len(w.held) < w.mlen
  /\ 1 <= w.min /\ w.min <= IntMax

(* No step of the call has failed. *)
Alive(o) == o \in Outcomes /\ Buffer(o.w) /\ ~o.w.isEOF /\ o.w.ret = "OK"

Flow(o) == o.out \o o.w.held

(* The sequence p is how s begins. *)
Begins(p, s) == \E q \in Seq(Nat) : p \o q = s

(* The requests that a write makes. *)
AsksMin(w) == \A i \in DOMAIN w.asked : w.asked[i] >= w.min

(* What no step changes, or gives up. *)
Same(o, r) ==
  /\ r \in Outcomes /\ Buffer(r.w)
  /\ r.w.min = o.w.min /\ r.w.fn = o.w.fn

(* The sink has refused, having got a part of the flow f. *)
Broken(r, f) == r.w.isEOF /\ r.w.ret = "ERR" /\ Begins(r.out, f)

(* Memory has been refused, and the flow is f. *)
Starved(r, f) == ~r.w.isEOF /\ r.w.ret = "ERR" /\ Flow(r) = f

-----------------------------------------------------------------------------
(* Records and flows. *)

(* The fields of an outcome. *)
LEMMA OutcomeFields ==
  ASSUME NEW o \in Outcomes
  PROVE  /\ o.w \in Stream /\ o.out \in Seq(Nat)
         /\ o.w.open \in BOOLEAN /\ o.w.held \in Seq(Nat) /\ o.w.mlen \in Int
         /\ o.w.isEOF \in BOOLEAN /\ o.w.min \in Int /\ o.w.ret \in {"OK", "ERR"}
         /\ o.w.asked \in Seq(Nat) /\ o.w.fn \in {"none", "other", "write"}
         /\ Flow(o) \in Seq(Nat)
<1>1. o.w \in Stream /\ o.out \in Seq(Nat)
  BY DEF Outcomes
<1>2. o.w.held \in Seq(Nat)
  BY <1>1 DEF Stream
<1>3. Flow(o) \in Seq(Nat)
  BY <1>1, <1>2, ConcatProperties DEF Flow
<1> QED
  BY <1>1, <1>2, <1>3 DEF Stream

(* The stores of the code, by name. *)
Holding(o, t, m) == [o EXCEPT !.w.held = t, !.w.mlen = m]

Emptied(o) == [o EXCEPT !.w.held = <<>>]

Asking(o, n) == [o EXCEPT !.w.asked = Append(@, n)]

Getting(o, s) == [o EXCEPT !.out = @ \o s]

Refusing(o, s) == [o EXCEPT !.w.isEOF = TRUE, !.w.ret = "ERR", !.out = @ \o s]

(* What r has in common with o: all but what the buffer holds. *)
LEMMA HoldingFields ==
  ASSUME NEW o \in Outcomes, NEW t \in Seq(Nat), NEW m \in Int
  PROVE  LET r == Holding(o, t, m)
         IN  /\ r \in Outcomes /\ r.out = o.out
             /\ r.w.held = t /\ r.w.mlen = m /\ r.w.open = o.w.open
             /\ r.w.isEOF = o.w.isEOF /\ r.w.min = o.w.min /\ r.w.ret = o.w.ret
             /\ r.w.asked = o.w.asked /\ r.w.fn = o.w.fn
<1> DEFINE x == [o.w EXCEPT !.held = t, !.mlen = m]
<1>1. o.w \in Stream /\ o.out \in Seq(Nat)
  BY OutcomeFields
<1>2. Holding(o, t, m) = [o EXCEPT !.w = x]
  BY DEF Holding
<1>3. /\ x \in Stream
      /\ x.held = t /\ x.mlen = m /\ x.open = o.w.open
      /\ x.isEOF = o.w.isEOF /\ x.min = o.w.min /\ x.ret = o.w.ret
      /\ x.asked = o.w.asked /\ x.fn = o.w.fn
  BY <1>1 DEF Stream
<1> HIDE DEF x
<1>4. Holding(o, t, m) \in Outcomes /\ Holding(o, t, m).w = x
      /\ Holding(o, t, m).out = o.out
  BY <1>2, <1>3 DEF Outcomes
<1> QED
  BY <1>3, <1>4

(* The same where its memory stays too. *)
LEMMA EmptiedFields ==
  ASSUME NEW o \in Outcomes
  PROVE  LET r == Emptied(o)
         IN  /\ r \in Outcomes /\ r.out = o.out
             /\ r.w.held = <<>> /\ r.w.mlen = o.w.mlen /\ r.w.open = o.w.open
             /\ r.w.isEOF = o.w.isEOF /\ r.w.min = o.w.min /\ r.w.ret = o.w.ret
             /\ r.w.asked = o.w.asked /\ r.w.fn = o.w.fn
<1> DEFINE x == [o.w EXCEPT !.held = <<>>]
<1>1. o.w \in Stream /\ o.out \in Seq(Nat) /\ <<>> \in Seq(Nat)
  BY OutcomeFields, EmptySeq
<1>2. Emptied(o) = [o EXCEPT !.w = x]
  BY DEF Emptied
<1>3. /\ x \in Stream
      /\ x.held = <<>> /\ x.mlen = o.w.mlen /\ x.open = o.w.open
      /\ x.isEOF = o.w.isEOF /\ x.min = o.w.min /\ x.ret = o.w.ret
      /\ x.asked = o.w.asked /\ x.fn = o.w.fn
  BY <1>1 DEF Stream
<1> HIDE DEF x
<1>4. Emptied(o) \in Outcomes /\ Emptied(o).w = x
      /\ Emptied(o).out = o.out
  BY <1>2, <1>3 DEF Outcomes
<1> QED
  BY <1>3, <1>4

(* A failed step leaves everything but what it returns. *)
LEMMA ErrFields ==
  ASSUME NEW o \in Outcomes
  PROVE  LET r == Err(o)
         IN  /\ r \in Outcomes /\ r.out = o.out
             /\ r.w.held = o.w.held /\ r.w.mlen = o.w.mlen /\ r.w.open = o.w.open
             /\ r.w.isEOF = o.w.isEOF /\ r.w.min = o.w.min /\ r.w.ret = "ERR"
             /\ r.w.asked = o.w.asked /\ r.w.fn = o.w.fn
<1> DEFINE x == [o.w EXCEPT !.ret = "ERR"]
<1>1. o.w \in Stream /\ o.out \in Seq(Nat)
  BY OutcomeFields
<1>2. Err(o) = [o EXCEPT !.w = x]
  BY DEF Err
<1>3. /\ x \in Stream
      /\ x.held = o.w.held /\ x.mlen = o.w.mlen /\ x.open = o.w.open
      /\ x.isEOF = o.w.isEOF /\ x.min = o.w.min /\ x.ret = "ERR"
      /\ x.asked = o.w.asked /\ x.fn = o.w.fn
  BY <1>1 DEF Stream
<1> HIDE DEF x
<1>4. Err(o) \in Outcomes /\ Err(o).w = x /\ Err(o).out = o.out
  BY <1>2, <1>3 DEF Outcomes
<1> QED
  BY <1>3, <1>4

(* A request is noted. *)
LEMMA AskingFields ==
  ASSUME NEW o \in Outcomes, NEW n \in Nat
  PROVE  LET r == Asking(o, n)
         IN  /\ r \in Outcomes /\ r.out = o.out
             /\ r.w.held = o.w.held /\ r.w.mlen = o.w.mlen /\ r.w.open = o.w.open
             /\ r.w.isEOF = o.w.isEOF /\ r.w.min = o.w.min /\ r.w.ret = o.w.ret
             /\ r.w.asked = Append(o.w.asked, n) /\ r.w.fn = o.w.fn
<1> DEFINE a == Append(o.w.asked, n)
           x == [o.w EXCEPT !.asked = a]
<1>1. o.w \in Stream /\ o.out \in Seq(Nat) /\ a \in Seq(Nat)
  BY OutcomeFields, AppendProperties
<1>2. Asking(o, n) = [o EXCEPT !.w = x]
  BY DEF Asking
<1> HIDE DEF a
<1>3. /\ x \in Stream
      /\ x.held = o.w.held /\ x.mlen = o.w.mlen /\ x.open = o.w.open
      /\ x.isEOF = o.w.isEOF /\ x.min = o.w.min /\ x.ret = o.w.ret
      /\ x.asked = a /\ x.fn = o.w.fn
  BY <1>1 DEF Stream
<1> HIDE DEF x
<1>4. Asking(o, n) \in Outcomes /\ Asking(o, n).w = x
      /\ Asking(o, n).out = o.out
  BY <1>2, <1>3 DEF Outcomes
<1> QED
  BY <1>3, <1>4 DEF a

(* The sink gets something. *)
LEMMA GettingFields ==
  ASSUME NEW o \in Outcomes, NEW s \in Seq(Nat)
  PROVE  LET r == Getting(o, s)
         IN  r \in Outcomes /\ r.out = o.out \o s /\ r.w = o.w
<1>1. o.w \in Stream /\ o.out \o s \in Seq(Nat)
  BY OutcomeFields, ConcatProperties
<1> QED
  BY <1>1 DEF Getting, Outcomes

(* The sink gets something and refuses the rest. *)
LEMMA RefusingFields ==
  ASSUME NEW o \in Outcomes, NEW s \in Seq(Nat)
  PROVE  LET r == Refusing(o, s)
         IN  /\ r \in Outcomes /\ r.out = o.out \o s
             /\ r.w.held = o.w.held /\ r.w.mlen = o.w.mlen /\ r.w.open = o.w.open
             /\ r.w.isEOF /\ r.w.min = o.w.min /\ r.w.ret = "ERR"
             /\ r.w.asked = o.w.asked /\ r.w.fn = o.w.fn
<1> DEFINE u == o.out \o s
           x == [o.w EXCEPT !.isEOF = TRUE, !.ret = "ERR"]
<1>1. o.w \in Stream /\ u \in Seq(Nat)
  BY OutcomeFields, ConcatProperties
<1>2. Refusing(o, s) = [o EXCEPT !.w = x, !.out = u]
  BY DEF Refusing
<1> HIDE DEF u
<1>3. /\ x \in Stream
      /\ x.held = o.w.held /\ x.mlen = o.w.mlen /\ x.open = o.w.open
      /\ x.isEOF /\ x.min = o.w.min /\ x.ret = "ERR"
      /\ x.asked = o.w.asked /\ x.fn = o.w.fn
  BY <1>1 DEF Stream
<1> HIDE DEF x
<1>4. Refusing(o, s) \in Outcomes /\ Refusing(o, s).w = x
      /\ Refusing(o, s).out = u
  BY <1>1, <1>2, <1>3 DEF Outcomes
<1> QED
  BY <1>3, <1>4 DEF u

(* What begins s begins every longer sequence that begins with s. *)
LEMMA BeginsFacts ==
  ASSUME NEW p \in Seq(Nat), NEW s \in Seq(Nat), NEW t \in Seq(Nat)
  PROVE  /\ Begins(p, p \o s) /\ Begins(s, s)
         /\ Begins(p, s) => Begins(p, s \o t)
<1>1. Begins(p, p \o s)
  BY DEF Begins
<1>2. Begins(s, s)
  BY EmptySeq, ConcatEmptySeq DEF Begins
<1>3. ASSUME Begins(p, s)
      PROVE  Begins(p, s \o t)
  <2>1. PICK q \in Seq(Nat) : p \o q = s
    BY <1>3 DEF Begins
  <2>2. q \o t \in Seq(Nat) /\ p \o (q \o t) = (p \o q) \o t
    BY ConcatProperties, ConcatAssociative, SMTT(30)
  <2> QED
    BY <2>1, <2>2 DEF Begins
<1> QED
  BY <1>1, <1>2, <1>3

-----------------------------------------------------------------------------
(* The steps. *)

(* The requests and the size of the buffer are all that matters.           *)
LEMMA AsksMinSame ==
  ASSUME NEW v, NEW w, w.asked = v.asked, w.min = v.min, AsksMin(v)
  PROVE  AsksMin(w)
BY DEF AsksMin

(* A request of no less than the size of the buffer joins those before.    *)
LEMMA AsksMinMore ==
  ASSUME NEW v \in Stream, NEW w \in Stream, NEW n \in Nat,
         w.asked = Append(v.asked, n), w.min = v.min, AsksMin(v), n >= v.min
  PROVE  AsksMin(w)
<1> SUFFICES ASSUME NEW i \in DOMAIN w.asked
             PROVE  w.asked[i] >= w.min
  BY DEF AsksMin
<1>1. v.asked \in Seq(Nat)
  BY DEF Stream
<1>2. /\ Len(v.asked) \in Nat /\ DOMAIN v.asked = 1..Len(v.asked)
      /\ Append(v.asked, n) \in Seq(Nat)
      /\ Len(Append(v.asked, n)) = Len(v.asked) + 1
      /\ \A j \in 1..Len(v.asked) : Append(v.asked, n)[j] = v.asked[j]
      /\ Append(v.asked, n)[Len(v.asked) + 1] = n
  BY <1>1, AppendProperties, LenProperties
<1>3. i \in 1..(Len(v.asked) + 1)
  BY <1>2, LenProperties
<1>4. CASE i \in 1..Len(v.asked)
  <2>1. w.asked[i] = v.asked[i] /\ i \in DOMAIN v.asked
    BY <1>2, <1>4
  <2> QED
    BY <2>1 DEF AsksMin
<1>5. CASE i = Len(v.asked) + 1
  BY <1>2, <1>5
<1> QED
  BY <1>2, <1>3, <1>4, <1>5

(* The sink refuses a text, having got the part u of it. *)
LEMMA RefusingStep ==
  ASSUME NEW o, Alive(o), NEW a \in Outcomes, a.out = o.out,
         a.w.held = o.w.held, a.w.mlen = o.w.mlen, a.w.open = o.w.open,
         a.w.min = o.w.min, a.w.fn = o.w.fn,
         NEW u \in Seq(Nat), NEW v \in Seq(Nat)
  PROVE  LET r == Refusing(a, u)
         IN  /\ Same(o, r) /\ r.w.held = o.w.held /\ r.w.mlen = o.w.mlen
             /\ r.w.ret = "ERR" /\ Broken(r, o.out \o (u \o v))
             /\ AsksMin(a.w) => AsksMin(r.w)
<1> DEFINE r == Refusing(a, u)
<1>1. /\ r \in Outcomes /\ r.out = a.out \o u
      /\ r.w.held = a.w.held /\ r.w.mlen = a.w.mlen /\ r.w.open = a.w.open
      /\ r.w.isEOF /\ r.w.min = a.w.min /\ r.w.ret = "ERR"
      /\ r.w.asked = a.w.asked /\ r.w.fn = a.w.fn
  BY RefusingFields
<1> HIDE DEF r
<1>2. Buffer(r.w)
  BY <1>1, OutcomeFields DEF Buffer, Alive
<1>3. AsksMin(a.w) => AsksMin(r.w)
  <2>1. r.w.asked = a.w.asked /\ r.w.min = a.w.min
    BY <1>1
  <2> QED
    BY <2>1, AsksMinSame
<1>4. (o.out \o u) \o v = o.out \o (u \o v)
  <2>1. o.out \in Seq(Nat)
    BY OutcomeFields DEF Alive
  <2> QED
    BY <2>1, TextFacts
<1>5. Broken(r, o.out \o (u \o v))
  BY <1>1, <1>4 DEF Broken, Begins
<1> QED
  BY <1>1, <1>2, <1>3, <1>5 DEF Same, r

(* The sink takes the text, or refuses it having taken its beginning.      *)
LEMMA WriteoutStep ==
  ASSUME NEW o, Alive(o), NEW t \in Seq(Nat), NEW r \in Writeout(o, t)
  PROVE  /\ Same(o, r) /\ r.w.held = o.w.held /\ r.w.mlen = o.w.mlen
         /\ r.w.ret \in {"OK", "ERR"}
         /\ r.w.ret = "OK" => ~r.w.isEOF /\ r.out = o.out \o t
         /\ r.w.ret = "ERR" => Broken(r, o.out \o t)
         /\ AsksMin(o.w) /\ (t = <<>> \/ Len(t) >= o.w.min) => AsksMin(r.w)
<1>0. PICK a : a = Asking(o, Len(t))
  OBVIOUS
<1>1. /\ o \in Outcomes /\ Buffer(o.w) /\ ~o.w.isEOF /\ o.w.ret = "OK"
      /\ o.out \in Seq(Nat) /\ o.w \in Stream
  BY OutcomeFields DEF Alive
<1>2. /\ a \in Outcomes /\ a.out = o.out /\ a.w \in Stream
      /\ a.w.held = o.w.held /\ a.w.mlen = o.w.mlen /\ a.w.open = o.w.open
      /\ a.w.isEOF = o.w.isEOF /\ a.w.min = o.w.min /\ a.w.ret = o.w.ret
      /\ a.w.asked = Append(o.w.asked, Len(t)) /\ a.w.fn = o.w.fn
  <2>1. Len(t) \in Nat
    BY LenProperties
  <2>2. /\ a \in Outcomes /\ a.out = o.out
        /\ a.w.held = o.w.held /\ a.w.mlen = o.w.mlen /\ a.w.open = o.w.open
        /\ a.w.isEOF = o.w.isEOF /\ a.w.min = o.w.min /\ a.w.ret = o.w.ret
        /\ a.w.asked = Append(o.w.asked, Len(t)) /\ a.w.fn = o.w.fn
    BY <1>0, <1>1, <2>1, AskingFields
  <2> QED
    BY <2>2, OutcomeFields
<1>3. AsksMin(o.w) /\ Len(t) >= o.w.min => AsksMin(a.w)
  <2>1. Len(t) \in Nat
    BY LenProperties
  <2> QED
    BY <1>1, <1>2, <2>1, AsksMinMore
<1>4. \/ t = <<>> /\ r = o
      \/ t # <<>> /\ r = Getting(a, t)
      \/ t # <<>> /\ \E k \in 0..Len(t) : r = Refusing(a, First(t, k))
  BY <1>0 DEF Writeout, Asking, Getting, Refusing
<1>5. CASE t = <<>> /\ r = o
  <2>1. o.out \o t = o.out
    BY <1>1, <1>5, ConcatEmptySeq
  <2> QED
    BY <1>1, <1>5, <2>1 DEF Same
<1>6. CASE t # <<>> /\ r = Getting(a, t)
  <2>1. r \in Outcomes /\ r.out = o.out \o t /\ r.w = a.w
    BY <1>2, <1>6, GettingFields
  <2>2. Buffer(r.w)
    BY <1>1, <1>2, <2>1 DEF Buffer
  <2> QED
    BY <1>1, <1>2, <1>3, <1>6, <2>1, <2>2 DEF Same
<1>7. CASE t # <<>> /\ \E k \in 0..Len(t) : r = Refusing(a, First(t, k))
  <2>1. PICK u \in Seq(Nat), v \in Seq(Nat) : r = Refusing(a, u) /\ u \o v = t
    <3>1. PICK k \in 0..Len(t) : r = Refusing(a, First(t, k))
      BY <1>7
    <3>2. /\ First(t, k) \in Seq(Nat) /\ After(t, k) \in Seq(Nat)
          /\ First(t, k) \o After(t, k) = t
      BY CutFacts DEF First, After
    <3> QED
      BY <3>1, <3>2
  <2>2. /\ Same(o, r) /\ r.w.held = o.w.held /\ r.w.mlen = o.w.mlen
        /\ r.w.ret = "ERR" /\ Broken(r, o.out \o t)
        /\ AsksMin(a.w) => AsksMin(r.w)
    BY <1>2, <2>1, RefusingStep
  <2> QED
    BY <1>3, <1>7, <2>2
<1> QED
  BY <1>4, <1>5, <1>6, <1>7

(* The buffer is written and emptied, or the sink refuses. *)
LEMMA EmptyStep ==
  ASSUME NEW o, Alive(o), NEW r \in Empty(o)
  PROVE  /\ Same(o, r) /\ r.w.ret \in {"OK", "ERR"}
         /\ r.w.ret = "OK" => /\ Alive(r) /\ r.w.held = <<>> /\ r.out = Flow(o)
                              /\ r.w.mlen = o.w.mlen
         /\ r.w.ret = "ERR" => Broken(r, Flow(o))
         /\ AsksMin(o.w) /\ (o.w.held = <<>> \/ Len(o.w.held) >= o.w.min)
              => AsksMin(r.w)
<1>1. o \in Outcomes /\ o.w.held \in Seq(Nat) /\ o.w.mlen \in Int
  BY OutcomeFields DEF Alive
<1>2. PICK x \in Writeout(o, o.w.held) :
        IF x.w.ret = "OK" THEN r = Emptied(x) ELSE r = x
  BY DEF Empty, Then, Emptied
<1>3. /\ Same(o, x) /\ x.w.held = o.w.held /\ x.w.mlen = o.w.mlen
      /\ x.w.ret \in {"OK", "ERR"}
      /\ x.w.ret = "OK" => ~x.w.isEOF /\ x.out = Flow(o)
      /\ x.w.ret = "ERR" => Broken(x, Flow(o))
      /\ AsksMin(o.w) /\ (o.w.held = <<>> \/ Len(o.w.held) >= o.w.min)
           => AsksMin(x.w)
  BY <1>1, <1>2, WriteoutStep DEF Flow
<1>4. CASE x.w.ret = "ERR"
  BY <1>2, <1>3, <1>4
<1>5. CASE x.w.ret = "OK"
  <2>1. r = Emptied(x) /\ x \in Outcomes
    BY <1>2, <1>3, <1>5 DEF Same
  <2>2. /\ r \in Outcomes /\ r.out = x.out
        /\ r.w.held = <<>> /\ r.w.mlen = x.w.mlen /\ r.w.open = x.w.open
        /\ r.w.isEOF = x.w.isEOF /\ r.w.min = x.w.min /\ r.w.ret = x.w.ret
        /\ r.w.asked = x.w.asked /\ r.w.fn = x.w.fn
    BY <2>1, EmptiedFields
  <2>3. Len(<<>>) = 0 /\ Len(x.w.held) \in Nat /\ x.w.mlen \in Int
    BY <1>1, <1>3, LenProperties, EmptySeq
  <2>4. Buffer(r.w)
    <3>1. x.w.open /\ x.w.mlen <= MemMax /\ Len(x.w.held) < x.w.mlen
          /\ 1 <= x.w.min /\ x.w.min <= IntMax
      BY <1>3 DEF Same, Buffer
    <3>2. r.w \in Stream
      BY <2>2, OutcomeFields
    <3>3. Len(r.w.held) < r.w.mlen
      BY <2>2, <2>3, <3>1
    <3> QED
      BY <2>2, <3>1, <3>2, <3>3 DEF Buffer
  <2>5. AsksMin(x.w) => AsksMin(r.w)
    <3>1. r.w.asked = x.w.asked /\ r.w.min = x.w.min
      BY <2>2
    <3> QED
      BY <3>1, AsksMinSame
  <2> QED
    BY <1>3, <1>5, <2>2, <2>4, <2>5 DEF Same, Alive
<1> QED
  BY <1>3, <1>4, <1>5

(* The header of the buffer is one that the mutators expect. *)
LEMMA BuffHeaderFacts ==
  ASSUME NEW w, Buffer(w)
  PROVE  LET h == BuffHeader(w)
         IN  /\ Owns(h) /\ Writable(h) /\ h.slen = Len(w.held) /\ h.mlen = w.mlen
<1> DEFINE n == Len(w.held)
           h == [slen |-> n, mlen |-> w.mlen, cap |-> w.mlen, nul |-> TRUE]
<1>1. n \in Nat /\ w.mlen \in Int
  BY LenProperties DEF Buffer, Stream
<1>2. n < w.mlen /\ w.mlen <= MemMax
  BY DEF Buffer
<1>3. BuffHeader(w) = h
  BY DEF BuffHeader
<1> HIDE DEF n
<1>4. w.mlen \in Nat /\ 0 < w.mlen /\ n <= w.mlen
  BY <1>1, <1>2
<1>5. h \in Header
  BY <1>1, <1>4 DEF Header
<1> QED
  BY <1>1, <1>2, <1>3, <1>4, <1>5 DEF Owns, Writable, n

(* The buffer gets a text, or there is no room for it. *)
LEMMA BufferedStep ==
  ASSUME NEW o, Alive(o), NEW t \in Seq(Nat), NEW g, Owns(g.h),
         g.ret \in {"OK", "ERR"}, g.ret = "OK" => Len(t) < g.h.mlen
  PROVE  LET r == Buffered(o, t, g)
         IN  /\ Same(o, r) /\ r.w.ret = g.ret /\ r.out = o.out
             /\ r.w.asked = o.w.asked
             /\ g.ret = "OK" => Alive(r) /\ r.w.held = t /\ r.w.mlen = g.h.mlen
             /\ g.ret = "ERR" => Starved(r, Flow(o)) /\ r.w.mlen = o.w.mlen
<1>1. /\ o \in Outcomes /\ g.h.mlen \in Int /\ g.h.mlen <= MemMax
      /\ Buffer(o.w) /\ ~o.w.isEOF /\ o.w.ret = "OK"
  BY SizesAssumption DEF Alive, Owns, Header
<1>2. CASE g.ret = "OK"
  <2> DEFINE m == g.h.mlen
             r == Holding(o, t, m)
  <2>1. Buffered(o, t, g) = r
    BY <1>2 DEF Buffered, Holding
  <2>2. m \in Int /\ m <= MemMax /\ Len(t) < m
    BY <1>1, <1>2
  <2>3. /\ r \in Outcomes /\ r.out = o.out
        /\ r.w.held = t /\ r.w.mlen = m /\ r.w.open = o.w.open
        /\ r.w.isEOF = o.w.isEOF /\ r.w.min = o.w.min /\ r.w.ret = o.w.ret
        /\ r.w.asked = o.w.asked /\ r.w.fn = o.w.fn
    <3> HIDE DEF m
    <3> QED
      BY <1>1, <2>2, HoldingFields
  <2> HIDE DEF m, r
  <2>4. Buffer(r.w)
    BY <1>1, <2>2, <2>3, OutcomeFields DEF Buffer
  <2> QED
    BY <1>1, <1>2, <2>1, <2>3, <2>4 DEF Same, Alive, m
<1>3. CASE g.ret = "ERR"
  <2> DEFINE r == Err(o)
  <2>1. Buffered(o, t, g) = r
    BY <1>3 DEF Buffered
  <2>2. /\ r \in Outcomes /\ r.out = o.out
        /\ r.w.held = o.w.held /\ r.w.mlen = o.w.mlen /\ r.w.open = o.w.open
        /\ r.w.isEOF = o.w.isEOF /\ r.w.min = o.w.min /\ r.w.ret = "ERR"
        /\ r.w.asked = o.w.asked /\ r.w.fn = o.w.fn
    BY <1>1, ErrFields
  <2> HIDE DEF r
  <2>3. Buffer(r.w)
    BY <1>1, <2>2, OutcomeFields DEF Buffer
  <2>4. Flow(r) = Flow(o)
    BY <2>2 DEF Flow
  <2> QED
    BY <1>1, <1>3, <2>1, <2>2, <2>3, <2>4 DEF Same, Starved
<1> QED
  BY <1>2, <1>3

(* A text is put behind what the buffer holds: bconcat. *)
LEMMA ConcatStep ==
  ASSUME NEW o, Alive(o), NEW t \in Seq(Nat),
         Len(o.w.held) + Len(t) < IntMax, NEW r \in Concat(o, t)
  PROVE  /\ Same(o, r) /\ r.w.ret \in {"OK", "ERR"} /\ r.w.asked = o.w.asked
         /\ r.w.ret = "OK" => /\ Alive(r) /\ r.w.held = o.w.held \o t
                              /\ r.out = o.out
         /\ r.w.ret = "ERR" => Starved(r, Flow(o))
<1> DEFINE h == BuffHeader(o.w)
           n == Len(t)
           u == o.w.held \o t
<1>1. Owns(h) /\ Writable(h) /\ h.slen = Len(o.w.held)
  BY BuffHeaderFacts DEF Alive
<1>2. o.w.held \in Seq(Nat) /\ n \in Nat
  BY OutcomeFields, LenProperties DEF Alive
<1>3. u \in Seq(Nat) /\ Len(u) = Len(o.w.held) + n
  BY <1>2, TextFacts
<1>4. PICK g \in Bconcat(h, n, FALSE) : r = Buffered(o, u, g)
  BY DEF Concat
<1>5. h.slen + n < IntMax
  BY <1>1
<1> HIDE DEF h, n, u
<1>6. /\ g.ret \in {"OK", "ERR"} /\ Owns(g.h)
      /\ g.ret = "OK" => h.slen + n < g.h.mlen
  BY <1>1, <1>2, <1>4, <1>5, BconcatOutcome
<1>7. g.ret = "OK" => Len(u) < g.h.mlen
  BY <1>1, <1>3, <1>6
<1>8. /\ Same(o, r) /\ r.w.ret = g.ret /\ r.out = o.out
      /\ r.w.asked = o.w.asked
      /\ g.ret = "OK" => Alive(r) /\ r.w.held = u
      /\ g.ret = "ERR" => Starved(r, Flow(o))
  BY <1>3, <1>4, <1>6, <1>7, BufferedStep
<1> QED
  BY <1>6, <1>8 DEF u

(* The same with bcatblk, where the length of the text may be INT_MAX; the *)
(* buffer then has more room than it holds.                                *)
LEMMA CatblkStep ==
  ASSUME NEW o, Alive(o), NEW t \in Seq(Nat),
         Len(o.w.held) + Len(t) <= IntMax, NEW r \in Catblk(o, t)
  PROVE  /\ Same(o, r) /\ r.w.ret \in {"OK", "ERR"} /\ r.w.asked = o.w.asked
         /\ r.w.ret = "OK" => /\ Alive(r) /\ r.w.held = o.w.held \o t
                              /\ r.out = o.out
         /\ r.w.ret = "ERR" => Starved(r, Flow(o))
<1> DEFINE h == BuffHeader(o.w)
           n == Len(t)
           u == o.w.held \o t
<1>1. Owns(h) /\ Writable(h) /\ h.slen = Len(o.w.held)
  BY BuffHeaderFacts DEF Alive
<1>2. o.w.held \in Seq(Nat) /\ n \in Nat
  BY OutcomeFields, LenProperties DEF Alive
<1>3. u \in Seq(Nat) /\ Len(u) = Len(o.w.held) + n
  BY <1>2, TextFacts
<1>4. PICK g \in Bcatblk(h, n) : r = Buffered(o, u, g)
  BY DEF Catblk
<1>5. h.slen + n <= IntMax
  BY <1>1
<1> HIDE DEF h, n, u
<1>6. /\ g.ret \in {"OK", "ERR"} /\ Owns(g.h)
      /\ g.ret = "OK" => h.slen + n < g.h.mlen
  BY <1>1, <1>2, <1>4, <1>5, BcatblkOutcome
<1>7. g.ret = "OK" => Len(u) < g.h.mlen
  BY <1>1, <1>3, <1>6
<1>8. /\ Same(o, r) /\ r.w.ret = g.ret /\ r.out = o.out
      /\ r.w.asked = o.w.asked
      /\ g.ret = "OK" => Alive(r) /\ r.w.held = u
      /\ g.ret = "ERR" => Starved(r, Flow(o))
  BY <1>3, <1>4, <1>6, <1>7, BufferedStep
<1> QED
  BY <1>6, <1>8 DEF u

(* A text that the buffer has room for replaces what it holds. *)
LEMMA AssignStep ==
  ASSUME NEW o, Alive(o), NEW t \in Seq(Nat), Len(t) < o.w.mlen,
         NEW r \in Assign(o, t)
  PROVE  /\ Same(o, r) /\ Alive(r) /\ r.w.held = t /\ r.out = o.out
         /\ r.w.asked = o.w.asked
<1> DEFINE h == BuffHeader(o.w)
           n == Len(t)
<1>1. Owns(h) /\ Writable(h) /\ h.mlen = o.w.mlen
  BY BuffHeaderFacts DEF Alive
<1>2. n \in Nat /\ n < h.mlen
  BY <1>1, LenProperties
<1>3. PICK g \in Bassign(h, n) : r = Buffered(o, t, g)
  BY DEF Assign
<1> HIDE DEF h, n
<1>4. g.ret = "OK" /\ Owns(g.h) /\ g.h.mlen = h.mlen
  BY <1>1, <1>2, <1>3, BassignOutcome
<1>5. g.ret = "OK" => Len(t) < g.h.mlen
  BY <1>1, <1>4
<1> QED
  BY <1>3, <1>4, <1>5, BufferedStep

-----------------------------------------------------------------------------
(* The paths of a write. *)

(* What a path of a write leaves: with the text t taken, fewer than        *)
(* minBuffSz characters are held; without it, the flow is as before, or as *)
(* it is with all of it; or the pipe is broken.  No request was short.     *)
Written(o, t, r) ==
  /\ Same(o, r)
  /\ AsksMin(o.w) => AsksMin(r.w)
  /\ \/ Alive(r) /\ Flow(r) = Flow(o) \o t /\ Len(r.w.held) < r.w.min
     \/ Starved(r, Flow(o)) \/ Starved(r, Flow(o) \o t)
     \/ Broken(r, Flow(o) \o t)

(* What is left of a text once the buffer is empty is taken whole, by the  *)
(* sink or by the buffer, which has grown to more than minBuffSz: no step  *)
(* needs memory any more.                                                  *)
LEMMA RestStep ==
  ASSUME NEW o, Alive(o), o.w.held = <<>>, o.w.min < o.w.mlen,
         NEW t \in Seq(Nat), NEW r \in Rest(o, t)
  PROVE  /\ Same(o, r)
         /\ AsksMin(o.w) => AsksMin(r.w)
         /\ \/ Alive(r) /\ Flow(r) = Flow(o) \o t /\ Len(r.w.held) < r.w.min
            \/ Broken(r, Flow(o) \o t)
<1>1. /\ o \in Outcomes /\ o.out \in Seq(Nat) /\ o.w.min \in Int /\ o.w.mlen \in Int
      /\ 1 <= o.w.min /\ Len(t) \in Nat /\ Len(<<>>) = 0
  BY OutcomeFields, LenProperties, EmptySeq DEF Alive, Buffer
<1>2. Flow(o) = o.out
  BY <1>1, TextFacts DEF Flow
<1>3. CASE Len(t) >= o.w.min
  <2>1. /\ Same(o, r) /\ r.w.held = o.w.held /\ r.w.ret \in {"OK", "ERR"}
        /\ r.w.ret = "OK" => ~r.w.isEOF /\ r.out = o.out \o t
        /\ r.w.ret = "ERR" => Broken(r, o.out \o t)
        /\ AsksMin(o.w) => AsksMin(r.w)
    BY <1>3, WriteoutStep DEF Rest
  <2>2. CASE r.w.ret = "OK"
    <3>1. r.out \in Seq(Nat) /\ Flow(r) = r.out
      BY <2>1, OutcomeFields, TextFacts DEF Flow, Same
    <3>2. Len(r.w.held) < r.w.min
      BY <1>1, <2>1 DEF Same
    <3> QED
      BY <1>2, <2>1, <2>2, <3>1, <3>2 DEF Alive, Same
  <2> QED
    BY <1>2, <2>1, <2>2
<1>4. CASE ~(Len(t) >= o.w.min)
  <2>1. Len(t) < o.w.mlen /\ Len(t) < o.w.min /\ r \in Assign(o, t)
    BY <1>1, <1>4 DEF Rest
  <2>2. /\ Same(o, r) /\ Alive(r) /\ r.w.held = t /\ r.out = o.out
        /\ r.w.asked = o.w.asked /\ r.w.min = o.w.min
    BY <2>1, AssignStep DEF Same
  <2>3. AsksMin(o.w) => AsksMin(r.w)
    <3>1. r.w.asked = o.w.asked /\ r.w.min = o.w.min
      BY <2>2
    <3> QED
      BY <3>1, AsksMinSame
  <2>4. Flow(r) = Flow(o) \o t
    BY <1>2, <2>2 DEF Flow
  <2> QED
    BY <2>1, <2>2, <2>3, <2>4
<1> QED
  BY <1>3, <1>4

(* The flow that the sink refused to take whole is part of a longer one. *)
LEMMA BrokenLonger ==
  ASSUME NEW r \in Outcomes, NEW f \in Seq(Nat), NEW t \in Seq(Nat), Broken(r, f)
  PROVE  Broken(r, f \o t)
<1>1. r.out \in Seq(Nat)
  BY OutcomeFields
<1> QED
  BY <1>1, BeginsFacts DEF Broken

(* What was taken by one step and what by the next. *)
LEMMA FlowOfTwo ==
  ASSUME NEW f \in Seq(Nat), NEW u \in Seq(Nat), NEW v \in Seq(Nat)
  PROVE  (f \o u) \o v = f \o (u \o v)
BY TextFacts, Zenon

(* A text that the buffer takes behind what it holds extends the flow.     *)
LEMMA FlowGrows ==
  ASSUME NEW o \in Outcomes, NEW u \in Seq(Nat), NEW x,
         x.out = o.out, x.w.held = o.w.held \o u
  PROVE  Flow(x) = Flow(o) \o u /\ Flow(x) \in Seq(Nat)
<1>1. o.out \in Seq(Nat) /\ o.w.held \in Seq(Nat) /\ Flow(o) \in Seq(Nat)
  BY OutcomeFields
<1>2. (o.out \o o.w.held) \o u = o.out \o (o.w.held \o u)
  BY <1>1, FlowOfTwo
<1>3. Flow(x) = Flow(o) \o u
  BY <1>2 DEF Flow
<1> QED
  BY <1>1, <1>3, ConcatProperties

(* A text is put into a buffer that holds no more than minBuffSz: either   *)
(* all of it and nothing is written, or as much as fills it, and the rest  *)
(* once the buffer has been written.                                       *)
LEMMA FillStep ==
  ASSUME NEW o, Alive(o), Len(o.w.held) <= o.w.min, NEW t \in Seq(Nat),
         NEW r \in Fill(o, t)
  PROVE  /\ Same(o, r)
         /\ AsksMin(o.w) => AsksMin(r.w)
         /\ \/ Alive(r) /\ Flow(r) = Flow(o) \o t /\ Len(r.w.held) < r.w.min
            \/ Starved(r, Flow(o))
            \/ Broken(r, Flow(o) \o t)
<1> DEFINE l == o.w.min - Len(o.w.held)
           n == Len(t)
<1>1. /\ o \in Outcomes /\ o.out \in Seq(Nat) /\ o.w.held \in Seq(Nat)
      /\ Flow(o) \in Seq(Nat) /\ Flow(o) = o.out \o o.w.held
  BY OutcomeFields DEF Alive, Flow
<1>2. /\ o.w.min \in Int /\ 1 <= o.w.min /\ o.w.min <= IntMax /\ IntMax \in Int
      /\ Len(o.w.held) \in Nat /\ n \in Nat /\ l \in Nat
      /\ Len(o.w.held) + l = o.w.min
  <2>1. o.w.min \in Int /\ 1 <= o.w.min /\ o.w.min <= IntMax
    BY OutcomeFields DEF Alive, Buffer
  <2>2. Len(o.w.held) \in Nat /\ n \in Nat
    BY <1>1, LenProperties
  <2> QED
    BY <2>1, <2>2, SizesAssumption
<1>3. CASE n < l
  <2>1. r \in Concat(o, t)
    BY <1>3 DEF Fill
  <2>2. Len(o.w.held) + Len(t) < IntMax /\ Len(o.w.held) + Len(t) < o.w.min
    BY <1>2, <1>3
  <2>3. /\ Same(o, r) /\ r.w.ret \in {"OK", "ERR"} /\ r.w.asked = o.w.asked
        /\ r.w.ret = "OK" => /\ Alive(r) /\ r.w.held = o.w.held \o t
                             /\ r.out = o.out
        /\ r.w.ret = "ERR" => Starved(r, Flow(o))
    BY <2>1, <2>2, ConcatStep
  <2>4. AsksMin(o.w) => AsksMin(r.w)
    <3>1. r.w.asked = o.w.asked /\ r.w.min = o.w.min
      BY <2>3 DEF Same
    <3> QED
      BY <3>1, AsksMinSame
  <2>5. CASE r.w.ret = "OK"
    <3>1. Flow(r) = Flow(o) \o t
      BY <1>1, <2>3, <2>5, FlowGrows
    <3>2. Len(r.w.held) = Len(o.w.held) + Len(t) /\ r.w.min = o.w.min
      <4>1. Len(o.w.held \o t) = Len(o.w.held) + Len(t)
        BY <1>1, ConcatProperties
      <4> QED
        BY <2>3, <2>5, <4>1 DEF Same
    <3>3. Len(r.w.held) < r.w.min
      BY <2>2, <3>2
    <3> QED
      BY <2>3, <2>4, <2>5, <3>1, <3>3
  <2> QED
    BY <2>3, <2>4, <2>5
<1>4. CASE ~(n < l)
  <2> DEFINE u == First(t, l)
             v == After(t, l)
  <2>1. u \in Seq(Nat) /\ v \in Seq(Nat) /\ u \o v = t /\ Len(u) = l
    <3>1. l \in 0..Len(t)
      BY <1>2, <1>4
    <3> HIDE DEF l
    <3> QED
      BY <3>1, CutFacts DEF First, After
  <2>2. PICK x \in Catblk(o, u) :
          IF x.w.ret = "OK"
          THEN \E y \in Empty(x) : IF y.w.ret = "OK" THEN r \in Rest(y, v) ELSE r = y
          ELSE r = x
    BY <1>4 DEF Fill, Then
  <2> HIDE DEF u, v, l, n
  <2>3. Len(o.w.held) + Len(u) <= IntMax /\ Len(o.w.held) + Len(u) = o.w.min
    BY <1>2, <2>1
  <2>4. /\ Same(o, x) /\ x.w.ret \in {"OK", "ERR"} /\ x.w.asked = o.w.asked
        /\ x.w.ret = "OK" => /\ Alive(x) /\ x.w.held = o.w.held \o u
                             /\ x.out = o.out
        /\ x.w.ret = "ERR" => Starved(x, Flow(o))
    BY <2>1, <2>2, <2>3, CatblkStep
  <2>5. AsksMin(o.w) => AsksMin(x.w)
    <3>1. x.w.asked = o.w.asked /\ x.w.min = o.w.min
      BY <2>4 DEF Same
    <3> QED
      BY <3>1, AsksMinSame
  <2>6. CASE x.w.ret = "ERR"
    BY <2>2, <2>4, <2>5, <2>6
  <2>7. CASE x.w.ret = "OK"
    <3>1. PICK y \in Empty(x) : IF y.w.ret = "OK" THEN r \in Rest(y, v) ELSE r = y
      BY <2>2, <2>7
    <3>2. Flow(x) = Flow(o) \o u /\ Flow(x) \in Seq(Nat)
      <4>1. x.out = o.out /\ x.w.held = o.w.held \o u
        BY <2>4, <2>7
      <4> QED
        BY <1>1, <2>1, <4>1, FlowGrows
    <3>3. Flow(x) \o v = Flow(o) \o t
      <4>1. Flow(o) \in Seq(Nat) /\ u \in Seq(Nat) /\ v \in Seq(Nat)
        BY <1>1, <2>1
      <4>2. (Flow(o) \o u) \o v = Flow(o) \o (u \o v)
        BY <4>1, FlowOfTwo
      <4> QED
        BY <2>1, <3>2, <4>2
    <3>4. Len(x.w.held) = o.w.min /\ x.w.min = o.w.min /\ x.w.min < x.w.mlen
      <4>1. Len(x.w.held) = o.w.min /\ x.w.min = o.w.min
        <5>1. Len(o.w.held \o u) = Len(o.w.held) + Len(u)
          BY <1>1, <2>1, ConcatProperties
        <5>2. x.w.held = o.w.held \o u /\ x.w.min = o.w.min
          BY <2>4, <2>7 DEF Same
        <5> QED
          BY <2>3, <5>1, <5>2
      <4>2. Len(x.w.held) < x.w.mlen
        BY <2>4, <2>7 DEF Alive, Buffer
      <4> QED
        BY <4>1, <4>2
    <3>5. /\ Same(x, y) /\ y.w.ret \in {"OK", "ERR"}
          /\ y.w.ret = "OK" => /\ Alive(y) /\ y.w.held = <<>> /\ y.out = Flow(x)
                               /\ y.w.mlen = x.w.mlen
          /\ y.w.ret = "ERR" => Broken(y, Flow(x))
          /\ AsksMin(x.w) => AsksMin(y.w)
      <4>1. Len(x.w.held) >= x.w.min
        BY <1>2, <3>4
      <4> QED
        BY <2>4, <2>7, <3>1, <4>1, EmptyStep
    <3>6. CASE y.w.ret = "ERR"
      <4>1. r = y /\ Broken(r, Flow(x)) /\ r \in Outcomes
        BY <3>1, <3>5, <3>6 DEF Same
      <4>2. Broken(r, Flow(o) \o t)
        BY <2>1, <3>2, <3>3, <4>1, BrokenLonger
      <4> QED
        BY <2>4, <2>5, <3>5, <4>1, <4>2 DEF Same
    <3>7. CASE y.w.ret = "OK"
      <4>1. Alive(y) /\ y.w.held = <<>> /\ r \in Rest(y, v)
        BY <3>1, <3>5, <3>7
      <4>2. y.w.min < y.w.mlen
        BY <3>4, <3>5, <3>7 DEF Same
      <4>3. Flow(y) = Flow(x)
        BY <3>2, <3>5, <3>7, TextFacts DEF Flow
      <4>4. /\ Same(y, r)
            /\ AsksMin(y.w) => AsksMin(r.w)
            /\ \/ Alive(r) /\ Flow(r) = Flow(y) \o v /\ Len(r.w.held) < r.w.min
               \/ Broken(r, Flow(y) \o v)
        BY <2>1, <4>1, <4>2, RestStep
      <4> QED
        BY <2>4, <2>5, <3>3, <3>5, <4>3, <4>4 DEF Same
    <3> QED
      BY <3>5, <3>6, <3>7
  <2> QED
    BY <2>4, <2>6, <2>7
<1> QED
  BY <1>3, <1>4

(* The same where the size of the buffer may have been made smaller than   *)
(* what it holds, which is then written first.                             *)
LEMMA UnpackedStep ==
  ASSUME NEW o, Alive(o), NEW t \in Seq(Nat), NEW r \in Unpacked(o, t)
  PROVE  /\ Same(o, r)
         /\ AsksMin(o.w) => AsksMin(r.w)
         /\ \/ Alive(r) /\ Flow(r) = Flow(o) \o t /\ Len(r.w.held) < r.w.min
            \/ Starved(r, Flow(o))
            \/ Broken(r, Flow(o) \o t)
<1>1. /\ o.w.min \in Int /\ 1 <= o.w.min /\ Len(o.w.held) \in Nat
      /\ Flow(o) \in Seq(Nat)
  BY OutcomeFields, LenProperties DEF Alive, Buffer
<1>2. CASE ~(Len(o.w.held) > o.w.min)
  <2>1. Len(o.w.held) <= o.w.min /\ r \in Fill(o, t)
    BY <1>1, <1>2 DEF Unpacked
  <2> QED
    BY <2>1, FillStep
<1>3. CASE Len(o.w.held) > o.w.min
  <2>1. PICK y \in Empty(o) : IF y.w.ret = "OK" THEN r \in Fill(y, t) ELSE r = y
    BY <1>3 DEF Unpacked, Then
  <2>2. /\ Same(o, y) /\ y.w.ret \in {"OK", "ERR"}
        /\ y.w.ret = "OK" => /\ Alive(y) /\ y.w.held = <<>> /\ y.out = Flow(o)
        /\ y.w.ret = "ERR" => Broken(y, Flow(o))
        /\ AsksMin(o.w) => AsksMin(y.w)
    <3>1. Len(o.w.held) >= o.w.min
      BY <1>1, <1>3
    <3> QED
      BY <2>1, <3>1, EmptyStep
  <2>3. CASE y.w.ret = "ERR"
    <3>1. r = y /\ Broken(r, Flow(o)) /\ r \in Outcomes
      BY <2>1, <2>2, <2>3 DEF Same
    <3>2. Broken(r, Flow(o) \o t)
      BY <1>1, <3>1, BrokenLonger
    <3> QED
      BY <2>2, <3>1, <3>2
  <2>4. CASE y.w.ret = "OK"
    <3>1. Alive(y) /\ y.w.held = <<>> /\ r \in Fill(y, t)
      BY <2>1, <2>2, <2>4
    <3>2. Flow(y) = Flow(o)
      BY <1>1, <2>2, <2>4, TextFacts DEF Flow
    <3>3. Len(y.w.held) <= y.w.min
      BY <1>1, <2>2, <3>1, EmptySeq DEF Same
    <3>4. /\ Same(y, r)
          /\ AsksMin(y.w) => AsksMin(r.w)
          /\ \/ Alive(r) /\ Flow(r) = Flow(o) \o t /\ Len(r.w.held) < r.w.min
             \/ Starved(r, Flow(o))
             \/ Broken(r, Flow(o) \o t)
      BY <3>1, <3>2, <3>3, FillStep
    <3>5. Same(o, r)
      BY <2>2, <3>4 DEF Same
    <3>6. AsksMin(o.w) => AsksMin(r.w)
      BY <2>2, <3>4
    <3> QED
      BY <3>4, <3>5, <3>6
  <2> QED
    BY <2>2, <2>3, <2>4
<1> QED
  BY <1>2, <1>3

(* A write takes its text, or is refused the memory for it before it took  *)
(* any or after it took all, or the sink refuses.                          *)
LEMMA WriteStep ==
  ASSUME NEW o, Alive(o), NEW t \in Seq(Nat), NEW r \in Write(o, t)
  PROVE  Written(o, t, r)
<1>1. /\ o \in Outcomes /\ o.w.held \in Seq(Nat) /\ o.w.mlen \in Int
      /\ o.w.mlen <= MemMax /\ Len(o.w.held) \in Nat /\ Len(t) \in Nat
      /\ MemMax \in Nat /\ IntMax \in Nat /\ MemMax <= IntMax
      /\ Flow(o) \in Seq(Nat)
  BY OutcomeFields, LenProperties, SizesAssumption DEF Alive, Buffer
<1>2. CASE r \in Unpacked(o, t)
  BY <1>2, UnpackedStep DEF Written
<1>3. CASE /\ o.w.mlen - Len(o.w.held) > Len(t)
           /\ r \in Then(Concat(o, t), LAMBDA x : Unpacked(x, <<>>))
  <2>1. Len(o.w.held) + Len(t) < IntMax
    BY <1>1, <1>3
  <2>2. PICK x \in Concat(o, t) :
          IF x.w.ret = "OK" THEN r \in Unpacked(x, <<>>) ELSE r = x
    BY <1>3 DEF Then
  <2>3. /\ Same(o, x) /\ x.w.ret \in {"OK", "ERR"} /\ x.w.asked = o.w.asked
        /\ x.w.ret = "OK" => /\ Alive(x) /\ x.w.held = o.w.held \o t
                             /\ x.out = o.out
        /\ x.w.ret = "ERR" => Starved(x, Flow(o))
    BY <2>1, <2>2, ConcatStep
  <2>4. AsksMin(o.w) => AsksMin(x.w)
    <3>1. x.w.asked = o.w.asked /\ x.w.min = o.w.min
      BY <2>3 DEF Same
    <3> QED
      BY <3>1, AsksMinSame
  <2>5. CASE x.w.ret = "ERR"
    BY <2>2, <2>3, <2>4, <2>5 DEF Written
  <2>6. CASE x.w.ret = "OK"
    <3>1. Flow(x) = Flow(o) \o t /\ Flow(x) \in Seq(Nat)
      <4>1. x.out = o.out /\ x.w.held = o.w.held \o t
        BY <2>3, <2>6
      <4> QED
        BY <1>1, <4>1, FlowGrows
    <3>2. <<>> \in Seq(Nat) /\ Flow(x) \o <<>> = Flow(x)
      BY <3>1, TextFacts
    <3>3. r \in Unpacked(x, <<>>) /\ Alive(x)
      BY <2>2, <2>3, <2>6
    <3>4. /\ Same(x, r)
          /\ AsksMin(x.w) => AsksMin(r.w)
          /\ \/ Alive(r) /\ Flow(r) = Flow(x) \o <<>> /\ Len(r.w.held) < r.w.min
             \/ Starved(r, Flow(x))
             \/ Broken(r, Flow(x) \o <<>>)
      BY <3>2, <3>3, UnpackedStep
    <3>5. Same(o, r)
      BY <2>3, <3>4 DEF Same
    <3>6. AsksMin(o.w) => AsksMin(r.w)
      BY <2>4, <3>4
    <3>7. \/ Alive(r) /\ Flow(r) = Flow(o) \o t /\ Len(r.w.held) < r.w.min
          \/ Starved(r, Flow(o) \o t)
          \/ Broken(r, Flow(o) \o t)
      BY <3>1, <3>2, <3>4
    <3> QED
      BY <3>5, <3>6, <3>7 DEF Written
  <2> QED
    BY <2>3, <2>5, <2>6
<1> QED
  BY <1>2, <1>3 DEF Write

-----------------------------------------------------------------------------
(* The operations. *)

(* The inductive invariant.  That a write leaves little and asks for much  *)
(* holds of the stream because of what its buffer is: the terminator of    *)
(* what it holds has room, so that none of its sizes overflows and a text  *)
(* shorter than the buffer can be assigned without memory.                 *)
IInv ==
  /\ ws \in Stream /\ sunk \in Seq(Nat) /\ given \in Seq(Nat)
  /\ ws.open => Buffer(ws) /\ ws.fn # "none"
  /\ ~ws.open => /\ ws.held = <<>> /\ ws.mlen = -1 /\ ws.min = -1
                 /\ ws.ret = "OK" /\ ws.fn # "write"
  /\ ws.fn = "none" => ~ws.isEOF
  /\ HeldUnderMinimum /\ RequestsAreFull

(* The stream as a write starts with it. *)
Started == [Begun EXCEPT !.w.fn = "write"]

(* The stream with the size of its buffer set. *)
Sized(o, n) == [o EXCEPT !.w.min = n]

(* A call starts with what the stream is, and nothing given to the sink. *)
LEMMA BegunFields ==
  ASSUME ws \in Stream
  PROVE  LET b == Begun
         IN  /\ b \in Outcomes /\ b.out = <<>>
             /\ b.w.held = ws.held /\ b.w.mlen = ws.mlen /\ b.w.open = ws.open
             /\ b.w.isEOF = ws.isEOF /\ b.w.min = ws.min /\ b.w.ret = "OK"
             /\ b.w.asked = <<>> /\ b.w.fn = "other"
<1> DEFINE x == [ws EXCEPT !.ret = "OK", !.asked = <<>>, !.fn = "other"]
<1>1. <<>> \in Seq(Nat)
  BY EmptySeq
<1>2. Begun = [w |-> x, out |-> <<>>]
  BY DEF Begun, Outcome
<1>3. /\ x \in Stream
      /\ x.held = ws.held /\ x.mlen = ws.mlen /\ x.open = ws.open
      /\ x.isEOF = ws.isEOF /\ x.min = ws.min /\ x.ret = "OK"
      /\ x.asked = <<>> /\ x.fn = "other"
  BY <1>1 DEF Stream
<1> HIDE DEF x
<1>4. Begun \in Outcomes /\ Begun.w = x /\ Begun.out = <<>>
  BY <1>1, <1>2, <1>3 DEF Outcomes
<1> QED
  BY <1>3, <1>4

(* A write starts with the same. *)
LEMMA StartedFields ==
  ASSUME ws \in Stream
  PROVE  LET b == Started
         IN  /\ b \in Outcomes /\ b.out = <<>>
             /\ b.w.held = ws.held /\ b.w.mlen = ws.mlen /\ b.w.open = ws.open
             /\ b.w.isEOF = ws.isEOF /\ b.w.min = ws.min /\ b.w.ret = "OK"
             /\ b.w.asked = <<>> /\ b.w.fn = "write"
<1> DEFINE x == [Begun.w EXCEPT !.fn = "write"]
<1>1. /\ Begun \in Outcomes /\ Begun.out = <<>> /\ Begun.w \in Stream
      /\ Begun.w.held = ws.held /\ Begun.w.mlen = ws.mlen /\ Begun.w.open = ws.open
      /\ Begun.w.isEOF = ws.isEOF /\ Begun.w.min = ws.min /\ Begun.w.ret = "OK"
      /\ Begun.w.asked = <<>>
  BY BegunFields, OutcomeFields
<1>2. Started = [Begun EXCEPT !.w = x]
  BY DEF Started
<1>3. /\ x \in Stream
      /\ x.held = ws.held /\ x.mlen = ws.mlen /\ x.open = ws.open
      /\ x.isEOF = ws.isEOF /\ x.min = ws.min /\ x.ret = "OK"
      /\ x.asked = <<>> /\ x.fn = "write"
  BY <1>1 DEF Stream
<1> HIDE DEF x
<1>4. Started \in Outcomes /\ Started.w = x /\ Started.out = <<>>
  BY <1>1, <1>2, <1>3 DEF Outcomes
<1> QED
  BY <1>3, <1>4

(* The size of the buffer is all that bwsBuffLength sets. *)
LEMMA SizedFields ==
  ASSUME NEW o \in Outcomes, NEW n \in Int
  PROVE  LET r == Sized(o, n)
         IN  /\ r \in Outcomes /\ r.out = o.out
             /\ r.w.held = o.w.held /\ r.w.mlen = o.w.mlen /\ r.w.open = o.w.open
             /\ r.w.isEOF = o.w.isEOF /\ r.w.min = n /\ r.w.ret = o.w.ret
             /\ r.w.asked = o.w.asked /\ r.w.fn = o.w.fn
<1> DEFINE x == [o.w EXCEPT !.min = n]
<1>1. o.w \in Stream /\ o.out \in Seq(Nat)
  BY OutcomeFields
<1>2. Sized(o, n) = [o EXCEPT !.w = x]
  BY DEF Sized
<1>3. /\ x \in Stream
      /\ x.held = o.w.held /\ x.mlen = o.w.mlen /\ x.open = o.w.open
      /\ x.isEOF = o.w.isEOF /\ x.min = n /\ x.ret = o.w.ret
      /\ x.asked = o.w.asked /\ x.fn = o.w.fn
  BY <1>1 DEF Stream
<1> HIDE DEF x
<1>4. Sized(o, n) \in Outcomes /\ Sized(o, n).w = x /\ Sized(o, n).out = o.out
  BY <1>2, <1>3 DEF Outcomes
<1> QED
  BY <1>3, <1>4

(* What a call on an open stream does that is given the text t.  On a      *)
(* stream whose sink has refused it does nothing.                          *)
Call(t, r) ==
  /\ given' = given \o t /\ sunk' = sunk \o r.out /\ ws' = r.w
  /\ r \in Outcomes /\ Buffer(r.w) /\ r.w.fn \in {"other", "write"}
  /\ r.w.fn = "write" => AsksMin(r.w)
  /\ \/ /\ ~ws.isEOF /\ Alive(r) /\ Flow(r) = ws.held \o t
        /\ r.w.fn = "write" => Len(r.w.held) < r.w.min
     \/ /\ ~ws.isEOF /\ r.w.ret = "ERR" /\ ~r.w.isEOF
        /\ Flow(r) \in {ws.held, ws.held \o t}
     \/ ~ws.isEOF /\ Broken(r, ws.held \o t)
     \/ /\ ws.isEOF /\ r.w.isEOF /\ r.out = <<>>
        /\ r.w.fn = "write" \/ t # <<>> => r.w.ret = "ERR"

(* No request was made. *)
LEMMA AsksNone ==
  ASSUME NEW w, w.asked = <<>>
  PROVE  AsksMin(w)
BY EmptySeq, LenProperties DEF AsksMin

(* The text of a write is a sequence of numbers. *)
LEMMA TextIsSeq ==
  ASSUME given \in Seq(Nat), NEW n \in Nat
  PROVE  Text(n) \in Seq(Nat) /\ Len(Text(n)) = n
<1>1. Len(given) \in Nat
  BY LenProperties
<1>2. \A i \in 1..n : Len(given) + i \in Nat
  BY <1>1
<1>3. Text(n) \in [1..n -> Nat]
  BY <1>2 DEF Text
<1> QED
  BY <1>3, SeqDef, LenProperties

(* A call that begins as b does nothing on a stream whose sink refused.    *)
LEMMA CallOfBroken ==
  ASSUME IInv, ws.open, ws.isEOF, NEW t \in Seq(Nat), given' = given \o t,
         NEW r \in Outcomes, r.out = <<>>, r.w.held = ws.held, r.w.mlen = ws.mlen,
         r.w.open = ws.open, r.w.isEOF = ws.isEOF, r.w.asked = <<>>,
         1 <= r.w.min, r.w.min <= IntMax,
         \/ r.w.fn = "other" /\ t = <<>>
         \/ r.w.fn = "write" /\ r.w.ret = "ERR",
         Ends(r)
  PROVE  Call(t, r)
<1>1. r.w \in Stream
  BY OutcomeFields
<1>2. Buffer(r.w)
  BY <1>1 DEF IInv, Buffer
<1>3. AsksMin(r.w)
  BY AsksNone
<1>4. sunk' = sunk \o r.out /\ ws' = r.w
  BY DEF Ends
<1>5. r.w.fn \in {"other", "write"}
  OBVIOUS
<1>6. r.w.fn = "write" \/ t # <<>> => r.w.ret = "ERR"
  OBVIOUS
<1> QED
  BY <1>2, <1>3, <1>4, <1>5, <1>6 DEF Call

(* A write is a call. *)
LEMMA WriteCall ==
  ASSUME IInv, BwsWriteBstr
  PROVE  \E t \in Seq(Nat) : \E r : Call(t, r)
<1>1. PICK b : b = Started
  OBVIOUS
<1>2. PICK n \in Nat :
        /\ given' = given \o Text(n)
        /\ \E o \in IF ws.isEOF THEN {Err(b)} ELSE Write(b, Text(n)) : Ends(o)
  BY <1>1, BwsAssumption DEF BwsWriteBstr, Started
<1>3. PICK t \in Seq(Nat) :
        /\ given' = given \o t
        /\ \E o \in IF ws.isEOF THEN {Err(b)} ELSE Write(b, t) : Ends(o)
  BY <1>2, TextIsSeq DEF IInv
<1>4. PICK r \in IF ws.isEOF THEN {Err(b)} ELSE Write(b, t) : Ends(r)
  BY <1>3
<1>5. /\ b \in Outcomes /\ b.out = <<>>
      /\ b.w.held = ws.held /\ b.w.mlen = ws.mlen /\ b.w.open = ws.open
      /\ b.w.isEOF = ws.isEOF /\ b.w.min = ws.min /\ b.w.ret = "OK"
      /\ b.w.asked = <<>> /\ b.w.fn = "write" /\ b.w \in Stream
  <2>1. ws \in Stream
    BY DEF IInv
  <2>2. /\ b \in Outcomes /\ b.out = <<>>
        /\ b.w.held = ws.held /\ b.w.mlen = ws.mlen /\ b.w.open = ws.open
        /\ b.w.isEOF = ws.isEOF /\ b.w.min = ws.min /\ b.w.ret = "OK"
        /\ b.w.asked = <<>> /\ b.w.fn = "write"
    BY <1>1, <2>1, StartedFields
  <2> QED
    BY <2>2, OutcomeFields
<1>6. ws.open /\ Buffer(ws) /\ ws.isEOF \in BOOLEAN /\ ws.held \in Seq(Nat)
  BY DEF BwsWriteBstr, IInv, Stream
<1>7. CASE ws.isEOF
  <2>1. r = Err(b)
    BY <1>4, <1>7
  <2>2. /\ r \in Outcomes /\ r.out = b.out
        /\ r.w.held = b.w.held /\ r.w.mlen = b.w.mlen /\ r.w.open = b.w.open
        /\ r.w.isEOF = b.w.isEOF /\ r.w.min = b.w.min /\ r.w.ret = "ERR"
        /\ r.w.asked = b.w.asked /\ r.w.fn = b.w.fn
    BY <1>5, <2>1, ErrFields
  <2>3. 1 <= r.w.min /\ r.w.min <= IntMax
    BY <1>5, <1>6, <2>2 DEF Buffer
  <2>4. Call(t, r)
    BY <1>3, <1>4, <1>5, <1>6, <1>7, <2>2, <2>3, CallOfBroken
  <2> QED
    BY <2>4
<1>8. CASE ~ws.isEOF
  <2>1. Alive(b) /\ AsksMin(b.w)
    BY <1>5, <1>6, <1>8, AsksNone DEF Alive, Buffer
  <2>2. Written(b, t, r)
    BY <1>4, <1>8, <2>1, WriteStep
  <2>3. Flow(b) = ws.held
    BY <1>5, <1>6, TextFacts DEF Flow
  <2>4. sunk' = sunk \o r.out /\ ws' = r.w
    BY <1>4 DEF Ends
  <2>5. Call(t, r)
    BY <1>3, <1>5, <1>8, <2>1, <2>2, <2>3, <2>4 DEF Call, Written, Same, Starved
  <2> QED
    BY <2>5
<1> QED
  BY <1>6, <1>7, <1>8

(* A flush is a call that is given nothing. *)
LEMMA FlushCall ==
  ASSUME IInv, BwsWriteFlush
  PROVE  \E t \in Seq(Nat) : \E r : Call(t, r)
<1>1. PICK b : b = Begun
  OBVIOUS
<1>2. PICK r \in IF ws.isEOF THEN {Err(b)} ELSE Empty(b) : Ends(r)
  BY <1>1 DEF BwsWriteFlush
<1>3. /\ b \in Outcomes /\ b.out = <<>>
      /\ b.w.held = ws.held /\ b.w.mlen = ws.mlen /\ b.w.open = ws.open
      /\ b.w.isEOF = ws.isEOF /\ b.w.min = ws.min /\ b.w.ret = "OK"
      /\ b.w.asked = <<>> /\ b.w.fn = "other"
  BY <1>1, BegunFields DEF IInv
<1>4. ws.open /\ Buffer(ws) /\ ws.isEOF \in BOOLEAN /\ ws.held \in Seq(Nat)
  BY DEF BwsWriteFlush, IInv, Stream
<1>5. <<>> \in Seq(Nat) /\ ws.held \o <<>> = ws.held /\ given' = given \o <<>>
  BY <1>4, TextFacts DEF IInv, BwsWriteFlush
<1>6. CASE ws.isEOF
  <2>1. r = Err(b)
    BY <1>2, <1>6
  <2>2. /\ r \in Outcomes /\ r.out = b.out
        /\ r.w.held = b.w.held /\ r.w.mlen = b.w.mlen /\ r.w.open = b.w.open
        /\ r.w.isEOF = b.w.isEOF /\ r.w.min = b.w.min /\ r.w.ret = "ERR"
        /\ r.w.asked = b.w.asked /\ r.w.fn = b.w.fn
    BY <1>3, <2>1, ErrFields
  <2>3. 1 <= r.w.min /\ r.w.min <= IntMax
    BY <1>3, <1>4, <2>2 DEF Buffer
  <2>4. Call(<<>>, r)
    BY <1>2, <1>3, <1>4, <1>5, <1>6, <2>2, <2>3, CallOfBroken
  <2> QED
    BY <1>5, <2>4
<1>7. CASE ~ws.isEOF
  <2>1. Alive(b)
    BY <1>3, <1>4, <1>7, OutcomeFields DEF Alive, Buffer
  <2>2. /\ Same(b, r) /\ r.w.ret \in {"OK", "ERR"}
        /\ r.w.ret = "OK" => Alive(r) /\ r.w.held = <<>> /\ r.out = Flow(b)
        /\ r.w.ret = "ERR" => Broken(r, Flow(b))
    BY <1>2, <1>7, <2>1, EmptyStep
  <2>3. Flow(b) = ws.held
    BY <1>3, <1>4, TextFacts DEF Flow
  <2>4. r.w.ret = "OK" => Flow(r) = ws.held \o <<>>
    BY <1>5, <2>2, <2>3 DEF Flow
  <2>5. sunk' = sunk \o r.out /\ ws' = r.w
    BY <1>2 DEF Ends
  <2>6. r.w.fn = "other"
    BY <1>3, <2>2 DEF Same
  <2>7. Call(<<>>, r)
    BY <1>5, <1>7, <2>2, <2>3, <2>4, <2>5, <2>6 DEF Call, Same
  <2> QED
    BY <1>5, <2>7
<1> QED
  BY <1>4, <1>6, <1>7

(* Setting the size of the buffer is a call that is given nothing and asks *)
(* nothing of the sink.                                                    *)
LEMMA LengthCall ==
  ASSUME IInv, BwsBuffLength
  PROVE  \E t \in Seq(Nat) : \E r : Call(t, r)
<1>1. PICK b : b = Begun
  OBVIOUS
<1>2. PICK sz \in Sizes :
        ws' = IF sz < 0 THEN Err(b).w
              ELSE [b.w EXCEPT !.min = IF sz > 0 THEN sz ELSE @]
  BY <1>1 DEF BwsBuffLength
<1>3. /\ b \in Outcomes /\ b.out = <<>>
      /\ b.w.held = ws.held /\ b.w.mlen = ws.mlen /\ b.w.open = ws.open
      /\ b.w.isEOF = ws.isEOF /\ b.w.min = ws.min /\ b.w.ret = "OK"
      /\ b.w.asked = <<>> /\ b.w.fn = "other"
  BY <1>1, BegunFields DEF IInv
<1>4. ws.open /\ Buffer(ws) /\ ws.isEOF \in BOOLEAN /\ ws.held \in Seq(Nat)
      /\ ws.min \in Int
  BY DEF BwsBuffLength, IInv, Stream
<1>5. /\ <<>> \in Seq(Nat) /\ ws.held \o <<>> = ws.held
      /\ given' = given \o <<>> /\ sunk' = sunk \o <<>>
  BY <1>4, TextFacts DEF IInv, BwsBuffLength
<1>6. sz \in Int /\ sz <= IntMax
  BY BwsAssumption, SizesAssumption DEF IntMin
<1>7. PICK m \in Int : m = IF sz > 0 THEN sz ELSE b.w.min
  BY <1>3, <1>4, <1>6
<1>8. PICK r : ws' = r.w /\ (r = Err(b) \/ (r = Sized(b, m) /\ 1 <= m /\ m <= IntMax))
  <2>1. CASE sz < 0
    BY <1>2, <2>1
  <2>2. CASE ~(sz < 0)
    <3>1. ws' = [b.w EXCEPT !.min = m]
      BY <1>2, <1>7, <2>2
    <3>2. ws' = Sized(b, m).w
      BY <1>3, <3>1 DEF Sized, Outcomes
    <3>3. 1 <= m /\ m <= IntMax
      BY <1>3, <1>4, <1>6, <1>7 DEF Buffer
    <3> QED
      BY <3>2, <3>3
  <2> QED
    BY <2>1, <2>2
<1>9. /\ r \in Outcomes /\ r.out = <<>>
      /\ r.w.held = ws.held /\ r.w.mlen = ws.mlen /\ r.w.open = ws.open
      /\ r.w.isEOF = ws.isEOF /\ 1 <= r.w.min /\ r.w.min <= IntMax
      /\ r.w.asked = <<>> /\ r.w.fn = "other"
  <2>1. CASE r = Err(b)
    <3>1. /\ r \in Outcomes /\ r.out = b.out
          /\ r.w.held = b.w.held /\ r.w.mlen = b.w.mlen /\ r.w.open = b.w.open
          /\ r.w.isEOF = b.w.isEOF /\ r.w.min = b.w.min
          /\ r.w.asked = b.w.asked /\ r.w.fn = b.w.fn
      BY <1>3, <2>1, ErrFields
    <3> QED
      BY <1>3, <1>4, <3>1 DEF Buffer
  <2>2. CASE r = Sized(b, m) /\ 1 <= m /\ m <= IntMax
    <3>1. /\ r \in Outcomes /\ r.out = b.out
          /\ r.w.held = b.w.held /\ r.w.mlen = b.w.mlen /\ r.w.open = b.w.open
          /\ r.w.isEOF = b.w.isEOF /\ r.w.min = m
          /\ r.w.asked = b.w.asked /\ r.w.fn = b.w.fn
      BY <1>3, <2>2, SizedFields
    <3> QED
      BY <1>3, <2>2, <3>1
  <2> QED
    BY <1>8, <2>1, <2>2
<1>10. Ends(r)
  BY <1>5, <1>8, <1>9 DEF Ends
<1>11. CASE ws.isEOF
  <2>1. Call(<<>>, r)
    BY <1>4, <1>5, <1>9, <1>10, <1>11, CallOfBroken
  <2> QED
    BY <1>5, <2>1
<1>12. CASE ~ws.isEOF
  <2>1. Buffer(r.w) /\ AsksMin(r.w)
    BY <1>4, <1>9, OutcomeFields, AsksNone DEF Buffer
  <2>2. Flow(r) = ws.held \o <<>>
    BY <1>4, <1>5, <1>9, TextFacts DEF Flow
  <2>3. r.w.ret \in {"OK", "ERR"}
    BY <1>9, OutcomeFields
  <2>4. Call(<<>>, r)
    BY <1>5, <1>8, <1>9, <1>12, <2>1, <2>2, <2>3 DEF Call, Alive
  <2> QED
    BY <1>5, <2>4
<1> QED
  BY <1>4, <1>11, <1>12

(* What bwsClose leaves, with what the last flush of the stream left. *)
ClosedBy(e, a) == [Closed EXCEPT !.isEOF = e, !.asked = a, !.fn = "other"]

(* A closed stream holds nothing. *)
LEMMA ClosedFields ==
  ASSUME NEW e \in BOOLEAN, NEW a \in Seq(Nat)
  PROVE  LET w == ClosedBy(e, a)
         IN  /\ w \in Stream /\ w.open = FALSE /\ w.held = <<>> /\ w.mlen = -1
             /\ w.isEOF = e /\ w.min = -1 /\ w.ret = "OK" /\ w.fn = "other"
<1> DEFINE c == Closed
<1>1. c \in Stream
  BY EmptySeq DEF Closed, Stream
<1>2. c.open = FALSE /\ c.held = <<>> /\ c.mlen = -1 /\ c.min = -1 /\ c.ret = "OK"
  BY DEF Closed
<1>3. ClosedBy(e, a) = [c EXCEPT !.isEOF = e, !.asked = a, !.fn = "other"]
  BY DEF ClosedBy
<1> HIDE DEF c
<1> QED
  BY <1>1, <1>2, <1>3 DEF Stream

(* What bwsClose does: what was held goes to the sink, if it takes it.     *)
LEMMA CloseFacts ==
  ASSUME IInv, BwsClose
  PROVE  \E out \in Seq(Nat) :
           /\ sunk' = sunk \o out /\ given' = given
           /\ ws' \in Stream /\ ~ws'.open /\ ws'.held = <<>> /\ ws'.mlen = -1
           /\ ws'.min = -1 /\ ws'.ret = "OK" /\ ws'.fn = "other"
           /\ \/ ~ws.isEOF /\ ~ws'.isEOF /\ out = ws.held
              \/ ~ws.isEOF /\ ws'.isEOF /\ Begins(out, ws.held)
              \/ ws.isEOF /\ ws'.isEOF /\ out = <<>>
<1>1. PICK b : b = Begun
  OBVIOUS
<1>2. PICK r \in IF ws.isEOF THEN {b} ELSE Empty(b) :
        /\ sunk' = sunk \o r.out
        /\ ws' = [Closed EXCEPT !.isEOF = r.w.isEOF, !.asked = r.w.asked,
                                !.fn = "other"]
  BY <1>1 DEF BwsClose
<1>3. /\ b \in Outcomes /\ b.out = <<>>
      /\ b.w.held = ws.held /\ b.w.mlen = ws.mlen /\ b.w.open = ws.open
      /\ b.w.isEOF = ws.isEOF /\ b.w.min = ws.min /\ b.w.ret = "OK"
      /\ b.w.asked = <<>> /\ b.w.fn = "other"
  BY <1>1, BegunFields DEF IInv
<1>4. ws.open /\ Buffer(ws) /\ ws.isEOF \in BOOLEAN /\ ws.held \in Seq(Nat)
  BY DEF BwsClose, IInv, Stream
<1>5. given' = given
  BY DEF BwsClose
<1>6. r \in Outcomes =>
        /\ r.out \in Seq(Nat)
        /\ ws' \in Stream /\ ~ws'.open /\ ws'.held = <<>> /\ ws'.mlen = -1
        /\ ws'.min = -1 /\ ws'.ret = "OK" /\ ws'.fn = "other"
        /\ ws'.isEOF = r.w.isEOF
  <2>1. r \in Outcomes => r.out \in Seq(Nat) /\ r.w.isEOF \in BOOLEAN
                          /\ r.w.asked \in Seq(Nat)
    BY OutcomeFields
  <2>2. ws' = ClosedBy(r.w.isEOF, r.w.asked)
    BY <1>2 DEF ClosedBy
  <2> QED
    BY <2>1, <2>2, ClosedFields
<1>7. CASE ws.isEOF
  BY <1>2, <1>3, <1>5, <1>6, <1>7
<1>8. CASE ~ws.isEOF
  <2>1. Alive(b)
    BY <1>3, <1>4, <1>8, OutcomeFields DEF Alive, Buffer
  <2>2. /\ Same(b, r) /\ r.w.ret \in {"OK", "ERR"}
        /\ r.w.ret = "OK" => Alive(r) /\ r.w.held = <<>> /\ r.out = Flow(b)
        /\ r.w.ret = "ERR" => Broken(r, Flow(b))
    BY <1>2, <1>8, <2>1, EmptyStep
  <2>3. Flow(b) = ws.held
    BY <1>3, <1>4, TextFacts DEF Flow
  <2> QED
    BY <1>2, <1>5, <1>6, <1>8, <2>2, <2>3 DEF Same, Alive, Broken
<1> QED
  BY <1>4, <1>7, <1>8

(* What bwsOpen does: there is an empty stream, or there is none as before. *)
LEMMA OpenFacts ==
  ASSUME IInv, BwsOpen
  PROVE  /\ sunk' = sunk /\ given' = given /\ ~ws.open /\ ~ws.isEOF
         /\ ws' \in Stream /\ ws'.held = <<>> /\ ~ws'.isEOF /\ ws'.ret = "OK"
         /\ ws'.asked = <<>>
         /\ \/ ws'.open /\ Buffer(ws') /\ ws'.fn = "other"
            \/ ~ws'.open /\ ws'.mlen = -1 /\ ws'.min = -1 /\ ws'.fn = "none"
<1>1. sunk' = sunk /\ given' = given /\ ~ws.open /\ ~ws.isEOF
  BY DEF BwsOpen, IInv
<1>2. PICK g \in Bfromcstr(0) :
        ws' = IF g.ret = "OK"
              THEN [Closed EXCEPT !.open = TRUE, !.mlen = g.h.mlen, !.min = MinBuff,
                                  !.fn = "other"]
              ELSE Closed
  BY DEF BwsOpen
<1>3. /\ g.ret \in {"OK", "ERR"} /\ Owns(g.h)
      /\ g.ret = "OK" => 0 < g.h.mlen
  BY <1>2, BfromcstrOutcome
<1>4. g.h.mlen \in Int /\ g.h.mlen <= MemMax
  BY <1>3, SizesAssumption DEF Owns, Header
<1>5. MinBuff \in Int /\ 1 <= MinBuff /\ MinBuff <= IntMax
  BY BwsAssumption, SizesAssumption
<1>6. CASE g.ret = "OK"
  <2>1. /\ ws' \in Stream /\ ws'.open = TRUE /\ ws'.held = <<>> /\ ws'.mlen = g.h.mlen
        /\ ws'.isEOF = FALSE /\ ws'.min = MinBuff /\ ws'.ret = "OK"
        /\ ws'.asked = <<>> /\ ws'.fn = "other"
    BY <1>2, <1>4, <1>5, <1>6, EmptySeq DEF Closed, Stream
  <2>2. Buffer(ws')
    BY <1>3, <1>4, <1>5, <1>6, <2>1, EmptySeq DEF Buffer
  <2> QED
    BY <1>1, <2>1, <2>2
<1>7. CASE g.ret = "ERR"
  <2>1. /\ ws' \in Stream /\ ws'.open = FALSE /\ ws'.held = <<>> /\ ws'.mlen = -1
        /\ ws'.isEOF = FALSE /\ ws'.min = -1 /\ ws'.ret = "OK"
        /\ ws'.asked = <<>> /\ ws'.fn = "none"
    BY <1>2, <1>7, EmptySeq DEF Closed, Stream
  <2> QED
    BY <1>1, <2>1
<1> QED
  BY <1>3, <1>6, <1>7

-----------------------------------------------------------------------------
(* The buffer is sound. *)

(* Without a stream nothing is held. *)
LEMMA InitIInv ==
  ASSUME Init
  PROVE  IInv
<1>1. ws \in Stream
  BY EmptySeq DEF Init, Closed, Stream
<1>2. /\ ws.open = FALSE /\ ws.held = <<>> /\ ws.mlen = -1 /\ ws.min = -1
      /\ ws.ret = "OK" /\ ws.fn = "none" /\ ws.isEOF = FALSE
  BY DEF Init, Closed
<1>3. sunk \in Seq(Nat) /\ given \in Seq(Nat)
  BY EmptySeq DEF Init
<1> QED
  BY <1>1, <1>2, <1>3 DEF IInv, HeldUnderMinimum, RequestsAreFull

(* A step is a call, or opens or closes the stream. *)
LEMMA NextCases ==
  ASSUME IInv, [Next]_vars
  PROVE  \/ \E t \in Seq(Nat) : \E r : Call(t, r)
         \/ BwsOpen \/ BwsClose
         \/ UNCHANGED vars
<1>1. CASE BwsWriteBstr
  BY <1>1, WriteCall
<1>2. CASE BwsWriteFlush
  BY <1>2, FlushCall
<1>3. CASE BwsBuffLength
  BY <1>3, LengthCall
<1> QED
  BY <1>1, <1>2, <1>3 DEF Next

(* Every step keeps the inductive invariant. *)
LEMMA NextIInv ==
  ASSUME IInv, [Next]_vars
  PROVE  IInv'
<1>1. sunk \in Seq(Nat) /\ given \in Seq(Nat)
  BY DEF IInv
<1>2. ASSUME NEW t \in Seq(Nat), NEW r, Call(t, r)
      PROVE  IInv'
  <2>1. /\ given' = given \o t /\ sunk' = sunk \o r.out /\ ws' = r.w
        /\ r \in Outcomes /\ Buffer(r.w) /\ r.w.fn \in {"other", "write"}
        /\ r.w.fn = "write" => AsksMin(r.w)
    BY <1>2 DEF Call
  <2>2. given' \in Seq(Nat) /\ sunk' \in Seq(Nat) /\ r.w \in Stream
    BY <1>1, <2>1, OutcomeFields, ConcatProperties
  <2>3. HeldUnderMinimum'
    BY <1>2, <2>1 DEF Call, HeldUnderMinimum, Broken
  <2>4. RequestsAreFull'
    BY <2>1 DEF RequestsAreFull, AsksMin
  <2>5. ws'.open /\ Buffer(ws') /\ ws'.fn # "none"
    BY <2>1 DEF Buffer
  <2> QED
    BY <2>1, <2>2, <2>3, <2>4, <2>5 DEF IInv, Buffer
<1>3. CASE BwsOpen
  <2>1. /\ sunk' = sunk /\ given' = given
        /\ ws' \in Stream /\ ws'.held = <<>> /\ ~ws'.isEOF /\ ws'.ret = "OK"
        /\ \/ ws'.open /\ Buffer(ws') /\ ws'.fn = "other"
           \/ ~ws'.open /\ ws'.mlen = -1 /\ ws'.min = -1 /\ ws'.fn = "none"
    BY <1>3, OpenFacts
  <2> QED
    BY <1>1, <2>1 DEF IInv, Buffer, HeldUnderMinimum, RequestsAreFull
<1>4. CASE BwsClose
  <2>1. PICK out \in Seq(Nat) :
          /\ sunk' = sunk \o out /\ given' = given
          /\ ws' \in Stream /\ ~ws'.open /\ ws'.held = <<>> /\ ws'.mlen = -1
          /\ ws'.min = -1 /\ ws'.ret = "OK" /\ ws'.fn = "other"
    BY <1>4, CloseFacts
  <2>2. sunk' \in Seq(Nat)
    BY <1>1, <2>1, ConcatProperties
  <2> QED
    BY <1>1, <2>1, <2>2 DEF IInv, HeldUnderMinimum, RequestsAreFull
<1>5. CASE UNCHANGED vars
  <2>1. ws' = ws /\ sunk' = sunk /\ given' = given
    BY <1>5 DEF vars
  <2> QED
    BY <2>1 DEF IInv, Buffer, HeldUnderMinimum, RequestsAreFull
<1> QED
  BY <1>2, <1>3, <1>4, <1>5, NextCases

(* The invariant of the runs is part of the inductive one. *)
LEMMA IInvSound ==
  ASSUME IInv
  PROVE  BufferSound
<1>1. /\ ws \in Stream /\ Len(ws.held) \in Nat /\ MemMax \in Nat
      /\ ws.mlen \in Int /\ ws.min \in Int
  BY SizesAssumption, LenProperties DEF IInv, Stream
<1>2. CASE ws.open
  <2>1. ws.mlen <= MemMax /\ Len(ws.held) < ws.mlen /\ 1 <= ws.min /\ ws.min <= IntMax
    BY <1>2 DEF IInv, Buffer
  <2>2. ws.mlen \in -1..MemMax /\ ws.min \in 1..IntMax
    BY <1>1, <2>1, SizesAssumption
  <2> QED
    BY <1>1, <1>2, <2>2 DEF IInv, BufferSound, TypeOK, Stream
<1>3. CASE ~ws.open
  <2>1. ws.mlen \in -1..MemMax /\ ws.min \in {-1}
    BY <1>1, <1>3 DEF IInv
  <2> QED
    BY <1>1, <1>3, <2>1 DEF IInv, BufferSound, TypeOK, Stream
<1> QED
  BY <1>1, <1>2, <1>3 DEF Stream

(* The inductive invariant holds in every reachable state. *)
LEMMA SpecIInv == Spec => []IInv
<1>1. Init => IInv
  BY InitIInv
<1>2. IInv /\ [Next]_vars => IInv'
  BY NextIInv
<1> QED
  BY <1>1, <1>2, PTL DEF Spec

(* Whatever the size of the buffer is set to and whenever: a write that    *)
(* succeeds (bwsWriteBstr) leaves fewer than minBuffSz characters held,    *)
(* and no write asks the sink to take fewer.                               *)
THEOREM BufferIsSound == Spec => []BufferSound
<1>1. IInv => BufferSound
  BY IInvSound
<1> QED
  BY <1>1, SpecIInv, PTL

-----------------------------------------------------------------------------
(* A write for which there is no memory. *)

(* What the sink got and what is held, before and after. *)
LEMMA SunkAndHeld ==
  ASSUME NEW s \in Seq(Nat), NEW r \in Outcomes
  PROVE  (s \o r.out) \o r.w.held = s \o Flow(r)
<1>1. r.out \in Seq(Nat) /\ r.w.held \in Seq(Nat)
  BY OutcomeFields
<1> QED
  BY <1>1, FlowOfTwo DEF Flow

(* The text of a call is what it adds to the texts given. *)
LEMMA NewText ==
  ASSUME given \in Seq(Nat), NEW t \in Seq(Nat), given' = given \o t
  PROVE  After(given', Len(given)) = t /\ First(given', Len(given)) = given
         /\ Len(given') >= Len(given)
<1>1. /\ SubSeq(given \o t, 1, Len(given)) = given
      /\ SubSeq(given \o t, Len(given) + 1, Len(given \o t)) = t
  BY CutOfConcat
<1>2. Len(given') >= Len(given)
  <2>1. Len(given \o t) = Len(given) + Len(t) /\ Len(t) \in Nat /\ Len(given) \in Nat
    BY TextFacts
  <2> QED
    BY <2>1
<1> QED
  BY <1>1, <1>2 DEF First, After

(* Every step that fails without the sink refusing has all or nothing. *)
LEMMA NextRefused ==
  ASSUME IInv, [Next]_vars, Writes, ws'.ret = "ERR", ~ws'.isEOF, vars' # vars
  PROVE  sunk' \o ws'.held \in {sunk \o ws.held,
                                sunk \o ws.held \o After(given', Len(given))}
<1>1. sunk \in Seq(Nat) /\ given \in Seq(Nat) /\ ws.held \in Seq(Nat)
  BY DEF IInv, Stream
<1>2. ~BwsOpen
  BY OpenFacts DEF Writes
<1>3. ~BwsClose
  BY CloseFacts DEF Writes
<1>0. PICK t \in Seq(Nat) : \E r : Call(t, r)
  BY <1>2, <1>3, NextCases
<1>4. PICK r : Call(t, r)
  BY <1>0
<1>5. /\ given' = given \o t /\ sunk' = sunk \o r.out /\ ws' = r.w /\ r \in Outcomes
      /\ Flow(r) \in {ws.held, ws.held \o t}
  BY <1>4 DEF Call, Alive, Broken
<1>6. sunk' \o ws'.held = sunk \o Flow(r)
  BY <1>1, <1>5, SunkAndHeld
<1>7. (sunk \o ws.held) \o t = sunk \o (ws.held \o t)
  <2>1. sunk \in Seq(Nat) /\ ws.held \in Seq(Nat) /\ t \in Seq(Nat)
    BY <1>1
  <2> QED
    BY <2>1, FlowOfTwo, Zenon
<1>8. After(given', Len(given)) = t
  BY <1>1, <1>5, NewText
<1> QED
  BY <1>5, <1>6, <1>7, <1>8

(* A write that fails for want of memory (bwsWriteBstr) has taken nothing  *)
(* of its text or all of it, for every text and every size of the buffer:  *)
(* once a part of the text has gone to the sink no step needs memory.      *)
THEOREM WriteIsAllOrNothing == Spec => RefusedTakesAllOrNothing
<1> DEFINE A == Writes /\ ws'.ret = "ERR" /\ ~ws'.isEOF
                  => sunk' \o ws'.held \in
                       {sunk \o ws.held,
                        sunk \o ws.held \o After(given', Len(given))}
<1>1. IInv /\ [Next]_vars => [A]_vars
  BY NextRefused
<1> QED
  BY <1>1, SpecIInv, PTL DEF Spec, RefusedTakesAllOrNothing

-----------------------------------------------------------------------------
(* The stream is a pipe. *)

(* What was taken and is not yet in the sink, nor lost. *)
Pending == IF ws.isEOF THEN <<>> ELSE ws.held

(* The cut of a sequence that is put together from two. *)
LEMMA CutAt ==
  ASSUME NEW p \in Seq(Nat), NEW q \in Seq(Nat)
  PROVE  /\ Contract!First(p \o q, Len(p)) = p
         /\ Contract!After(p \o q, Len(p)) = q
         /\ Len(p) \in 0..Len(p \o q)
BY CutOfConcat DEF Contract!First, Contract!After

(* A call extends the texts given by its own. *)
LEMMA ExtendsStep ==
  ASSUME given \in Seq(Nat), NEW t \in Seq(Nat), given' = given \o t
  PROVE  Contract!Extends /\ Contract!New = t
<1>1. /\ After(given', Len(given)) = t /\ First(given', Len(given)) = given
      /\ Len(given') >= Len(given)
  BY NewText
<1> QED
  BY <1>1 DEF Contract!Extends, Contract!New, Contract!First, Contract!After,
              First, After

(* The pipe takes t, and the beginning p of all that goes to the sink.     *)
LEMMA TakeStep ==
  ASSUME given \in Seq(Nat), NEW t \in Seq(Nat), given' = given \o t,
         ~ws.isEOF, ~ws'.isEOF,
         NEW p \in Seq(Nat), NEW q \in Seq(Nat), p \o q = Pending \o t,
         sunk' = sunk \o p, Pending' = q
  PROVE  Contract!Take
<1>1. Contract!Extends /\ Contract!New = t
  BY ExtendsStep
<1>2. /\ Contract!First(p \o q, Len(p)) = p /\ Contract!After(p \o q, Len(p)) = q
      /\ Len(p) \in 0..Len(p \o q)
  BY CutAt
<1>3. \E k \in 0..Len(Pending \o t) :
        /\ sunk' = sunk \o Contract!First(Pending \o t, k)
        /\ Pending' = Contract!After(Pending \o t, k)
  BY <1>2
<1>4. (ws.ret = "OK")' \in BOOLEAN
  OBVIOUS
<1> QED
  BY <1>1, <1>3, <1>4 DEF Contract!Take, Pending

(* The pipe refuses t, and the beginning p of what is pending goes out.    *)
LEMMA RefuseStep ==
  ASSUME given \in Seq(Nat), NEW t \in Seq(Nat), given' = given \o t,
         ~ws.isEOF, ~ws'.isEOF, ws'.ret = "ERR",
         NEW p \in Seq(Nat), NEW q \in Seq(Nat), p \o q = Pending,
         sunk' = sunk \o p, Pending' = q
  PROVE  Contract!Refuse
<1>1. Contract!Extends
  BY ExtendsStep
<1>2. /\ Contract!First(p \o q, Len(p)) = p /\ Contract!After(p \o q, Len(p)) = q
      /\ Len(p) \in 0..Len(p \o q)
  BY CutAt
<1>3. \E k \in 0..Len(Pending) :
        /\ sunk' = sunk \o Contract!First(Pending, k)
        /\ Pending' = Contract!After(Pending, k)
  BY <1>2
<1> QED
  BY <1>1, <1>3 DEF Contract!Refuse, Pending

(* The sink takes the beginning p of all that goes to it, and no more. *)
LEMMA BreakStep ==
  ASSUME given \in Seq(Nat), NEW t \in Seq(Nat), given' = given \o t,
         ~ws.isEOF, ws'.isEOF, t # <<>> => ws'.ret = "ERR",
         NEW p \in Seq(Nat), Begins(p, Pending \o t), sunk' = sunk \o p
  PROVE  Contract!Break
<1>1. Contract!Extends /\ Contract!New = t
  BY ExtendsStep
<1>2. PICK q \in Seq(Nat) : p \o q = Pending \o t
  BY DEF Begins
<1>3. /\ Contract!First(p \o q, Len(p)) = p /\ Len(p) \in 0..Len(p \o q)
  BY CutAt
<1>4. \E k \in 0..Len(Pending \o t) : sunk' = sunk \o Contract!First(Pending \o t, k)
  BY <1>2, <1>3
<1>5. Contract!New # <<>> => ~((ws.ret = "OK")')
  BY <1>1
<1> QED
  BY <1>1, <1>4, <1>5 DEF Contract!Break, Pending

(* Nothing comes out of a pipe that is broken. *)
LEMMA FailStep ==
  ASSUME given \in Seq(Nat), NEW t \in Seq(Nat), given' = given \o t,
         ws.isEOF, ws'.isEOF, t # <<>> => ws'.ret = "ERR", sunk' = sunk
  PROVE  Contract!Fail
<1>1. Contract!Extends /\ Contract!New = t
  BY ExtendsStep
<1>2. Contract!New # <<>> => ~((ws.ret = "OK")')
  BY <1>1
<1> QED
  BY <1>1, <1>2 DEF Contract!Fail

(* Every call is a step of the pipe. *)
LEMMA CallIsPiped ==
  ASSUME IInv, NEW t \in Seq(Nat), NEW r, Call(t, r)
  PROVE  Contract!Take \/ Contract!Refuse \/ Contract!Break \/ Contract!Fail
<1>1. /\ sunk \in Seq(Nat) /\ given \in Seq(Nat) /\ ws.held \in Seq(Nat)
      /\ ws.isEOF \in BOOLEAN
  BY DEF IInv, Stream
<1>2. /\ given' = given \o t /\ sunk' = sunk \o r.out /\ ws' = r.w /\ r \in Outcomes
  BY DEF Call
<1>3. r.out \in Seq(Nat) /\ r.w.held \in Seq(Nat) /\ r.w.isEOF \in BOOLEAN
  BY <1>2, OutcomeFields
<1>4. CASE ~ws.isEOF /\ ~r.w.isEOF
  <2>1. Pending = ws.held /\ Pending' = r.w.held /\ ~ws'.isEOF
    BY <1>2, <1>4 DEF Pending
  <2>2. \/ Flow(r) = ws.held \o t
        \/ r.w.ret = "ERR" /\ Flow(r) = ws.held
    BY <1>4 DEF Call, Broken
  <2>3. CASE Flow(r) = ws.held \o t
    <3>1. r.out \o r.w.held = Pending \o t
      BY <2>1, <2>3 DEF Flow
    <3>2. Contract!Take
      BY <1>1, <1>2, <1>3, <1>4, <2>1, <3>1, TakeStep
    <3> QED
      BY <3>2
  <2>4. CASE r.w.ret = "ERR" /\ Flow(r) = ws.held
    <3>1. r.out \o r.w.held = Pending /\ ws'.ret = "ERR"
      BY <1>2, <2>1, <2>4 DEF Flow
    <3>2. Contract!Refuse
      BY <1>1, <1>2, <1>3, <1>4, <2>1, <3>1, RefuseStep
    <3> QED
      BY <3>2
  <2> QED
    BY <2>2, <2>3, <2>4
<1>5. CASE ~ws.isEOF /\ r.w.isEOF
  <2>1. /\ Pending = ws.held /\ ws'.isEOF /\ Begins(r.out, Pending \o t)
        /\ ws'.ret = "ERR"
    BY <1>2, <1>5 DEF Call, Alive, Broken, Pending
  <2> QED
    BY <1>1, <1>2, <1>3, <1>5, <2>1, BreakStep
<1>6. CASE ws.isEOF
  <2>1. r.out = <<>> /\ ws'.isEOF /\ (t # <<>> => ws'.ret = "ERR")
    BY <1>2, <1>6 DEF Call
  <2>2. sunk' = sunk
    BY <1>1, <1>2, <2>1, TextFacts
  <2> QED
    BY <1>1, <1>2, <1>6, <2>1, <2>2, FailStep
<1> QED
  BY <1>1, <1>3, <1>4, <1>5, <1>6

(* Opening and closing the stream is one too. *)
LEMMA EndsArePiped ==
  ASSUME IInv, BwsOpen \/ BwsClose
  PROVE  Contract!Take \/ Contract!Break \/ Contract!Fail
<1>1. /\ sunk \in Seq(Nat) /\ given \in Seq(Nat) /\ ws.held \in Seq(Nat)
      /\ ws.isEOF \in BOOLEAN /\ <<>> \in Seq(Nat)
  BY EmptySeq DEF IInv, Stream
<1>2. /\ given \o <<>> = given /\ sunk \o <<>> = sunk /\ <<>> \o <<>> = <<>>
      /\ ws.held \o <<>> = ws.held
  BY <1>1, TextFacts
<1>3. CASE BwsOpen
  <2>1. /\ sunk' = sunk /\ given' = given /\ ~ws.open /\ ~ws.isEOF
        /\ ws'.held = <<>> /\ ~ws'.isEOF
    BY <1>3, OpenFacts
  <2>2. Pending = <<>> /\ Pending' = <<>>
    BY <2>1 DEF IInv, Pending
  <2>3. /\ given' = given \o <<>> /\ sunk' = sunk \o <<>>
        /\ <<>> \o <<>> = Pending \o <<>>
    BY <1>2, <2>1, <2>2
  <2> QED
    BY <1>1, <2>1, <2>2, <2>3, TakeStep
<1>4. CASE BwsClose
  <2>1. PICK out \in Seq(Nat) :
          /\ sunk' = sunk \o out /\ given' = given /\ ws'.held = <<>>
          /\ \/ ~ws.isEOF /\ ~ws'.isEOF /\ out = ws.held
             \/ ~ws.isEOF /\ ws'.isEOF /\ Begins(out, ws.held)
             \/ ws.isEOF /\ ws'.isEOF /\ out = <<>>
    BY <1>4, CloseFacts
  <2>2. given' = given \o <<>> /\ Pending' = <<>>
    BY <1>2, <2>1 DEF Pending
  <2>3. CASE ~ws.isEOF /\ ~ws'.isEOF /\ out = ws.held
    <3>1. out \o <<>> = Pending \o <<>>
      BY <2>3 DEF Pending
    <3> QED
      BY <1>1, <2>1, <2>2, <2>3, <3>1, TakeStep
  <2>4. CASE ~ws.isEOF /\ ws'.isEOF /\ Begins(out, ws.held)
    <3>1. Begins(out, Pending \o <<>>)
      BY <1>2, <2>4 DEF Pending
    <3> QED
      BY <1>1, <2>1, <2>2, <2>4, <3>1, BreakStep
  <2>5. CASE ws.isEOF /\ ws'.isEOF /\ out = <<>>
    <3>1. sunk' = sunk
      BY <1>2, <2>1, <2>5
    <3> QED
      BY <1>1, <2>2, <2>5, <3>1, FailStep
  <2> QED
    BY <2>1, <2>3, <2>4, <2>5
<1> QED
  BY <1>3, <1>4

(* bwriteStream is a pipe: for all lengths of texts, sizes of the buffer   *)
(* and answers of the sink and the allocator, what it is given comes out   *)
(* in order and once, until the sink refuses, and then nothing does, and   *)
(* a write fails in which it refuses, or that comes after.                 *)
THEOREM StreamIsAPipe == Spec => IsAPipe
<1>1. Init => Contract!Init
  BY DEF Init, Closed, Contract!Init
<1>2. IInv /\ [Next]_vars
        => [Contract!Take \/ Contract!Refuse \/ Contract!Break \/ Contract!Fail]_
             (Contract!vars)
  <2> SUFFICES ASSUME IInv, [Next]_vars
               PROVE  \/ Contract!Take \/ Contract!Refuse
                      \/ Contract!Break \/ Contract!Fail
                      \/ UNCHANGED Contract!vars
    OBVIOUS
  <2>1. CASE UNCHANGED vars
    BY <2>1 DEF vars, Contract!vars
  <2>2. CASE BwsOpen \/ BwsClose
    BY <2>2, EndsArePiped
  <2>3. CASE \E t \in Seq(Nat) : \E r : Call(t, r)
    BY <2>3, CallIsPiped
  <2> QED
    BY <2>1, <2>2, <2>3, NextCases
<1> QED
  BY <1>1, <1>2, SpecIInv, PTL DEF Spec, IsAPipe, Contract!Spec

=============================================================================

---------------------------- MODULE BstrReadProofs ----------------------------
(***************************************************************************)
(* The unbuffered readers, for every core stream, destination, terminator  *)
(* and block size: what is taken from the core stream is what is stored,   *)
(* in order and nothing else, a line stops at its terminator, and slen     *)
(* covers the text.                                                        *)
(*                                                                         *)
(* The inductive invariant says how far the buffer of the call at work     *)
(* reaches: there is room behind the text for its terminator, but where    *)
(* bgetsa was given a full buffer and has not stored anything yet.         *)
(***************************************************************************)
EXTENDS BstrRead, BstrLemmas

Callers ==
  [pc : {"idle", "getc", "block"},
   fn : LineReaders \cup {"none", "breada", "bread"},
   term : Nat, start : Nat, n : IntMin..IntMax, had : -1..IntMax,
   ret : {"OK", "ERR", "EMPTY"}, whole : Seq(Nat), ended : BOOLEAN]

Typed ==
  /\ src \in Seq(Nat) /\ got \in Seq(Nat) /\ str \in Header /\ over \in BOOLEAN
  /\ call \in Callers

(* What was taken is what is stored, but for a character a failing line    *)
(* read has dropped.                                                       *)
Taken ==
  \/ call.whole = got \o src
  \/ /\ call.pc = "idle" /\ call.ret = "ERR" /\ call.fn \in LineReaders
     /\ \E c \in Nat : call.whole = (got \o <<c>>) \o src

(* The string of the call at work. *)
AtWork ==
  /\ Owns(str) /\ 0 < str.mlen /\ Pos <= str.mlen /\ call.ret = "OK"
  /\ call.pc = "getc" =>
       /\ call.fn \in LineReaders /\ \A i \in 1..Len(got) : got[i] # call.term
       /\ Pos < str.mlen \/ (got = <<>> /\ call.fn = "bgetsa" /\ call.had = Pos)
  /\ call.pc = "block" =>
       /\ call.fn \in {"breada", "bread"} /\ str.slen = Pos
       /\ 0 <= call.n => Pos <= call.n

ReadInv ==
  /\ Typed /\ Taken
  /\ over => call.pc = "idle"
  /\ call.pc # "idle" => AtWork
  /\ LengthIsText /\ LineStopsAtTerminator /\ OverrunOnlyWhenFull

-----------------------------------------------------------------------------

(* Int arithmetic as it is needed here. *)
LEMMA SumFacts ==
  ASSUME NEW x \in Nat, x <= 2 * IntMax
  PROVE  /\ CInt(x) \in IntMin..IntMax
         /\ x <= IntMax => CInt(x) = x
         /\ x > IntMax => CInt(x) < 0
BY SizesAssumption DEF CInt, IntMin

(* A character more. *)
LEMMA OneMore ==
  ASSUME NEW s \in Seq(Nat), NEW c \in Nat
  PROVE  /\ Append(s, c) \in Seq(Nat) /\ Len(Append(s, c)) = Len(s) + 1
         /\ Append(s, c)[Len(s) + 1] = c
         /\ \A i \in 1..Len(s) : Append(s, c)[i] = s[i]
         /\ Append(s, c) # <<>> /\ Append(s, c) = s \o <<c>>
<1>1. /\ Append(s, c) \in Seq(Nat) /\ Len(Append(s, c)) = Len(s) + 1
      /\ Append(s, c)[Len(s) + 1] = c
      /\ \A i \in 1..Len(s) : Append(s, c)[i] = s[i]
  BY AppendProperties
<1>2. Append(s, c) # <<>>
  BY <1>1, EmptySeq, LenProperties
<1>3. Append(s, c) = s \o <<c>>
  BY AppendIsConcat
<1> QED
  BY <1>1, <1>2, <1>3

(* What is taken from the front and put behind the rest. *)
LEMMA OneTaken ==
  ASSUME NEW s \in Seq(Nat), NEW t \in Seq(Nat), t # <<>>
  PROVE  /\ Head(t) \in Nat /\ Tail(t) \in Seq(Nat)
         /\ s \o t = (s \o <<Head(t)>>) \o Tail(t)
<1>1. Len(t) \in Nat /\ Len(t) >= 1 /\ 1 \in 1..Len(t) /\ Len(t) \in 1..Len(t)
  BY EmptySeq
<1>2. Head(t) \in Nat /\ Tail(t) \in Seq(Nat) /\ <<Head(t)>> \in Seq(Nat)
  BY HeadTailProperties
<1>3. SubSeq(t, 1, Len(t)) = t
  BY SubSeqFull
<1>4. Head(t) = t[1] /\ Tail(t) = SubSeq(t, 2, Len(t))
  BY <1>1, <1>3, HeadTailOfSubSeq
<1>5. t = <<Head(t)>> \o Tail(t)
  BY <1>1, <1>3, <1>4, SubSeqRecursiveFirst
<1>6. s \o (<<Head(t)>> \o Tail(t)) = (s \o <<Head(t)>>) \o Tail(t)
  BY <1>2, ConcatAssociative, SMTT(30)
<1> QED
  BY <1>2, <1>5, <1>6, Zenon

(* The first l characters of t, moved behind s, are taken from it in       *)
(* order.                                                                  *)
LEMMA BlockTaken ==
  ASSUME NEW s \in Seq(Nat), NEW t \in Seq(Nat), NEW l \in 0..Len(t)
  PROVE  /\ s \o SubSeq(t, 1, l) \in Seq(Nat) /\ SubSeq(t, l + 1, Len(t)) \in Seq(Nat)
         /\ Len(s \o SubSeq(t, 1, l)) = Len(s) + l
         /\ s \o t = (s \o SubSeq(t, 1, l)) \o SubSeq(t, l + 1, Len(t))
<1>1. /\ SubSeq(t, 1, l) \in Seq(Nat) /\ Len(SubSeq(t, 1, l)) = l
      /\ SubSeq(t, l + 1, Len(t)) \in Seq(Nat)
      /\ SubSeq(t, 1, l) \o SubSeq(t, l + 1, Len(t)) = t
  BY CutFacts
<1> DEFINE x == SubSeq(t, 1, l)
           y == SubSeq(t, l + 1, Len(t))
<1> HIDE DEF x, y
<1>2. x \in Seq(Nat) /\ Len(x) = l /\ y \in Seq(Nat) /\ x \o y = t
  BY <1>1 DEF x, y
<1>3. s \o x \in Seq(Nat) /\ Len(s \o x) = Len(s) + l /\ s \o (x \o y) = (s \o x) \o y
  BY <1>2, TextFacts, ZenonT(60)
<1> QED
  BY <1>2, <1>3 DEF x, y

-----------------------------------------------------------------------------
(* The beginning of a call. *)

(* The destinations, and the string a call makes for itself. *)
LEMMA DestFacts ==
  ASSUME NEW h, h \in Dests \/ (\E g \in Bfromcstr(0) : h = g.h)
  PROVE  /\ h \in Header /\ h.slen \in -1..IntMax /\ h.cap <= MemMax
         /\ h.mlen <= h.cap /\ (h.mlen > 0 => h.slen <= h.mlen)
         /\ Writable(h) => Owns(h)
<1>1. CASE h \in Dests
  BY <1>1, DestsAssumption, SizesAssumption DEF Owns, Header
<1>2. CASE \E g \in Bfromcstr(0) : h = g.h
  <2>1. PICK g \in Bfromcstr(0) : h = g.h
    BY <1>2
  <2>2. /\ g.ret \in {"OK", "ERR"} /\ Owns(g.h) /\ (g.ret = "ERR" => g.h = NoString)
        /\ g.ret = "OK" => g.h.slen = 0 /\ 0 < g.h.mlen
    BY BfromcstrOutcome
  <2>3. h = NoString \/ (h.slen = 0 /\ 0 < h.mlen)
    BY <2>1, <2>2
  <2> QED
    BY <2>1, <2>2, <2>3, SizesAssumption DEF Owns, Header, NoString
<1> QED
  BY <1>1, <1>2

(* A call begins in the invariant. *)
LEMMA BeginKeeps ==
  ASSUME ReadInv, Idle, NEW pc, NEW fn, NEW term \in Nat, NEW h,
         NEW start \in 0..IntMax, Begin(pc, fn, term, h, start),
         h \in Dests \/ (\E g \in Bfromcstr(0) : h = g.h),
         Writable(h) => start <= h.slen,
         \/ /\ pc = "getc" /\ fn \in LineReaders
            /\ start = 0 \/ (fn = "bgetsa" /\ start = h.slen)
         \/ /\ pc = "block" /\ fn \in {"breada", "bread"}
            /\ Writable(h) => start = h.slen
  PROVE  ReadInv'
<1>1. /\ h \in Header /\ h.slen \in -1..IntMax /\ h.cap <= MemMax
      /\ h.mlen <= h.cap /\ (h.mlen > 0 => h.slen <= h.mlen)
      /\ Writable(h) => Owns(h)
  BY DestFacts
<1>2. /\ str' = h /\ got' = <<>> /\ src' = src /\ over' = FALSE
      /\ src \in Seq(Nat) /\ <<>> \in Seq(Nat) /\ <<>> \o src = src /\ Len(<<>>) = 0
  BY TextFacts DEF Begin, ReadInv, Typed, Idle
<1>3. CInt(start + ReadStart) \in IntMin..IntMax
      /\ (0 <= CInt(start + ReadStart) => start <= CInt(start + ReadStart))
  BY SumFacts, ReadAssumption, SizesAssumption
<1>4. /\ call' \in Callers /\ call'.fn = fn /\ call'.start = start
      /\ call'.term = term /\ call'.had = h.slen /\ call'.whole = src
      /\ call'.n = CInt(start + ReadStart)
      /\ call'.pc = (IF Writable(h) THEN pc ELSE "idle")
      /\ call'.ret = (IF Writable(h) THEN "OK" ELSE "ERR")
  <2> DEFINE c == NewCall(pc, fn, term, h, start)
  <2>1. /\ c \in Callers /\ c.fn = fn /\ c.start = start /\ c.term = term
        /\ c.had = h.slen /\ c.whole = src /\ c.n = CInt(start + ReadStart)
    BY <1>1, <1>2, <1>3 DEF NewCall, Callers
  <2>2. call' = [c EXCEPT !.pc = IF Writable(h) THEN pc ELSE "idle",
                          !.ret = IF Writable(h) THEN "OK" ELSE "ERR"]
    BY Zenon DEF Begin
  <2> HIDE DEF c
  <2>3. PICK q \in {"idle", "getc", "block"}, r \in {"OK", "ERR"} :
          /\ q = IF Writable(h) THEN pc ELSE "idle"
          /\ r = IF Writable(h) THEN "OK" ELSE "ERR"
    OBVIOUS
  <2>4. call' = [c EXCEPT !.pc = q, !.ret = r]
    BY <2>2, <2>3
  <2> QED
    BY <2>1, <2>3, <2>4 DEF Callers
<1>5. Pos' = start
  BY <1>2, <1>4 DEF Pos
<1>6. Typed' /\ Taken' /\ ~over'
  <2>1. Typed' /\ ~over'
    BY <1>1, <1>2, <1>4 DEF Typed
  <2>2. Taken'
    BY <1>2, <1>4, Zenon DEF Taken
  <2> QED
    BY <2>1, <2>2
<1>7. call'.pc # "idle" => AtWork'
  <2> SUFFICES ASSUME Writable(h), call'.pc = pc
               PROVE  AtWork'
    BY <1>4
  <2>1. Owns(h) /\ 0 < h.mlen /\ start <= h.slen /\ h.slen <= h.mlen
        /\ h.slen \in Int /\ h.mlen \in Int
    BY <1>1 DEF Writable, Header
  <2>2. start <= h.mlen /\ (start = 0 => start < h.mlen)
    BY <2>1
  <2> QED
    BY <1>2, <1>3, <1>4, <1>5, <2>1, <2>2 DEF AtWork, LineReaders
<1>8. LengthIsText'
  BY <1>1, <1>2, <1>4 DEF LengthIsText, Idle
<1>9. LineStopsAtTerminator' /\ OverrunOnlyWhenFull'
  BY <1>2, <1>4 DEF LineStopsAtTerminator, OverrunOnlyWhenFull, Idle
<1> QED
  BY <1>6, <1>7, <1>8, <1>9 DEF ReadInv

-----------------------------------------------------------------------------
(* The line readers. *)

(* A '\0' at p behind the text. *)
LEMMA TerminateFacts ==
  ASSUME NEW h \in Header, NEW p \in Nat, Terminate(h, p)
  PROVE  /\ str' \in Header /\ str'.slen = p /\ str'.mlen = h.mlen
         /\ str'.cap = h.cap /\ (p < h.cap => str'.nul)
         /\ (over' <=> p >= h.cap) /\ over' \in BOOLEAN
<1>1. (p < h.cap) \in BOOLEAN /\ (p >= h.cap) \in BOOLEAN
  OBVIOUS
<1>2. PICK z \in BOOLEAN, y \in BOOLEAN : z = (p < h.cap) /\ y = (p >= h.cap)
  BY <1>1, Zenon
<1>3. over' = y /\ str' = [h EXCEPT !.slen = p, !.nul = z]
  BY <1>2, Zenon DEF Terminate
<1>4. /\ str'.slen = p /\ str'.mlen = h.mlen /\ str'.cap = h.cap
      /\ str'.nul = z /\ str' \in Header
  <2> DEFINE k == [slen |-> p, mlen |-> h.mlen, cap |-> h.cap, nul |-> z]
  <2>1. str' = k
    BY <1>3 DEF Header
  <2>2. k \in Header /\ k.slen = p /\ k.mlen = h.mlen /\ k.cap = h.cap /\ k.nul = z
    BY DEF Header
  <2> HIDE DEF k
  <2> QED
    BY <2>1, <2>2
<1>5. over' \in BOOLEAN
  BY <1>3
<1>6. (over' <=> p >= h.cap) /\ (p < h.cap => str'.nul)
  BY <1>2, <1>3, <1>4
<1> QED
  BY <1>4, <1>5, <1>6

(* A line ends: at its terminator, or because no more comes. *)
LEMMA GetcEndsKeeps ==
  ASSUME call \in Callers, call.pc = "getc", call.fn \in LineReaders, ~over,
         over \in BOOLEAN, src' \in Seq(Nat), got' \in Seq(Nat),
         call.whole = got' \o src', NEW h, Owns(h), 0 < h.mlen,
         NEW p, p = call.start + Len(got'), p <= h.mlen,
         p < h.mlen \/ (got' = <<>> /\ call.fn = "bgetsa" /\ call.had = p),
         \A i \in 1 .. (Len(got') - 1) : got'[i] # call.term,
         NEW ended \in BOOLEAN,
         ended \/ (got' # <<>> /\ got'[Len(got')] = call.term),
         GetcEnds(h, p, ended)
  PROVE  ReadInv'
<1>1. /\ h \in Header /\ h.mlen \in Int /\ h.cap \in Nat /\ h.mlen <= h.cap
      /\ call.start \in Nat /\ Len(got') \in Nat /\ p \in Nat
  <2>1. call.start \in Nat /\ Len(got') \in Nat
    BY LenProperties DEF Callers
  <2> QED
    BY <2>1 DEF Owns, Header
<1>2. PICK ret \in {"OK", "EMPTY"} :
        call' = [call EXCEPT !.pc = "idle", !.ended = ended, !.ret = ret]
  BY DEF GetcEnds
<1>3. /\ call' \in Callers /\ call'.pc = "idle" /\ call'.ret = ret
      /\ call'.fn = call.fn /\ call'.term = call.term /\ call'.start = call.start
      /\ call'.had = call.had /\ call'.whole = call.whole /\ call'.ended = ended
  <2> DEFINE d == [call EXCEPT !.pc = "idle", !.ended = ended, !.ret = ret]
  <2>1. /\ d \in Callers /\ d.pc = "idle" /\ d.ret = ret /\ d.fn = call.fn
        /\ d.term = call.term /\ d.start = call.start /\ d.had = call.had
        /\ d.whole = call.whole /\ d.ended = ended
    BY DEF Callers
  <2>2. call' = d
    BY <1>2
  <2> HIDE DEF d
  <2> QED
    BY <2>1, <2>2
<1>4. \/ str' = NoString /\ over' = FALSE
      \/ /\ str' \in Header /\ str'.slen = p /\ str'.mlen = h.mlen
         /\ str'.cap = h.cap /\ (p < h.cap => str'.nul)
         /\ (over' <=> p >= h.cap) /\ over' \in BOOLEAN
  BY <1>1, TerminateFacts DEF GetcEnds
<1>5. Pos' = p
  BY <1>3 DEF Pos
<1>6. Typed'
  <2>1. NoString \in Header
    BY DEF NoString, Header
  <2> QED
    BY <1>3, <1>4, <2>1 DEF Typed
<1>7. Taken'
  BY <1>3 DEF Taken
<1>8. LengthIsText'
  BY <1>1, <1>3, <1>4, <1>5 DEF LengthIsText, Idle
<1>9. LineStopsAtTerminator'
  BY <1>3 DEF LineStopsAtTerminator, Idle
<1>10. OverrunOnlyWhenFull'
  BY <1>1, <1>3, <1>4 DEF OverrunOnlyWhenFull
<1> QED
  BY <1>3, <1>6, <1>7, <1>8, <1>9, <1>10 DEF ReadInv

(* What the buffer is grown to, for a character and its terminator. *)
LEMMA GetcRoomFacts ==
  ASSUME Owns(str), 0 < str.mlen, Pos \in Nat, Pos <= str.mlen, NEW g \in GetcRoom
  PROVE  /\ g.ret \in {"OK", "ERR"} /\ Owns(g.h)
         /\ g.ret = "OK" => Pos + 1 < g.h.mlen
<1>1. /\ str \in Header /\ str.mlen \in Int /\ str.cap \in Nat /\ str.mlen <= str.cap
      /\ str.cap <= MemMax /\ MemMax \in Nat /\ MemMax <= IntMax /\ 3 < IntMax
      /\ IntMax \in Nat
  BY SizesAssumption DEF Owns, Header
<1>2. CASE Pos > str.mlen - 2
  <2> DEFINE h == [str EXCEPT !.slen = Pos]
  <2>1. g \in Balloc(h, CInt(Pos + 2))
    BY <1>2 DEF GetcRoom
  <2>2. Owns(h)
    BY <1>1 DEF Owns, Header
  <2>3. /\ CInt(Pos + 2) \in Int /\ CInt(Pos + 2) <= IntMax
        /\ CInt(Pos + 2) = Pos + 2 \/ CInt(Pos + 2) < 0
    BY <1>1, CIntFacts DEF IntMin
  <2> HIDE DEF h
  <2>4. /\ g.ret \in {"OK", "ERR"} /\ Owns(g.h)
        /\ g.ret = "OK" => 0 < CInt(Pos + 2) /\ CInt(Pos + 2) <= g.h.mlen
    BY <2>1, <2>2, <2>3, BallocOwned
  <2>5. g.ret = "OK" => Pos + 2 <= g.h.mlen /\ g.h.mlen \in Int
    BY <2>3, <2>4 DEF Owns, Header
  <2> QED
    BY <2>4, <2>5
<1>3. CASE ~(Pos > str.mlen - 2)
  <2>1. g.h = str /\ g.ret = "OK"
    BY <1>3 DEF GetcRoom, Fine, Result
  <2> QED
    BY <1>1, <1>3, <2>1
<1> QED
  BY <1>2, <1>3

(* Memory is refused to a line read. *)
LEMMA GetcFailsKeeps ==
  ASSUME ReadInv, call.pc = "getc", src # <<>>, src' = Tail(src), GetcFails
  PROVE  ReadInv'
<1>1. /\ AtWork /\ ~over /\ call \in Callers /\ src \in Seq(Nat) /\ got \in Seq(Nat)
      /\ call.whole = got \o src /\ LineStopsAtTerminator /\ str \in Header
      /\ over' = over /\ got' = got /\ over \in BOOLEAN
  BY DEF ReadInv, Typed, Taken, GetcFails
<1>2. /\ Owns(str) /\ 0 < str.mlen /\ Pos <= str.mlen /\ call.fn \in LineReaders
      /\ str.mlen <= str.cap /\ str.cap \in Nat /\ str.mlen \in Int
      /\ str.slen \in Int /\ call.start \in Nat /\ Len(got) \in Nat /\ Pos \in Nat
  <2>1. call.start \in Nat /\ Len(got) \in Nat
    BY <1>1, LenProperties DEF Callers
  <2>2. Pos \in Nat
    BY <2>1 DEF Pos
  <2> QED
    BY <1>1, <2>1, <2>2 DEF AtWork, Owns, Header
<1>3. /\ call' \in Callers /\ call'.pc = "idle" /\ call'.ret = "ERR"
      /\ call'.fn = call.fn /\ call'.term = call.term /\ call'.start = call.start
      /\ call'.had = call.had /\ call'.whole = call.whole
  <2>1. call' = [call EXCEPT !.pc = "idle", !.ret = "ERR"]
    BY DEF GetcFails, Return
  <2> QED
    BY <1>1, <2>1 DEF Callers
<1>4. /\ str' \in Header
      /\ str' = NoString \/ (str'.slen = Pos /\ str'.mlen = str.mlen
                             /\ str'.cap = str.cap)
  <2>1. CASE call.fn = "bgets"
    BY <2>1 DEF GetcFails, NoString, Header
  <2>2. CASE call.fn # "bgets"
    <3>1. str' = [str EXCEPT !.slen = Pos, !.nul = @ /\ Pos = str.slen]
      BY <2>2 DEF GetcFails
    <3>2. (str.nul /\ Pos = str.slen) \in BOOLEAN
      BY <1>1 DEF Header
    <3>3. PICK z \in BOOLEAN : z = (str.nul /\ Pos = str.slen)
      BY <3>2, Zenon
    <3>4. str' = [slen |-> Pos, mlen |-> str.mlen, cap |-> str.cap, nul |-> z]
      BY <1>1, <3>1, <3>3 DEF Header
    <3> QED
      BY <1>1, <1>2, <3>4 DEF Header
  <2> QED
    BY <2>1, <2>2
<1>5. Pos' = Pos
  BY <1>1, <1>3 DEF Pos
<1>6. /\ Head(src) \in Nat /\ Tail(src) \in Seq(Nat)
      /\ call.whole = (got \o <<Head(src)>>) \o Tail(src)
  BY <1>1, OneTaken
<1>7. Typed'
  BY <1>1, <1>3, <1>4, <1>6 DEF Typed
<1>8. Taken'
  BY <1>1, <1>2, <1>3, <1>6 DEF Taken
<1>9. LengthIsText'
  BY <1>2, <1>3, <1>4, <1>5 DEF LengthIsText
<1>10. LineStopsAtTerminator'
  BY <1>1, <1>3 DEF LineStopsAtTerminator
<1>11. OverrunOnlyWhenFull'
  BY <1>1 DEF OverrunOnlyWhenFull
<1> QED
  BY <1>1, <1>3, <1>7, <1>8, <1>9, <1>10, <1>11 DEF ReadInv

(* A character is stored and the line goes on. *)
LEMMA GetcStoresKeeps ==
  ASSUME ReadInv, call.pc = "getc", src # <<>>, src' = Tail(src),
         got' = Append(got, Head(src)), Head(src) # call.term,
         NEW h, Owns(h), Pos + 1 < h.mlen,
         str' = [h EXCEPT !.nul = @ /\ Pos # h.slen], over' = (Pos >= h.cap),
         call' = call
  PROVE  ReadInv'
<1>1. /\ AtWork /\ ~over /\ call \in Callers /\ src \in Seq(Nat) /\ got \in Seq(Nat)
      /\ call.whole = got \o src
  BY DEF ReadInv, Typed, Taken
<1>2. /\ h \in Header /\ h.mlen \in Int /\ h.cap \in Nat /\ h.mlen <= h.cap
      /\ h.slen \in Int /\ h.nul \in BOOLEAN /\ h.cap <= MemMax
      /\ call.start \in Nat /\ Len(got) \in Nat /\ Pos = call.start + Len(got)
      /\ Pos \in Nat
  <2>1. call.start \in Nat /\ Len(got) \in Nat
    BY <1>1, LenProperties DEF Callers
  <2>2. Pos = call.start + Len(got)
    BY DEF Pos
  <2> QED
    BY <2>1, <2>2 DEF Owns, Header
<1>3. /\ str' \in Header /\ str'.mlen = h.mlen /\ str'.cap = h.cap
  <2>1. (h.nul /\ Pos # h.slen) \in BOOLEAN
    BY <1>2
  <2>2. PICK z \in BOOLEAN : z = (h.nul /\ Pos # h.slen)
    BY <2>1, Zenon
  <2>3. str' = [slen |-> h.slen, mlen |-> h.mlen, cap |-> h.cap, nul |-> z]
    BY <1>2, <2>2 DEF Header
  <2> QED
    BY <1>2, <2>3 DEF Header
<1>4. over' = FALSE
  <2>1. (Pos >= h.cap) = FALSE
    BY <1>2
  <2> QED
    BY <2>1, Zenon
<1>5. /\ Head(src) \in Nat /\ Tail(src) \in Seq(Nat)
      /\ call.whole = (got \o <<Head(src)>>) \o Tail(src)
  BY <1>1, OneTaken
<1>6. /\ got' \in Seq(Nat) /\ Len(got') = Len(got) + 1 /\ got' = got \o <<Head(src)>>
      /\ \A i \in 1..Len(got) : got'[i] = got[i]
      /\ got'[Len(got) + 1] = Head(src)
  BY <1>1, <1>5, OneMore
<1>7. Pos' = Pos + 1
  <2>1. Pos' = call.start + Len(got')
    BY Zenon DEF Pos
  <2>2. Len(got') = Len(got) + 1
    BY <1>6
  <2>3. Pos' = call.start + (Len(got) + 1)
    BY <2>1, <2>2, Zenon
  <2> HIDE DEF Pos
  <2> QED
    BY <1>2, <2>3, SMTT(20)
<1>8. Typed' /\ Taken'
  <2>1. call'.whole = got' \o src'
    BY <1>5, <1>6, Zenon
  <2>2. Taken'
    BY <2>1 DEF Taken
  <2>3. src' \in Seq(Nat)
    BY <1>5, Zenon
  <2>4. got' \in Seq(Nat)
    BY <1>6, Zenon
  <2>5. call' \in Callers
    BY <1>1, Zenon
  <2>6. str' \in Header /\ over' \in BOOLEAN
    BY <1>3, <1>4
  <2> QED
    BY <2>2, <2>3, <2>4, <2>5, <2>6 DEF Typed
<1>9. \A i \in 1..Len(got') : got'[i] # call'.term
  <2>1. call'.term = call.term /\ Head(src) # call.term
    BY Zenon
  <2>2. \A i \in 1..Len(got) : got[i] # call.term
    BY <1>1 DEF AtWork
  <2> SUFFICES ASSUME NEW i \in 1..Len(got') PROVE got'[i] # call'.term
    OBVIOUS
  <2>3. i \in 1..Len(got) \/ i = Len(got) + 1
    <3>1. Len(got) \in Nat /\ Len(got') = Len(got) + 1
      BY <1>2, <1>6
    <3> QED
      BY <3>1
  <2>4. CASE i \in 1..Len(got)
    <3>1. got'[i] = got[i]
      BY <1>6, <2>4, Zenon
    <3> QED
      BY <2>1, <2>2, <2>4, <3>1, Zenon
  <2>5. CASE i = Len(got) + 1
    <3>1. got'[i] = Head(src)
      BY <1>6, <2>5, Zenon
    <3> QED
      BY <2>1, <3>1, Zenon
  <2> QED
    BY <2>3, <2>4, <2>5
<1>10. AtWork'
  <2>1. Owns(str') /\ 0 < str'.mlen /\ Pos' < str'.mlen /\ Pos' <= str'.mlen
    BY <1>2, <1>3, <1>7 DEF Owns
  <2> QED
    BY <1>1, <1>9, <2>1 DEF AtWork
<1>11. LengthIsText' /\ OverrunOnlyWhenFull'
  BY <1>4 DEF LengthIsText, Idle, OverrunOnlyWhenFull
<1>12. LineStopsAtTerminator'
  BY <1>2, <1>6, <1>9 DEF LineStopsAtTerminator, Idle
<1> QED
  BY <1>4, <1>8, <1>10, <1>11, <1>12 DEF ReadInv

(* A character got by bgetsa keeps the invariant. *)
LEMMA GetcStepKeeps ==
  ASSUME ReadInv, GetcStep
  PROVE  ReadInv'
<1>1. /\ AtWork /\ ~over /\ over \in BOOLEAN /\ call \in Callers /\ src \in Seq(Nat)
      /\ got \in Seq(Nat) /\ call.whole = got \o src /\ call.pc = "getc"
  BY DEF ReadInv, Typed, Taken, GetcStep
<1>2. /\ Owns(str) /\ 0 < str.mlen /\ Pos <= str.mlen /\ call.fn \in LineReaders
      /\ \A i \in 1..Len(got) : got[i] # call.term
      /\ Pos < str.mlen \/ (got = <<>> /\ call.fn = "bgetsa" /\ call.had = Pos)
  BY <1>1 DEF AtWork
<1>3. /\ call.start \in Nat /\ Len(got) \in Nat /\ Pos = call.start + Len(got)
      /\ Pos \in Nat
  <2>1. call.start \in Nat /\ Len(got) \in Nat
    BY <1>1, LenProperties DEF Callers
  <2>2. Pos = call.start + Len(got)
    BY DEF Pos
  <2> QED
    BY <2>1, <2>2
<1>4. CASE GetcEnds(str, Pos, TRUE) /\ UNCHANGED <<src, got>>
  <2>1. src' = src /\ got' = got
    BY <1>4
  <2>2. \A i \in 1 .. (Len(got') - 1) : got'[i] # call.term
    BY <1>2, <1>3, <2>1
  <2>3. /\ src' \in Seq(Nat) /\ got' \in Seq(Nat) /\ call.whole = got' \o src'
        /\ Pos = call.start + Len(got')
        /\ Pos < str.mlen \/ (got' = <<>> /\ call.fn = "bgetsa" /\ call.had = Pos)
    BY <1>1, <1>2, <1>3, <2>1
  <2> QED
    BY <1>1, <1>2, <1>4, <2>2, <2>3, GetcEndsKeeps
<1>5. ASSUME src # <<>>, src' = Tail(src), NEW g \in GetcRoom,
             g.ret = "ERR", GetcFails
      PROVE  ReadInv'
  BY <1>1, <1>5, GetcFailsKeeps
<1>6. ASSUME src # <<>>, src' = Tail(src), NEW g \in GetcRoom, g.ret = "OK",
             got' = Append(got, Head(src)), IsTerminator(Head(src)),
             GetcEnds(g.h, Pos + 1, FALSE)
      PROVE  ReadInv'
  <2>1. Owns(g.h) /\ Pos + 1 < g.h.mlen /\ g.h.mlen \in Int
    BY <1>2, <1>3, <1>6, GetcRoomFacts DEF Owns, Header
  <2>2. /\ Head(src) \in Nat /\ Tail(src) \in Seq(Nat)
        /\ call.whole = (got \o <<Head(src)>>) \o Tail(src)
    BY <1>1, <1>6, OneTaken
  <2>3. /\ got' \in Seq(Nat) /\ Len(got') = Len(got) + 1
        /\ got' = got \o <<Head(src)>> /\ got' # <<>>
        /\ \A i \in 1..Len(got) : got'[i] = got[i]
        /\ got'[Len(got) + 1] = Head(src)
    BY <1>1, <1>6, <2>2, OneMore
  <2>4. \A i \in 1 .. (Len(got') - 1) : got'[i] # call.term
    BY <1>2, <1>3, <2>3
  <2>5. got'[Len(got')] = call.term
    BY <1>6, <2>3 DEF IsTerminator
  <2>6. call.whole = got' \o src' /\ src' \in Seq(Nat)
    BY <1>6, <2>2, <2>3
  <2>7. /\ Pos + 1 = call.start + Len(got') /\ Pos + 1 <= g.h.mlen /\ 0 < g.h.mlen
    <3>1. Len(got') = Len(got) + 1
      BY <2>3
    <3> HIDE DEF Pos
    <3> QED
      BY <1>3, <2>1, <3>1, SMTT(30)
  <2> QED
    BY <1>1, <1>2, <1>6, <2>1, <2>3, <2>4, <2>5, <2>6, <2>7, GetcEndsKeeps
<1>7. ASSUME src # <<>>, src' = Tail(src), NEW g \in GetcRoom, g.ret = "OK",
             got' = Append(got, Head(src)), ~IsTerminator(Head(src)),
             str' = [g.h EXCEPT !.nul = @ /\ Pos # g.h.slen],
             over' = (Pos >= g.h.cap), UNCHANGED call
      PROVE  ReadInv'
  <2>1. Owns(g.h) /\ Pos + 1 < g.h.mlen
    BY <1>2, <1>3, <1>7, GetcRoomFacts
  <2>2. Head(src) # call.term
    BY <1>7 DEF IsTerminator
  <2> QED
    BY <1>1, <1>7, <2>1, <2>2, GetcStoresKeeps, Zenon
<1> QED
  BY <1>4, <1>5, <1>6, <1>7 DEF GetcStep

-----------------------------------------------------------------------------
(* The block readers. *)

(* A block for which there is room ends inside of the buffer. *)
LEMMA BlockRoomFacts ==
  ASSUME Owns(str), NEW n \in IntMin..IntMax, NEW g \in Balloc(str, CInt(n + 1))
  PROVE  /\ g.ret \in {"OK", "ERR"} /\ Owns(g.h) /\ g.h.slen = str.slen
         /\ g.ret = "OK" => 0 <= n /\ n < g.h.mlen /\ g.h.mlen <= g.h.cap
<1>1. IntMax \in Nat /\ 3 < IntMax /\ IntMin = -IntMax - 1 /\ n \in Int
  BY SizesAssumption DEF IntMin
<1>2. /\ CInt(n + 1) \in Int /\ CInt(n + 1) <= IntMax
      /\ CInt(n + 1) = n + 1 \/ CInt(n + 1) < 0
  BY <1>1 DEF CInt
<1>3. /\ g.ret \in {"OK", "ERR"} /\ Owns(g.h) /\ g.h.slen = str.slen
      /\ g.ret = "OK" => 0 < CInt(n + 1) /\ CInt(n + 1) <= g.h.mlen
  BY <1>2, BallocOwned
<1>4. g.h.mlen \in Int /\ g.h.mlen <= g.h.cap
  BY <1>3 DEF Owns, Header
<1> QED
  BY <1>1, <1>2, <1>3, <1>4

(* The end of the block after one that ended at n. *)
LEMMA NextBlockFacts ==
  ASSUME NEW n \in 0..IntMax
  PROVE  /\ NextBlock(n) \in IntMin..IntMax
         /\ 0 <= NextBlock(n) => n <= NextBlock(n)
<1>1. /\ n \in Nat /\ n <= IntMax /\ IntMax \in Nat
      /\ Smaller(n, BuffSz) \in Nat /\ Smaller(n, BuffSz) <= IntMax
  BY SizesAssumption, ReadAssumption DEF Smaller
<1>2. n + Smaller(n, BuffSz) \in Nat /\ n + Smaller(n, BuffSz) <= 2 * IntMax
  BY <1>1
<1> QED
  BY <1>1, <1>2, SumFacts DEF NextBlock

(* A block comes, whole or not. *)
LEMMA BlockStoredKeeps ==
  ASSUME ReadInv, call.pc = "block", NEW h, Owns(h),
         0 <= call.n, call.n < h.mlen, h.mlen <= h.cap,
         NEW l \in 0 .. Smaller(call.n - Pos, Len(src)),
         got' = Stored(SubSeq(src, 1, l)), src' = SubSeq(src, l + 1, Len(src)),
         IF Pos + l < call.n
         THEN /\ Terminate(h, Pos + l)
              /\ call' = [call EXCEPT !.pc = "idle", !.ended = (l = 0)]
         ELSE /\ str' = [h EXCEPT !.slen = Pos + l, !.nul = FALSE]
              /\ over' = (Pos + l > h.cap)
              /\ call' = [call EXCEPT !.n = NextBlock(@)]
  PROVE  ReadInv'
<1>1. /\ AtWork /\ ~over /\ over \in BOOLEAN /\ call \in Callers /\ src \in Seq(Nat)
      /\ got \in Seq(Nat) /\ call.whole = got \o src
  BY DEF ReadInv, Typed, Taken
<1>2. /\ call.start \in Nat /\ Len(got) \in Nat /\ Len(src) \in Nat
      /\ Pos = call.start + Len(got) /\ Pos \in Nat /\ call.n \in 0..IntMax
      /\ Pos <= call.n /\ call.fn \in {"breada", "bread"} /\ call.ret = "OK"
      /\ call.n \in Nat
  <2>1. call.start \in Nat /\ Len(got) \in Nat /\ Len(src) \in Nat
    BY <1>1, LenProperties DEF Callers
  <2>2. Pos = call.start + Len(got)
    BY DEF Pos
  <2>3. call.n \in Int /\ call.n <= IntMax
    BY <1>1, SizesAssumption DEF Callers, IntMin
  <2>4. call.fn \in {"breada", "bread"} /\ call.ret = "OK" /\ Pos <= call.n
    BY <1>1 DEF AtWork
  <2>5. Pos \in Nat
    BY <2>1, <2>2
  <2> HIDE DEF Pos
  <2> QED
    BY <2>1, <2>2, <2>3, <2>4, <2>5, SizesAssumption
<1>3. /\ h \in Header /\ h.mlen \in Int /\ h.cap \in Nat /\ h.cap <= MemMax
  BY DEF Owns, Header
<1>4. l \in 0..Len(src) /\ Pos + l <= call.n /\ l \in Nat
  BY <1>2 DEF Smaller
<1>5. /\ got' \in Seq(Nat) /\ src' \in Seq(Nat) /\ Len(got') = Len(got) + l
      /\ call.whole = got' \o src'
  BY <1>1, <1>4, BlockTaken DEF Stored
<1>6. ASSUME call'.start = call.start PROVE Pos' = Pos + l
  <2>1. Pos' = call.start + Len(got')
    BY <1>6 DEF Pos
  <2>2. Len(got') = Len(got) + l
    BY <1>5
  <2>3. Pos' = call.start + (Len(got) + l)
    BY <2>1, <2>2, Zenon
  <2> HIDE DEF Pos
  <2> QED
    BY <1>2, <1>4, <2>3
<1>7. CASE Pos + l < call.n
  <2>1. (l = 0) \in BOOLEAN
    OBVIOUS
  <2>2. PICK ended \in BOOLEAN :
          call' = [call EXCEPT !.pc = "idle", !.ended = ended]
    BY <1>7, <2>1, Zenon
  <2>3. /\ call' \in Callers /\ call'.pc = "idle" /\ call'.ret = "OK"
        /\ call'.fn = call.fn /\ call'.start = call.start
        /\ call'.whole = call.whole
    BY <1>1, <1>2, <2>2 DEF Callers
  <2>4. Terminate(h, Pos + l) /\ Pos + l \in Nat
    BY <1>2, <1>4, <1>7
  <2>5. /\ str' \in Header /\ str'.slen = Pos + l /\ str'.mlen = h.mlen
        /\ str'.cap = h.cap /\ (Pos + l < h.cap => str'.nul)
        /\ (over' <=> Pos + l >= h.cap) /\ over' \in BOOLEAN
    BY <1>3, <2>4, TerminateFacts
  <2>6. Pos + l < h.mlen /\ Pos + l < h.cap
    <3>1. Pos + l \in Int /\ call.n \in Int
      BY <1>2, <1>4
    <3> QED
      BY <1>3, <1>7, <3>1
  <2>7. ~over' /\ str'.nul
    BY <1>2, <1>3, <1>4, <2>5, <2>6
  <2>8. Pos' = Pos + l
    BY <1>6, <2>3
  <2>9. Typed' /\ Taken'
    BY <1>5, <2>3, <2>5 DEF Typed, Taken
  <2>10. LengthIsText'
    BY <1>2, <1>3, <1>4, <2>3, <2>5, <2>6, <2>7, <2>8 DEF LengthIsText
  <2>11. LineStopsAtTerminator' /\ OverrunOnlyWhenFull'
    BY <1>2, <2>3, <2>7 DEF LineStopsAtTerminator, OverrunOnlyWhenFull, LineReaders
  <2> QED
    BY <2>3, <2>7, <2>9, <2>10, <2>11 DEF ReadInv
<1>8. CASE ~(Pos + l < call.n)
  <2>1. Pos + l = call.n
    <3>1. \A a, b, c \in Nat : a + b <= c /\ ~(a + b < c) => a + b = c
      OBVIOUS
    <3>2. Pos \in Nat /\ l \in Nat /\ call.n \in Nat /\ Pos + l <= call.n
      BY <1>2, <1>4, Zenon
    <3> QED
      BY <1>8, <3>1, <3>2, Zenon
  <2>2. /\ NextBlock(call.n) \in IntMin..IntMax
        /\ 0 <= NextBlock(call.n) => call.n <= NextBlock(call.n)
    BY <1>2, NextBlockFacts
  <2>3. call' = [call EXCEPT !.n = NextBlock(@)]
    BY <1>8
  <2>4. /\ call' \in Callers /\ call'.pc = "block" /\ call'.ret = "OK"
        /\ call'.fn = call.fn /\ call'.start = call.start
        /\ call'.whole = call.whole /\ call'.n = NextBlock(call.n)
    BY <1>1, <1>2, <2>2, <2>3 DEF Callers
  <2>5. str' = [h EXCEPT !.slen = Pos + l, !.nul = FALSE]
    BY <1>8
  <2>6. /\ str' \in Header /\ str'.slen = Pos + l /\ str'.mlen = h.mlen
        /\ str'.cap = h.cap
    <3>1. Pos + l \in Int
      BY <1>2, <1>4
    <3> HIDE DEF Pos
    <3> QED
      BY <1>3, <2>5, <3>1 DEF Header
  <2>7. over' = FALSE
    <3>1. over' = (Pos + l > h.cap)
      BY <1>8
    <3>2. over' = (call.n > h.cap)
      BY <2>1, <3>1, Zenon
    <3>3. (call.n > h.cap) = FALSE
      BY <1>2, <1>3
    <3> QED
      BY <3>2, <3>3, Zenon
  <2>8. Pos' = Pos + l
    BY <1>6, <2>4
  <2>9. Typed' /\ Taken'
    <3>1. over' \in BOOLEAN
      BY <2>7, Zenon
    <3>2. /\ src' \in Seq(Nat) /\ got' \in Seq(Nat) /\ str' \in Header
          /\ call' \in Callers
      BY <1>5, <2>4, <2>6, Zenon
    <3>3. call'.whole = got' \o src'
      BY <1>5, <2>4, Zenon
    <3> QED
      BY <3>1, <3>2, <3>3, Zenon DEF Typed, Taken
  <2>10. AtWork'
    <3>1. Owns(str') /\ 0 < str'.mlen /\ call.n <= str'.mlen
      BY <1>2, <1>3, <2>6 DEF Owns
    <3>2. Pos' = call.n /\ str'.slen = call.n
      BY <2>1, <2>6, <2>8, Zenon
    <3>3. 0 <= call'.n => Pos' <= call'.n
      BY <2>2, <2>4, <3>2
    <3> QED
      BY <1>2, <2>4, <3>1, <3>2, <3>3 DEF AtWork
  <2>11. LengthIsText'
    BY <2>4 DEF LengthIsText, Idle
  <2>12. LineStopsAtTerminator' /\ OverrunOnlyWhenFull'
    BY <1>2, <2>4, <2>7 DEF LineStopsAtTerminator, OverrunOnlyWhenFull, LineReaders
  <2> QED
    BY <2>7, <2>9, <2>10, <2>11, <2>12 DEF ReadInv
<1> QED
  BY <1>7, <1>8

(* There is no room for the next block. *)
LEMMA BlockFailsKeeps ==
  ASSUME ReadInv, call.pc = "block", Return("ERR"), UNCHANGED <<src, got, over>>,
         str' = IF call.fn = "bread" THEN NoString ELSE str
  PROVE  ReadInv'
<1>1. /\ AtWork /\ ~over /\ over \in BOOLEAN /\ call \in Callers /\ src \in Seq(Nat)
      /\ got \in Seq(Nat) /\ call.whole = got \o src /\ str \in Header
  BY DEF ReadInv, Typed, Taken
<1>2. /\ Owns(str) /\ call.fn \in {"breada", "bread"} /\ str.slen = Pos
      /\ Pos <= str.mlen /\ str.mlen <= str.cap
  BY <1>1 DEF AtWork, Owns
<1>3. /\ call' \in Callers /\ call'.pc = "idle" /\ call'.ret = "ERR"
      /\ call'.fn = call.fn /\ call'.start = call.start
      /\ call'.whole = call.whole
  <2>1. call' = [call EXCEPT !.pc = "idle", !.ret = "ERR"]
    BY DEF Return
  <2> QED
    BY <1>1, <2>1 DEF Callers
<1>4. Pos' = Pos
  BY <1>3 DEF Pos
<1>5. str' = NoString \/ str' = str
  OBVIOUS
<1>6. Typed' /\ Taken'
  <2>1. NoString \in Header
    BY DEF NoString, Header
  <2> QED
    BY <1>1, <1>3, <1>5, <2>1 DEF Typed, Taken
<1>7. LengthIsText'
  BY <1>2, <1>3, <1>4, <1>5 DEF LengthIsText
<1>8. LineStopsAtTerminator' /\ OverrunOnlyWhenFull' /\ ~over'
  BY <1>1, <1>2, <1>3 DEF LineStopsAtTerminator, OverrunOnlyWhenFull, LineReaders
<1> QED
  BY <1>6, <1>3, <1>7, <1>8 DEF ReadInv

(* A block read by breada keeps the invariant, whatever part of it comes. *)
LEMMA BlockStepKeeps ==
  ASSUME ReadInv, BlockStep
  PROVE  ReadInv'
<1>1. AtWork /\ call \in Callers /\ call.pc = "block"
  BY DEF ReadInv, Typed, BlockStep
<1>2. Owns(str) /\ call.n \in IntMin..IntMax
  BY <1>1 DEF AtWork, Callers
<1>3. PICK g \in Balloc(str, CInt(call.n + 1)) :
        \/ /\ g.ret = "ERR"
           /\ str' = IF call.fn = "bread" THEN NoString ELSE str
           /\ Return("ERR")
           /\ UNCHANGED <<src, got, over>>
        \/ /\ g.ret = "OK"
           /\ \E l \in 0 .. Smaller(call.n - Pos, Len(src)) :
                /\ got' = Stored(SubSeq(src, 1, l))
                /\ src' = SubSeq(src, l + 1, Len(src))
                /\ IF Pos + l < call.n
                   THEN /\ Terminate(g.h, Pos + l)
                        /\ call' = [call EXCEPT !.pc = "idle", !.ended = (l = 0)]
                   ELSE /\ str' = [g.h EXCEPT !.slen = Pos + l, !.nul = FALSE]
                        /\ over' = (Pos + l > g.h.cap)
                        /\ call' = [call EXCEPT !.n = NextBlock(@)]
  BY DEF BlockStep
<1>4. CASE g.ret = "ERR"
  BY <1>1, <1>3, <1>4, BlockFailsKeeps
<1>5. CASE g.ret = "OK"
  <2>1. Owns(g.h) /\ 0 <= call.n /\ call.n < g.h.mlen /\ g.h.mlen <= g.h.cap
    BY <1>2, <1>5, BlockRoomFacts
  <2>2. PICK l \in 0 .. Smaller(call.n - Pos, Len(src)) :
          /\ got' = Stored(SubSeq(src, 1, l))
          /\ src' = SubSeq(src, l + 1, Len(src))
          /\ IF Pos + l < call.n
             THEN /\ Terminate(g.h, Pos + l)
                  /\ call' = [call EXCEPT !.pc = "idle", !.ended = (l = 0)]
             ELSE /\ str' = [g.h EXCEPT !.slen = Pos + l, !.nul = FALSE]
                  /\ over' = (Pos + l > g.h.cap)
                  /\ call' = [call EXCEPT !.n = NextBlock(@)]
    BY <1>3, <1>5
  <2> QED
    BY <1>1, <2>1, <2>2, BlockStoredKeeps, Zenon
<1> QED
  BY <1>3, <1>4, <1>5

-----------------------------------------------------------------------------
(* The specification. *)

(* At first nothing has been read. *)
LEMMA InitReadInv == Init => ReadInv
<1> SUFFICES ASSUME Init PROVE ReadInv
  OBVIOUS
<1>1. /\ src = Input /\ str = NoString /\ got = <<>> /\ over = FALSE
      /\ Input \in Seq(Nat) /\ <<>> \in Seq(Nat) /\ <<>> \o Input = Input
      /\ call = [pc |-> "idle", fn |-> "none", term |-> 0, start |-> 0, n |-> 0,
                 had |-> 0, ret |-> "OK", whole |-> Input, ended |-> FALSE]
  BY ReadAssumption, TextFacts DEF Init
<1>2. /\ call \in Callers /\ call.pc = "idle" /\ call.fn = "none"
      /\ call.whole = Input
  BY <1>1, SizesAssumption DEF Callers, IntMin
<1>3. NoString \in Header
  BY DEF NoString, Header
<1> QED
  BY <1>1, <1>2, <1>3
     DEF ReadInv, Typed, Taken, LengthIsText, LineStopsAtTerminator,
         OverrunOnlyWhenFull, LineReaders

(* Every step of a reader, and every new call, keeps the invariant. *)
LEMMA NextReadInv == ReadInv /\ [Next]_vars => ReadInv'
<1> SUFFICES ASSUME ReadInv, [Next]_vars PROVE ReadInv'
  OBVIOUS
<1>1. CASE Bgetsa
  <2>1. PICK h \in Dests, t \in Terms : Begin("getc", "bgetsa", t, h, h.slen)
    BY <1>1 DEF Bgetsa
  <2>2. Idle /\ h.slen \in 0..IntMax /\ h.slen <= h.slen /\ t \in Nat
    BY <1>1, DestsAssumption, ReadAssumption, SizesAssumption DEF Bgetsa, Header
  <2> QED
    BY <2>1, <2>2, BeginKeeps DEF LineReaders
<1>2. CASE Bassigngets
  <2>1. PICK h \in Dests, t \in Terms : Begin("getc", "bassigngets", t, h, 0)
    BY <1>2 DEF Bassigngets
  <2>2. Idle /\ 0 \in 0..IntMax /\ 0 <= h.slen /\ t \in Nat
    BY <1>2, DestsAssumption, ReadAssumption, SizesAssumption DEF Bassigngets, Header
  <2> QED
    BY <2>1, <2>2, BeginKeeps DEF LineReaders
<1>3. CASE Bgets
  <2>1. PICK t \in Terms, g \in Bfromcstr(0) : Begin("getc", "bgets", t, g.h, 0)
    BY <1>3 DEF Bgets
  <2>2. Idle /\ 0 \in 0..IntMax /\ (Writable(g.h) => 0 <= g.h.slen) /\ t \in Nat
    BY <1>3, ReadAssumption, SizesAssumption DEF Bgets, Writable
  <2> QED
    BY <2>1, <2>2, BeginKeeps DEF LineReaders
<1>4. CASE Breada
  <2>1. PICK h \in Dests : Begin("block", "breada", 0, h, h.slen)
    BY <1>4 DEF Breada
  <2>2. Idle /\ h.slen \in 0..IntMax /\ h.slen <= h.slen /\ 0 \in Nat
    BY <1>4, DestsAssumption, SizesAssumption DEF Breada, Header
  <2> QED
    BY <2>1, <2>2, BeginKeeps
<1>5. CASE Bread
  <2>1. PICK g \in Bfromcstr(0) : Begin("block", "bread", 0, g.h, 0)
    BY <1>5 DEF Bread
  <2>2. /\ Idle /\ 0 \in 0..IntMax /\ 0 \in Nat
        /\ Writable(g.h) => 0 <= g.h.slen /\ 0 = g.h.slen
    <3>1. g.ret = "OK" => g.h.slen = 0
      BY BfromcstrOutcome
    <3>2. g.ret = "ERR" => ~Writable(g.h)
      BY BfromcstrOutcome DEF Writable, NoString
    <3>3. g.ret \in {"OK", "ERR"}
      BY BfromcstrOutcome
    <3> QED
      BY <1>5, <3>1, <3>2, <3>3, SizesAssumption DEF Bread
  <2> QED
    BY <2>1, <2>2, BeginKeeps
<1>6. CASE Steps
  BY <1>6, GetcStepKeeps, BlockStepKeeps DEF Steps
<1>7. CASE UNCHANGED vars
  <2>1. ReadInv
    OBVIOUS
  <2> QED
    BY <1>7, <2>1 DEF vars, ReadInv, Typed, Taken, AtWork, LengthIsText,
       LineStopsAtTerminator, OverrunOnlyWhenFull, Idle, Pos
<1> QED
  BY <1>1, <1>2, <1>3, <1>4, <1>5, <1>6, <1>7 DEF Next, Undefined

(* The invariant of the readers holds throughout. *)
LEMMA SpecReadInv == Spec => []ReadInv
BY InitReadInv, NextReadInv, PTL DEF Spec

(* Whatever the core stream answers and the allocator refuses, slen of     *)
(* what a reader leaves covers the text (bgetsa, bassigngets, bgets,       *)
(* breada, bread), and only bgetsa, given a full buffer and nothing to     *)
(* append, writes outside of it.                                           *)
THEOREM ReadersAreSound == Spec => []ReadSound
<1>1. ReadInv => ReadSound
  BY DEF ReadInv, ReadSound, Typed, TypeOK, Callers
<1> QED
  BY <1>1, SpecReadInv, PTL

(* A reader stores what it takes from the core stream, in order, but for   *)
(* one character that a line read drops when it has no memory for it, and  *)
(* takes nothing after the terminator.                                     *)
THEOREM ReadersAreExact == Spec => []ReadIsExact
<1>1. ASSUME ReadInv PROVE NothingLostButOne
  <2>1. call.whole \in Seq(Nat) /\ got \in Seq(Nat) /\ src \in Seq(Nat) /\ Taken
    BY <1>1 DEF ReadInv, Typed, Callers
  <2>2. Len(call.whole) \in Nat /\ Len(got) \in Nat /\ Len(src) \in Nat
    BY <2>1, LenProperties
  <2>3. CASE call.whole = got \o src
    <3>1. /\ Len(call.whole) = Len(got) + Len(src)
          /\ SubSeq(call.whole, 1, Len(got)) = got
          /\ SubSeq(call.whole, Len(got) + 1, Len(call.whole)) = src
      BY <2>1, <2>3, CutOfConcat, TextFacts
    <3>2. /\ Len(call.whole) - Len(got) - Len(src) = 0
          /\ Len(got) + 0 + 1 = Len(got) + 1
      BY <2>2, <3>1
    <3> QED
      BY <3>1, <3>2 DEF NothingLostButOne
  <2>4. ASSUME call.ret = "ERR", call.fn \in LineReaders,
               NEW c \in Nat, call.whole = (got \o <<c>>) \o src
        PROVE  NothingLostButOne
    <3>1. <<c>> \in Seq(Nat) /\ Len(<<c>>) = 1
      OBVIOUS
    <3>2. /\ got \o <<c>> \in Seq(Nat) /\ Len(got \o <<c>>) = Len(got) + 1
          /\ <<c>> \o src \in Seq(Nat) /\ call.whole = got \o (<<c>> \o src)
          /\ Len(call.whole) = Len(got) + 1 + Len(src)
      BY <2>1, <2>4, <3>1, TextFacts
    <3>3. SubSeq(call.whole, 1, Len(got)) = got
      BY <2>1, <3>2, CutOfConcat
    <3>4. SubSeq(call.whole, Len(got) + 1 + 1, Len(call.whole)) = src
      BY <2>1, <2>4, <3>2, CutOfConcat
    <3>5. Len(call.whole) - Len(got) - Len(src) = 1
      BY <2>2, <3>2
    <3> QED
      BY <2>4, <3>3, <3>4, <3>5 DEF NothingLostButOne
  <2> QED
    BY <2>1, <2>3, <2>4 DEF Taken
<1>2. ReadInv => ReadIsExact
  BY <1>1 DEF ReadInv, ReadIsExact
<1> QED
  BY <1>2, SpecReadInv, PTL

=============================================================================

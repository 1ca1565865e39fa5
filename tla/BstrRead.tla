------------------------------ MODULE BstrRead ------------------------------
(***************************************************************************)
(* The unbuffered readers of bstring/bstrlib.c: bgetsa, bassigngets and    *)
(* bgets (bgetstream) take a line character by character from a caller's   *)
(* fgetc-like function, breada and bread a whole stream by blocks from an  *)
(* fread-like one.  An action is what the code does from one call of the   *)
(* caller's function to the next.                                          *)
(***************************************************************************)
EXTENDS BstrMutators, Sequences

CONSTANTS
  Input,      \* what the core stream holds
  Terms,      \* the terminators given to a line read
  Dests,      \* the headers of the destinations
  ReadStart,  \* the first block asked for, 16 in the source
  BuffSz      \* BS_BUFF_SZ, 1024 in the source

ASSUME ReadAssumption ==
  /\ Input \in Seq(Nat) /\ Terms \subseteq Nat
  /\ ReadStart \in 1..IntMax /\ BuffSz \in 1..IntMax

(* A destination is a string as the library's calls leave it.              *)
ASSUME DestsAssumption ==
  \A h \in Dests :
    /\ h \in Header /\ 0 <= h.slen /\ h.slen <= h.cap /\ h.cap <= MemMax
    /\ h.mlen <= h.cap /\ (h.mlen > 0 => h.slen <= h.mlen)

VARIABLES
  src,   \* what the core stream has not handed out
  str,   \* the header of the destination
  got,   \* the characters stored since the call began
  over,  \* whether the call wrote outside of the buffer
  call   \* the call in progress, or the last one

vars == <<src, str, got, over, call>>

-----------------------------------------------------------------------------
Init ==
  /\ src = Input
  /\ str = NoString
  /\ got = <<>>
  /\ over = FALSE
  /\ call = [pc |-> "idle", fn |-> "none", term |-> 0, start |-> 0, n |-> 0,
             had |-> 0, ret |-> "OK", whole |-> Input, ended |-> FALSE]

Idle == call.pc = "idle" /\ ~over

NewCall(pc, fn, term, h, start) ==
  [pc |-> pc, fn |-> fn, term |-> term, start |-> start,
   n |-> CInt(start + ReadStart), had |-> h.slen,
   ret |-> "OK", whole |-> src, ended |-> FALSE]

(* The call returns ret. *)
Return(ret) == call' = [call EXCEPT !.pc = "idle", !.ret = ret]

(* The position of the next character, the local i or d of the code. *)
Pos == call.start + Len(got)

(* A '\0' is stored at position p, and slen set to it. *)
Terminate(h, p) ==
  /\ str' = [h EXCEPT !.slen = p, !.nul = p < h.cap]
  /\ over' = (p >= h.cap)

(* The call begins, or refuses a destination it may not write to. *)
Begin(pc, fn, term, h, start) ==
  /\ call' = [NewCall(pc, fn, term, h, start) EXCEPT
               !.pc = IF Writable(h) THEN pc ELSE "idle",
               !.ret = IF Writable(h) THEN "OK" ELSE "ERR"]
  /\ str' = h
  /\ got' = <<>>
  /\ UNCHANGED <<src, over>>

-----------------------------------------------------------------------------
(* The line readers. *)

Bgetsa ==
  Idle /\ \E h \in Dests, t \in Terms : Begin("getc", "bgetsa", t, h, h.slen)

Bassigngets ==
  Idle /\ \E h \in Dests, t \in Terms : Begin("getc", "bassigngets", t, h, 0)

(* bgets reads into a string of its own. *)
Bgets ==
  Idle /\ \E t \in Terms, g \in Bfromcstr(0) : Begin("getc", "bgets", t, g.h, 0)

(* Room for the character and its terminator; slen is brought up to date   *)
(* only when there is none.                                                *)
GetcRoom ==
  IF Pos > str.mlen - 2 THEN Balloc([str EXCEPT !.slen = Pos], CInt(Pos + 2))
  ELSE {Fine(str)}

IsTerminator(c) == c = call.term

(* The result is 1, here "EMPTY", when nothing is there and nothing came.  *)
(* bgets drops a string that is empty.                                     *)
GetcEnds(h, p, ended) ==
  /\ IF call.fn = "bgets" /\ p = 0
     THEN str' = NoString /\ UNCHANGED over
     ELSE Terminate(h, p)
  /\ call' = [call EXCEPT !.pc = "idle", !.ended = ended,
                          !.ret = IF p = 0 /\ ended THEN "EMPTY" ELSE "OK"]

(* Mutant: slen is left at what it was before the call. *)
GetcFailsEarlier ==
  /\ str' = IF call.fn = "bgets" THEN NoString ELSE [str EXCEPT !.slen = call.had]
  /\ Return("ERR")
  /\ UNCHANGED <<got, over>>

(* Memory is refused: the character just taken is dropped, slen covers     *)
(* what is there, without a terminator; bgets drops it all.                *)
GetcFails ==
  /\ str' = IF call.fn = "bgets" THEN NoString
            ELSE [str EXCEPT !.slen = Pos, !.nul = @ /\ Pos = str.slen]
  /\ Return("ERR")
  /\ UNCHANGED <<got, over>>

(* A character, or a negative result, which may come before the end. *)
GetcStep ==
  /\ call.pc = "getc"
  /\ \/ /\ GetcEnds(str, Pos, TRUE)
        /\ UNCHANGED <<src, got>>
     \/ /\ src # <<>>
        /\ src' = Tail(src)
        /\ \E g \in GetcRoom :
             \/ g.ret = "ERR" /\ GetcFails
             \/ /\ g.ret = "OK"
                /\ got' = Append(got, Head(src))
                /\ IF IsTerminator(Head(src)) THEN GetcEnds(g.h, Pos + 1, FALSE)
                   ELSE /\ str' = [g.h EXCEPT !.nul = @ /\ Pos # g.h.slen]
                        /\ over' = (Pos >= g.h.cap)
                        /\ UNCHANGED call

-----------------------------------------------------------------------------
(* The block readers. *)

Breada == Idle /\ \E h \in Dests : Begin("block", "breada", 0, h, h.slen)

Bread == Idle /\ \E g \in Bfromcstr(0) : Begin("block", "bread", 0, g.h, 0)

(* Mutant: the end of the next block is that of the last one. *)
NextBlockStuck(n) == n

(* The end of the next block. *)
NextBlock(n) == CInt(n + Smaller(n, BuffSz))

(* Mutant: a block that came whole is not appended but replaced. *)
StoredLast(t) == t

(* Where a block goes: after those before it. *)
Stored(t) == got \o t

(***************************************************************************)
(* Room for the block is made, then it is asked for.  A block that does    *)
(* not come whole is the last.  slen follows each block; the terminator    *)
(* comes with the last.                                                    *)
(***************************************************************************)
BlockStep ==
  /\ call.pc = "block"
  /\ \E g \in Balloc(str, CInt(call.n + 1)) :
       \/ /\ g.ret = "ERR"
          /\ str' = IF call.fn = "bread" THEN NoString ELSE str
          /\ Return("ERR")
          /\ UNCHANGED <<src, got, over>>
       \/ /\ g.ret = "OK"
          /\ \E l \in 0 .. Smaller(call.n - Pos, Len(src)) :
               /\ got' = Stored(SubSeq(src, 1, l))
               /\ src' = SubSeq(src, l + 1, Len(src))
               /\ IF Pos + l < call.n
                  THEN /\ Terminate(g.h, Pos + l)
                       /\ call' = [call EXCEPT !.pc = "idle", !.ended = (l = 0)]
                  ELSE /\ str' = [g.h EXCEPT !.slen = Pos + l, !.nul = FALSE]
                       /\ over' = (Pos + l > g.h.cap)
                       /\ call' = [call EXCEPT !.n = NextBlock(@)]

Steps == ~over /\ (GetcStep \/ BlockStep)

(* Nothing is known of the program after a write outside of the buffer. *)
Undefined == over /\ UNCHANGED vars

Next == Bgetsa \/ Bassigngets \/ Bgets \/ Breada \/ Bread \/ Steps \/ Undefined

Spec == Init /\ [][Next]_vars

(* The loops go on, and the caller's function is assumed to return. *)
FairSpec == Spec /\ WF_vars(Steps)

-----------------------------------------------------------------------------
(* Properties. *)

LineReaders == {"bgetsa", "bassigngets", "bgets"}

(* Every variable has its type. *)
TypeOK ==
  /\ src \in Seq(Nat) /\ got \in Seq(Nat)
  /\ str \in Header /\ over \in BOOLEAN
  /\ call.pc \in {"idle", "getc", "block"}
  /\ call.ret \in {"OK", "ERR", "EMPTY"}
  /\ call.n \in IntMin..IntMax /\ call.had \in -1..IntMax

(***************************************************************************)
(* What the call took from the core stream it stored, in order.  One that  *)
(* fails for want of memory has lost at most the one character it held,    *)
(* and only when it reads by characters.                                   *)
(***************************************************************************)
NothingLostButOne ==
  LET lost == Len(call.whole) - Len(got) - Len(src)
  IN  /\ lost \in 0..1
      /\ got = SubSeq(call.whole, 1, Len(got))
      /\ src = SubSeq(call.whole, Len(got) + lost + 1, Len(call.whole))
      /\ lost = 1 => call.ret = "ERR" /\ call.fn \in LineReaders

(***************************************************************************)
(* slen covers exactly what was there before (or nothing, for an           *)
(* assignment) and what was stored, and the terminator follows, unless the *)
(* call failed: then slen is as far as the text goes all the same.         *)
(***************************************************************************)
LengthIsText ==
  Idle /\ call.fn # "none" /\ str # NoString /\ str.mlen > 0 =>
    /\ str.slen <= str.mlen /\ str.mlen <= str.cap
    /\ call.ret # "ERR" => str.slen = Pos /\ str.nul
    /\ call.ret = "ERR" /\ got # <<>> => str.slen = Pos

(***************************************************************************)
(* A line read takes nothing from the core stream after its terminator,    *)
(* and a line without one is followed by the end of the stream or by an    *)
(* error.                                                                  *)
(***************************************************************************)
LineStopsAtTerminator ==
  call.fn \in LineReaders =>
    /\ \A i \in 1 .. (Len(got) - 1) : got[i] # call.term
    /\ Idle /\ call.ret = "OK" =>
         call.ended \/ (got # <<>> /\ got[Len(got)] = call.term)

(* A reader writes outside of the buffer only when bgetsa is given a text  *)
(* that fills its buffer and there is nothing to append.                   *)
OverrunOnlyWhenFull ==
  over => call.fn = "bgetsa" /\ got = <<>> /\ call.had = str.cap

(* The string is sound, as long as and no longer than what was read. *)
ReadSound == TypeOK /\ LengthIsText /\ OverrunOnlyWhenFull

(* A reader stores what it takes, and takes as far as it was told to. *)
ReadIsExact == NothingLostButOne /\ LineStopsAtTerminator

(* Every call returns, whatever is answered to it. *)
CallReturns == (call.pc # "idle" /\ ~over) ~> (call.pc = "idle")

=============================================================================

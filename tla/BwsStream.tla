------------------------------ MODULE BwsStream ------------------------------
(***************************************************************************)
(* bwriteStream, the write-behind layer over a caller's fwrite-like        *)
(* function (bstring/bstraux.c): bwsOpen, bwsWriteBstr, bwsWriteBlk,       *)
(* bwsWriteFlush, bwsBuffLength and bwsClose.                              *)
(*                                                                         *)
(* A call runs nothing of the caller's but the sink, which cannot reach    *)
(* the stream: an operation is one action, with an outcome for each answer *)
(* of the sink and of the allocator.  Sizes follow BstrMutators.           *)
(***************************************************************************)
EXTENDS BstrMutators, Sequences

CONSTANTS
  MinBuff,   \* BWS_BUFF_SZ, BUFSIZ in the source
  Sizes,     \* the sizes given to bwsBuffLength
  Lengths,   \* the lengths of the texts written
  GivenMax   \* bound: no write that makes the texts longer than this

ASSUME BwsAssumption ==
  /\ MinBuff \in 1..IntMax
  /\ Sizes \subseteq IntMin..IntMax
  /\ Lengths \subseteq Nat
  /\ GivenMax \in Nat

VARIABLES
  ws,     \* the stream: its buffer (held, mlen), isEOF, minBuffSz, and of
          \* the last call what it returned and the requests it made
  sunk,   \* what the sink has accepted
  given   \* every text that was given to a write, one after another

vars == <<ws, sunk, given>>

-----------------------------------------------------------------------------
First(s, k) == SubSeq(s, 1, k)

After(s, k) == SubSeq(s, k + 1, Len(s))

(***************************************************************************)
(* An outcome: the stream and what the sink got from the call so far.      *)
(***************************************************************************)
Outcome(w, out) == [w |-> w, out |-> out]

Begun == Outcome([ws EXCEPT !.ret = "OK", !.asked = <<>>, !.fn = "other"], <<>>)

Err(o) == [o EXCEPT !.w.ret = "ERR"]

(* What follows in the code when a step of it did not return. *)
Then(outcomes, Step(_)) ==
  UNION {IF o.w.ret = "OK" THEN Step(o) ELSE {o} : o \in outcomes}

BuffHeader(w) ==
  [slen |-> Len(w.held), mlen |-> w.mlen, cap |-> w.mlen, nul |-> TRUE]

(* The buffer gets the text t where g is the outcome for its header. *)
Buffered(o, t, g) ==
  IF g.ret = "OK" THEN [o EXCEPT !.w.held = t, !.w.mlen = g.h.mlen] ELSE Err(o)

(***************************************************************************)
(* internal_bwswriteout: the sink is asked to take t, unless it is empty.  *)
(* One that does not may have taken any part of it.                        *)
(***************************************************************************)
Writeout(o, t) ==
  LET asks == [o EXCEPT !.w.asked = Append(@, Len(t))]
  IN  IF t = <<>> THEN {o}
      ELSE {[asks EXCEPT !.out = @ \o t]}
           \cup {[asks EXCEPT !.w.isEOF = TRUE, !.w.ret = "ERR",
                              !.out = @ \o First(t, k)] : k \in 0..Len(t)}

(* Mutant: the buffer is given back once it is written. *)
EmptyTrims(o) ==
  Then(Writeout(o, o.w.held),
       LAMBDA x : {[x EXCEPT !.w.held = <<>>, !.w.mlen = 1]})

(* Mutant: what was written stays in the buffer. *)
EmptyKeeps(o) == Writeout(o, o.w.held)

(* The buffer is written out and emptied. *)
Empty(o) ==
  Then(Writeout(o, o.w.held), LAMBDA x : {[x EXCEPT !.w.held = <<>>]})

Concat(o, t) ==
  {Buffered(o, o.w.held \o t, g) : g \in Bconcat(BuffHeader(o.w), Len(t), FALSE)}

Catblk(o, t) ==
  {Buffered(o, o.w.held \o t, g) : g \in Bcatblk(BuffHeader(o.w), Len(t))}

Assign(o, t) == {Buffered(o, t, g) : g \in Bassign(BuffHeader(o.w), Len(t))}

(* What is left of a text once the buffer is full and written: directly to *)
(* the sink if it would fill the buffer again, else into the buffer.       *)
Rest(o, t) == IF Len(t) >= o.w.min THEN Writeout(o, t) ELSE Assign(o, t)

(* Mutant: a text that fills the buffer exactly is left in it. *)
FillLazy(o, t) ==
  LET l == o.w.min - Len(o.w.held)
  IN  IF Len(t) <= l THEN Concat(o, t)
      ELSE Then(Then(Catblk(o, First(t, l)), Empty),
                LAMBDA x : Rest(x, After(t, l)))

(* The text goes into the buffer, which has room for l more characters     *)
(* before it is written.                                                   *)
Fill(o, t) ==
  LET l == o.w.min - Len(o.w.held)
  IN  IF Len(t) < l THEN Concat(o, t)
      ELSE Then(Then(Catblk(o, First(t, l)), Empty),
                LAMBDA x : Rest(x, After(t, l)))

(* A buffer longer than its size (which may have been changed) is written  *)
(* first.                                                                  *)
Unpacked(o, t) ==
  IF Len(o.w.held) > o.w.min THEN Then(Empty(o), LAMBDA x : Fill(x, t))
  ELSE Fill(o, t)

(* A text that fits the memory of the buffer is put into it at once, and   *)
(* the rest of the code runs with an empty one.                            *)
Write(o, t) ==
  IF t # <<>> /\ o.w.mlen - Len(o.w.held) > Len(t)
  THEN Then(Concat(o, t), LAMBDA x : Unpacked(x, <<>>))
  ELSE Unpacked(o, t)

-----------------------------------------------------------------------------
Closed == [open |-> FALSE, held |-> <<>>, mlen |-> -1, isEOF |-> FALSE,
           min |-> -1, ret |-> "OK", asked |-> <<>>, fn |-> "none"]

Init == ws = Closed /\ sunk = <<>> /\ given = <<>>

(* bwsOpen: without a buffer there is no stream.  One stream is opened. *)
BwsOpen ==
  /\ ~ws.open /\ ws.fn = "none"
  /\ \E g \in Bfromcstr(0) :
       ws' = IF g.ret = "OK"
             THEN [Closed EXCEPT !.open = TRUE, !.mlen = g.h.mlen, !.min = MinBuff,
                                 !.fn = "other"]
             ELSE Closed
  /\ UNCHANGED <<sunk, given>>

Ends(o) == ws' = o.w /\ sunk' = sunk \o o.out

(* The texts are numbered through: the next of length n. *)
Text(n) == [i \in 1..n |-> Len(given) + i]

(* bwsWriteBstr, and bwsWriteBlk, which wraps a block as a bstring. *)
BwsWriteBstr ==
  /\ ws.open
  /\ \E n \in Lengths :
       /\ Len(given) + n <= GivenMax
       /\ LET b == [Begun EXCEPT !.w.fn = "write"]
          IN  \E o \in IF ws.isEOF THEN {Err(b)} ELSE Write(b, Text(n)) : Ends(o)
       /\ given' = given \o Text(n)

BwsWriteFlush ==
  /\ ws.open
  /\ \E o \in IF ws.isEOF THEN {Err(Begun)} ELSE Empty(Begun) : Ends(o)
  /\ UNCHANGED given

BwsBuffLength ==
  /\ ws.open
  /\ \E sz \in Sizes :
       ws' = IF sz < 0 THEN Err(Begun).w
             ELSE [Begun.w EXCEPT !.min = IF sz > 0 THEN sz ELSE @]
  /\ UNCHANGED <<sunk, given>>

(* bwsClose flushes and does not look whether that worked. *)
BwsClose ==
  /\ ws.open
  /\ \E o \in IF ws.isEOF THEN {Begun} ELSE Empty(Begun) :
       /\ sunk' = sunk \o o.out
       /\ ws' = [Closed EXCEPT !.isEOF = o.w.isEOF, !.asked = o.w.asked,
                             !.fn = "other"]
  /\ UNCHANGED given

Next == BwsOpen \/ BwsWriteBstr \/ BwsWriteFlush \/ BwsBuffLength \/ BwsClose

Spec == Init /\ [][Next]_vars

-----------------------------------------------------------------------------
(* Properties. *)

Writes == ws'.fn = "write"

(* Every variable has its type. *)
TypeOK ==
  /\ ws.open \in BOOLEAN /\ ws.isEOF \in BOOLEAN
  /\ ws.held \in Seq(Nat) /\ ws.mlen \in -1..MemMax
  /\ ws.min \in IF ws.open THEN 1..IntMax ELSE {-1}
  /\ ws.ret \in {"OK", "ERR"} /\ ws.asked \in Seq(Nat)
  /\ sunk \in Seq(Nat) /\ given \in Seq(Nat)

(* The stream is a pipe: what was given comes out in order and once, until *)
(* the sink refuses some; what it then held never comes out.               *)
Contract ==
  INSTANCE PipeContract
    WITH pending <- (IF ws.isEOF THEN <<>> ELSE ws.held),
         broken <- ws.isEOF, ok <- (ws.ret = "OK")

IsAPipe == Contract!Spec

(***************************************************************************)
(* The buffer is a write-behind of fewer than minBuffSz characters: this   *)
(* is what a write that succeeds leaves, whichever of its paths it took    *)
(* and however the size was changed before.                                *)
(***************************************************************************)
HeldUnderMinimum ==
  ws.fn = "write" /\ ws.ret = "OK" => Len(ws.held) < ws.min

(* A write never bothers the sink with less than minBuffSz characters. *)
RequestsAreFull ==
  ws.fn = "write" => \A i \in DOMAIN ws.asked : ws.asked[i] >= ws.min

(* What the buffering is for: little is held, and the sink is asked seldom. *)
BufferSound == TypeOK /\ HeldUnderMinimum /\ RequestsAreFull

(***************************************************************************)
(* A write that fails for want of memory has taken nothing of its text, or *)
(* all of it, never a part: the steps behind the point where its beginning *)
(* has gone to the sink do not need memory.  (All of it: bconcat of the    *)
(* empty string, which the prepacking ends with, asks for room again.)     *)
(***************************************************************************)
RefusedTakesAllOrNothing ==
  [][Writes /\ ws'.ret = "ERR" /\ ~ws'.isEOF
       => sunk' \o ws'.held \in {sunk \o ws.held,
                                 sunk \o ws.held \o After(given', Len(given))}]_vars

=============================================================================

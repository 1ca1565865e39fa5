-------------------------- MODULE BstrHeaderProofs --------------------------
(***************************************************************************)
(* The safety of one bstring for every size of int, of memory and of the   *)
(* arguments.                                                              *)
(*                                                                         *)
(* Each call is shown to be lawful: what it may do to the header it is     *)
(* given, one conjunct for each property of BstrHeader.  The lawfulness of *)
(* all calls gives the inductive invariant (a type, and soundness of the   *)
(* header of a string that has not been overrun) and the action            *)
(* properties.                                                             *)
(***************************************************************************)
EXTENDS BstrHeader, BstrLemmas

(* The outcome of a call has its type. *)
Typed(o) ==
  /\ o.h \in Header
  /\ o.ret \in {"OK", "ERR"}
  /\ o.extent \in Int
  /\ o.heap \in Heap

(* The call wrote inside of the buffer it leaves. *)
Fits(o) == o.extent <= o.h.cap

(* The buffer it leaves has no byte more than was asked for. *)
Exact(o) == o.heap = "tight" \/ SnapUpSize(o.h.cap) = o.h.cap

(* The circumstances of OverrunNeedsNamedCause. *)
Cause(op, wide, h, o) ==
  \/ wide
  \/ op \in ExactCallers /\ Exact(o)
  \/ op \in FullCallers /\ h.slen = h.mlen

(* A full buffer whose size is a power of two at least doubles.            *)
Doubled(h, o) ==
  /\ h # NoString /\ h.mlen = h.cap /\ h.cap \in PowersOfTwo
  /\ o.heap = "snap" /\ 2 * h.cap <= IntMax
  => 2 * h.cap <= o.h.cap

(* A buffer that grew has at most twice the size the text needs.           *)
Bounded(op, h, o) ==
  o.h.cap > h.cap /\ o.ret = "OK" /\ Fits(o) /\ op \notin SizedCallers
  => o.h.cap <= Larger(SnapMin, 2 * (o.h.slen + 1))

(* The growth of the buffer in the call op. *)
Growing(op, h, o) == Bounded(op, h, o) /\ Doubled(h, o)

(* What the call op may do to the header h: o is its outcome.  The         *)
(* conjuncts are a type, WellFormed, and the action properties of          *)
(* BstrHeader.                                                             *)
Lawful(op, wide, h, o) ==
  /\ Typed(o)
  /\ Fits(o) => Sound(o.h)
  /\ ~Fits(o) => Cause(op, wide, h, o)
  /\ h.nul /\ ~o.h.nul /\ Fits(o) /\ o.h # NoString => o.ret = "ERR"
  /\ o.ret = "ERR" /\ Fits(o) =>
       \/ o.h.slen = h.slen /\ (h.nul => o.h.nul)
       \/ op \in PartialCallers /\ o.h.slen = h.mlen
  /\ h # NoString /\ h.mlen <= 0 /\ o.h # h => op = "bwriteallow"
  /\ Growing(op, h, o)

-----------------------------------------------------------------------------
(* Intact headers, and the pattern of the mutators.  (What is true of int  *)
(* arithmetic, the sizes and balloc is in BstrLemmas.)                     *)

(***************************************************************************)
(* The header of a string that exists, when it is sound.                   *)
(***************************************************************************)
Intact(h) == h \in Header /\ h # NoString /\ Sound(h)

(* The numbers of an intact header.                                        *)
LEMMA IntactFacts ==
  ASSUME NEW h, Intact(h)
  PROVE  /\ h \in Header
         /\ h.slen \in Int /\ h.mlen \in Int /\ h.cap \in Int
         /\ h.nul \in BOOLEAN
         /\ 0 <= h.slen /\ h.slen <= h.cap /\ 0 < h.cap
         /\ h.cap <= MemMax /\ MemMax \in Int /\ MemMax <= IntMax
         /\ h.slen <= IntMax /\ h.mlen <= IntMax /\ IntMax \in Int /\ IntMax > 3
         /\ h.mlen = -1 \/ (h.slen <= h.mlen /\ 0 < h.mlen /\ h.mlen <= h.cap)
         /\ h.nul => h.slen < h.cap
BY SizesAssumption DEF Intact, Sound, Header, NoString

(* The buffer kept its size, and the allocator was not asked for it: no    *)
(* growth there is.                                                        *)
LEMMA KeptGrows ==
  ASSUME NEW op, NEW h, NEW o, h.cap \in Int, o.h.cap = h.cap, o.heap # "snap"
  PROVE  Growing(op, h, o)
BY DEF Growing, Bounded, Doubled

(***************************************************************************)
(* How balloc makes a buffer grow: to at most twice the request, or to the *)
(* smallest size; and where it snaps the request, to at least twice every  *)
(* power of two that the buffer had.                                       *)
(***************************************************************************)
LEMMA BallocGrows ==
  ASSUME NEW h \in Header, NEW olen \in Int, olen <= IntMax,
         NEW g \in Balloc(h, olen)
  PROVE  /\ g.h.cap \in Int
         /\ g.h.cap <= h.cap \/ (0 < olen /\ g.h.cap <= Larger(SnapMin, 2 * olen))
         /\ \A p \in PowersOfTwo :
              p <= h.mlen /\ 2 * p <= IntMax /\ g.heap = "snap" => 2 * p <= g.h.cap
         /\ Doubled(h, g)
<1> DEFINE snap == SnapUpSize(olen)
<1>1. h.cap \in Int /\ h.mlen \in Int /\ h.slen \in Int /\ SnapMin \in Int
  BY SizesAssumption DEF Header
<1>2. /\ snap \in Int /\ snap <= Larger(SnapMin, 2 * olen)
      /\ \A p \in PowersOfTwo : p <= olen /\ p < snap /\ 2 * p <= IntMax => 2 * p <= snap
  BY SnapUpSizeFacts, SnapUpSizeGrows
<1>3. \A p \in PowersOfTwo : p \in Int
  BY PowerFacts
<1>4. CASE g \in {Refused(h), NoMemory(h), Fine(h)}
  <2>1. g.h = h /\ g.heap # "snap"
    BY <1>4 DEF Refused, NoMemory, Fine, Result
  <2> QED
    BY <1>1, <2>1 DEF Doubled
<1>5. ASSUME NEW size \in Int, NEW heap, g = Grown(h, size, heap),
             olen >= h.mlen, olen > 0, size <= Larger(SnapMin, 2 * olen),
             heap = "snap" => size = snap /\ h.mlen < snap
      PROVE  /\ g.h.cap \in Int /\ g.h.cap <= Larger(SnapMin, 2 * olen)
             /\ \A p \in PowersOfTwo :
                  p <= h.mlen /\ 2 * p <= IntMax /\ g.heap = "snap" => 2 * p <= g.h.cap
             /\ Doubled(h, g)
  <2>1. g.h.cap = size /\ g.heap = heap
    <3> DEFINE k == [slen |-> h.slen, mlen |-> size, cap |-> size, nul |-> TRUE]
    <3>1. g = Result(k, "OK", h.slen + 1, heap) /\ k.cap = size
      BY <1>5 DEF Grown
    <3> HIDE DEF k
    <3> QED
      BY <3>1 DEF Result
  <2> HIDE DEF snap
  <2>2. \A p \in PowersOfTwo :
          p <= h.mlen /\ 2 * p <= IntMax /\ g.heap = "snap" => 2 * p <= g.h.cap
    BY <1>1, <1>2, <1>3, <1>5, <2>1
  <2> QED
    BY <1>1, <1>5, <2>1, <2>2 DEF Doubled
<1>6. CASE g \notin {Refused(h), NoMemory(h), Fine(h)}
  <2>1. /\ olen > 0 /\ ~(olen < h.mlen) /\ ~(snap <= h.mlen)
        /\ g = Grown(h, snap, "snap") \/ g = Grown(h, olen, "tight")
    BY <1>6 DEF Balloc
  <2>2. olen <= Larger(SnapMin, 2 * olen)
    BY <1>1, <2>1 DEF Larger
  <2>3. CASE g = Grown(h, snap, "snap")
    <3>1. olen >= h.mlen /\ h.mlen < snap
      BY <1>1, <1>2, <2>1
    <3> HIDE DEF snap
    <3> QED
      BY <1>2, <1>5, <2>1, <2>3, <3>1
  <2>4. CASE g = Grown(h, olen, "tight")
    BY <1>1, <1>5, <2>1, <2>2, <2>4
  <2> QED
    BY <2>1, <2>3, <2>4
<1> QED
  BY <1>4, <1>5, <1>6, ZenonT(60)

(* A call that returns early, or that changes nothing, is lawful.          *)
LEMMA UnchangedLawful ==
  ASSUME NEW h, Intact(h), NEW op, NEW wide,
         NEW o \in {Refused(h), NoMemory(h), Fine(h)}
  PROVE  Lawful(op, wide, h, o)
<1>1. o.h = h /\ o.extent = 0 /\ o.ret \in {"OK", "ERR"} /\ o.heap \in Heap
  BY DEF Refused, NoMemory, Fine, Result, Heap
<1>2. h \in Header /\ Sound(h) /\ 0 < h.cap /\ h.cap \in Int /\ h.nul \in BOOLEAN
  BY IntactFacts DEF Intact
<1>3. Growing(op, h, o)
  <2>1. o.heap # "snap"
    BY DEF Refused, NoMemory, Fine, Result
  <2> QED
    BY <1>1, <1>2, <2>1, KeptGrows
<1> QED
  BY <1>1, <1>2, <1>3 DEF Lawful, Typed, Fits

(* A call that stores the terminator, and succeeds or keeps the length, is *)
(* lawful when it leaves a sound header or, if it does not, has a cause.   *)
LEMMA SuccessLawful ==
  ASSUME NEW h, Intact(h), Writable(h), NEW op, NEW wide,
         NEW o, Typed(o), o.ret = "OK" \/ o.h.slen = h.slen, o.h.nul = TRUE,
         Fits(o) => Sound(o.h),
         ~Fits(o) => Cause(op, wide, h, o),
         Growing(op, h, o)
  PROVE  Lawful(op, wide, h, o)
<1>1. h.mlen \in Int /\ h.mlen > 0
  BY IntactFacts DEF Writable
<1> QED
  BY <1>1 DEF Lawful

(***************************************************************************)
(* The pattern of the mutators: room for olen bytes is asked for when it   *)
(* is short, and a text of slen bytes is finished in it.                   *)
(***************************************************************************)
Sized(h, short, olen, slen) == {Finish(g, slen) : g \in Room(h, short, olen)}

(***************************************************************************)
(* What makes that lawful: the lengths overflow an int and nothing is      *)
(* allocated, or balloc refuses; there is a byte for the terminator; or    *)
(* the caller is one of those known not to ask for that byte, or to store  *)
(* it where the text ended already.  And no more is asked for than the     *)
(* text and its terminator take.                                           *)
(***************************************************************************)
Ample(op, wide, h, short, olen, slen) ==
  /\ \/ wide /\ ~short /\ slen = IntMax
     \/ short /\ olen <= 0
     \/ /\ short => slen < olen /\ (h.slen <= slen \/ op \in FullCallers)
        /\ ~short => slen < h.mlen
     \/ /\ short => slen <= olen /\ op \in ExactCallers
        /\ ~short => slen < h.mlen \/ (op \in FullCallers /\ slen = h.slen)
     \/ short /\ op \in FullCallers /\ slen = h.slen /\ olen <= h.slen
  /\ short => olen <= slen + 1

(* A text finished in the room that was asked for grew no more than that.  *)
LEMMA FinishGrows ==
  ASSUME NEW h, Intact(h), NEW op, NEW short \in BOOLEAN,
         NEW olen \in Int, olen <= IntMax, NEW slen \in Int,
         short => olen <= slen + 1,
         NEW g \in Room(h, short, olen),
         NEW o, o.h.cap = g.h.cap, o.heap = g.heap, o.h.slen = slen
  PROVE  Growing(op, h, o)
<1>1. h \in Header /\ h.cap \in Int /\ SnapMin \in Int
  BY IntactFacts, SizesAssumption
<1>2. CASE ~short
  <2>1. g = Fine(h)
    BY <1>2 DEF Room
  <2>2. g.h = h /\ g.heap = "none"
    BY <2>1 DEF Fine, Result
  <2> QED
    BY <1>1, <2>2, KeptGrows
<1>3. CASE short
  <2>1. g \in Balloc(h, olen)
    BY <1>3 DEF Room
  <2>2. /\ g.h.cap \in Int /\ Doubled(h, g)
        /\ g.h.cap <= h.cap \/ (0 < olen /\ g.h.cap <= Larger(SnapMin, 2 * olen))
    BY <1>1, <2>1, BallocGrows
  <2>3. Larger(SnapMin, 2 * olen) <= Larger(SnapMin, 2 * (slen + 1))
    BY <1>1, <1>3 DEF Larger
  <2>4. Larger(SnapMin, 2 * olen) \in Int /\ Larger(SnapMin, 2 * (slen + 1)) \in Int
    BY <1>1 DEF Larger
  <2>5. Bounded(op, h, o)
    BY <1>1, <2>2, <2>3, <2>4 DEF Bounded
  <2>6. Doubled(h, o)
    BY <2>2 DEF Doubled
  <2> QED
    BY <2>5, <2>6 DEF Growing
<1> QED
  BY <1>2, <1>3

(* A success that stores the length and the terminator is lawful when the  *)
(* buffer was made long enough, or the call has a cause.                   *)
LEMMA FinishLawful ==
  ASSUME NEW h, Intact(h), NEW op, NEW wide \in BOOLEAN, NEW short \in BOOLEAN,
         NEW olen \in Int, olen <= IntMax, NEW slen \in Int, 0 <= slen,
         short \/ Writable(h), op # "bwriteallow",
         Ample(op, wide, h, short, olen, slen),
         NEW g \in Room(h, short, olen),
         NEW o, o = Finish(g, slen)
  PROVE  Lawful(op, wide, h, o)
<1>0. /\ h \in Header /\ Sound(h) /\ h # NoString
      /\ h.slen \in Int /\ h.mlen \in Int /\ h.cap \in Int
      /\ h.nul \in BOOLEAN
      /\ 0 <= h.slen /\ h.slen <= h.cap /\ 0 < h.cap
      /\ h.cap <= MemMax /\ MemMax \in Int /\ MemMax <= IntMax
      /\ Writable(h) => 0 < h.mlen /\ h.mlen <= h.cap /\ h.slen <= h.mlen
  BY IntactFacts DEF Intact, Writable
<1>1. CASE g \in {Refused(h), NoMemory(h)}
  <2>1. o = g
    BY <1>1 DEF Finish, Refused, NoMemory, Result
  <2> QED
    BY <1>1, <2>1, UnchangedLawful
<1>2. ASSUME Writable(h), g.h \in Header, g.ret = "OK", g.heap \in Heap, g.extent \in Int,
             g.h.cap \in 1..MemMax,
             Larger(g.extent, slen + 1) <= g.h.cap => g.h.mlen = g.h.cap \/ (g.h.mlen = h.mlen /\ g.h.cap = h.cap),
             Larger(g.extent, slen + 1) <= g.h.cap => slen <= g.h.mlen,
             Larger(g.extent, slen + 1) > g.h.cap =>
               \/ wide
               \/ op \in ExactCallers /\ (g.heap = "tight" \/ SnapUpSize(g.h.cap) = g.h.cap)
               \/ op \in FullCallers /\ h.slen = h.mlen
      PROVE  Lawful(op, wide, h, o)
  <2>1. /\ o.h \in Header /\ o.h.slen = slen /\ o.h.mlen = g.h.mlen
        /\ o.h.cap = g.h.cap /\ o.h.nul = TRUE
        /\ o.ret = "OK" /\ o.heap = g.heap
        /\ o.extent = Larger(g.extent, slen + 1)
    <3>1. g.ret # "ERR"
      BY <1>2
    <3> QED
      BY <1>2, <3>1, FinishFields, ZenonT(60)
  <2>2. o.extent \in Int /\ slen + 1 <= o.extent /\ g.h.mlen \in Int /\ g.h.cap \in Int
    <3>1. g.h.mlen \in Int /\ g.h.cap \in Int
      BY <1>2 DEF Header
    <3> QED
      BY <1>2, <2>1, <3>1 DEF Larger
  <2>3. Typed(o)
    BY <1>2, <2>1, <2>2 DEF Typed
  <2>4. Fits(o) => Sound(o.h)
    BY <1>0, <1>2, <2>1, <2>2 DEF Sound, Fits
  <2>5. ~Fits(o) => Cause(op, wide, h, o)
    BY <1>2, <2>1, <2>2 DEF Fits, Cause, Exact
  <2>6. Growing(op, h, o)
    BY <2>1, FinishGrows DEF Ample
  <2> QED
    BY <1>2, <2>1, <2>3, <2>4, <2>5, <2>6, SuccessLawful
<1>3. CASE /\ g = Fine(h) /\ Writable(h)
           /\ short => 0 < olen
           /\ short => olen < h.mlen \/ (olen = h.mlen /\ SnapUpSize(olen) = olen)
  <2>1. /\ g.h = h /\ g.ret = "OK" /\ g.heap = "none" /\ g.extent = 0
        /\ Larger(g.extent, slen + 1) = slen + 1
    BY <1>3 DEF Fine, Result, Larger
  <2>2. slen + 1 > h.cap =>
          \/ wide
          \/ op \in ExactCallers /\ SnapUpSize(h.cap) = h.cap
          \/ op \in FullCallers /\ h.slen = h.mlen
    <3>1. CASE slen + 1 > h.cap /\ ~wide /\ short
      BY <1>0, <1>3, <3>1 DEF Ample
    <3>2. CASE slen + 1 > h.cap /\ ~wide /\ ~short
      BY <1>0, <1>3, <3>2 DEF Ample
    <3> QED
      BY <3>1, <3>2
  <2>3. slen + 1 <= h.cap => slen <= h.mlen
    BY <1>0, <1>3 DEF Ample
  <2> QED
    BY <1>0, <1>2, <1>3, <2>1, <2>2, <2>3 DEF Heap
<1>4. ASSUME NEW size \in 1..MemMax, NEW heap \in {"snap", "tight"}, short,
             Writable(h), g = Grown(h, size, heap), h.mlen <= olen, 0 < olen,
             \/ olen < size
             \/ olen = size /\ heap = "tight"
             \/ olen = size /\ SnapUpSize(size) = size
      PROVE  Lawful(op, wide, h, o)
  <2>1. /\ g.h \in Header /\ g.h.slen = h.slen /\ g.h.mlen = size
        /\ g.h.cap = size /\ g.h.nul = TRUE
        /\ g.ret = "OK" /\ g.heap = heap /\ g.extent = h.slen + 1
    <3> DEFINE k == [slen |-> h.slen, mlen |-> size, cap |-> size, nul |-> TRUE]
    <3>1. g = Result(k, "OK", h.slen + 1, heap)
      BY <1>4 DEF Grown
    <3>2. k \in Header
      BY <1>0, <1>4 DEF Header
    <3>3. k.slen = h.slen /\ k.mlen = size /\ k.cap = size /\ k.nul = TRUE
      BY DEF Header
    <3> HIDE DEF k
    <3> QED
      BY <3>1, <3>2, <3>3 DEF Result
  <2>2. Larger(g.extent, slen + 1) <= size => slen <= size
    BY <1>0, <2>1 DEF Larger
  <2>3. Larger(g.extent, slen + 1) > size =>
          \/ op \in ExactCallers /\ (heap = "tight" \/ SnapUpSize(size) = size)
          \/ op \in FullCallers /\ h.slen = h.mlen
    BY <1>0, <1>4, <2>1 DEF Larger, Ample
  <2> QED
    BY <1>0, <1>2, <1>4, <2>1, <2>2, <2>3 DEF Heap
<1>5. short => g \in Balloc(h, olen)
  BY DEF Room
<1>6. ~short => g = Fine(h)
  BY DEF Room
<1>7. CASE short
  BY <1>0, <1>1, <1>3, <1>4, <1>5, <1>7, BallocFacts
<1> QED
  BY <1>3, <1>6, <1>7

(* The same of a whole set of outcomes.                                    *)
LEMMA SizedLawful ==
  ASSUME NEW h, Intact(h), NEW op, NEW wide \in BOOLEAN, NEW short \in BOOLEAN,
         NEW olen \in Int, olen <= IntMax, NEW slen \in Int, 0 <= slen,
         short \/ Writable(h), op # "bwriteallow",
         Ample(op, wide, h, short, olen, slen),
         NEW o \in Sized(h, short, olen, slen)
  PROVE  Lawful(op, wide, h, o)
<1>1. PICK g \in Room(h, short, olen) : o = Finish(g, slen)
  BY DEF Sized
<1> QED
  BY <1>1, FinishLawful

(* The same when balloc is called whatever room there is.                  *)
Asked(h, olen, slen) == {Finish(g, slen) : g \in Balloc(h, olen)}

(* When such a request is enough, or falls short for a reason.             *)
AmpleAsked(op, h, olen, slen) ==
  /\ \/ olen <= 0
     \/ slen < olen /\ (h.slen <= slen \/ op \in FullCallers)
     \/ slen <= olen /\ op \in ExactCallers
     \/ op \in FullCallers /\ slen = h.slen /\ olen <= h.slen
  /\ olen <= slen + 1

(* So is one that asked balloc for the text and its terminator. *)
LEMMA AskedLawful ==
  ASSUME NEW h, Intact(h), NEW op, op # "bwriteallow", NEW wide \in BOOLEAN,
         NEW olen \in Int, olen <= IntMax, NEW slen \in Int, 0 <= slen,
         AmpleAsked(op, h, olen, slen),
         NEW o \in Asked(h, olen, slen)
  PROVE  Lawful(op, wide, h, o)
<1> DEFINE short == TRUE
<1>1. o \in Sized(h, short, olen, slen)
  BY DEF Sized, Asked, Room
<1>2. Ample(op, wide, h, short, olen, slen)
  BY DEF Ample, AmpleAsked
<1>3. short \in BOOLEAN /\ short
  OBVIOUS
<1> HIDE DEF short
<1> QED
  BY <1>1, <1>2, <1>3, SizedLawful

(* A text that is finished in the room there is.                           *)
LEMMA InPlaceLawful ==
  ASSUME NEW h, Intact(h), Writable(h), NEW op, NEW wide \in BOOLEAN,
         NEW n \in Int, 0 <= n, op # "bwriteallow",
         n < h.mlen \/ (op \in FullCallers /\ n = h.slen),
         NEW o, o = Finish(Fine(h), n)
  PROVE  Lawful(op, wide, h, o)
<1>1. o \in Sized(h, FALSE, 0, n)
  BY DEF Sized, Room
<1>2. Ample(op, wide, h, FALSE, 0, n)
  BY DEF Ample
<1>3. 0 <= IntMax /\ 0 \in Int
  BY SizesAssumption
<1> QED
  BY <1>1, <1>2, <1>3, SizedLawful

(* The commonest request: a text of slen bytes and its terminator.  The    *)
(* sum that overflows is refused by balloc.                                *)
LEMMA TextLawful ==
  ASSUME NEW h, Intact(h), NEW op, op # "bwriteallow", NEW wide \in BOOLEAN,
         NEW slen \in Int, 0 <= slen, slen <= 2 * IntMax,
         h.slen <= slen \/ op \in FullCallers,
         NEW o \in Asked(h, CInt(slen + 1), slen)
  PROVE  Lawful(op, wide, h, o)
<1> DEFINE need == CInt(slen + 1)
<1>1. /\ need \in Int /\ need <= IntMax
      /\ need = slen + 1 \/ need < 0
  BY SizesAssumption, CIntFacts DEF IntMin
<1>2. AmpleAsked(op, h, need, slen)
  <2> HIDE DEF need
  <2> QED
    BY <1>1, IntactFacts DEF AmpleAsked
<1> HIDE DEF need
<1> QED
  BY <1>1, <1>2, AskedLawful DEF need

(* An access outside of every buffer is lawful only for lengths that sum   *)
(* past INT_MAX.                                                           *)
LEMMA WildLawful ==
  ASSUME NEW h, Intact(h), Writable(h), NEW op, NEW wide, wide,
         NEW o, o.h \in Header, o.h.cap <= IntMax, o.extent = Wild,
         o.ret = "OK", o.heap \in Heap, Doubled(h, o)
  PROVE  Lawful(op, wide, h, o)
<1>1. ~Fits(o) /\ o.extent \in Int
  BY IntactFacts, SizesAssumption DEF Fits, Wild, Header
<1>2. h.mlen \in Int /\ h.mlen > 0
  BY IntactFacts DEF Writable
<1> QED
  BY <1>1, <1>2 DEF Lawful, Typed, Cause, Growing, Bounded

-----------------------------------------------------------------------------
(* The functions, one by one. *)

(* bconcat, of a text of length len. *)
LEMMA BconcatLawful ==
  ASSUME NEW h, Intact(h), NEW op, op # "bwriteallow", NEW wide \in BOOLEAN,
         NEW len \in Int, 0 <= len, len <= IntMax, NEW aliased \in BOOLEAN,
         wide <=> h.slen + len + 1 > IntMax,
         NEW o \in Bconcat(h, len, aliased)
  PROVE  Lawful(op, wide, h, o)
<1> DEFINE need == CInt(h.slen + len + 1)
           short == h.mlen <= need
<1>0. /\ h.slen \in Int /\ h.mlen \in Int /\ IntMax \in Int
      /\ 0 <= h.slen /\ h.slen <= IntMax
  BY IntactFacts
<1>1. CASE h.mlen < h.slen \/ h.slen + len > IntMax
  BY <1>1, UnchangedLawful DEF Bconcat
<1>2. CASE ~(h.mlen < h.slen \/ h.slen + len > IntMax)
  <2>1. \/ o = NoMemory(h)
        \/ o \in Sized(h, short, need, h.slen + len)
    BY <1>2 DEF Bconcat, MayRefuse, Sized
  <2>2. Writable(h)
    BY <1>0, <1>2, IntactFacts DEF Writable
  <2>3. /\ need \in Int /\ need <= IntMax
        /\ h.slen + len + 1 <= IntMax => need = h.slen + len + 1
        /\ h.slen + len + 1 > IntMax => need < 0
    BY <1>0, <1>2, SizesAssumption, CIntFacts DEF IntMin
  <2>4. Ample(op, wide, h, short, need, h.slen + len)
    <3> HIDE DEF need
    <3> QED
      BY <1>0, <1>2, <2>2, <2>3 DEF Ample, Writable
  <2>5. short \in BOOLEAN /\ h.slen + len \in Int /\ 0 <= h.slen + len
    BY <1>0, <2>3
  <2> HIDE DEF need, short
  <2> QED
    BY <2>1, <2>2, <2>3, <2>4, <2>5, SizedLawful, UnchangedLawful
<1> QED
  BY <1>1, <1>2

(* bconchar is lawful: the length it asks for counts the terminator. *)
LEMMA BconcharLawful ==
  ASSUME NEW h, Intact(h), NEW op, op # "bwriteallow", NEW wide \in BOOLEAN,
         NEW o \in Bconchar(h)
  PROVE  Lawful(op, wide, h, o)
<1>0. /\ h.slen \in Int /\ IntMax \in Int /\ IntMax > 3
      /\ 0 <= h.slen /\ h.slen <= IntMax
  BY IntactFacts
<1>1. CASE h.mlen < h.slen
  BY <1>1, UnchangedLawful DEF Bconchar
<1>2. CASE ~(h.mlen < h.slen)
  <2> DEFINE slen == h.slen + 1
  <2>1. o \in Asked(h, CInt(slen + 1), slen)
    <3>1. slen + 1 = h.slen + 2
      BY <1>0
    <3> QED
      BY <1>2, <3>1 DEF Bconchar, Asked
  <2>2. slen \in Int /\ 0 <= slen /\ slen <= 2 * IntMax /\ h.slen <= slen
    BY <1>0
  <2> HIDE DEF slen
  <2> QED
    BY <2>1, <2>2, TextLawful
<1> QED
  BY <1>1, <1>2

(* bcatblk is lawful: it overruns only when the sum passes INT_MAX. *)
LEMMA BcatblkLawful ==
  ASSUME NEW h, Intact(h), NEW op, op # "bwriteallow", NEW wide \in BOOLEAN,
         NEW len \in Int, len <= IntMax,
         h.slen + len > IntMax => wide,
         NEW o \in Bcatblk(h, len)
  PROVE  Lawful(op, wide, h, o)
<1> DEFINE nl == h.slen + len
           short == h.mlen <= nl
<1>0. /\ h.slen \in Int /\ h.mlen \in Int /\ IntMax \in Int /\ IntMax > 3
      /\ 0 <= h.slen /\ h.slen <= IntMax /\ nl \in Int
  BY IntactFacts
<1>1. CASE ~Writable(h) \/ len < 0
  BY <1>1, UnchangedLawful DEF Bcatblk
<1>2. CASE Writable(h) /\ len >= 0 /\ nl > IntMax
  <2> DEFINE w == Result([h EXCEPT !.slen = CInt(nl)], "OK", Wild, "none")
  <2>1. o = Refused(h) \/ o = w
    BY <1>0, <1>2 DEF Bcatblk
  <2>2. CASE o = w
    <3>1. CInt(nl) \in Int
      BY <1>0, CIntFacts
    <3>2. /\ o.h = [h EXCEPT !.slen = CInt(nl)]
          /\ o.extent = Wild /\ o.ret = "OK" /\ o.heap = "none"
      BY <2>2 DEF Result
    <3>3. o.h \in Header /\ o.h.cap <= IntMax
      BY <3>1, <3>2, IntactFacts DEF Header
    <3> QED
      BY <1>2, <3>2, <3>3, WildLawful DEF Heap, Doubled
  <2> QED
    BY <2>1, <2>2, UnchangedLawful
<1>3. CASE Writable(h) /\ len >= 0 /\ nl <= IntMax
  <2> DEFINE need == CInt(nl + 1)
  <2>1. o \in Sized(h, short, need, nl)
    BY <1>0, <1>3 DEF Bcatblk, Sized
  <2>2. /\ need \in Int /\ need <= IntMax
        /\ need = nl + 1 \/ need < 0
    BY <1>0, <1>3, CIntFacts DEF IntMin
  <2>3. Ample(op, wide, h, short, need, nl)
    <3> HIDE DEF need
    <3> QED
      BY <1>0, <1>3, <2>2 DEF Ample
  <2>4. short \in BOOLEAN /\ 0 <= nl
    BY <1>0, <1>3
  <2> HIDE DEF need, short, nl
  <2> QED
    BY <1>0, <1>3, <2>1, <2>2, <2>3, <2>4, SizedLawful
<1> QED
  BY <1>0, <1>1, <1>2, <1>3

(***************************************************************************)
(* The two that copy a C string first: what follows the copy is a call on  *)
(* a header whose text fills the buffer.                                   *)
(***************************************************************************)
LEMMA FilledFacts ==
  ASSUME NEW h, Intact(h), Writable(h), NEW f \in Filled(h)
  PROVE  /\ Intact(f) /\ Writable(f)
         /\ f.slen = h.mlen /\ f.mlen = h.mlen /\ f.cap = h.cap
<1>1. PICK z \in BOOLEAN : /\ f = [h EXCEPT !.slen = h.mlen, !.nul = z]
                           /\ z => h.mlen < h.cap
  BY DEF Filled
<1>2. /\ h \in Header /\ h.slen \in Int /\ h.mlen \in Int /\ h.cap \in Nat
      /\ 0 < h.mlen /\ h.mlen <= h.cap /\ h.cap <= MemMax /\ MemMax \in Int
  BY IntactFacts DEF Writable, Header
<1>3. f = [slen |-> h.mlen, mlen |-> h.mlen, cap |-> h.cap, nul |-> z]
  BY <1>1, <1>2 DEF Header
<1>4. f.slen = h.mlen /\ f.mlen = h.mlen /\ f.cap = h.cap /\ f.nul = z
  BY <1>3
<1>5. f \in Header
  BY <1>2, <1>3 DEF Header
<1>6. f # NoString
  BY <1>2, <1>4 DEF NoString
<1>7. Sound(f)
  BY <1>1, <1>2, <1>4 DEF Sound
<1> QED
  BY <1>2, <1>4, <1>5, <1>6, <1>7 DEF Intact, Writable

(* What is lawful for a header whose text was made to fill its buffer is   *)
(* lawful for the header it was before.                                    *)
LEMMA FilledLawful ==
  ASSUME NEW h, Intact(h), Writable(h), NEW f \in Filled(h),
         NEW op \in PartialCallers, NEW wide, NEW o, Lawful(op, wide, f, o),
         o.ret = "ERR" \/ ~Fits(o) \/ o.h.nul
  PROVE  Lawful(op, wide, h, o)
<1>1. f.slen = h.mlen /\ f.mlen = h.mlen /\ f.cap = h.cap /\ f # NoString
  BY FilledFacts DEF Intact
<1>2. h.mlen \in Int /\ h.mlen > 0
  BY IntactFacts DEF Writable
<1>3. op \notin FullCallers
  BY DEF FullCallers, PartialCallers
<1>4. /\ Typed(o) /\ (Fits(o) => Sound(o.h))
      /\ ~Fits(o) => Cause(op, wide, h, o)
      /\ o.ret = "ERR" /\ Fits(o) => o.h.slen = h.mlen
  BY <1>1, <1>3 DEF Lawful, Cause
<1>5. o.ret \in {"OK", "ERR"}
  BY <1>4 DEF Typed
<1>6. Growing(op, h, o)
  BY <1>1 DEF Lawful, Growing, Bounded, Doubled
<1> QED
  BY <1>2, <1>4, <1>5, <1>6 DEF Lawful

(* A finished call that succeeds has a terminator. *)
LEMMA FinishTerminates ==
  ASSUME NEW g, NEW slen, NEW o, o = Finish(g, slen)
  PROVE  o.ret = "ERR" \/ o.h.nul
BY DEF Finish, Result

(* So has bcatblk, unless it overran. *)
LEMMA BcatblkTerminates ==
  ASSUME NEW h, Intact(h), NEW len \in Int, len <= IntMax,
         NEW o \in Bcatblk(h, len)
  PROVE  o.ret = "ERR" \/ ~Fits(o) \/ o.h.nul
<1>1. CASE o = Refused(h)
  BY <1>1 DEF Refused, Result
<1>2. CASE o = Result([h EXCEPT !.slen = CInt(h.slen + len)], "OK", Wild, "none")
  <2>1. o.extent = Wild /\ o.h.cap = h.cap
    BY <1>2, IntactFacts DEF Result, Header
  <2> QED
    BY <2>1, IntactFacts DEF Fits, Wild
<1>3. CASE \E g : o = Finish(g, h.slen + len)
  BY <1>3, FinishTerminates
<1> QED
  BY <1>1, <1>2, <1>3 DEF Bcatblk

(* bcatcstr is lawful: in place, or filled and then bcatblk. *)
LEMMA BcatcstrLawful ==
  ASSUME NEW h, Intact(h), NEW wide \in BOOLEAN, NEW n \in Int, 0 <= n,
         wide <=> h.slen + n + 1 > IntMax, NEW o \in Bcatcstr(h, n),
         NEW op, op = "bcatcstr"
  PROVE  Lawful(op, wide, h, o)
<1> DEFINE room == h.mlen - h.slen
           rest == ToInt(n - room)
<1>0. /\ h.slen \in Int /\ h.mlen \in Int /\ IntMax \in Int /\ IntMax > 3
      /\ 0 <= h.slen /\ h.slen <= IntMax
      /\ op \in PartialCallers /\ op # "bwriteallow"
  BY IntactFacts DEF PartialCallers
<1>1. CASE ~Writable(h)
  BY <1>1, UnchangedLawful DEF Bcatcstr
<1>2. CASE Writable(h) /\ n < room
  <2>1. o = Finish(Fine(h), h.slen + n)
    BY <1>2 DEF Bcatcstr
  <2>2. h.slen + n \in Int /\ 0 <= h.slen + n /\ h.slen + n < h.mlen
    BY <1>0, <1>2
  <2> QED
    BY <1>0, <1>2, <2>1, <2>2, InPlaceLawful
<1>3. CASE Writable(h) /\ n >= room
  <2>1. PICK f \in IF room = 0 THEN {h} ELSE Filled(h) : o \in Bcatblk(f, rest)
    BY <1>0, <1>3 DEF Bcatcstr
  <2>2. f.slen = h.mlen /\ Intact(f)
    BY <1>0, <1>3, FilledFacts
  <2>3. /\ rest \in Int /\ rest <= IntMax
        /\ h.mlen + rest > IntMax => wide
    <3>1. n - room \in Int /\ 0 <= n - room
      BY <1>0, <1>3
    <3>2. /\ rest \in Int /\ rest <= IntMax
          /\ n - room <= IntMax => rest = n - room
      BY <3>1, ToIntFacts
    <3> HIDE DEF rest
    <3> QED
      BY <1>0, <1>3, <3>1, <3>2 DEF Writable
  <2> HIDE DEF rest
  <2>4. Lawful(op, wide, f, o)
    BY <1>0, <2>1, <2>2, <2>3, BcatblkLawful
  <2>5. o.ret = "ERR" \/ ~Fits(o) \/ o.h.nul
    BY <2>1, <2>2, <2>3, BcatblkTerminates
  <2> QED
    BY <1>0, <1>3, <2>1, <2>4, <2>5, FilledLawful
<1> QED
  BY <1>0, <1>1, <1>2, <1>3

(* bassign is lawful: its request leaves the terminator out, so it may     *)
(* overrun a block of exactly that size.                                   *)
LEMMA BassignLawful ==
  ASSUME NEW h, Intact(h), NEW op \in ExactCallers, NEW wide \in BOOLEAN,
         NEW len \in Int, 0 <= len, len <= IntMax, NEW o \in Bassign(h, len)
  PROVE  Lawful(op, wide, h, o)
<1>0. op # "bwriteallow"
  BY DEF ExactCallers
<1>1. CASE len # 0
  <2>1. o \in Asked(h, len, len)
    BY <1>1 DEF Bassign, Asked
  <2>2. AmpleAsked(op, h, len, len)
    BY DEF AmpleAsked
  <2> QED
    BY <1>0, <2>1, <2>2, AskedLawful
<1>2. CASE len = 0 /\ (h.mlen < h.slen \/ h.mlen = 0)
  BY <1>2, UnchangedLawful DEF Bassign
<1>3. CASE len = 0 /\ ~(h.mlen < h.slen \/ h.mlen = 0)
  <2>1. o = Finish(Fine(h), 0)
    BY <1>3 DEF Bassign
  <2>2. Writable(h) /\ 0 < h.mlen
    BY <1>3, IntactFacts DEF Writable
  <2> QED
    BY SMTT(30), <1>0, <2>1, <2>2, InPlaceLawful
<1> QED
  BY <1>1, <1>2, <1>3

(* The same of bassignmidstr, for the part it selects. *)
LEMMA BassignmidstrLawful ==
  ASSUME NEW h, Intact(h), NEW op \in ExactCallers, NEW wide \in BOOLEAN,
         NEW len \in Int, 0 <= len, len <= IntMax, NEW left \in Int, NEW n \in Int,
         NEW o \in Bassignmidstr(h, len, left, n)
  PROVE  Lawful(op, wide, h, o)
<1> DEFINE part == Clamped(len, left, n)
<1>0. op # "bwriteallow" /\ part \in Int /\ part <= len
  BY SizesAssumption DEF ExactCallers, Clamped, Smaller, CInt, IntMin
<1> HIDE DEF part
<1>1. CASE h.mlen < h.slen \/ h.mlen = 0
  BY <1>1, UnchangedLawful DEF Bassignmidstr
<1>2. CASE ~(h.mlen < h.slen \/ h.mlen = 0) /\ part > 0
  <2>1. o \in Asked(h, part, part)
    BY <1>2 DEF Bassignmidstr, Asked, part
  <2>2. AmpleAsked(op, h, part, part)
    BY <1>0 DEF AmpleAsked
  <2>3. 0 <= part /\ part <= IntMax
    BY <1>0, <1>2, SizesAssumption
  <2> QED
    BY <1>0, <2>1, <2>2, <2>3, AskedLawful
<1>3. CASE ~(h.mlen < h.slen \/ h.mlen = 0) /\ ~(part > 0)
  <2>1. o = Finish(Fine(h), 0)
    BY <1>3 DEF Bassignmidstr, part
  <2>2. Writable(h) /\ 0 < h.mlen
    BY <1>3, IntactFacts DEF Writable
  <2> QED
    BY <1>0, <2>1, <2>2, InPlaceLawful
<1> QED
  BY <1>1, <1>2, <1>3

(* bassigncstr is lawful: in place, or filled and then enlarged. *)
LEMMA BassigncstrLawful ==
  ASSUME NEW h, Intact(h), NEW wide \in BOOLEAN, NEW n \in Int, 0 <= n,
         NEW o \in Bassigncstr(h, n), NEW op, op = "bassigncstr"
  PROVE  Lawful(op, wide, h, o)
<1>0. op \in PartialCallers /\ op # "bwriteallow"
  BY DEF PartialCallers
<1>1. CASE h.mlen < h.slen \/ h.mlen = 0
  BY <1>1, UnchangedLawful DEF Bassigncstr
<1>2. ASSUME ~(h.mlen < h.slen \/ h.mlen = 0)
      PROVE  Writable(h)
  BY <1>2, IntactFacts DEF Writable
<1>3. CASE ~(h.mlen < h.slen \/ h.mlen = 0) /\ n < h.mlen
  <2>1. o = Finish(Fine(h), n)
    BY <1>3 DEF Bassigncstr
  <2> QED
    BY <1>0, <1>2, <1>3, <2>1, InPlaceLawful
<1>4. CASE ~(h.mlen < h.slen \/ h.mlen = 0) /\ ~(n < h.mlen)
  <2>1. PICK f \in Filled(h) :
          o \in IF n + 1 > IntMax THEN {Refused(f)}
                ELSE {Finish(g, n) : g \in Balloc(f, n + 1)}
    BY <1>4 DEF Bassigncstr
  <2>2. Intact(f) /\ f.slen = h.mlen /\ h.mlen \in Int /\ IntMax \in Int
    BY <1>2, <1>4, <2>1, FilledFacts, IntactFacts
  <2>3. CASE n + 1 > IntMax
    <3>1. o = Refused(f)
      BY <2>1, <2>3
    <3>2. Lawful(op, wide, f, o)
      BY <2>2, <3>1, UnchangedLawful
    <3>3. o.ret = "ERR"
      BY <3>1 DEF Refused, Result
    <3> QED
      BY <1>0, <1>2, <1>4, <2>1, <3>2, <3>3, FilledLawful
  <2>4. CASE n + 1 <= IntMax
    <3> DEFINE need == n + 1
    <3>1. need \in Int /\ need <= IntMax /\ n < need /\ need <= n + 1 /\ f.slen <= n
      BY <1>4, <2>2, <2>4
    <3>2. o \in Asked(f, need, n)
      BY <2>1, <2>2, <2>4 DEF Asked
    <3> HIDE DEF need
    <3>3. Lawful(op, wide, f, o)
      BY <1>0, <2>2, <3>1, <3>2, AskedLawful DEF AmpleAsked
    <3>4. o.ret = "ERR" \/ o.h.nul
      BY <3>2, FinishTerminates DEF Asked
    <3> QED
      BY <1>0, <1>2, <1>4, <2>1, <3>3, <3>4, FilledLawful
  <2> QED
    BY <2>2, <2>3, <2>4
<1> QED
  BY <1>1, <1>3, <1>4

(* bassignblk is lawful: its request counts the terminator. *)
LEMMA BassignblkLawful ==
  ASSUME NEW h, Intact(h), NEW op, op # "bwriteallow", NEW wide \in BOOLEAN,
         NEW len \in Int, NEW o \in Bassignblk(h, len)
  PROVE  Lawful(op, wide, h, o)
<1> DEFINE need == len + 1
           short == need > h.mlen
<1>0. h.slen \in Int /\ h.mlen \in Int /\ IntMax \in Int
  BY IntactFacts
<1>1. CASE h.mlen < h.slen \/ h.mlen = 0 \/ len < 0 \/ len >= IntMax
  BY <1>1, UnchangedLawful DEF Bassignblk
<1>2. CASE ~(h.mlen < h.slen \/ h.mlen = 0 \/ len < 0 \/ len >= IntMax)
  <2>1. o \in Sized(h, short, need, len)
    BY <1>2 DEF Bassignblk, Sized
  <2>2. /\ Writable(h) /\ short \in BOOLEAN
        /\ need \in Int /\ need <= IntMax /\ 0 <= len
    BY <1>0, <1>2, IntactFacts DEF Writable
  <2>3. Ample(op, wide, h, short, need, len)
    BY <1>0, <1>2 DEF Ample
  <2> HIDE DEF need, short
  <2> QED
    BY <2>1, <2>2, <2>3, SizedLawful
<1> QED
  BY <1>1, <1>2

(* btrunc is lawful: it only shortens. *)
LEMMA BtruncLawful ==
  ASSUME NEW h, Intact(h), NEW op, op # "bwriteallow", NEW wide \in BOOLEAN,
         NEW n \in Int, NEW o \in Btrunc(h, n)
  PROVE  Lawful(op, wide, h, o)
<1>1. CASE n < 0 \/ ~Writable(h) \/ h.slen <= n
  BY <1>1, IntactFacts, UnchangedLawful DEF Btrunc
<1>2. CASE 0 <= n /\ Writable(h) /\ h.slen > n
  <2>1. o = Finish(Fine(h), n)
    BY <1>2 DEF Btrunc
  <2>2. n < h.mlen
    BY <1>2, IntactFacts DEF Writable
  <2> QED
    BY <1>2, <2>1, <2>2, InPlaceLawful
<1> QED
  BY <1>1, <1>2, IntactFacts

(* bdelete is lawful: it only shortens, unless pos + len passes INT_MAX. *)
LEMMA BdeleteLawful ==
  ASSUME NEW h, Intact(h), NEW op, op # "bwriteallow", NEW wide \in BOOLEAN,
         NEW pos \in Int, NEW len \in Int,
         IntMin <= pos, pos <= IntMax, IntMin <= len, len <= IntMax,
         Larger(pos, 0) + len > IntMax => wide,
         NEW o \in Bdelete(h, pos, len)
  PROVE  Lawful(op, wide, h, o)
<1> DEFINE p == Larger(pos, 0)
           l == IF pos < 0 THEN CInt(len + pos) ELSE len
<1>0. /\ h.slen \in Int /\ h.mlen \in Int /\ IntMax \in Int /\ IntMax > 3
      /\ 0 <= h.slen /\ h.slen <= IntMax
  BY IntactFacts
<1>1. /\ p \in Int /\ 0 <= p /\ l \in Int /\ l <= IntMax
      /\ p + l > IntMax => wide
  BY <1>0 DEF Larger, CInt, IntMin
<1>2. \/ o \in {Refused(h), Fine(h)}
      \/ /\ Writable(h) /\ 0 < l /\ p < h.slen
         /\ \/ o = Finish(Fine(h), p)
            \/ l <= h.slen /\ o = Finish(Fine(h), h.slen - l)
            \/ p + l > IntMax /\
               o = Result([h EXCEPT !.slen = h.slen - l], "OK", Wild, "none")
  <2> HIDE DEF p, l
  <2> QED
    BY <1>0, <1>1, IntactFacts DEF Bdelete, Header, p, l
<1> HIDE DEF p, l
<1>3. CASE o \in {Refused(h), Fine(h)}
  BY <1>3, UnchangedLawful
<1>4. CASE Writable(h) /\ 0 < l /\ p < h.slen /\ o = Finish(Fine(h), p)
  <2>1. p < h.mlen
    BY <1>0, <1>1, <1>4 DEF Writable
  <2> QED
    BY <1>1, <1>4, <2>1, InPlaceLawful
<1>5. CASE Writable(h) /\ 0 < l /\ l <= h.slen /\ o = Finish(Fine(h), h.slen - l)
  <2>1. h.slen - l \in Int /\ 0 <= h.slen - l /\ h.slen - l < h.mlen
    BY <1>0, <1>1, <1>5 DEF Writable
  <2> QED
    BY <1>5, <2>1, InPlaceLawful
<1>6. CASE /\ Writable(h) /\ p + l > IntMax
           /\ o = Result([h EXCEPT !.slen = h.slen - l], "OK", Wild, "none")
  <2>1. /\ o.h = [h EXCEPT !.slen = h.slen - l]
        /\ o.extent = Wild /\ o.ret = "OK" /\ o.heap = "none"
    BY <1>6 DEF Result
  <2>2. o.h \in Header /\ o.h.cap <= IntMax
    BY <1>0, <1>1, <2>1, IntactFacts DEF Header
  <2> QED
    BY <1>1, <1>6, <2>1, <2>2, WildLawful DEF Heap, Doubled
<1> QED
  BY <1>2, <1>3, <1>4, <1>5, <1>6

(* bltrimws is lawful: a bdelete from the start. *)
LEMMA BltrimwsLawful ==
  ASSUME NEW h, Intact(h), NEW op, op # "bwriteallow", NEW wide \in BOOLEAN,
         NEW lead \in Int, 0 <= lead, NEW o \in Bltrimws(h, lead)
  PROVE  Lawful(op, wide, h, o)
<1>0. /\ h.slen \in Int /\ h.mlen \in Int /\ IntMax \in Int /\ IntMax > 3
      /\ h.slen <= IntMax
  BY IntactFacts
<1>1. CASE ~Writable(h)
  BY <1>1, UnchangedLawful DEF Bltrimws
<1>2. CASE Writable(h) /\ lead < h.slen
  <2>1. o \in Bdelete(h, 0, lead)
    BY <1>2 DEF Bltrimws
  <2>2. /\ IntMin <= 0 /\ IntMin <= lead /\ lead <= IntMax
        /\ ~(Larger(0, 0) + lead > IntMax)
    BY <1>0, <1>2 DEF Larger, IntMin
  <2> QED
    BY <1>0, <2>1, <2>2, BdeleteLawful
<1>3. CASE Writable(h) /\ ~(lead < h.slen)
  <2>1. o = Finish(Fine(h), 0)
    BY <1>3 DEF Bltrimws
  <2> QED
    BY <1>0, <1>3, <2>1, InPlaceLawful DEF Writable
<1> QED
  BY <1>1, <1>2, <1>3

(* brtrimws is lawful: it overruns only a text that fills its buffer. *)
LEMMA BrtrimwsLawful ==
  ASSUME NEW h, Intact(h), NEW op \in FullCallers, NEW wide \in BOOLEAN,
         NEW trail \in Int, 0 <= trail, trail <= h.slen, NEW o \in Brtrimws(h, trail)
  PROVE  Lawful(op, wide, h, o)
<1>0. h.slen \in Int /\ h.mlen \in Int
  BY IntactFacts
<1>1. CASE ~Writable(h)
  BY <1>1, UnchangedLawful DEF Brtrimws
<1>2. CASE Writable(h)
  <2> DEFINE n == h.slen - trail
  <2>1. o = Finish(Fine(h), n)
    BY <1>2 DEF Brtrimws
  <2>2. n \in Int /\ 0 <= n /\ (n < h.mlen \/ n = h.slen)
    BY <1>0, <1>2 DEF Writable
  <2>3. op # "bwriteallow"
    BY DEF FullCallers
  <2> HIDE DEF n
  <2> QED
    BY <1>2, <2>1, <2>2, <2>3, InPlaceLawful
<1> QED
  BY <1>1, <1>2

(* btrimws is lawful: both of the above in one call. *)
LEMMA BtrimwsLawful ==
  ASSUME NEW h, Intact(h), NEW op \in FullCallers, NEW wide \in BOOLEAN,
         NEW lead \in Int, 0 <= lead, NEW trail \in Int, 0 <= trail,
         lead + trail < h.slen \/ trail = h.slen,
         NEW o \in Btrimws(h, lead, trail)
  PROVE  Lawful(op, wide, h, o)
<1>0. /\ h \in Header /\ h.slen \in Int /\ h.mlen \in Int /\ h.cap \in Int
      /\ op # "bwriteallow"
  BY IntactFacts DEF FullCallers
<1>1. CASE ~Writable(h)
  BY <1>1, UnchangedLawful DEF Btrimws
<1>2. CASE Writable(h) /\ trail = h.slen
  <2>1. o = Finish(Fine(h), 0)
    BY <1>2 DEF Btrimws
  <2> QED
    BY <1>0, <1>2, <2>1, InPlaceLawful DEF Writable
<1>3. CASE Writable(h) /\ lead + trail < h.slen
  <2> DEFINE n == h.slen - trail
             r == Finish(Fine(h), n)
             m == n - lead
  <2>1. PICK d \in Bdelete(r.h, 0, lead) :
          o = [d EXCEPT !.extent = Larger(@, r.extent)]
    BY <1>0, <1>3 DEF Btrimws
  <2>2. /\ r.h \in Header /\ r.h.slen = n /\ r.h.mlen = h.mlen
        /\ r.h.cap = h.cap /\ r.h.nul = TRUE /\ r.extent = n + 1
    BY <1>0, <1>3 DEF Finish, Fine, Result, Larger, Header, Writable
  <2> HIDE DEF r
  <2>3. Bdelete(r.h, 0, lead)
          = {IF lead = 0 THEN Fine(r.h) ELSE Finish(Fine(r.h), m)}
    <3>1. Writable(r.h) /\ lead <= IntMax /\ ~(lead >= n)
      BY <1>0, <1>3, <2>2, IntactFacts DEF Writable
    <3> QED
      BY <1>0, <1>3, <2>2, <3>1 DEF Bdelete, Larger
  <2>4. d = IF lead = 0 THEN Fine(r.h) ELSE Finish(Fine(r.h), m)
    BY <2>1, <2>3
  <2>5. /\ o.h \in Header /\ o.h.slen = m /\ o.h.mlen = h.mlen
        /\ o.h.cap = h.cap /\ o.h.nul = TRUE
        /\ o.ret = "OK" /\ o.heap = "none" /\ o.extent = n + 1
    <3>1. CASE lead = 0
      BY <1>0, <1>3, <2>1, <2>2, <2>4, <3>1 DEF Fine, Result, Larger, Writable
    <3>2. CASE lead # 0
      <4>1. /\ d = Result([slen |-> m, mlen |-> h.mlen, cap |-> h.cap, nul |-> TRUE],
                          "OK", Larger(0, m + 1), "none")
        BY <2>2, <2>4, <3>2 DEF Finish, Fine, Result
      <4>2. Larger(Larger(0, m + 1), n + 1) = n + 1
        BY <1>0, <1>3 DEF Larger
      <4>3. o = Result([slen |-> m, mlen |-> h.mlen, cap |-> h.cap, nul |-> TRUE],
                       "OK", n + 1, "none")
        BY <2>1, <2>2, <4>1, <4>2 DEF Result
      <4>4. h.cap \in Nat
        BY <1>0 DEF Header
      <4> QED
        BY <1>0, <1>3, <4>3, <4>4 DEF Result, Header
    <3> QED
      BY <3>1, <3>2
  <2>6. Typed(o)
    BY <1>0, <2>5 DEF Typed, Heap
  <2>7. Fits(o) => Sound(o.h)
    BY <1>0, <1>3, <2>5, IntactFacts DEF Fits, Sound, Writable
  <2>8. ~Fits(o) => Cause(op, wide, h, o)
    BY <1>0, <1>3, <2>5, IntactFacts DEF Fits, Cause, Writable
  <2>9. Growing(op, h, o)
    BY <1>0, <2>5, KeptGrows
  <2> QED
    BY <1>3, <2>5, <2>6, <2>7, <2>8, <2>9, SuccessLawful
<1> QED
  BY <1>1, <1>2, <1>3

(* bsetstr is lawful: it overruns only when pos + len passes INT_MAX or    *)
(* the text fills its buffer.                                              *)
LEMMA BsetstrLawful ==
  ASSUME NEW h, Intact(h), NEW op \in FullCallers, NEW wide \in BOOLEAN,
         NEW pos \in Int, pos <= IntMax, NEW len \in Int, 0 <= len, len <= IntMax,
         NEW aliased \in BOOLEAN, NEW o \in Bsetstr(h, pos, len, aliased)
  PROVE  Lawful(op, wide, h, o)
<1> DEFINE d == CInt(pos + len)
           slen == Larger(h.slen, d)
           need == CInt(d + 1)
<1>0. /\ h.slen \in Int /\ h.mlen \in Int /\ IntMax \in Int /\ IntMax > 3
      /\ 0 <= h.slen /\ h.slen <= IntMax /\ op # "bwriteallow"
  BY IntactFacts DEF FullCallers
<1>1. CASE o \in {Refused(h), NoMemory(h)}
  BY <1>1, UnchangedLawful
<1>2. CASE o \in Asked(h, need, slen) /\ pos >= 0
  <2>1. d \in Int /\ d <= IntMax
    BY <1>0, CIntFacts
  <2>2. need \in Int /\ need <= IntMax /\ (need = d + 1 \/ need <= 0)
    <3> HIDE DEF d
    <3>1. IntMin <= d + 1 /\ d + 1 <= IntMax => need = d + 1
      BY <1>0, <2>1, CIntFacts
    <3>2. d + 1 > IntMax => need < 0
      BY <1>0, <2>1, CIntFacts
    <3>3. d + 1 < IntMin => need <= 0
      BY <1>0, <1>2, <2>1 DEF CInt, IntMin, d
    <3> QED
      BY <1>0, <2>1, <3>1, <3>2, <3>3, CIntFacts DEF IntMin
  <2> HIDE DEF d, need
  <2>3. slen \in Int /\ 0 <= slen /\ (slen = h.slen \/ (slen = d /\ h.slen <= d))
    BY <1>0, <2>1 DEF Larger
  <2>4. AmpleAsked(op, h, need, slen)
    BY <1>0, <2>1, <2>2 DEF AmpleAsked, Larger
  <2> HIDE DEF slen
  <2> QED
    BY <1>0, <1>2, <2>2, <2>3, <2>4, AskedLawful
<1> QED
  BY <1>1, <1>2 DEF Bsetstr, Asked, MayRefuse

(* binsertblk is lawful: a sum that passes INT_MAX is refused. *)
LEMMA BinsertblkLawful ==
  ASSUME NEW h, Intact(h), NEW op, op # "bwriteallow", NEW wide \in BOOLEAN,
         NEW pos \in Int, NEW len \in Int,
         NEW aliased \in BOOLEAN, NEW o \in Binsertblk(h, pos, len, aliased)
  PROVE  Lawful(op, wide, h, o)
<1> DEFINE end == Larger(h.slen, pos) + len
<1>0. /\ h.slen \in Int /\ IntMax \in Int /\ IntMax > 3
      /\ 0 <= h.slen /\ h.slen <= IntMax
  BY IntactFacts
<1>1. CASE o \in {Refused(h), NoMemory(h)}
  BY <1>1, UnchangedLawful
<1>2. CASE /\ o \in Asked(h, CInt(end + 1), end)
           /\ pos >= 0 /\ len >= 0 /\ end <= IntMax
  <2>1. end \in Int /\ h.slen <= end
    BY <1>0, <1>2 DEF Larger
  <2> HIDE DEF end
  <2> QED
    BY <1>0, <1>2, <2>1, TextLawful
<1>3. \/ o \in {Refused(h), NoMemory(h)}
      \/ /\ o \in Asked(h, CInt(end + 1), end)
         /\ pos >= 0 /\ len >= 0 /\ end <= IntMax
  BY <1>0 DEF Binsertblk, Asked, MayRefuse, Larger
<1> QED
  BY <1>1, <1>2, <1>3

(* A text that is cut after it was set keeps what its extent was.          *)
LEMMA CutLawful ==
  ASSUME NEW h, Intact(h), NEW op, NEW wide, NEW g, Lawful(op, wide, h, g),
         g.ret = "OK", Writable(h),
         NEW n \in Int, 0 <= n, n < g.h.slen, NEW o, o = Finish(g, n),
         g.h.cap <= h.cap \/ g.h.cap <= Larger(SnapMin, 2 * (n + 1))
  PROVE  Lawful(op, wide, h, o)
<1>1. /\ g.h \in Header /\ g.extent \in Int /\ g.heap \in Heap /\ g.ret # "ERR"
      /\ Fits(g) => Sound(g.h)
      /\ ~Fits(g) => Cause(op, wide, h, g)
  BY DEF Lawful, Typed
<1>2. /\ o.h \in Header /\ o.h.slen = n /\ o.h.mlen = g.h.mlen
      /\ o.h.cap = g.h.cap /\ o.h.nul = TRUE
      /\ o.ret = "OK" /\ o.heap = g.heap
      /\ o.extent = Larger(g.extent, n + 1)
  BY <1>1, FinishFields, ZenonT(60)
<1>3. g.h.slen \in Int /\ g.h.mlen \in Int /\ g.h.cap \in Int
  BY <1>1 DEF Header
<1>4. /\ o.extent \in Int /\ n + 1 <= o.extent /\ g.extent <= o.extent
      /\ o.extent = g.extent \/ o.extent = n + 1
  BY <1>1, <1>2 DEF Larger
<1>5. Typed(o)
  BY <1>1, <1>2, <1>4 DEF Typed
<1>6. Fits(o) => Sound(o.h)
  <2>1. Fits(o) => Fits(g)
    BY <1>1, <1>2, <1>3, <1>4 DEF Fits
  <2>2. g.h # NoString
    BY DEF NoString
  <2> QED
    BY <1>1, <1>2, <1>3, <1>4, <2>1, <2>2 DEF Sound, Fits
<1>7. ~Fits(o) => Cause(op, wide, h, o)
  <2>1. ~Fits(o) => ~Fits(g)
    <3>1. CASE Fits(g)
      <4>1. n + 1 <= g.h.cap
        <5>1. g.h # NoString
          BY DEF NoString
        <5> QED
          BY <1>1, <1>3, <3>1, <5>1 DEF Sound
      <4> QED
        BY <1>1, <1>2, <1>4, <3>1, <4>1 DEF Fits
    <3> QED
      BY <3>1
  <2> QED
    BY <1>1, <1>2, <2>1 DEF Cause, Exact
<1>8. Growing(op, h, o)
  <2>1. h.cap \in Int /\ SnapMin \in Int
    BY IntactFacts, SizesAssumption
  <2>2. Doubled(h, o)
    BY <1>2 DEF Lawful, Growing, Doubled
  <2>3. Bounded(op, h, o)
    BY <1>2, <1>3, <2>1 DEF Bounded
  <2> QED
    BY <2>2, <2>3 DEF Growing
<1> QED
  BY <1>2, <1>5, <1>6, <1>7, <1>8, SuccessLawful

(* What bsetstr allocates at the end of a text, when it has to.            *)
LEMMA BsetstrGrows ==
  ASSUME NEW h, Intact(h), NEW pos \in Int, 0 <= pos, pos <= IntMax,
         NEW len \in Int, 0 <= len, len <= IntMax,
         NEW aliased \in BOOLEAN, NEW g \in Bsetstr(h, pos, len, aliased),
         g.ret = "OK", pos + len < g.h.slen
  PROVE  g.h.cap <= h.cap \/ g.h.cap <= Larger(SnapMin, 2 * (pos + len + 1))
<1> DEFINE sum == pos + len
           d == CInt(sum)
           need == CInt(d + 1)
<1>0. /\ h \in Header /\ h.slen \in Int /\ h.slen <= IntMax /\ h.cap \in Int
      /\ IntMax \in Int /\ IntMax > 3
      /\ sum \in Int /\ 0 <= sum /\ sum <= 2 * IntMax
  BY IntactFacts
<1>1. PICK q \in Balloc(h, need) : g = Finish(q, Larger(h.slen, d))
  <2>1. g \notin {Refused(h), NoMemory(h)}
    BY DEF Refused, NoMemory, Result
  <2> QED
    BY <2>1 DEF Bsetstr, MayRefuse
<1>2. d \in Int /\ d <= IntMax
  BY <1>0, CIntFacts
<1>3. need \in Int /\ need <= IntMax
  BY <1>0, <1>2, CIntFacts
<1> HIDE DEF sum, d, need
<1>4. /\ q.h.cap \in Int
      /\ q.h.cap <= h.cap \/ (0 < need /\ q.h.cap <= Larger(SnapMin, 2 * need))
  BY <1>0, <1>1, <1>3, BallocGrows
<1>5. q.ret # "ERR"
  BY <1>1 DEF Finish
<1>6. g.h.slen = Larger(h.slen, d) /\ g.h.cap = q.h.cap
  BY <1>1, <1>5 DEF Finish, Result
<1>7. sum < Larger(h.slen, d)
  BY <1>6 DEF sum
<1>8. sum <= IntMax
  BY <1>0, <1>2, <1>7 DEF Larger
<1>9. d = sum
  BY <1>0, <1>8, CIntFacts DEF IntMin, d
<1>10. need = sum + 1 \/ need < 0
  BY <1>0, <1>8, <1>9, CIntFacts DEF IntMin, need
<1>11. 0 < need => 2 * need = 2 * (sum + 1)
  BY <1>0, <1>3, <1>10
<1> QED
  BY <1>4, <1>6, <1>11 DEF sum

(* breplace is lawful: past the end a bsetstr, inside a request without    *)
(* the terminator.                                                         *)
LEMMA BreplaceLawful ==
  ASSUME NEW h, Intact(h), NEW wide \in BOOLEAN,
         NEW pos \in Int, NEW len \in Int, NEW new \in Int, 0 <= new, new <= IntMax,
         NEW aliased \in BOOLEAN, NEW o \in Breplace(h, pos, len, new, aliased),
         NEW op, op = "breplace"
  PROVE  Lawful(op, wide, h, o)
<1>0. /\ h.slen \in Int /\ h.mlen \in Int /\ IntMax \in Int /\ IntMax > 3
      /\ 0 <= h.slen /\ h.slen <= IntMax
      /\ op \in FullCallers /\ op \in ExactCallers /\ op # "bwriteallow"
  BY IntactFacts DEF FullCallers, ExactCallers
<1>1. CASE pos < 0 \/ len < 0 \/ pos + len > IntMax \/ ~Writable(h)
  BY <1>1, UnchangedLawful DEF Breplace
<1>2. CASE /\ ~(pos < 0 \/ len < 0 \/ pos + len > IntMax \/ ~Writable(h))
           /\ pos + len >= h.slen
  <2>1. PICK g \in Bsetstr(h, pos, new, aliased) :
          o = IF g.ret = "OK" /\ pos + new < g.h.slen THEN Finish(g, pos + new)
              ELSE g
    BY <1>2 DEF Breplace
  <2>2. Lawful(op, wide, h, g)
    BY <1>0, <1>2, BsetstrLawful
  <2>3. CASE g.ret = "OK" /\ pos + new < g.h.slen
    <3>1. pos + new \in Int /\ 0 <= pos + new /\ o = Finish(g, pos + new)
      BY <1>2, <2>1, <2>3
    <3>2. g.h.cap <= h.cap \/ g.h.cap <= Larger(SnapMin, 2 * (pos + new + 1))
      <4>1. 0 <= pos /\ pos <= IntMax
        BY <1>0, <1>2
      <4> QED
        BY <2>1, <2>3, <4>1, BsetstrGrows
    <3> QED
      BY <1>2, <2>2, <2>3, <3>1, <3>2, CutLawful
  <2> QED
    BY <2>1, <2>2, <2>3
<1>3. CASE /\ ~(pos < 0 \/ len < 0 \/ pos + len > IntMax \/ ~Writable(h))
           /\ ~(pos + len >= h.slen)
  <2> DEFINE slen == h.slen + new - len
             need == CInt(slen)
             short == new > len
  <2>1. o = NoMemory(h) \/ o \in Sized(h, short, need, slen)
    BY <1>3 DEF Breplace, MayRefuse, Sized
  <2>2. /\ slen \in Int /\ 0 <= slen /\ slen <= 2 * IntMax
        /\ short <=> slen > h.slen
        /\ slen < h.mlen \/ slen = h.slen \/ short
    BY <1>0, <1>3 DEF Writable
  <2>3. need \in Int /\ need <= IntMax /\ (need = slen \/ need < 0)
    <3> HIDE DEF slen
    <3> QED
      BY <1>0, <2>2, CIntFacts DEF IntMin
  <2>4. short \in BOOLEAN
    BY <1>0
  <2> HIDE DEF slen, need, short
  <2>5. Ample(op, wide, h, short, need, slen)
    BY <1>0, <2>2, <2>3 DEF Ample
  <2> QED
    BY <1>0, <1>3, <2>1, <2>2, <2>3, <2>4, <2>5, SizedLawful, UnchangedLawful
<1> QED
  BY <1>1, <1>2, <1>3

(* bformata is lawful: a bconcat. *)
LEMMA BformataLawful ==
  ASSUME NEW h, Intact(h), NEW op, op # "bwriteallow", NEW wide \in BOOLEAN,
         NEW out \in Int, 0 <= out, out <= IntMax,
         wide <=> h.slen + out + 1 > IntMax, NEW o \in Bformata(h, out)
  PROVE  Lawful(op, wide, h, o)
<1>1. CASE o \in {Refused(h), NoMemory(h)}
  BY <1>1, UnchangedLawful
<1>2. CASE o \in Bconcat(h, out, FALSE)
  <2> DEFINE aliased == FALSE
  <2>1. o \in Bconcat(h, out, aliased) /\ aliased \in BOOLEAN
    BY <1>2
  <2> HIDE DEF aliased
  <2> QED
    BY <2>1, BconcatLawful
<1> QED
  BY <1>1, <1>2 DEF Bformata

(* bassignformat is lawful: a bassign. *)
LEMMA BassignformatLawful ==
  ASSUME NEW h, Intact(h), NEW op \in ExactCallers, NEW wide \in BOOLEAN,
         NEW out \in Int, 0 <= out, out <= IntMax, NEW o \in Bassignformat(h, out)
  PROVE  Lawful(op, wide, h, o)
<1>1. CASE o \in {Refused(h), NoMemory(h)}
  BY <1>1, UnchangedLawful
<1>2. CASE o \in Bassign(h, out)
  BY <1>2, BassignLawful
<1> QED
  BY <1>1, <1>2 DEF Bassignformat

(* What balloc answers, field by field.                                    *)
LEMMA BallocOutcome ==
  ASSUME NEW h, Intact(h), NEW olen \in Int, olen <= IntMax,
         NEW g \in Balloc(h, olen)
  PROVE  \/ g \in {Refused(h), NoMemory(h)}
         \/ /\ Writable(h) /\ 0 < olen
            /\ g = Result(g.h, "OK", g.extent, g.heap)
            /\ g.ret = "OK" /\ g.heap \in Heap
            /\ g.h \in Header /\ g.h.slen = h.slen
            /\ g.h.mlen \in Int /\ g.h.cap \in Int
            /\ olen <= g.h.mlen /\ g.h.mlen <= g.h.cap /\ g.h.cap <= MemMax
            /\ \/ g = Fine(h) /\ g.h = h /\ g.extent = 0
               \/ /\ g.h.nul = TRUE /\ g.extent = h.slen + 1
                  /\ h.mlen <= olen /\ g.h.mlen = g.h.cap
            /\ olen < g.h.cap \/ g.heap = "tight" \/ SnapUpSize(g.h.cap) = g.h.cap
<1>0. /\ h \in Header /\ h.slen \in Int /\ h.mlen \in Int /\ h.cap \in Int
      /\ MemMax \in Int /\ h.cap <= MemMax
      /\ Writable(h) => h.mlen <= h.cap
  BY IntactFacts DEF Writable
<1>1. CASE /\ g = Fine(h) /\ Writable(h) /\ 0 < olen
           /\ olen < h.mlen \/ (olen = h.mlen /\ SnapUpSize(olen) = olen)
  <2>1. /\ g.h = h /\ g.ret = "OK" /\ g.heap = "none" /\ g.extent = 0
        /\ g = Result(g.h, "OK", g.extent, g.heap)
    BY <1>1 DEF Fine, Result
  <2>2. olen < h.cap \/ SnapUpSize(h.cap) = h.cap
    BY <1>0, <1>1
  <2> QED
    BY <1>0, <1>1, <2>1, <2>2 DEF Heap
<1>2. ASSUME NEW size \in 1..MemMax, NEW heap \in {"snap", "tight"},
             g = Grown(h, size, heap), Writable(h), h.mlen <= olen, 0 < olen,
             \/ olen < size
             \/ olen = size /\ heap = "tight"
             \/ olen = size /\ SnapUpSize(size) = size
      PROVE  /\ g = Result(g.h, "OK", g.extent, g.heap)
             /\ g.ret = "OK" /\ g.heap \in Heap
             /\ g.h \in Header /\ g.h.slen = h.slen
             /\ g.h.mlen \in Int /\ g.h.cap \in Int
             /\ olen <= g.h.mlen /\ g.h.mlen <= g.h.cap /\ g.h.cap <= MemMax
             /\ g.h.nul = TRUE /\ g.extent = h.slen + 1 /\ g.h.mlen = g.h.cap
             /\ olen < g.h.cap \/ g.heap = "tight" \/ SnapUpSize(g.h.cap) = g.h.cap
  <2> DEFINE k == [slen |-> h.slen, mlen |-> size, cap |-> size, nul |-> TRUE]
  <2>1. g = Result(k, "OK", h.slen + 1, heap)
    BY <1>2 DEF Grown
  <2>2. k \in Header
    BY <1>0, <1>2 DEF Header
  <2>3. k.slen = h.slen /\ k.mlen = size /\ k.cap = size /\ k.nul = TRUE
    BY DEF Header
  <2> HIDE DEF k
  <2>4. /\ g = Result(g.h, "OK", g.extent, g.heap)
        /\ g.h = k /\ g.ret = "OK" /\ g.extent = h.slen + 1 /\ g.heap = heap
    BY <2>1 DEF Result
  <2> QED
    BY <1>0, <1>2, <2>2, <2>3, <2>4 DEF Heap
<1>3. \/ g \in {Refused(h), NoMemory(h)}
      \/ /\ g = Fine(h) /\ Writable(h) /\ 0 < olen
         /\ olen < h.mlen \/ (olen = h.mlen /\ SnapUpSize(olen) = olen)
      \/ \E size \in 1..MemMax, heap \in {"snap", "tight"} :
           /\ g = Grown(h, size, heap) /\ Writable(h)
           /\ h.mlen <= olen /\ 0 < olen
           /\ \/ olen < size
              \/ olen = size /\ heap = "tight"
              \/ olen = size /\ SnapUpSize(size) = size
  BY <1>0, BallocFacts
<1>4. CASE \E size \in 1..MemMax, heap \in {"snap", "tight"} :
             /\ g = Grown(h, size, heap) /\ Writable(h)
             /\ h.mlen <= olen /\ 0 < olen
             /\ \/ olen < size
                \/ olen = size /\ heap = "tight"
                \/ olen = size /\ SnapUpSize(size) = size
  <2>1. PICK size \in 1..MemMax, heap \in {"snap", "tight"} :
             /\ g = Grown(h, size, heap) /\ Writable(h)
             /\ h.mlen <= olen /\ 0 < olen
             /\ \/ olen < size
                \/ olen = size /\ heap = "tight"
                \/ olen = size /\ SnapUpSize(size) = size
    BY <1>4
  <2> QED
    BY <1>2, <2>1
<1> QED
  BY <1>1, <1>3, <1>4

(* balloc never makes a buffer smaller, and where the allocator was not    *)
(* asked it has changed nothing.                                           *)
LEMMA BallocKeeps ==
  ASSUME NEW h, Intact(h), NEW olen \in Int, olen <= IntMax,
         NEW g \in Balloc(h, olen)
  PROVE  h.mlen <= g.h.mlen /\ (g.heap = "none" => g.h = h)
<1>1. CASE g \in {Refused(h), NoMemory(h), Fine(h)}
  <2>1. g.h = h /\ h.mlen \in Int
    BY <1>1, IntactFacts DEF Refused, NoMemory, Fine, Result
  <2> QED
    BY <2>1
<1>2. CASE g \notin {Refused(h), NoMemory(h), Fine(h)}
  <2>1. h.mlen <= olen /\ olen <= g.h.mlen /\ g.h.mlen \in Int /\ h.mlen \in Int
    BY <1>2, BallocOutcome, IntactFacts
  <2>2. g.heap # "none"
    BY <1>2 DEF Balloc, Grown, Result
  <2> QED
    BY <2>1, <2>2
<1> QED
  BY <1>1, <1>2

(* A call of balloc by itself is lawful. *)
LEMMA BallocLawful ==
  ASSUME NEW h, Intact(h), NEW op \in ExactCallers, op \in SizedCallers,
         NEW wide \in BOOLEAN,
         NEW n \in Int, n <= IntMax, NEW o \in Balloc(h, n)
  PROVE  Lawful(op, wide, h, o)
<1>1. CASE o \in {Refused(h), NoMemory(h), Fine(h)}
  BY <1>1, UnchangedLawful
<1>2. CASE o \notin {Refused(h), NoMemory(h), Fine(h)}
  <2>1. /\ Writable(h) /\ 0 < n /\ o.ret = "OK" /\ o.heap \in Heap
        /\ o.h \in Header /\ o.h.slen = h.slen
        /\ o.h.mlen \in Int /\ o.h.cap \in Int
        /\ n <= o.h.mlen /\ o.h.cap <= MemMax
        /\ o.h.nul = TRUE /\ o.extent = h.slen + 1
        /\ h.mlen <= n /\ o.h.mlen = o.h.cap
        /\ n < o.h.cap \/ o.heap = "tight" \/ SnapUpSize(o.h.cap) = o.h.cap
    BY <1>2, BallocOutcome, ZenonT(60)
  <2>2. /\ h.slen \in Int /\ h.mlen \in Int /\ 0 <= h.slen /\ h.slen <= h.mlen
    BY <2>1, IntactFacts DEF Writable
  <2>3. Typed(o)
    BY <2>1, <2>2 DEF Typed
  <2>4. Fits(o) => Sound(o.h)
    BY <2>1, <2>2 DEF Fits, Sound
  <2>5. ~Fits(o) => Cause(op, wide, h, o)
    BY <2>1, <2>2 DEF Fits, Cause, Exact
  <2>6. Growing(op, h, o)
    BY IntactFacts, BallocGrows DEF Growing, Bounded
  <2> QED
    BY <2>1, <2>3, <2>4, <2>5, <2>6, SuccessLawful
<1> QED
  BY <1>1, <1>2

(* So is one of ballocmin, which never cuts into the text. *)
LEMMA BallocminLawful ==
  ASSUME NEW h, Intact(h), NEW op \in SizedCallers, NEW wide \in BOOLEAN,
         NEW len \in Int, NEW o \in Ballocmin(h, len)
  PROVE  Lawful(op, wide, h, o)
<1> DEFINE size == Larger(len, h.slen + 1)
<1>0. h.slen \in Int /\ 0 <= h.slen /\ MemMax \in Int
  BY IntactFacts
<1>1. CASE o \in {Refused(h), NoMemory(h), Fine(h)}
  BY <1>1, UnchangedLawful
<1>2. CASE Writable(h) /\ size <= MemMax /\ o = Grown(h, size, "exact")
  <2> DEFINE k == [slen |-> h.slen, mlen |-> size, cap |-> size, nul |-> TRUE]
  <2>1. size \in Int /\ h.slen + 1 <= size
    BY <1>0 DEF Larger
  <2> HIDE DEF size
  <2>2. o = Result(k, "OK", h.slen + 1, "exact")
    BY <1>2 DEF Grown
  <2>3. /\ k \in Header /\ k.nul = TRUE
        /\ k.slen = h.slen /\ k.mlen = size /\ k.cap = size
    BY <1>0, <2>1 DEF Header
  <2> HIDE DEF k
  <2>4. o.h = k /\ o.ret = "OK" /\ o.extent = h.slen + 1 /\ o.heap = "exact"
    BY <2>2 DEF Result
  <2>5. Typed(o)
    BY <1>0, <2>3, <2>4 DEF Typed, Heap
  <2>6. Fits(o) /\ Sound(o.h)
    BY <1>0, <1>2, <2>1, <2>3, <2>4 DEF Fits, Sound
  <2>7. Growing(op, h, o)
    BY <2>4 DEF Growing, Bounded, Doubled
  <2> QED
    BY <1>2, <2>3, <2>4, <2>5, <2>6, <2>7, SuccessLawful
<1>3. \/ o \in {Refused(h), NoMemory(h), Fine(h)}
      \/ Writable(h) /\ size <= MemMax /\ o = Grown(h, size, "exact")
  BY <1>0 DEF Ballocmin
<1> QED
  BY <1>1, <1>2, <1>3

(* bdestroy is lawful: it leaves no string, or what there was. *)
LEMMA BdestroyLawful ==
  ASSUME NEW h, Intact(h), NEW op, NEW wide, NEW o \in Bdestroy(h)
  PROVE  Lawful(op, wide, h, o)
<1>1. CASE ~Writable(h)
  BY <1>1, UnchangedLawful DEF Bdestroy
<1>2. CASE Writable(h)
  <2>1. o.h = NoString /\ o.ret = "OK" /\ o.extent = 0 /\ o.heap = "none"
    BY <1>2 DEF Bdestroy, Result
  <2>2. NoString \in Header /\ NoString.cap = 0 /\ Sound(NoString)
    BY DEF NoString, Header, Sound
  <2>3. h.mlen \in Int /\ h.mlen > 0
    BY <1>2, IntactFacts DEF Writable
  <2>4. Growing(op, h, o)
    BY <2>1, <2>2, IntactFacts DEF Growing, Bounded, Doubled
  <2> QED
    BY <2>1, <2>2, <2>3, <2>4 DEF Lawful, Typed, Fits, Heap
<1> QED
  BY <1>1, <1>2

(* bwriteprotect is lawful: the buffer and the text stay. *)
LEMMA BwriteprotectLawful ==
  ASSUME NEW h, Intact(h), NEW op, NEW wide, NEW o \in Bwriteprotect(h)
  PROVE  Lawful(op, wide, h, o)
<1> DEFINE k == [slen |-> h.slen, mlen |-> -1, cap |-> h.cap, nul |-> h.nul]
<1>0. /\ h \in Header /\ h.slen \in Int /\ h.mlen \in Int /\ h.cap \in Nat
      /\ h.nul \in BOOLEAN /\ 0 <= h.slen /\ h.slen <= h.cap /\ 0 < h.cap
      /\ h.cap <= MemMax /\ (h.nul => h.slen < h.cap)
      /\ h.mlen = -1 \/ h.mlen > 0
  BY IntactFacts DEF Header
<1>1. o = Fine(k)
  BY <1>0 DEF Bwriteprotect, Header
<1>2. /\ k \in Header /\ k.slen = h.slen /\ k.mlen = -1
      /\ k.cap = h.cap /\ k.nul = h.nul
  BY <1>0 DEF Header
<1>3. h.mlen <= 0 => k = h
  BY <1>0 DEF Header
<1> HIDE DEF k
<1>4. o.h = k /\ o.ret = "OK" /\ o.extent = 0 /\ o.heap = "none"
  BY <1>1 DEF Fine, Result
<1>5. Sound(k)
  BY <1>0, <1>2 DEF Sound
<1>6. Growing(op, h, o)
  BY <1>0, <1>2, <1>4, KeptGrows
<1> QED
  BY <1>0, <1>2, <1>3, <1>4, <1>5, <1>6 DEF Lawful, Typed, Fits, Heap

(* bwriteallow is lawful: the size it restores is no more than the buffer. *)
LEMMA BwriteallowLawful ==
  ASSUME NEW h, Intact(h), NEW wide, NEW o \in Bwriteallow(h), NEW op,
         op = "bwriteallow"
  PROVE  Lawful(op, wide, h, o)
<1> DEFINE size == IF h.mlen # -1 THEN h.mlen ELSE IF h.slen = 0 THEN 1 ELSE h.slen
           k == [slen |-> h.slen, mlen |-> size, cap |-> h.cap, nul |-> h.nul]
<1>0. /\ h \in Header /\ h.slen \in Int /\ h.mlen \in Int /\ h.cap \in Nat
      /\ h.nul \in BOOLEAN /\ 0 <= h.slen /\ h.slen <= h.cap /\ 0 < h.cap
      /\ h.cap <= MemMax /\ (h.nul => h.slen < h.cap)
      /\ h.mlen = -1 \/ (h.slen <= h.mlen /\ 0 < h.mlen /\ h.mlen <= h.cap)
  BY IntactFacts DEF Header
<1>1. o = Fine(k)
  BY <1>0 DEF Bwriteallow, Header
<1>2. size \in Int /\ h.slen <= size /\ 0 < size /\ size <= h.cap
  BY <1>0
<1> HIDE DEF size
<1>3. /\ k \in Header /\ k.slen = h.slen /\ k.mlen = size
      /\ k.cap = h.cap /\ k.nul = h.nul
  BY <1>0, <1>2 DEF Header
<1> HIDE DEF k
<1>4. o.h = k /\ o.ret = "OK" /\ o.extent = 0 /\ o.heap = "none"
  BY <1>1 DEF Fine, Result
<1>5. Sound(k)
  BY <1>0, <1>2, <1>3 DEF Sound
<1>6. Growing(op, h, o)
  BY <1>0, <1>3, <1>4, KeptGrows
<1> QED
  BY <1>0, <1>3, <1>4, <1>5, <1>6 DEF Lawful, Typed, Fits, Heap

(* The total growth of a replacement, which is nonlinear.                  *)
LEMMA GrowthFacts ==
  ASSUME NEW count \in Nat, NEW find \in Nat, NEW repl \in Nat
  PROVE  /\ count * (repl - find) \in Int
         /\ find >= repl => /\ -(count * find) <= count * (repl - find)
                            /\ count * (repl - find) <= 0
         /\ find < repl => /\ 0 <= count * (repl - find)
                           /\ count * Larger(repl - find, 0) = count * (repl - find)
<1>1. count * (repl - find) = count * repl - count * find
  OBVIOUS
<1>2. count * repl >= 0 /\ count * find >= 0
  OBVIOUS
<1>3. ASSUME find >= repl PROVE count * repl <= count * find
  BY <1>3
<1>4. ASSUME find < repl PROVE count * find <= count * repl
  BY <1>4
<1>5. find < repl => Larger(repl - find, 0) = repl - find
  BY DEF Larger
<1> QED
  BY <1>1, <1>2, <1>3, <1>4, <1>5

(* findreplaceengine is lawful: it overruns only when the total growth     *)
(* passes INT_MAX.                                                         *)
LEMMA FindreplaceLawful ==
  ASSUME NEW h, Intact(h), NEW op, op # "bwriteallow", NEW wide \in BOOLEAN,
         NEW find \in Nat, NEW repl \in Nat, NEW pos \in Int, NEW count \in Nat,
         count * find <= Larger(0, h.slen - Larger(pos, 0)),
         wide <=> h.slen + count * Larger(repl - find, 0) + 1 > IntMax,
         NEW aliased \in BOOLEAN,
         NEW o \in Findreplaceengine(h, find, repl, pos, count, aliased)
  PROVE  Lawful(op, wide, h, o)
<1> DEFINE acc == count * (repl - find)
           slen == h.slen + acc
           need == CInt(h.slen + ToInt(acc) + 1)
<1>0. /\ h.slen \in Int /\ h.mlen \in Int /\ IntMax \in Int /\ IntMax > 3
      /\ 0 <= h.slen /\ h.slen <= IntMax /\ IntMax \in Nat
      /\ Writable(h) => 0 < h.mlen /\ h.slen <= h.mlen
  BY IntactFacts DEF Writable
<1>1. /\ acc \in Int
      /\ find >= repl => /\ -(count * find) <= acc
                         /\ acc <= 0
      /\ find < repl => 0 <= acc
      /\ find < repl => count * Larger(repl - find, 0) = acc
  BY GrowthFacts
<1>2. count * find <= h.slen
  BY <1>0 DEF Larger
<1>3. count * find \in Int
  OBVIOUS
<1>4. slen \in Int /\ 0 <= slen /\ (find >= repl => slen <= h.slen)
  <2> HIDE DEF acc
  <2> QED
    BY <1>0, <1>1, <1>2, <1>3
<1> HIDE DEF acc
<1>5. \/ o \in {Refused(h), NoMemory(h), Fine(h)}
      \/ Writable(h) /\ find >= repl /\ acc # 0 /\ o = Finish(Fine(h), slen)
      \/ find < repl /\ acc <= IntMax /\ o \in Asked(h, need, slen)
      \/ /\ Writable(h) /\ find < repl /\ acc > IntMax
         /\ \E g \in Balloc(h, need) :
              o = IF g.ret = "ERR" THEN g ELSE [g EXCEPT !.extent = Wild]
  <2> DEFINE early == ~Writable(h) \/ find <= 0 \/ pos < 0 \/ pos > h.slen - find
  <2>1. CASE early
    BY <2>1 DEF Findreplaceengine
  <2>2. CASE ~early /\ find >= repl
    <3>1. o = NoMemory(h) \/ o = IF acc = 0 THEN Fine(h) ELSE Finish(Fine(h), slen)
      BY <2>2 DEF Findreplaceengine, MayRefuse, acc
    <3> QED
      BY <2>2, <3>1
  <2>3. CASE ~early /\ ~(find >= repl) /\ acc <= IntMax
    <3>1. o = NoMemory(h) \/ o \in Asked(h, need, slen)
      BY <2>3 DEF Findreplaceengine, MayRefuse, Asked, acc
    <3> QED
      BY <2>3, <3>1
  <2>4. CASE ~early /\ ~(find >= repl) /\ ~(acc <= IntMax)
    <3>1. \/ o \in {NoMemory(h), Refused(h)}
          \/ \E g \in Balloc(h, need) :
               o = IF g.ret = "ERR" THEN g ELSE [g EXCEPT !.extent = Wild]
      BY <2>4 DEF Findreplaceengine, MayRefuse, acc
    <3> QED
      BY <1>0, <1>1, <2>4, <3>1
  <2> QED
    BY <2>1, <2>2, <2>3, <2>4
<1>6. CASE o \in {Refused(h), NoMemory(h), Fine(h)}
  BY <1>6, UnchangedLawful
<1>7. CASE Writable(h) /\ find >= repl /\ acc # 0 /\ o = Finish(Fine(h), slen)
  <2>1. slen < h.mlen
    BY <1>0, <1>1, <1>7
  <2> HIDE DEF slen
  <2> QED
    BY <1>4, <1>7, <2>1, InPlaceLawful
<1>8. CASE find < repl /\ acc <= IntMax /\ o \in Asked(h, need, slen)
  <2>1. ToInt(acc) = acc
    BY <1>1, <1>8, ToIntFacts
  <2>2. need = CInt(slen + 1)
    BY <1>0, <1>1, <2>1
  <2>3. slen <= 2 * IntMax /\ h.slen <= slen
    BY <1>0, <1>1, <1>8
  <2> HIDE DEF slen, need
  <2> QED
    BY <1>4, <1>8, <2>2, <2>3, TextLawful
<1>9. CASE /\ Writable(h) /\ find < repl /\ acc > IntMax
           /\ \E g \in Balloc(h, need) :
                o = IF g.ret = "ERR" THEN g ELSE [g EXCEPT !.extent = Wild]
  <2>1. PICK g \in Balloc(h, need) :
          o = IF g.ret = "ERR" THEN g ELSE [g EXCEPT !.extent = Wild]
    BY <1>9
  <2>2. wide
    BY <1>0, <1>1, <1>9
  <2>3. need \in Int /\ need <= IntMax
    <3>1. ToInt(acc) \in Int /\ ToInt(acc) <= IntMax
      BY <1>1, ToIntFacts
    <3> QED
      BY <1>0, <3>1, CIntFacts
  <2> HIDE DEF need
  <2>4. CASE g \in {Refused(h), NoMemory(h)}
    <3>1. o = g
      BY <2>1, <2>4 DEF Refused, NoMemory, Result
    <3> QED
      BY <2>4, <3>1, UnchangedLawful
  <2>5. CASE g \notin {Refused(h), NoMemory(h)}
    <3>1. /\ g = Result(g.h, "OK", g.extent, g.heap)
          /\ g.ret = "OK" /\ g.heap \in Heap /\ g.h \in Header
          /\ g.h.cap \in Int /\ g.h.cap <= MemMax
      BY <2>3, <2>5, BallocOutcome
    <3>2. o = Result(g.h, "OK", Wild, g.heap)
      BY <2>1, <3>1 DEF Result
    <3>3. o.h = g.h /\ o.ret = "OK" /\ o.extent = Wild /\ o.heap = g.heap
      BY <3>2 DEF Result
    <3>4. o.h.cap <= IntMax
      BY <3>1, <3>3, SizesAssumption
    <3>5. Doubled(h, o)
      BY <2>3, <3>3, IntactFacts, BallocGrows DEF Doubled
    <3> QED
      BY <1>9, <2>2, <3>1, <3>3, <3>4, <3>5, WildLawful
  <2> QED
    BY <2>4, <2>5
<1> QED
  BY <1>5, <1>6, <1>7, <1>8, <1>9

(* bvcformata is lawful: it stores one byte past what it asked balloc for. *)
LEMMA BvcformataLawful ==
  ASSUME NEW h, Intact(h), NEW op \in ExactCallers, op \in SizedCallers,
         NEW wide \in BOOLEAN,
         NEW count \in Int, count <= IntMax, NEW out \in Int, 0 <= out,
         NEW o \in Bvcformata(h, count, out)
  PROVE  Lawful(op, wide, h, o)
<1> DEFINE n == CInt(h.slen + count)
           need == CInt(n + 2)
           bound == h.slen + count + 3
           ret == IF out <= count THEN "OK" ELSE "ERR"
           text == h.slen + (IF out <= count THEN out ELSE 0)
<1>0. /\ h.slen \in Int /\ h.mlen \in Int /\ IntMax \in Int /\ IntMax > 3
      /\ 0 <= h.slen /\ h.slen <= IntMax /\ MemMax \in Int
  BY IntactFacts
<1>1. CASE o = Refused(h)
  BY <1>1, UnchangedLawful
<1>2. CASE /\ count > 0 /\ Writable(h)
           /\ \E g \in Balloc(h, need) :
                o = IF g.ret = "ERR" THEN g
                    ELSE Result(Finish(g, text).h, ret, Larger(g.extent, bound),
                                g.heap)
  <2>1. PICK g \in Balloc(h, need) :
                o = IF g.ret = "ERR" THEN g
                    ELSE Result(Finish(g, text).h, ret, Larger(g.extent, bound),
                                g.heap)
    BY <1>2
  <2>2. need \in Int /\ need <= IntMax /\ (need = bound - 1 \/ need <= 0)
    <3>1. n \in Int /\ IntMin <= n /\ n <= IntMax /\ (n = h.slen + count \/ n + 2 <= 0)
      BY <1>0, <1>2 DEF CInt, IntMin
    <3> HIDE DEF n
    <3> QED
      BY <1>0, <1>2, <3>1 DEF CInt, IntMin
  <2>3. /\ text \in Int /\ h.slen <= text /\ text + 3 <= bound
        /\ bound \in Int /\ h.slen + 1 <= bound
        /\ ret = "OK" \/ (ret = "ERR" /\ text = h.slen)
    BY <1>0, <1>2
  <2> HIDE DEF need, text, bound, ret
  <2>4. CASE g \in {Refused(h), NoMemory(h)}
    <3>1. o = g
      BY <2>1, <2>4 DEF Refused, NoMemory, Result
    <3> QED
      BY <2>4, <3>1, UnchangedLawful
  <2>5. CASE g \notin {Refused(h), NoMemory(h)}
    <3>1. /\ 0 < need /\ g.ret = "OK" /\ g.heap \in Heap
          /\ g.h \in Header /\ g.h.slen = h.slen
          /\ g.h.mlen \in Int /\ g.h.cap \in Int
          /\ need <= g.h.mlen /\ g.h.mlen <= g.h.cap /\ g.h.cap <= MemMax
          /\ g.extent = 0 \/ g.extent = h.slen + 1
          /\ need < g.h.cap \/ g.heap = "tight" \/ SnapUpSize(g.h.cap) = g.h.cap
      BY <2>2, <2>5, BallocOutcome, ZenonT(60)
    <3> DEFINE k == [slen |-> text, mlen |-> g.h.mlen, cap |-> g.h.cap, nul |-> TRUE]
    <3>2. Larger(g.extent, bound) = bound
      BY <1>0, <2>3, <3>1 DEF Larger
    <3>3. Finish(g, text).h = k
      BY <3>1 DEF Finish, Result
    <3>4. o = Result(k, ret, bound, g.heap)
      BY <2>1, <3>1, <3>2, <3>3
    <3>5. /\ k \in Header /\ k.slen = text /\ k.mlen = g.h.mlen
          /\ k.cap = g.h.cap /\ k.nul = TRUE
      BY <2>3, <3>1 DEF Header
    <3> HIDE DEF k
    <3>6. o.h = k /\ o.ret = ret /\ o.extent = bound /\ o.heap = g.heap
      BY <3>4 DEF Result
    <3>7. Typed(o)
      BY <2>3, <3>1, <3>5, <3>6 DEF Typed
    <3>8. Fits(o) => Sound(o.h)
      BY <1>0, <2>2, <2>3, <3>1, <3>5, <3>6 DEF Fits, Sound
    <3>9. ~Fits(o) => Cause(op, wide, h, o)
      BY <1>0, <2>2, <2>3, <3>1, <3>5, <3>6 DEF Fits, Cause, Exact
    <3>10. o.ret = "OK" \/ o.h.slen = h.slen
      BY <2>3, <3>5, <3>6
    <3>11. o.h.nul = TRUE
      BY <3>5, <3>6
    <3>12. Growing(op, h, o)
      <4>1. Doubled(h, g)
        BY <2>2, IntactFacts, BallocGrows
      <4> QED
        BY <3>5, <3>6, <4>1 DEF Growing, Bounded, Doubled
    <3> QED
      BY <1>2, <3>7, <3>8, <3>9, <3>10, <3>11, <3>12, SuccessLawful
  <2> QED
    BY <2>4, <2>5
<1> QED
  BY <1>1, <1>2 DEF Bvcformata

(***************************************************************************)
(* bpattern.  When one character is repeated, bsetstr is called on the     *)
(* header balloc has left and finds the room it asks for, or is refused.   *)
(***************************************************************************)
LEMMA BpatternLawful ==
  ASSUME NEW h, Intact(h), NEW op \in FullCallers, NEW wide \in BOOLEAN,
         NEW len \in Int, len <= IntMax, NEW o \in Bpattern(h, len)
  PROVE  Lawful(op, wide, h, o)
<1> DEFINE need == CInt(len + 1)
           Repeat(g, r) == [r EXCEPT !.extent = Larger(@, g.extent),
                                     !.heap = IF @ = "none" THEN g.heap ELSE @]
<1>0. /\ h.slen \in Int /\ h.mlen \in Int /\ IntMax \in Int /\ IntMax > 3
      /\ MemMax \in Int /\ MemMax <= IntMax
      /\ op # "bwriteallow" /\ h \in Header
  BY IntactFacts DEF FullCallers
<1>1. CASE h.slen <= 0 \/ len < 0
  BY <1>1, UnchangedLawful DEF Bpattern
<1>2. CASE ~(h.slen <= 0 \/ len < 0)
  <2>1. PICK g \in Balloc(h, need) :
          o \in IF g.ret = "ERR" THEN {g}
                ELSE IF len = 0 \/ h.slen # 1 THEN {Finish(g, len)}
                ELSE {Repeat(g, r) : r \in Bsetstr(g.h, len, 0, FALSE)}
    BY <1>2 DEF Bpattern
  <2>2. need \in Int /\ need <= IntMax /\ (need = len + 1 \/ need < 0)
    BY <1>0, <1>2, CIntFacts DEF IntMin
  <2>3. CASE g \in {Refused(h), NoMemory(h)}
    <3>1. g.ret = "ERR"
      BY <2>3 DEF Refused, NoMemory, Result
    <3>2. o = g
      BY <2>1, <3>1
    <3> QED
      BY <2>3, <3>2, UnchangedLawful
  <2>4. CASE g \notin {Refused(h), NoMemory(h)} /\ (len = 0 \/ h.slen # 1)
    <3>1. g.ret = "OK"
      BY <2>2, <2>4, BallocOutcome
    <3>2. o \in Asked(h, CInt(len + 1), len)
      BY <2>1, <2>4, <3>1 DEF Asked
    <3> QED
      BY <1>0, <1>2, <3>2, TextLawful
  <2>5. CASE g \notin {Refused(h), NoMemory(h)} /\ ~(len = 0 \/ h.slen # 1)
    <3>0. /\ Writable(h) /\ 0 < need
          /\ g.ret = "OK" /\ g.heap \in Heap
          /\ g.h \in Header /\ g.h.slen = h.slen
          /\ g.h.mlen \in Int /\ g.h.cap \in Int
          /\ need <= g.h.mlen /\ g.h.mlen <= g.h.cap /\ g.h.cap <= MemMax
          /\ \/ g.h = h /\ g.extent = 0
             \/ g.h.nul = TRUE /\ g.extent = h.slen + 1 /\ g.h.mlen = g.h.cap
      <4>1. g \in Balloc(h, need) /\ g \notin {Refused(h), NoMemory(h)}
        BY <2>5
      <4> HIDE DEF need
      <4> QED
        BY ZenonT(60), <2>2, <4>1, BallocOutcome
    <3>1. /\ Writable(h) /\ 0 < need /\ need = len + 1
          /\ g.ret = "OK" /\ g.heap \in Heap
          /\ g.h \in Header /\ g.h.slen = 1
          /\ g.h.mlen \in Int /\ g.h.cap \in Int
          /\ need <= g.h.mlen /\ g.h.mlen <= g.h.cap /\ g.h.cap <= MemMax
          /\ \/ g.h = h /\ g.extent = 0
             \/ g.h.nul = TRUE /\ g.extent = 2 /\ g.h.mlen = g.h.cap
      <4> HIDE DEF need
      <4> QED
        BY <2>2, <2>5, <3>0
    <3>2. 0 < len /\ len < g.h.mlen
      BY <1>2, <2>5, <3>1
    <3>3. Intact(g.h) /\ Writable(g.h)
      <4>1. g.h # NoString
        BY <3>1 DEF NoString
      <4>2. Writable(g.h)
        BY <3>1, <3>2 DEF Writable
      <4>3. Sound(g.h)
        <5>1. CASE g.h = h
          BY <5>1 DEF Intact
        <5>2. CASE g.h.nul = TRUE /\ g.h.mlen = g.h.cap
          BY <3>1, <3>2, <5>2 DEF Sound
        <5> QED
          BY <3>1, <5>1, <5>2
      <4> QED
        BY <3>1, <4>1, <4>2, <4>3 DEF Intact
    <3>4. PICK r \in Bsetstr(g.h, len, 0, FALSE) : o = Repeat(g, r)
      BY <2>1, <2>5, <3>1
    <3>9. /\ Doubled(h, g)
          /\ g.h.cap <= h.cap \/ g.h.cap <= Larger(SnapMin, 2 * (len + 1))
      <4>1. g \in Balloc(h, need)
        OBVIOUS
      <4> HIDE DEF need
      <4> QED
        BY <1>0, <2>2, <3>1, <4>1, BallocGrows
    <3>5. r \in Asked(g.h, need, len)
      <4>1. CInt(len + 0) = len
        BY <1>0, <1>2, CIntFacts DEF IntMin
      <4>2. Larger(1, len) = len
        BY <3>2 DEF Larger
      <4> QED
        BY <1>2, <3>1, <3>3, <3>4, <4>1, <4>2 DEF Bsetstr, MayRefuse, Asked
    <3>6. PICK q \in Balloc(g.h, need) : r = Finish(q, len)
      BY <3>5 DEF Asked
    <3> HIDE DEF need
    <3>7. CASE q \in {Refused(g.h), NoMemory(g.h)}
      <4>1. PICK heap \in {"none", "fail"} : r = Result(g.h, "ERR", 0, heap)
        BY <3>6, <3>7 DEF Finish, Refused, NoMemory, Result, Heap
      <4>2. Larger(0, g.extent) = g.extent
        BY <3>1 DEF Larger
      <4>3. PICK x \in {"none", "fail", g.heap} : o = Result(g.h, "ERR", g.extent, x)
        BY <3>1, <3>4, <4>1, <4>2 DEF Result
      <4>4. /\ o.h = g.h /\ o.ret = "ERR" /\ o.extent = g.extent
            /\ o.heap \in {"none", "fail", g.heap} /\ o.heap \in Heap
        BY <3>1, <4>3 DEF Result, Heap
      <4>5. Fits(o) /\ o.extent \in Int
        BY <3>1, <3>2, <4>4 DEF Fits
      <4>6. h.slen = 1 /\ h.mlen > 0
        BY <1>0, <2>5, <3>1 DEF Writable
      <4>7. h.nul => o.h.nul
        BY <3>1, <4>4
      <4>8. Growing(op, h, o)
        BY <3>9, <4>4 DEF Growing, Bounded, Doubled
      <4> QED
        BY <1>0, <3>1, <3>3, <4>4, <4>5, <4>6, <4>7, <4>8 DEF Lawful, Typed, Intact
    <3>8. CASE q \notin {Refused(g.h), NoMemory(g.h)}
      <4>1. /\ q = Result(q.h, "OK", q.extent, q.heap)
            /\ q.ret = "OK" /\ q.heap \in Heap
            /\ q.h \in Header
            /\ q.h.mlen \in Int /\ q.h.cap \in Int
            /\ need <= q.h.mlen /\ q.h.mlen <= q.h.cap /\ q.h.cap <= MemMax
            /\ q.extent = 0 \/ q.extent = 2
        <5>1. /\ q = Result(q.h, "OK", q.extent, q.heap)
              /\ q.ret = "OK" /\ q.heap \in Heap
              /\ q.h \in Header
              /\ q.h.mlen \in Int /\ q.h.cap \in Int
              /\ need <= q.h.mlen /\ q.h.mlen <= q.h.cap /\ q.h.cap <= MemMax
              /\ q.extent = 0 \/ q.extent = g.h.slen + 1
          BY <2>2, <3>3, <3>8, BallocOutcome
        <5> QED
          BY <3>1, <5>1
      <4> DEFINE k == [slen |-> len, mlen |-> q.h.mlen, cap |-> q.h.cap, nul |-> TRUE]
      <4>2. r = Result(k, "OK", Larger(q.extent, len + 1), q.heap)
        BY <3>6, <4>1 DEF Finish
      <4>3. Larger(q.extent, len + 1) = len + 1 /\ Larger(len + 1, g.extent) = len + 1
        BY <3>1, <3>2, <4>1 DEF Larger
      <4>4. /\ k \in Header /\ k.slen = len /\ k.mlen = q.h.mlen
            /\ k.cap = q.h.cap /\ k.nul = TRUE
        BY <4>1 DEF Header
      <4> HIDE DEF k
      <4>5. PICK x \in Heap : /\ o = Result(k, "OK", len + 1, x)
                              /\ x = IF q.heap = "none" THEN g.heap ELSE q.heap
        BY <3>1, <3>4, <4>1, <4>2, <4>3 DEF Result
      <4>6. /\ o.h = k /\ o.ret = "OK" /\ o.extent = len + 1 /\ o.heap \in Heap
            /\ o.heap = IF q.heap = "none" THEN g.heap ELSE q.heap
        BY <4>5 DEF Result
      <4>7. Typed(o)
        BY <4>4, <4>6 DEF Typed
      <4>8. Fits(o) /\ Sound(o.h)
        BY <1>0, <3>1, <3>2, <4>1, <4>4, <4>6 DEF Fits, Sound
      <4>9. /\ q.h.cap <= g.h.cap \/ q.h.cap <= Larger(SnapMin, 2 * (len + 1))
            /\ \A p \in PowersOfTwo :
                 p <= g.h.mlen /\ 2 * p <= IntMax /\ q.heap = "snap" => 2 * p <= q.h.cap
        BY <2>2, <3>1, <3>6, BallocGrows
      <4>10. q.heap = "none" => q.h = g.h
        BY <2>2, <3>3, <3>6, BallocKeeps
      <4>11. Bounded(op, h, o)
        <5>1. h.cap \in Int /\ Larger(SnapMin, 2 * (len + 1)) \in Int
          BY IntactFacts, SizesAssumption DEF Larger
        <5> QED
          BY <3>1, <3>9, <4>1, <4>4, <4>6, <4>9, <5>1 DEF Bounded
      <4>12. Doubled(h, o)
        <5>1. h.mlen <= g.h.mlen
          BY <2>2, BallocKeeps
        <5> QED
          BY <3>9, <4>4, <4>6, <4>9, <4>10, <5>1 DEF Doubled
      <4>13. Growing(op, h, o)
        BY <4>11, <4>12 DEF Growing
      <4> QED
        BY <3>1, <4>4, <4>6, <4>7, <4>8, <4>13, SuccessLawful
    <3> QED
      BY <3>7, <3>8
  <2> QED
    BY <2>3, <2>4, <2>5
<1> QED
  BY <1>1, <1>2

-----------------------------------------------------------------------------
(* The constructors, which start from no string. *)

(* A constructor that gives NULL, or an error, has written nothing. *)
LEMMA NullLawful ==
  ASSUME NEW op, NEW wide, NEW o,
         o \in {NullString, Result(NoString, "ERR", 0, "none")}
  PROVE  Lawful(op, wide, NoString, o)
<1>1. o.h = NoString /\ o.ret = "ERR" /\ o.extent = 0 /\ o.heap \in Heap
  BY DEF NullString, Result, Heap
<1>2. NoString \in Header /\ NoString.cap = 0 /\ NoString.nul = FALSE /\ Sound(NoString)
  BY DEF NoString, Header, Sound
<1>3. Growing(op, NoString, o)
  BY <1>1, <1>2 DEF Growing, Bounded, Doubled
<1> QED
  BY <1>1, <1>2, <1>3 DEF Lawful, Typed, Fits

(* A constructor that wrote inside its block made a sound header. *)
LEMMA MadeLawful ==
  ASSUME NEW op, NEW wide, NEW slen \in Int, NEW size \in Int, 0 <= size,
         size <= MemMax, NEW extent \in Int, NEW heap \in Heap,
         extent <= size => 0 <= slen /\ slen < size,
         extent > size => wide \/ (op \in ExactCallers /\ heap = "tight"),
         extent <= size /\ op \notin SizedCallers =>
           size <= Larger(SnapMin, 2 * (slen + 1)),
         NEW o, o = Made(slen, size, extent, heap)
  PROVE  Lawful(op, wide, NoString, o)
<1> DEFINE k == [slen |-> slen, mlen |-> size, cap |-> size, nul |-> TRUE]
<1>1. o = Result(k, "OK", extent, heap)
  BY DEF Made
<1>2. /\ k \in Header /\ k.nul = TRUE
      /\ k.slen = slen /\ k.mlen = size /\ k.cap = size
  BY DEF Header
<1> HIDE DEF k
<1>3. o.h = k /\ o.ret = "OK" /\ o.extent = extent /\ o.heap = heap
  BY <1>1 DEF Result
<1>4. Fits(o) => Sound(o.h)
  BY <1>2, <1>3 DEF Fits, Sound
<1>5. ~Fits(o) => Cause(op, wide, NoString, o)
  BY <1>2, <1>3 DEF Fits, Cause, Exact
<1>6. NoString.nul = FALSE
  BY DEF NoString
<1>7. Growing(op, NoString, o)
  BY <1>2, <1>3 DEF Growing, Bounded, Doubled, Fits
<1> QED
  BY <1>2, <1>3, <1>4, <1>5, <1>6, <1>7 DEF Lawful, Typed

(* The size a constructor snaps is no more than twice what the text takes: *)
(* an empty text, for which two bytes are asked, gets the smallest size.   *)
LEMMA MadeGrows ==
  ASSUME NEW n \in Nat, n < IntMax, NEW asked,
         asked = n + (IF n = 0 THEN 2 ELSE 1) \/ asked = n + 1
  PROVE  SnapUpSize(asked) <= Larger(SnapMin, 2 * (n + 1))
<1>1. SnapMin \in Int /\ 2 < SnapMin /\ SnapMin < IntMax /\ IntMax \in Int
  BY SizesAssumption
<1>2. CASE n = 0
  <2>1. SnapUpSize(asked) = SnapMin
    BY <1>1, <1>2 DEF SnapUpSize
  <2> QED
    BY <1>1, <1>2, <2>1 DEF Larger
<1>3. CASE n # 0
  <2>1. asked = n + 1 /\ asked \in Int /\ asked <= IntMax
    BY <1>1, <1>3
  <2> QED
    BY <2>1, SnapUpSizeGrows
<1> QED
  BY <1>2, <1>3

(* bfromcstr is lawful: it overruns only for a C string longer than        *)
(* INT_MAX.                                                                *)
LEMMA BfromcstrLawful ==
  ASSUME NEW n \in Int, 0 <= n, NEW op, NEW wide \in BOOLEAN,
         n + 1 > IntMax => wide, NEW o \in Bfromcstr(n)
  PROVE  Lawful(op, wide, NoString, o)
<1> DEFINE asked == ToInt(n + (IF n = 0 THEN 2 ELSE 1))
           slen == ToInt(n)
           size == SnapUpSize(asked)
<1>1. IntMax \in Int /\ IntMax > 3 /\ MemMax \in Int /\ "snap" \in Heap
  BY SizesAssumption DEF Heap
<1>2. /\ asked \in Int /\ asked <= IntMax /\ slen \in Int
      /\ n <= IntMax => slen = n
  BY <1>1, ToIntFacts
<1>3. /\ size \in Int /\ asked <= size
      /\ n < IntMax => n < asked
      /\ n < IntMax => size <= Larger(SnapMin, 2 * (n + 1))
  <2>1. n < IntMax => n < asked
    BY <1>1, ToIntFacts
  <2>2. ASSUME n < IntMax PROVE asked = n + (IF n = 0 THEN 2 ELSE 1)
    BY <1>1, <2>2, ToIntFacts
  <2> HIDE DEF asked
  <2>3. ASSUME n < IntMax PROVE size <= Larger(SnapMin, 2 * (n + 1))
    BY <1>1, <2>2, <2>3, MadeGrows
  <2> QED
    BY <1>2, <2>1, <2>3, SnapUpSizeFacts
<1> HIDE DEF asked, slen, size
<1>4. \/ o \in {NullString, Result(NoString, "ERR", 0, "none")}
      \/ o = Made(slen, size, n + 1, "snap") /\ 0 < size /\ size <= MemMax
  BY <1>1, <1>3 DEF Bfromcstr, asked, slen, size
<1>5. CASE o = Made(slen, size, n + 1, "snap") /\ 0 < size /\ size <= MemMax
  <2>1. MemMax <= IntMax
    BY SizesAssumption
  <2>2. n + 1 <= size => 0 <= slen /\ slen < size
    BY <1>1, <1>2, <1>3, <1>5, <2>1
  <2>3. n + 1 > size => wide
    BY <1>1, <1>2, <1>3, <1>5, <2>1
  <2> DEFINE extent == n + 1
             heap == "snap"
  <2>4. extent \in Int /\ heap \in Heap /\ o = Made(slen, size, extent, heap)
    BY <1>1, <1>5
  <2>5. /\ 0 <= size /\ (extent <= size => 0 <= slen /\ slen < size)
        /\ extent > size => wide
    BY <1>3, <1>5, <2>2, <2>3
  <2>6. extent <= size => size <= Larger(SnapMin, 2 * (slen + 1))
    BY <1>1, <1>2, <1>3, <1>5, <2>1
  <2> HIDE DEF extent, heap
  <2> QED
    BY <1>2, <1>3, <1>5, <2>4, <2>5, <2>6, MadeLawful
<1> QED
  BY <1>4, <1>5, NullLawful

(* bfromcstrrangealloc is lawful: it overruns only in a block of fewer     *)
(* bytes than its minimum.                                                 *)
LEMMA BfromcstrrangeallocLawful ==
  ASSUME NEW minl \in Int, NEW maxl \in Int, NEW n \in Int, 0 <= n,
         NEW op \in ExactCallers, op \in SizedCallers, NEW wide \in BOOLEAN,
         wide <=> n + 1 > IntMax, NEW o \in Bfromcstrrangealloc(minl, maxl, n)
  PROVE  Lawful(op, wide, NoString, o)
<1> DEFINE least == IF minl < n + 1 THEN ToInt(n + 1) ELSE minl
           slen == ToInt(n)
           Of(s) == Made(slen, s, n + 1, IF s < least THEN "tight" ELSE "exact")
<1>1. /\ IntMax \in Int /\ IntMax > 3 /\ MemMax \in Int /\ MemMax <= IntMax
      /\ "tight" \in Heap /\ "exact" \in Heap
  BY SizesAssumption DEF Heap
<1>2. /\ least \in Int /\ slen \in Int
      /\ n + 1 <= IntMax => slen = n /\ n + 1 <= least
  BY <1>1, ToIntFacts
<1>3. \/ o \in {NullString, Result(NoString, "ERR", 0, "none")}
      \/ \E s \in 0..MemMax : o = Of(s)
  BY DEF Bfromcstrrangealloc
<1>4. CASE \E s \in 0..MemMax : o = Of(s)
  <2>1. PICK s \in 0..MemMax : o = Of(s)
    BY <1>4
  <2> DEFINE extent == n + 1
             heap == IF s < least THEN "tight" ELSE "exact"
  <2>2. /\ s \in Int /\ 0 <= s /\ s <= MemMax
        /\ extent \in Int /\ heap \in Heap /\ o = Made(slen, s, extent, heap)
    BY <1>1, <2>1
  <2>3. extent <= s => 0 <= slen /\ slen < s
    BY <1>1, <1>2, <2>2
  <2>4. extent > s => wide \/ (op \in ExactCallers /\ heap = "tight")
    BY <1>1, <1>2, <2>2
  <2> HIDE DEF extent, heap, slen
  <2> QED
    BY <1>2, <2>2, <2>3, <2>4, MadeLawful
<1> QED
  BY <1>3, <1>4, NullLawful

(* blk2bstr is lawful: it overruns only when the length is INT_MAX. *)
LEMMA Blk2bstrLawful ==
  ASSUME NEW len \in Int, len <= IntMax, NEW op, NEW wide \in BOOLEAN,
         len + 1 > IntMax => wide, NEW o \in Blk2bstr(len)
  PROVE  Lawful(op, wide, NoString, o)
<1> DEFINE asked == CInt(len + (IF len = 0 THEN 2 ELSE 1))
           size == SnapUpSize(asked)
           late == Result(NoString, "ERR", len, "snap")
<1>1. IntMax \in Int /\ IntMax > 3 /\ MemMax \in Int /\ "snap" \in Heap
  BY SizesAssumption DEF Heap
<1>2. /\ asked \in Int /\ asked <= IntMax
      /\ 0 <= len /\ len < IntMax => len < asked
  BY <1>1, CIntFacts DEF IntMin
<1>3. /\ size \in Int /\ asked <= size
      /\ 0 <= len /\ len < IntMax => size <= Larger(SnapMin, 2 * (len + 1))
  <2>1. ASSUME 0 <= len, len < IntMax
        PROVE  asked = len + (IF len = 0 THEN 2 ELSE 1)
    BY <1>1, <2>1, CIntFacts DEF IntMin
  <2> HIDE DEF asked
  <2>2. ASSUME 0 <= len, len < IntMax PROVE size <= Larger(SnapMin, 2 * (len + 1))
    BY <1>1, <2>1, <2>2, MadeGrows
  <2> QED
    BY <1>2, <2>2, SnapUpSizeFacts
<1> HIDE DEF asked, size
<1>4. \/ o \in {NullString, Result(NoString, "ERR", 0, "none")}
      \/ 0 <= len /\ size > len /\ size <= MemMax /\ o = Made(len, size, len + 1, "snap")
      \/ 0 <= len /\ ~(size > len) /\ o = late
  BY <1>1, <1>3 DEF Blk2bstr, asked, size
<1>5. CASE /\ 0 <= len /\ size > len /\ size <= MemMax
           /\ o = Made(len, size, len + 1, "snap")
  <2> DEFINE extent == len + 1
             heap == "snap"
  <2>1. extent \in Int /\ heap \in Heap /\ o = Made(len, size, extent, heap)
    BY <1>1, <1>5
  <2>2. 0 <= size /\ extent <= size /\ ~(extent > size) /\ 0 <= len /\ len < size
    BY <1>3, <1>5
  <2>3. size <= Larger(SnapMin, 2 * (len + 1))
    BY <1>1, <1>3, <1>5, SizesAssumption
  <2> HIDE DEF extent, heap
  <2> QED
    BY <1>3, <1>5, <2>1, <2>2, <2>3, MadeLawful
<1>6. CASE 0 <= len /\ ~(size > len) /\ o = late
  <2>1. wide
    BY <1>1, <1>2, <1>3, <1>6
  <2>2. o.h = NoString /\ o.ret = "ERR" /\ o.extent = len /\ o.heap = "snap"
    BY <1>6 DEF Result
  <2>3. NoString \in Header /\ NoString.nul = FALSE /\ Sound(NoString)
    BY DEF NoString, Header, Sound
  <2>4. Growing(op, NoString, o)
    BY <2>2 DEF Growing, Bounded, Doubled
  <2> QED
    BY <1>1, <2>1, <2>2, <2>3, <2>4 DEF Lawful, Typed, Cause
<1> QED
  BY <1>4, <1>5, <1>6, NullLawful

(* bstrcpy is lawful: both of its requests count the terminator. *)
LEMMA BstrcpyLawful ==
  ASSUME NEW len \in Int, 0 <= len, len <= IntMax, NEW op, NEW wide \in BOOLEAN,
         len + 1 > IntMax => wide, NEW o \in Bstrcpy(len)
  PROVE  Lawful(op, wide, NoString, o)
<1> DEFINE need == CInt(len + 1)
           snap == SnapUpSize(need)
<1>1. /\ IntMax \in Int /\ IntMax > 3 /\ MemMax \in Int
      /\ MemMax <= IntMax /\ "snap" \in Heap /\ "tight" \in Heap
  BY SizesAssumption DEF Heap
<1>2. /\ need \in Int /\ need <= IntMax
      /\ len + 1 <= IntMax => need = len + 1
  BY <1>1, CIntFacts DEF IntMin
<1>3. /\ snap \in Int /\ need <= snap
      /\ len < IntMax => snap <= Larger(SnapMin, 2 * (len + 1))
      /\ len < IntMax => need <= Larger(SnapMin, 2 * (len + 1))
  <2> HIDE DEF need
  <2>1. ASSUME len < IntMax PROVE snap <= Larger(SnapMin, 2 * (len + 1))
    BY <1>1, <1>2, <2>1, MadeGrows
  <2>2. ASSUME len < IntMax PROVE need <= Larger(SnapMin, 2 * (len + 1))
    BY <1>1, <1>2, <2>2, SizesAssumption DEF Larger
  <2> QED
    BY <1>2, <2>1, <2>2, SnapUpSizeFacts
<1> HIDE DEF need, snap
<1>4. \/ o = NullString
      \/ snap \in 1..MemMax /\ o = Made(len, snap, len + 1, "snap")
      \/ need \in 1..MemMax /\ o = Made(len, need, len + 1, "tight")
  BY DEF Bstrcpy, need, snap
<1>5. ASSUME NEW size \in Int, need <= size, size \in 1..MemMax, NEW heap \in Heap,
             len < IntMax => size <= Larger(SnapMin, 2 * (len + 1)),
             o = Made(len, size, len + 1, heap)
      PROVE  Lawful(op, wide, NoString, o)
  <2> DEFINE extent == len + 1
  <2>1. extent \in Int /\ o = Made(len, size, extent, heap)
    BY <1>5
  <2>2. /\ 0 <= size /\ size <= MemMax
        /\ extent <= size => 0 <= len /\ len < size
        /\ extent > size => wide
        /\ extent <= size => size <= Larger(SnapMin, 2 * (len + 1))
    BY <1>1, <1>2, <1>5
  <2> HIDE DEF extent
  <2> QED
    BY <1>5, <2>1, <2>2, MadeLawful
<1>6. CASE snap \in 1..MemMax /\ o = Made(len, snap, len + 1, "snap")
  BY <1>1, <1>3, <1>5, <1>6
<1>7. CASE need \in 1..MemMax /\ o = Made(len, need, len + 1, "tight")
  BY <1>1, <1>2, <1>3, <1>5, <1>7
<1> QED
  BY <1>4, <1>6, <1>7, NullLawful

(* bmidstr is lawful: a blk2bstr of a part, or an empty string. *)
LEMMA BmidstrLawful ==
  ASSUME NEW len \in Int, 0 <= len, len <= IntMax, NEW left \in Int, NEW n \in Int,
         NEW op, NEW wide \in BOOLEAN, len + 1 > IntMax => wide,
         NEW o \in Bmidstr(len, left, n)
  PROVE  Lawful(op, wide, NoString, o)
<1> DEFINE part == Clamped(len, left, n)
<1>1. part \in Int /\ part <= len
  BY SizesAssumption DEF Clamped, Smaller, CInt, IntMin
<1> HIDE DEF part
<1>2. IntMax \in Int /\ IntMax > 3
  BY SizesAssumption
<1>3. CASE part <= 0
  <2> DEFINE m == 0
  <2>1. m \in Int /\ 0 <= m /\ ~(m + 1 > IntMax) /\ o \in Bfromcstr(m)
    BY <1>2, <1>3 DEF Bmidstr, part
  <2> HIDE DEF m
  <2> QED
    BY <2>1, BfromcstrLawful
<1>4. CASE ~(part <= 0)
  <2>1. o \in Blk2bstr(part)
    BY <1>4 DEF Bmidstr, part
  <2>2. part <= IntMax /\ (part + 1 > IntMax => wide)
    BY <1>1, <1>2
  <2> QED
    BY <1>1, <2>1, <2>2, Blk2bstrLawful
<1> QED
  BY <1>3, <1>4

-----------------------------------------------------------------------------
(* Every call is lawful. *)

(* What a step of the specification is once its function is forgotten.     *)
LawfulStep ==
  \E op \in Calls, wide \in BOOLEAN : \E o :
    /\ Lawful(op, wide, str, o)
    /\ str' = o.h
    /\ over' = (o.extent > o.h.cap)
    /\ last' = [op |-> op, ret |-> o.ret, heap |-> o.heap, wide |-> wide]

(* A step that takes an outcome of lawful ones is a lawful step. *)
LEMMA DoLawful ==
  ASSUME NEW op \in Calls, NEW longest, NEW wide \in BOOLEAN,
         wide = (longest > IntMax), NEW outcomes, Do(op, longest, outcomes),
         \A o \in outcomes : Lawful(op, wide, str, o)
  PROVE  LawfulStep
<1>1. PICK o \in outcomes :
         /\ str' = o.h
         /\ over' = (o.extent > o.h.cap)
         /\ last' = [op |-> op, ret |-> o.ret, heap |-> o.heap, wide |-> wide]
  BY DEF Do
<1> QED
  BY <1>1 DEF LawfulStep

(* The arguments are ints, or sizes.                                       *)
LEMMA ArgumentTypes ==
  /\ \A n \in Lens : n \in Int /\ n \in Nat /\ 0 <= n /\ n <= IntMax
  /\ \A n \in CstrLens : n \in Int /\ 0 <= n
  /\ \A n \in Ints : n \in Int /\ IntMin <= n /\ n <= IntMax
  /\ IntMax \in Int
BY SizesAssumption, ArgumentsAssumption DEF IntMin

(* Every step of a constructor is lawful. *)
LEMMA ConstructLawful ==
  ASSUME Construct
  PROVE  LawfulStep
<1>0. str = NoString
  BY DEF Construct, Absent, DoBfromcstr, DoBfromcstrrangealloc, DoBlk2bstr, DoBstrcpy,
         DoBmidstr
<1> USE ArgumentTypes
<1>10. CASE DoBfromcstr
  <2>1. PICK n \in CstrLens :
          Do("bfromcstr", n + 1, Bfromcstr(n))
    BY <1>10 DEF DoBfromcstr
  <2> DEFINE op == "bfromcstr"
             longest == n + 1
             wide == longest > IntMax
  <2>2. longest \in Int
    BY <1>0
  <2> HIDE DEF longest
  <2>3. wide \in BOOLEAN /\ (wide <=> longest > IntMax)
    BY <2>2
  <2>4. op # "bwriteallow" /\ op \in Calls
    BY DEF Calls
  <2> HIDE DEF wide
  <2> HIDE DEF op
  <2>6. \A o \in Bfromcstr(n) : Lawful(op, wide, str, o)
    BY <1>0, <2>1, <2>2, <2>3, <2>4, BfromcstrLawful DEF longest
  <2> QED
    BY <2>1, <2>3, <2>4, <2>6, DoLawful DEF op, longest
<1>11. CASE DoBfromcstrrangealloc
  <2>1. PICK n \in CstrLens, minl \in Ints, maxl \in Ints :
          Do("bfromcstrrangealloc", n + 1, Bfromcstrrangealloc(minl, maxl, n))
    BY <1>11 DEF DoBfromcstrrangealloc
  <2> DEFINE op == "bfromcstrrangealloc"
             longest == n + 1
             wide == longest > IntMax
  <2>2. longest \in Int
    BY <1>0
  <2> HIDE DEF longest
  <2>3. wide \in BOOLEAN /\ (wide <=> longest > IntMax)
    BY <2>2
  <2>4. op \in ExactCallers /\ op \in SizedCallers /\ op \in Calls
    BY DEF ExactCallers, SizedCallers, Calls
  <2> HIDE DEF wide
  <2> HIDE DEF op
  <2>6. \A o \in Bfromcstrrangealloc(minl, maxl, n) : Lawful(op, wide, str, o)
    BY <1>0, <2>1, <2>2, <2>3, <2>4, BfromcstrrangeallocLawful DEF longest
  <2> QED
    BY <2>1, <2>3, <2>4, <2>6, DoLawful DEF op, longest
<1>12. CASE DoBlk2bstr
  <2>1. PICK n \in Lens :
          Do("blk2bstr", n + 1, Blk2bstr(n))
    BY <1>12 DEF DoBlk2bstr
  <2> DEFINE op == "blk2bstr"
             longest == n + 1
             wide == longest > IntMax
  <2>2. longest \in Int
    BY <1>0
  <2> HIDE DEF longest
  <2>3. wide \in BOOLEAN /\ (wide <=> longest > IntMax)
    BY <2>2
  <2>4. op # "bwriteallow" /\ op \in Calls
    BY DEF Calls
  <2> HIDE DEF wide
  <2> HIDE DEF op
  <2>6. \A o \in Blk2bstr(n) : Lawful(op, wide, str, o)
    BY <1>0, <2>1, <2>2, <2>3, <2>4, Blk2bstrLawful DEF longest
  <2> QED
    BY <2>1, <2>3, <2>4, <2>6, DoLawful DEF op, longest
<1>13. CASE DoBstrcpy
  <2>1. PICK n \in Lens :
          Do("bstrcpy", n + 1, Bstrcpy(n))
    BY <1>13 DEF DoBstrcpy
  <2> DEFINE op == "bstrcpy"
             longest == n + 1
             wide == longest > IntMax
  <2>2. longest \in Int
    BY <1>0
  <2> HIDE DEF longest
  <2>3. wide \in BOOLEAN /\ (wide <=> longest > IntMax)
    BY <2>2
  <2>4. op # "bwriteallow" /\ op \in Calls
    BY DEF Calls
  <2> HIDE DEF wide
  <2> HIDE DEF op
  <2>6. \A o \in Bstrcpy(n) : Lawful(op, wide, str, o)
    BY <1>0, <2>1, <2>2, <2>3, <2>4, BstrcpyLawful DEF longest
  <2> QED
    BY <2>1, <2>3, <2>4, <2>6, DoLawful DEF op, longest
<1>14. CASE DoBmidstr
  <2>1. PICK len \in Lens, left \in Ints, n \in Ints :
          Do("bmidstr", len + 1, Bmidstr(len, left, n))
    BY <1>14 DEF DoBmidstr
  <2> DEFINE op == "bmidstr"
             longest == len + 1
             wide == longest > IntMax
  <2>2. longest \in Int
    BY <1>0
  <2> HIDE DEF longest
  <2>3. wide \in BOOLEAN /\ (wide <=> longest > IntMax)
    BY <2>2
  <2>4. op # "bwriteallow" /\ op \in Calls
    BY DEF Calls
  <2> HIDE DEF wide
  <2> HIDE DEF op
  <2>6. \A o \in Bmidstr(len, left, n) : Lawful(op, wide, str, o)
    BY <1>0, <2>1, <2>2, <2>3, <2>4, BmidstrLawful DEF longest
  <2> QED
    BY <2>1, <2>3, <2>4, <2>6, DoLawful DEF op, longest
<1> QED
  BY <1>10, <1>11, <1>12, <1>13, <1>14 DEF Construct

(* Every step that manages a string is lawful. *)
LEMMA ManageLawful ==
  ASSUME TypeOK, WellFormed, Manage
  PROVE  LawfulStep
<1>1. Present
  BY DEF Manage, DoBdestroy, DoBwriteprotect, DoBwriteallow, DoBalloc,
         DoBallocmin
<1>2. Intact(str)
  BY <1>1 DEF Present, TypeOK, WellFormed, Intact
<1>0. Intact(str) /\ str.slen \in Int /\ 0 <= str.slen /\ str.slen <= IntMax
  BY <1>2, IntactFacts
<1> USE ArgumentTypes
<1>10. CASE DoBdestroy
  <2>1. Do("bdestroy", 0, Bdestroy(str))
    BY <1>10 DEF DoBdestroy
  <2> DEFINE op == "bdestroy"
             longest == 0
             wide == longest > IntMax
  <2>2. longest \in Int
    BY <1>0
  <2> HIDE DEF longest
  <2>3. wide \in BOOLEAN /\ (wide <=> longest > IntMax)
    BY <2>2
  <2>4. op # "bwriteallow" /\ op \in Calls
    BY DEF Calls
  <2> HIDE DEF wide
  <2> HIDE DEF op
  <2>6. \A o \in Bdestroy(str) : Lawful(op, wide, str, o)
    BY <1>0, <2>1, <2>2, <2>3, <2>4, BdestroyLawful DEF longest
  <2> QED
    BY <2>1, <2>3, <2>4, <2>6, DoLawful DEF op, longest
<1>11. CASE DoBwriteprotect
  <2>1. Do("bwriteprotect", 0, Bwriteprotect(str))
    BY <1>11 DEF DoBwriteprotect
  <2> DEFINE op == "bwriteprotect"
             longest == 0
             wide == longest > IntMax
  <2>2. longest \in Int
    BY <1>0
  <2> HIDE DEF longest
  <2>3. wide \in BOOLEAN /\ (wide <=> longest > IntMax)
    BY <2>2
  <2>4. op # "bwriteallow" /\ op \in Calls
    BY DEF Calls
  <2> HIDE DEF wide
  <2> HIDE DEF op
  <2>6. \A o \in Bwriteprotect(str) : Lawful(op, wide, str, o)
    BY <1>0, <2>1, <2>2, <2>3, <2>4, BwriteprotectLawful DEF longest
  <2> QED
    BY SMTT(30), <2>1, <2>3, <2>4, <2>6, DoLawful DEF op, longest
<1>12. CASE DoBwriteallow
  <2>1. Do("bwriteallow", 0, Bwriteallow(str))
    BY <1>12 DEF DoBwriteallow
  <2> DEFINE op == "bwriteallow"
             longest == 0
             wide == longest > IntMax
  <2>2. longest \in Int
    BY <1>0
  <2> HIDE DEF longest
  <2>3. wide \in BOOLEAN /\ (wide <=> longest > IntMax)
    BY <2>2
  <2>4. op \in Calls
    BY DEF Calls
  <2> HIDE DEF wide
  <2>6. \A o \in Bwriteallow(str) : Lawful(op, wide, str, o)
    BY <1>0, <2>1, <2>2, <2>3, <2>4, BwriteallowLawful DEF longest
  <2> QED
    BY <2>1, <2>3, <2>4, <2>6, DoLawful DEF op, longest
<1>13. CASE DoBalloc
  <2>1. PICK n \in Ints :
          Do("balloc", n, Balloc(str, n))
    BY <1>13 DEF DoBalloc
  <2> DEFINE op == "balloc"
             longest == n
             wide == longest > IntMax
  <2>2. longest \in Int
    BY <1>0
  <2> HIDE DEF longest
  <2>3. wide \in BOOLEAN /\ (wide <=> longest > IntMax)
    BY <2>2
  <2>4. op \in ExactCallers /\ op \in SizedCallers /\ op \in Calls
    BY DEF ExactCallers, SizedCallers, Calls
  <2> HIDE DEF wide
  <2> HIDE DEF op
  <2>6. \A o \in Balloc(str, n) : Lawful(op, wide, str, o)
    BY <1>0, <2>1, <2>2, <2>3, <2>4, BallocLawful DEF longest
  <2> QED
    BY <2>1, <2>3, <2>4, <2>6, DoLawful DEF op, longest
<1>14. CASE DoBallocmin
  <2>1. PICK n \in Ints :
          Do("ballocmin", n, Ballocmin(str, n))
    BY <1>14 DEF DoBallocmin
  <2> DEFINE op == "ballocmin"
             longest == n
             wide == longest > IntMax
  <2>2. longest \in Int
    BY <1>0
  <2> HIDE DEF longest
  <2>3. wide \in BOOLEAN /\ (wide <=> longest > IntMax)
    BY <2>2
  <2>4. op \in SizedCallers /\ op \in Calls
    BY DEF SizedCallers, Calls
  <2> HIDE DEF wide
  <2> HIDE DEF op
  <2>6. \A o \in Ballocmin(str, n) : Lawful(op, wide, str, o)
    BY <1>0, <2>1, <2>2, <2>3, <2>4, BallocminLawful DEF longest
  <2> QED
    BY <2>1, <2>3, <2>4, <2>6, DoLawful DEF op, longest
<1> QED
  BY <1>10, <1>11, <1>12, <1>13, <1>14 DEF Manage

(* Every step of a mutator is lawful. *)
LEMMA MutateLawful ==
  ASSUME TypeOK, WellFormed, Mutate
  PROVE  LawfulStep
<1>1. Present
  BY DEF Mutate, DoBconcat, DoBconchar, DoBcatblk, DoBcatcstr, DoBassign,
         DoBassignmidstr, DoBassigncstr, DoBassignblk, DoBtrunc,
         DoBdelete, DoBltrimws, DoBrtrimws, DoBtrimws, DoBsetstr,
         DoBinsertblk, DoBinsertch, DoBreplace, DoFindreplace,
         DoBpattern, DoBvcformata, DoBformata, DoBassignformat
<1>2. Intact(str)
  BY <1>1 DEF Present, TypeOK, WellFormed, Intact
<1>0. Intact(str) /\ str.slen \in Int /\ 0 <= str.slen /\ str.slen <= IntMax
  BY <1>2, IntactFacts
<1> USE ArgumentTypes
<1>10. CASE DoBconcat
  <2>1. PICK len \in Lens, aliased \in BOOLEAN :
          Do("bconcat", str.slen + len + 1, Bconcat(str, len, aliased))
    BY <1>10 DEF DoBconcat
  <2> DEFINE op == "bconcat"
             longest == str.slen + len + 1
             wide == longest > IntMax
  <2>2. longest \in Int
    BY <1>0
  <2> HIDE DEF longest
  <2>3. wide \in BOOLEAN /\ (wide <=> longest > IntMax)
    BY <2>2
  <2>4. op # "bwriteallow" /\ op \in Calls
    BY DEF Calls
  <2> HIDE DEF wide
  <2> HIDE DEF op
  <2>6. \A o \in Bconcat(str, len, aliased) : Lawful(op, wide, str, o)
    BY <1>0, <2>1, <2>2, <2>3, <2>4, BconcatLawful DEF longest
  <2> QED
    BY <2>1, <2>3, <2>4, <2>6, DoLawful DEF op, longest
<1>11. CASE DoBconchar
  <2>1. Do("bconchar", str.slen + 2, Bconchar(str))
    BY <1>11 DEF DoBconchar
  <2> DEFINE op == "bconchar"
             longest == str.slen + 2
             wide == longest > IntMax
  <2>2. longest \in Int
    BY <1>0
  <2> HIDE DEF longest
  <2>3. wide \in BOOLEAN /\ (wide <=> longest > IntMax)
    BY <2>2
  <2>4. op # "bwriteallow" /\ op \in Calls
    BY DEF Calls
  <2> HIDE DEF wide
  <2> HIDE DEF op
  <2>6. \A o \in Bconchar(str) : Lawful(op, wide, str, o)
    BY <1>0, <2>1, <2>2, <2>3, <2>4, BconcharLawful DEF longest
  <2> QED
    BY <2>1, <2>3, <2>4, <2>6, DoLawful DEF op, longest
<1>12. CASE DoBcatblk
  <2>1. PICK len \in Lens :
          Do("bcatblk", str.slen + len + 1, Bcatblk(str, len))
    BY <1>12 DEF DoBcatblk
  <2> DEFINE op == "bcatblk"
             longest == str.slen + len + 1
             wide == longest > IntMax
  <2>2. longest \in Int
    BY <1>0
  <2> HIDE DEF longest
  <2>3. wide \in BOOLEAN /\ (wide <=> longest > IntMax)
    BY <2>2
  <2>4. op # "bwriteallow" /\ op \in Calls
    BY DEF Calls
  <2> HIDE DEF wide
  <2> HIDE DEF op
  <2>6. \A o \in Bcatblk(str, len) : Lawful(op, wide, str, o)
    BY <1>0, <2>1, <2>2, <2>3, <2>4, BcatblkLawful DEF longest
  <2> QED
    BY <2>1, <2>3, <2>4, <2>6, DoLawful DEF op, longest
<1>13. CASE DoBcatcstr
  <2>1. PICK n \in CstrLens :
          Do("bcatcstr", str.slen + n + 1, Bcatcstr(str, n))
    BY <1>13 DEF DoBcatcstr
  <2> DEFINE op == "bcatcstr"
             longest == str.slen + n + 1
             wide == longest > IntMax
  <2>2. longest \in Int
    BY <1>0
  <2> HIDE DEF longest
  <2>3. wide \in BOOLEAN /\ (wide <=> longest > IntMax)
    BY <2>2
  <2>4. op # "bwriteallow" /\ op \in Calls
    BY DEF Calls
  <2> HIDE DEF wide
  <2>6. \A o \in Bcatcstr(str, n) : Lawful(op, wide, str, o)
    BY <1>0, <2>1, <2>2, <2>3, <2>4, BcatcstrLawful DEF longest
  <2> QED
    BY <2>1, <2>3, <2>4, <2>6, DoLawful DEF op, longest
<1>14. CASE DoBassign
  <2>1. PICK len \in Lens :
          Do("bassign", len, Bassign(str, len))
    BY <1>14 DEF DoBassign
  <2> DEFINE op == "bassign"
             longest == len
             wide == longest > IntMax
  <2>2. longest \in Int
    BY <1>0
  <2> HIDE DEF longest
  <2>3. wide \in BOOLEAN /\ (wide <=> longest > IntMax)
    BY <2>2
  <2>4. op \in ExactCallers /\ op \in Calls
    BY DEF ExactCallers, Calls
  <2> HIDE DEF wide
  <2> HIDE DEF op
  <2>6. \A o \in Bassign(str, len) : Lawful(op, wide, str, o)
    BY <1>0, <2>1, <2>2, <2>3, <2>4, BassignLawful DEF longest
  <2> QED
    BY <2>1, <2>3, <2>4, <2>6, DoLawful DEF op, longest
<1>15. CASE DoBassignmidstr
  <2>1. PICK len \in Lens, left \in Ints, n \in Ints :
          Do("bassignmidstr", len, Bassignmidstr(str, len, left, n))
    BY <1>15 DEF DoBassignmidstr
  <2> DEFINE op == "bassignmidstr"
             longest == len
             wide == longest > IntMax
  <2>2. longest \in Int
    BY <1>0
  <2> HIDE DEF longest
  <2>3. wide \in BOOLEAN /\ (wide <=> longest > IntMax)
    BY <2>2
  <2>4. op \in ExactCallers /\ op \in Calls
    BY DEF ExactCallers, Calls
  <2> HIDE DEF wide
  <2> HIDE DEF op
  <2>6. \A o \in Bassignmidstr(str, len, left, n) : Lawful(op, wide, str, o)
    BY <1>0, <2>1, <2>2, <2>3, <2>4, BassignmidstrLawful DEF longest
  <2> QED
    BY <2>1, <2>3, <2>4, <2>6, DoLawful DEF op, longest
<1>16. CASE DoBassigncstr
  <2>1. PICK n \in CstrLens :
          Do("bassigncstr", n + 1, Bassigncstr(str, n))
    BY <1>16 DEF DoBassigncstr
  <2> DEFINE op == "bassigncstr"
             longest == n + 1
             wide == longest > IntMax
  <2>2. longest \in Int
    BY <1>0
  <2> HIDE DEF longest
  <2>3. wide \in BOOLEAN /\ (wide <=> longest > IntMax)
    BY <2>2
  <2>4. op # "bwriteallow" /\ op \in Calls
    BY DEF Calls
  <2> HIDE DEF wide
  <2>6. \A o \in Bassigncstr(str, n) : Lawful(op, wide, str, o)
    BY <1>0, <2>1, <2>2, <2>3, <2>4, BassigncstrLawful DEF longest
  <2> QED
    BY <2>1, <2>3, <2>4, <2>6, DoLawful DEF op, longest
<1>17. CASE DoBassignblk
  <2>1. PICK len \in Lens :
          Do("bassignblk", len + 1, Bassignblk(str, len))
    BY <1>17 DEF DoBassignblk
  <2> DEFINE op == "bassignblk"
             longest == len + 1
             wide == longest > IntMax
  <2>2. longest \in Int
    BY <1>0
  <2> HIDE DEF longest
  <2>3. wide \in BOOLEAN /\ (wide <=> longest > IntMax)
    BY <2>2
  <2>4. op # "bwriteallow" /\ op \in Calls
    BY DEF Calls
  <2> HIDE DEF wide
  <2> HIDE DEF op
  <2>6. \A o \in Bassignblk(str, len) : Lawful(op, wide, str, o)
    BY <1>0, <2>1, <2>2, <2>3, <2>4, BassignblkLawful DEF longest
  <2> QED
    BY <2>1, <2>3, <2>4, <2>6, DoLawful DEF op, longest
<1>18. CASE DoBtrunc
  <2>1. PICK n \in Ints :
          Do("btrunc", n, Btrunc(str, n))
    BY <1>18 DEF DoBtrunc
  <2> DEFINE op == "btrunc"
             longest == n
             wide == longest > IntMax
  <2>2. longest \in Int
    BY <1>0
  <2> HIDE DEF longest
  <2>3. wide \in BOOLEAN /\ (wide <=> longest > IntMax)
    BY <2>2
  <2>4. op # "bwriteallow" /\ op \in Calls
    BY DEF Calls
  <2> HIDE DEF wide
  <2> HIDE DEF op
  <2>6. \A o \in Btrunc(str, n) : Lawful(op, wide, str, o)
    BY <1>0, <2>1, <2>2, <2>3, <2>4, BtruncLawful DEF longest
  <2> QED
    BY <2>1, <2>3, <2>4, <2>6, DoLawful DEF op, longest
<1>19. CASE DoBdelete
  <2>1. PICK pos \in Ints, len \in Ints :
          Do("bdelete", Larger(pos, 0) + len, Bdelete(str, pos, len))
    BY <1>19 DEF DoBdelete
  <2> DEFINE op == "bdelete"
             longest == Larger(pos, 0) + len
             wide == longest > IntMax
  <2>2. longest \in Int
    BY <1>0 DEF Larger
  <2> HIDE DEF longest
  <2>3. wide \in BOOLEAN /\ (wide <=> longest > IntMax)
    BY <2>2
  <2>4. op # "bwriteallow" /\ op \in Calls
    BY DEF Calls
  <2> HIDE DEF wide
  <2> HIDE DEF op
  <2>6. \A o \in Bdelete(str, pos, len) : Lawful(op, wide, str, o)
    BY <1>0, <2>1, <2>2, <2>3, <2>4, BdeleteLawful DEF longest
  <2> QED
    BY <2>1, <2>3, <2>4, <2>6, DoLawful DEF op, longest
<1>20. CASE DoBltrimws
  <2>1. PICK lead \in 0..str.slen :
          Do("bltrimws", 0, Bltrimws(str, lead))
    BY <1>20 DEF DoBltrimws
  <2> DEFINE op == "bltrimws"
             longest == 0
             wide == longest > IntMax
  <2>2. longest \in Int
    BY <1>0
  <2> HIDE DEF longest
  <2>3. wide \in BOOLEAN /\ (wide <=> longest > IntMax)
    BY <2>2
  <2>4. op # "bwriteallow" /\ op \in Calls
    BY DEF Calls
  <2> HIDE DEF wide
  <2> HIDE DEF op
  <2>6. \A o \in Bltrimws(str, lead) : Lawful(op, wide, str, o)
    BY <1>0, <2>1, <2>2, <2>3, <2>4, BltrimwsLawful DEF longest
  <2> QED
    BY <2>1, <2>3, <2>4, <2>6, DoLawful DEF op, longest
<1>21. CASE DoBrtrimws
  <2>1. PICK trail \in 0..str.slen :
          Do("brtrimws", 0, Brtrimws(str, trail))
    BY <1>21 DEF DoBrtrimws
  <2> DEFINE op == "brtrimws"
             longest == 0
             wide == longest > IntMax
  <2>2. longest \in Int
    BY <1>0
  <2> HIDE DEF longest
  <2>3. wide \in BOOLEAN /\ (wide <=> longest > IntMax)
    BY <2>2
  <2>4. op \in FullCallers /\ op \in Calls
    BY DEF FullCallers, Calls
  <2> HIDE DEF wide
  <2> HIDE DEF op
  <2>6. \A o \in Brtrimws(str, trail) : Lawful(op, wide, str, o)
    BY <1>0, <2>1, <2>2, <2>3, <2>4, BrtrimwsLawful DEF longest
  <2>7. Do(op, longest, Brtrimws(str, trail))
    BY <2>1 DEF op, longest
  <2> QED
    BY <2>3, <2>4, <2>6, <2>7, DoLawful
<1>22. CASE DoBtrimws
  <2>1. PICK lead \in 0..str.slen, trail \in 0..str.slen :
          /\ lead + trail < str.slen \/ trail = str.slen
          /\ Do("btrimws", 0, Btrimws(str, lead, trail))
    BY <1>22 DEF DoBtrimws
  <2> DEFINE op == "btrimws"
             longest == 0
             wide == longest > IntMax
  <2>2. longest \in Int
    BY <1>0
  <2> HIDE DEF longest
  <2>3. wide \in BOOLEAN /\ (wide <=> longest > IntMax)
    BY <2>2
  <2>4. op \in FullCallers /\ op \in Calls
    BY DEF FullCallers, Calls
  <2> HIDE DEF wide
  <2> HIDE DEF op
  <2>6. \A o \in Btrimws(str, lead, trail) : Lawful(op, wide, str, o)
    BY <1>0, <2>1, <2>2, <2>3, <2>4, BtrimwsLawful DEF longest
  <2> QED
    BY <2>1, <2>3, <2>4, <2>6, DoLawful DEF op, longest
<1>23. CASE DoBsetstr
  <2>1. PICK pos \in Ints, len \in Lens, aliased \in BOOLEAN :
          Do("bsetstr", pos + len + 1, Bsetstr(str, pos, len, aliased))
    BY <1>23 DEF DoBsetstr
  <2> DEFINE op == "bsetstr"
             longest == pos + len + 1
             wide == longest > IntMax
  <2>2. longest \in Int
    BY <1>0
  <2> HIDE DEF longest
  <2>3. wide \in BOOLEAN /\ (wide <=> longest > IntMax)
    BY <2>2
  <2>4. op \in FullCallers /\ op \in Calls
    BY DEF FullCallers, Calls
  <2> HIDE DEF wide
  <2> HIDE DEF op
  <2>6. \A o \in Bsetstr(str, pos, len, aliased) : Lawful(op, wide, str, o)
    BY <1>0, <2>1, <2>2, <2>3, <2>4, BsetstrLawful DEF longest
  <2> QED
    BY <2>1, <2>3, <2>4, <2>6, DoLawful DEF op, longest
<1>24. CASE DoBinsertblk
  <2>1. PICK pos \in Ints, len \in Lens, aliased \in BOOLEAN :
          Do("binsertblk", Larger(str.slen, pos) + len + 1,
             Binsertblk(str, pos, len, aliased))
    BY <1>24 DEF DoBinsertblk
  <2> DEFINE op == "binsertblk"
             longest == Larger(str.slen, pos) + len + 1
             wide == longest > IntMax
  <2>2. longest \in Int
    BY <1>0 DEF Larger
  <2> HIDE DEF longest
  <2>3. wide \in BOOLEAN /\ (wide <=> longest > IntMax)
    BY <2>2
  <2>4. op # "bwriteallow" /\ op \in Calls
    BY DEF Calls
  <2> HIDE DEF wide
  <2> HIDE DEF op
  <2>6. \A o \in Binsertblk(str, pos, len, aliased) : Lawful(op, wide, str, o)
    BY <1>0, <2>1, <2>2, <2>3, <2>4, BinsertblkLawful DEF longest
  <2> QED
    BY <2>1, <2>3, <2>4, <2>6, DoLawful DEF op, longest
<1>25. CASE DoBinsertch
  <2>1. PICK pos \in Ints, len \in Ints :
          Do("binsertch", Larger(str.slen, pos) + len + 1,
             Binsertch(str, pos, len))
    BY <1>25 DEF DoBinsertch
  <2> DEFINE op == "binsertch"
             longest == Larger(str.slen, pos) + len + 1
             wide == longest > IntMax
  <2>2. longest \in Int
    BY <1>0 DEF Larger
  <2> HIDE DEF longest
  <2>3. wide \in BOOLEAN /\ (wide <=> longest > IntMax)
    BY <2>2
  <2>4. op # "bwriteallow" /\ op \in Calls
    BY DEF Calls
  <2> HIDE DEF wide
  <2> DEFINE aliased == FALSE
  <2>5. aliased \in BOOLEAN
    OBVIOUS
  <2> HIDE DEF op
  <2> HIDE DEF aliased
  <2>6. \A o \in Binsertch(str, pos, len) : Lawful(op, wide, str, o)
    BY <1>0, <2>1, <2>2, <2>3, <2>4, <2>5, BinsertblkLawful DEF longest, Binsertch, aliased
  <2> QED
    BY <2>1, <2>3, <2>4, <2>6, DoLawful DEF op, longest
<1>26. CASE DoBreplace
  <2>1. PICK pos \in Ints, len \in Ints, new \in Lens, aliased \in BOOLEAN :
          Do("breplace", Larger(pos, str.slen - len) + new + 1,
             Breplace(str, pos, len, new, aliased))
    BY <1>26 DEF DoBreplace
  <2> DEFINE op == "breplace"
             longest == Larger(pos, str.slen - len) + new + 1
             wide == longest > IntMax
  <2>2. longest \in Int
    BY <1>0 DEF Larger
  <2> HIDE DEF longest
  <2>3. wide \in BOOLEAN /\ (wide <=> longest > IntMax)
    BY <2>2
  <2>4. op # "bwriteallow" /\ op \in Calls
    BY DEF Calls
  <2> HIDE DEF wide
  <2>6. \A o \in Breplace(str, pos, len, new, aliased) : Lawful(op, wide, str, o)
    BY <1>0, <2>1, <2>2, <2>3, <2>4, BreplaceLawful DEF longest
  <2> QED
    BY <2>1, <2>3, <2>4, <2>6, DoLawful DEF op, longest
<1>27. CASE DoFindreplace
  <2>1. PICK find \in Lens, repl \in Lens, pos \in Ints, aliased \in BOOLEAN,
             count \in 0..str.slen :
          /\ count * find <= Larger(0, str.slen - Larger(pos, 0))
          /\ Do("bfindreplace", str.slen + count * Larger(repl - find, 0) + 1,
             Findreplaceengine(str, find, repl, pos, count, aliased))
    BY <1>27 DEF DoFindreplace
  <2> DEFINE op == "bfindreplace"
             longest == str.slen + count * Larger(repl - find, 0) + 1
             wide == longest > IntMax
  <2>2. longest \in Int
    <3>1. Larger(repl - find, 0) \in Int /\ count \in Int
      BY <1>0 DEF Larger
    <3> QED
      BY <1>0, <3>1
  <2> HIDE DEF longest
  <2>3. wide \in BOOLEAN /\ (wide <=> longest > IntMax)
    BY <2>2
  <2>4. op # "bwriteallow" /\ op \in Calls
    BY DEF Calls
  <2> HIDE DEF wide
  <2> HIDE DEF op
  <2>6. \A o \in Findreplaceengine(str, find, repl, pos, count, aliased) : Lawful(op, wide, str, o)
    BY <1>0, <2>1, <2>2, <2>3, <2>4, FindreplaceLawful DEF longest
  <2> QED
    BY <2>1, <2>3, <2>4, <2>6, DoLawful DEF op, longest
<1>28. CASE DoBpattern
  <2>1. PICK n \in Ints :
          Do("bpattern", n + 1, Bpattern(str, n))
    BY <1>28 DEF DoBpattern
  <2> DEFINE op == "bpattern"
             longest == n + 1
             wide == longest > IntMax
  <2>2. longest \in Int
    BY <1>0
  <2> HIDE DEF longest
  <2>3. wide \in BOOLEAN /\ (wide <=> longest > IntMax)
    BY <2>2
  <2>4. op \in FullCallers /\ op \in Calls
    BY DEF FullCallers, Calls
  <2> HIDE DEF wide
  <2> HIDE DEF op
  <2>6. \A o \in Bpattern(str, n) : Lawful(op, wide, str, o)
    BY <1>0, <2>1, <2>2, <2>3, <2>4, BpatternLawful DEF longest
  <2> QED
    BY <2>1, <2>3, <2>4, <2>6, DoLawful DEF op, longest
<1>29. CASE DoBvcformata
  <2>1. PICK count \in Ints, out \in Lens :
          Do("bvcformata", str.slen + count + 3, Bvcformata(str, count, out))
    BY <1>29 DEF DoBvcformata
  <2> DEFINE op == "bvcformata"
             longest == str.slen + count + 3
             wide == longest > IntMax
  <2>2. longest \in Int
    BY <1>0
  <2> HIDE DEF longest
  <2>3. wide \in BOOLEAN /\ (wide <=> longest > IntMax)
    BY <2>2
  <2>4. op \in ExactCallers /\ op \in SizedCallers /\ op \in Calls
    BY DEF ExactCallers, SizedCallers, Calls
  <2> HIDE DEF wide
  <2> HIDE DEF op
  <2>6. \A o \in Bvcformata(str, count, out) : Lawful(op, wide, str, o)
    BY <1>0, <2>1, <2>2, <2>3, <2>4, BvcformataLawful DEF longest
  <2> QED
    BY <2>1, <2>3, <2>4, <2>6, DoLawful DEF op, longest
<1>30. CASE DoBformata
  <2>1. PICK out \in Lens :
          Do("bformata", str.slen + out + 1, Bformata(str, out))
    BY <1>30 DEF DoBformata
  <2> DEFINE op == "bformata"
             longest == str.slen + out + 1
             wide == longest > IntMax
  <2>2. longest \in Int
    BY <1>0
  <2> HIDE DEF longest
  <2>3. wide \in BOOLEAN /\ (wide <=> longest > IntMax)
    BY <2>2
  <2>4. op # "bwriteallow" /\ op \in Calls
    BY DEF Calls
  <2> HIDE DEF wide
  <2> HIDE DEF op
  <2>6. \A o \in Bformata(str, out) : Lawful(op, wide, str, o)
    BY <1>0, <2>1, <2>2, <2>3, <2>4, BformataLawful DEF longest
  <2> QED
    BY <2>1, <2>3, <2>4, <2>6, DoLawful DEF op, longest
<1>31. CASE DoBassignformat
  <2>1. PICK out \in Lens :
          Do("bassignformat", out, Bassignformat(str, out))
    BY <1>31 DEF DoBassignformat
  <2> DEFINE op == "bassignformat"
             longest == out
             wide == longest > IntMax
  <2>2. longest \in Int
    BY <1>0
  <2> HIDE DEF longest
  <2>3. wide \in BOOLEAN /\ (wide <=> longest > IntMax)
    BY <2>2
  <2>4. op \in ExactCallers /\ op \in Calls
    BY DEF ExactCallers, Calls
  <2> HIDE DEF wide
  <2> HIDE DEF op
  <2>6. \A o \in Bassignformat(str, out) : Lawful(op, wide, str, o)
    BY <1>0, <2>1, <2>2, <2>3, <2>4, BassignformatLawful DEF longest
  <2> QED
    BY <2>1, <2>3, <2>4, <2>6, DoLawful DEF op, longest
<1> QED
  BY <1>10, <1>11, <1>12, <1>13, <1>14, <1>15, <1>16, <1>17, <1>18, <1>19,
     <1>20, <1>21, <1>22, <1>23, <1>24, <1>25, <1>26, <1>27, <1>28, <1>29,
     <1>30, <1>31 DEF Mutate

(* Every step is lawful. *)
LEMMA NextLawful ==
  ASSUME TypeOK, WellFormed, [Next]_vars
  PROVE  (~over /\ LawfulStep) \/ UNCHANGED vars
<1>1. CASE Construct
  <2>1. ~over
    BY <1>1 DEF Construct, Absent, DoBfromcstr, DoBfromcstrrangealloc, DoBlk2bstr,
         DoBstrcpy, DoBmidstr
  <2> QED
    BY <1>1, <2>1, ConstructLawful
<1>2. CASE Manage
  <2>1. ~over
    BY <1>2 DEF Manage, Present, DoBdestroy, DoBwriteprotect, DoBwriteallow,
         DoBalloc, DoBallocmin
  <2> QED
    BY <1>2, <2>1, ManageLawful
<1>3. CASE Mutate
  <2>1. ~over
    BY <1>3 DEF Mutate, Present, DoBconcat, DoBconchar, DoBcatblk, DoBcatcstr,
         DoBassign, DoBassignmidstr, DoBassigncstr, DoBassignblk, DoBtrunc,
         DoBdelete, DoBltrimws, DoBrtrimws, DoBtrimws, DoBsetstr,
         DoBinsertblk, DoBinsertch, DoBreplace, DoFindreplace, DoBpattern,
         DoBvcformata, DoBformata, DoBassignformat
  <2> QED
    BY <1>3, <2>1, MutateLawful
<1>4. CASE Undefined
  BY <1>4 DEF Undefined
<1> QED
  BY <1>1, <1>2, <1>3, <1>4 DEF Next

(***************************************************************************)
(* What a lawful call does to the state, property by property.             *)
(***************************************************************************)
LEMMA LawfulStepFacts ==
  ASSUME ~over, LawfulStep
  PROVE  /\ TypeOK' /\ WellFormed'
         /\ over' => \/ last'.wide
                     \/ last'.op \in ExactCallers /\ GrantedExactly'
                     \/ last'.op \in FullCallers /\ str.slen = str.mlen
         /\ str.nul /\ ~str'.nul /\ ~over' /\ str' # NoString => last'.ret = "ERR"
         /\ last'.ret = "ERR" /\ ~over' =>
              \/ str'.slen = str.slen /\ (str.nul => str'.nul)
              \/ last'.op \in PartialCallers /\ str'.slen = str.mlen
         /\ str # NoString /\ str.mlen <= 0 /\ str' # str
              => last'.op = "bwriteallow"
         /\ str'.cap > str.cap /\ last'.ret = "OK" /\ ~over' /\ last'.op \notin SizedCallers
              => str'.cap <= Larger(SnapMin, 2 * (str'.slen + 1))
         /\ (/\ str # NoString /\ str.mlen = str.cap /\ str.cap \in PowersOfTwo
             /\ last'.heap = "snap" /\ 2 * str.cap <= IntMax)
              => str'.cap >= 2 * str.cap
<1>1. PICK op \in Calls, wide \in BOOLEAN :
        \E o : /\ Lawful(op, wide, str, o)
               /\ str' = o.h
               /\ over' = (o.extent > o.h.cap)
               /\ last' = [op |-> op, ret |-> o.ret, heap |-> o.heap, wide |-> wide]
  BY DEF LawfulStep
<1>2. PICK o : /\ Lawful(op, wide, str, o)
               /\ str' = o.h
               /\ over' = (o.extent > o.h.cap)
               /\ last' = [op |-> op, ret |-> o.ret, heap |-> o.heap, wide |-> wide]
  BY <1>1
<1>3. /\ last'.op = op /\ last'.ret = o.ret
      /\ last'.heap = o.heap /\ last'.wide = wide
  BY <1>2
<1>4. o.h \in Header /\ o.ret \in {"OK", "ERR"} /\ o.extent \in Int /\ o.heap \in Heap
  BY <1>2 DEF Lawful, Typed
<1>5. o.h.cap \in Int
  BY <1>4 DEF Header
<1>6. over' \in BOOLEAN /\ (over' <=> ~Fits(o))
  <2> DEFINE out == o.extent > o.h.cap
  <2>1. out \in BOOLEAN /\ (out <=> ~Fits(o))
    BY <1>4, <1>5 DEF Fits
  <2>2. over' = out
    BY <1>2
  <2> HIDE DEF out
  <2> QED
    BY <2>1, <2>2
<1>7. TypeOK'
  BY <1>2, <1>4, <1>6 DEF TypeOK
<1>8. WellFormed'
  BY <1>2, <1>6 DEF WellFormed, Lawful, Sound
<1>9. Exact(o) => GrantedExactly'
  BY <1>2, <1>3 DEF Exact, GrantedExactly
<1>10. over' => \/ last'.wide
                \/ last'.op \in ExactCallers /\ GrantedExactly'
                \/ last'.op \in FullCallers /\ str.slen = str.mlen
  BY <1>2, <1>3, <1>6, <1>9 DEF Lawful, Cause
<1>11. str.nul /\ ~str'.nul /\ ~over' /\ str' # NoString => last'.ret = "ERR"
  BY <1>2, <1>3, <1>6 DEF Lawful
<1>12. last'.ret = "ERR" /\ ~over' =>
         \/ str'.slen = str.slen /\ (str.nul => str'.nul)
         \/ last'.op \in PartialCallers /\ str'.slen = str.mlen
  BY <1>2, <1>3, <1>6 DEF Lawful
<1>13. str # NoString /\ str.mlen <= 0 /\ str' # str => last'.op = "bwriteallow"
  BY <1>2, <1>3 DEF Lawful
<1>14. Growing(op, str, o)
  BY <1>2 DEF Lawful
<1>15. str'.cap > str.cap /\ last'.ret = "OK" /\ ~over' /\ last'.op \notin SizedCallers
         => str'.cap <= Larger(SnapMin, 2 * (str'.slen + 1))
  BY <1>2, <1>3, <1>6, <1>14 DEF Growing, Bounded
<1>16. (/\ str # NoString /\ str.mlen = str.cap /\ str.cap \in PowersOfTwo
        /\ last'.heap = "snap" /\ 2 * str.cap <= IntMax)
         => str'.cap >= 2 * str.cap
  <2>1. ASSUME str.cap \in PowersOfTwo PROVE str.cap \in Int
    BY <2>1, PowerFacts
  <2> QED
    BY <1>2, <1>3, <1>5, <1>14, <2>1 DEF Growing, Doubled
<1> QED
  BY <1>7, <1>8, <1>10, <1>11, <1>12, <1>13, <1>15, <1>16

-----------------------------------------------------------------------------
(* The theorems. *)

(* The type and the soundness of the header are inductive together: a call *)
(* is only lawful on a sound header.                                       *)
IInv == TypeOK /\ WellFormed

(* The inductive invariant holds at first, *)
LEMMA InitIInv == Init => IInv
<1>1. NoString \in Header
  BY DEF NoString, Header
<1> SUFFICES ASSUME Init PROVE IInv
  OBVIOUS
<1>2. str \in Header /\ Sound(str)
  BY <1>1 DEF Init, Sound
<1>3. over \in BOOLEAN
  BY DEF Init
<1>4. last \in [op : Calls, ret : {"OK", "ERR"}, heap : Heap, wide : BOOLEAN]
  <2>1. "none" \in Calls /\ "OK" \in {"OK", "ERR"} /\ "none" \in Heap
    BY DEF Calls, Heap
  <2> QED
    BY <2>1 DEF Init
<1> QED
  BY <1>2, <1>3, <1>4 DEF IInv, TypeOK, WellFormed

(* every step keeps it, *)
LEMMA NextIInv == IInv /\ [Next]_vars => IInv'
<1> SUFFICES ASSUME IInv, [Next]_vars PROVE IInv'
  OBVIOUS
<1>1. CASE UNCHANGED vars
  BY <1>1 DEF IInv, TypeOK, WellFormed, Sound, vars
<1>2. CASE ~over /\ LawfulStep
  BY <1>2, LawfulStepFacts DEF IInv
<1> QED
  BY <1>1, <1>2, NextLawful DEF IInv

(* and so it always holds. *)
LEMMA SpecIInv == Spec => []IInv
  BY InitIInv, NextIInv, PTL DEF Spec

(* Type correctness, for any sizes of int and memory and any arguments.    *)
THEOREM TypeCorrect == Spec => []TypeOK
<1>1. IInv => TypeOK
  BY DEF IInv
<1> QED
  BY <1>1, SpecIInv, PTL

(***************************************************************************)
(* The documented check, slen >= 0 and mlen >= slen, with the meaning of   *)
(* mlen, after every call that stayed in its buffer.                       *)
(***************************************************************************)
THEOREM HeaderSound == Spec => []WellFormed
<1>1. IInv => WellFormed
  BY DEF IInv
<1> QED
  BY <1>1, SpecIInv, PTL

(* A call writes outside of the buffer only for one of the named causes.   *)
THEOREM OverrunHasCause == Spec => OverrunNeedsNamedCause
<1>1. IInv /\ [Next]_vars =>
        [over' /\ ~over =>
           \/ last'.wide
           \/ last'.op \in ExactCallers /\ GrantedExactly'
           \/ last'.op \in FullCallers /\ str.slen = str.mlen]_vars
  BY NextLawful, LawfulStepFacts DEF IInv
<1> QED
  BY <1>1, SpecIInv, PTL DEF Spec, OverrunNeedsNamedCause

(* The terminator disappears only in a call that reports an error.         *)
THEOREM TerminatorKept == Spec => TerminatorLostOnlyOnError
<1>1. IInv /\ [Next]_vars =>
        [str.nul /\ ~str'.nul /\ ~over' /\ str' # NoString => last'.ret = "ERR"]_vars
  BY NextLawful, LawfulStepFacts DEF IInv
<1> QED
  BY <1>1, SpecIInv, PTL DEF Spec, TerminatorLostOnlyOnError

(* An error leaves the text as it was, but for the two partial callers.    *)
THEOREM ErrorKeepsText == Spec => FailedCallKeepsText
<1>1. IInv /\ [Next]_vars =>
        [last'.ret = "ERR" /\ ~over' =>
           \/ str'.slen = str.slen /\ (str.nul => str'.nul)
           \/ last'.op \in PartialCallers /\ str'.slen = str.mlen]_vars
  BY NextLawful, LawfulStepFacts DEF IInv
<1> QED
  BY <1>1, SpecIInv, PTL DEF Spec, FailedCallKeepsText

(* Only bwriteallow changes anything of a write protected string.          *)
THEOREM ProtectionKept == Spec => WriteProtectionHolds
<1>1. IInv /\ [Next]_vars =>
        [str # NoString /\ str.mlen <= 0 /\ str' # str
           => last'.op = "bwriteallow"]_vars
  BY NextLawful, LawfulStepFacts DEF IInv
<1> QED
  BY <1>1, SpecIInv, PTL DEF Spec, WriteProtectionHolds

(***************************************************************************)
(* Buffers grow geometrically: a call leaves one it enlarged with at most  *)
(* twice the size its text needs, and balloc, where it snaps the request,  *)
(* at least doubles a full one whose size is a power of two.               *)
(***************************************************************************)
THEOREM GrowthIsGeometric == Spec => Growth
<1>1. IInv /\ [Next]_vars =>
        [str'.cap > str.cap /\ last'.ret = "OK" /\ ~over' /\ last'.op \notin SizedCallers
           => str'.cap <= Larger(SnapMin, 2 * (str'.slen + 1))]_vars
  BY NextLawful, LawfulStepFacts DEF IInv
<1>2. IInv /\ [Next]_vars =>
        [(/\ str # NoString /\ str.mlen = str.cap /\ str.cap \in PowersOfTwo
          /\ last'.heap = "snap" /\ 2 * str.cap <= IntMax)
           => str'.cap >= 2 * str.cap]_vars
  BY NextLawful, LawfulStepFacts DEF IInv
<1> QED
  BY <1>1, <1>2, SpecIInv, PTL DEF Spec, Growth, GrowthBound, GrowthDoubles

=============================================================================

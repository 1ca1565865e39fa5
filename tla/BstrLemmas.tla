------------------------------ MODULE BstrLemmas ------------------------------
(***************************************************************************)
(* What the proofs of several components rest on: facts about the          *)
(* operators of BstrAlloc and BstrMutators (int arithmetic, the sizes,     *)
(* balloc, and the mutators the readers and the streams are written with), *)
(* and facts about cutting a sequence in two and about joining many.       *)
(***************************************************************************)
EXTENDS BstrMutators, SequencesExt, SequenceTheorems, WellFoundedInduction, TLAPS

-----------------------------------------------------------------------------
(* Int arithmetic and the sizes. *)

(* A sum that fits is itself; one that overflows upwards, by less than the *)
(* range of an int, becomes negative.                                      *)
LEMMA CIntFacts ==
  ASSUME NEW x \in Int, x <= 2 * IntMax + 1
  PROVE  /\ CInt(x) \in Int
         /\ CInt(x) <= IntMax
         /\ IntMin <= x /\ x <= IntMax => CInt(x) = x
         /\ x > IntMax => CInt(x) < 0
BY SizesAssumption DEF CInt, IntMin

(* A narrowed size_t is an int.                                            *)
LEMMA ToIntFacts ==
  ASSUME NEW n \in Int
  PROVE  /\ ToInt(n) \in Int
         /\ ToInt(n) <= IntMax
         /\ 0 <= n /\ n <= IntMax => ToInt(n) = n
<1> DEFINE w == 2 * (IntMax + 1)
<1>1. w \in Nat /\ w > 0
  BY SizesAssumption
<1>2. n % w \in 0..(w - 1)
  BY <1>1
<1>3. 0 <= n /\ n <= IntMax => n % w = n
  BY <1>1, SizesAssumption
<1> QED
  BY <1>2, <1>3, SizesAssumption DEF ToInt

(* The snapped size is never less than the request, and an int.            *)
LEMMA SnapUpSizeFacts ==
  ASSUME NEW i \in Int, i <= IntMax
  PROVE  /\ SnapUpSize(i) \in Int
         /\ i <= SnapUpSize(i)
         /\ 2 < SnapUpSize(i) /\ SnapUpSize(i) <= IntMax
         /\ SnapUpSize(i) = i \/ i < SnapUpSize(i)
<1>1. CASE i < SnapMin
  BY <1>1, SizesAssumption DEF SnapUpSize
<1>2. CASE i >= SnapMin /\ \E p \in PowersOfTwo : i < p /\ p <= 2 * i
  <2> DEFINE p == CHOOSE p \in PowersOfTwo : i < p /\ p <= 2 * i
  <2>1. p \in PowersOfTwo /\ i < p
    BY <1>2
  <2>2. p \in Int /\ p <= IntMax
    BY <2>1, SizesAssumption DEF PowersOfTwo
  <2>3. SnapUpSize(i) = p
    BY <1>2, SizesAssumption DEF SnapUpSize
  <2> HIDE DEF p
  <2> QED
    BY <1>2, <2>1, <2>2, <2>3, SizesAssumption
<1>3. CASE i >= SnapMin /\ ~\E p \in PowersOfTwo : i < p /\ p <= 2 * i
  BY <1>3, SizesAssumption DEF SnapUpSize
<1> QED
  BY <1>1, <1>2, <1>3, SizesAssumption

-----------------------------------------------------------------------------
(* The powers of two that fit an int.  The provers know no more of         *)
(* exponentiation than its values, which are therefore listed.             *)

Listed ==
  {1, 2, 4, 8, 16, 32, 64, 128, 256, 512, 1024, 2048, 4096, 8192, 16384,
   32768, 65536, 131072, 262144, 524288, 1048576, 2097152, 4194304,
   8388608, 16777216, 33554432, 67108864, 134217728, 268435456, 536870912,
   1073741824}

(* The values. *)
LEMMA PowerValues ==
  /\ 2^0 = 1 /\ 2^1 = 2 /\ 2^2 = 4 /\ 2^3 = 8 /\ 2^4 = 16 /\ 2^5 = 32
  /\ 2^6 = 64 /\ 2^7 = 128 /\ 2^8 = 256 /\ 2^9 = 512 /\ 2^10 = 1024
  /\ 2^11 = 2048 /\ 2^12 = 4096 /\ 2^13 = 8192 /\ 2^14 = 16384
  /\ 2^15 = 32768 /\ 2^16 = 65536 /\ 2^17 = 131072 /\ 2^18 = 262144
  /\ 2^19 = 524288 /\ 2^20 = 1048576 /\ 2^21 = 2097152 /\ 2^22 = 4194304
  /\ 2^23 = 8388608 /\ 2^24 = 16777216 /\ 2^25 = 33554432
  /\ 2^26 = 67108864 /\ 2^27 = 134217728 /\ 2^28 = 268435456
  /\ 2^29 = 536870912 /\ 2^30 = 1073741824
OBVIOUS

(* They are all there are. *)
LEMMA PowersAreListed == PowersOfTwo = Listed \cap 1..IntMax
<1>1. ASSUME NEW k \in 0..30 PROVE 2^k \in Listed
  <2> DEFINE p == 2^k
  <2>1. \/ k = 0 \/ k = 1 \/ k = 2 \/ k = 3 \/ k = 4 \/ k = 5
        \/ k = 6 \/ k = 7 \/ k = 8 \/ k = 9 \/ k = 10 \/ k = 11
        \/ k = 12 \/ k = 13 \/ k = 14 \/ k = 15 \/ k = 16 \/ k = 17
        \/ k = 18 \/ k = 19 \/ k = 20 \/ k = 21 \/ k = 22 \/ k = 23
        \/ k = 24 \/ k = 25 \/ k = 26 \/ k = 27 \/ k = 28 \/ k = 29
        \/ k = 30
    OBVIOUS
  <2>2. /\ (k = 0 => p = 2^0) /\ (k = 1 => p = 2^1) /\ (k = 2 => p = 2^2)
        /\ (k = 3 => p = 2^3) /\ (k = 4 => p = 2^4) /\ (k = 5 => p = 2^5)
        /\ (k = 6 => p = 2^6) /\ (k = 7 => p = 2^7) /\ (k = 8 => p = 2^8)
        /\ (k = 9 => p = 2^9) /\ (k = 10 => p = 2^10) /\ (k = 11 => p = 2^11)
        /\ (k = 12 => p = 2^12) /\ (k = 13 => p = 2^13) /\ (k = 14 => p = 2^14)
        /\ (k = 15 => p = 2^15) /\ (k = 16 => p = 2^16) /\ (k = 17 => p = 2^17)
        /\ (k = 18 => p = 2^18) /\ (k = 19 => p = 2^19) /\ (k = 20 => p = 2^20)
        /\ (k = 21 => p = 2^21) /\ (k = 22 => p = 2^22) /\ (k = 23 => p = 2^23)
        /\ (k = 24 => p = 2^24) /\ (k = 25 => p = 2^25) /\ (k = 26 => p = 2^26)
        /\ (k = 27 => p = 2^27) /\ (k = 28 => p = 2^28) /\ (k = 29 => p = 2^29)
        /\ (k = 30 => p = 2^30)
    BY Zenon
  <2> HIDE DEF p
  <2>3. p \in Listed
    BY <2>1, <2>2, PowerValues DEF Listed
  <2> QED
    BY <2>3 DEF p
<1>2. ASSUME NEW p \in Listed PROVE \E k \in 0..30 : p = 2^k
  BY PowerValues DEF Listed
<1> QED
  BY <1>1, <1>2, Zenon DEF PowersOfTwo

(* Twice a power is the next one.                                          *)
LEMMA PowerFacts ==
  ASSUME NEW p \in PowersOfTwo
  PROVE  /\ p \in Nat /\ 0 < p /\ p <= IntMax
         /\ 2 * p <= IntMax => 2 * p \in PowersOfTwo
         /\ \A q \in PowersOfTwo : p < q => 2 * p <= q
<1>1. p \in Listed /\ p \in Nat /\ 0 < p /\ p <= IntMax
  BY PowersAreListed, SizesAssumption
<1>2. 2 * p <= IntMax => 2 * p \in Listed
  BY <1>1, SnapAssumption, SizesAssumption DEF Listed
<1>3. ASSUME NEW q \in Listed, p < q PROVE 2 * p <= q
  BY <1>1, <1>3 DEF Listed
<1> QED
  BY <1>1, <1>2, <1>3, PowersAreListed, SizesAssumption

(* The snapped size is at most twice the request, or the smallest there is; *)
(* and where it exceeds a power of two that the request reaches, it is at   *)
(* least twice that power.                                                  *)
LEMMA SnapUpSizeGrows ==
  ASSUME NEW i \in Int, i <= IntMax
  PROVE  /\ SnapUpSize(i) <= Larger(SnapMin, 2 * i)
         /\ \A p \in PowersOfTwo :
              p <= i /\ p < SnapUpSize(i) /\ 2 * p <= IntMax => 2 * p <= SnapUpSize(i)
<1> DEFINE Between(p) == i < p /\ p <= 2 * i
           s == CHOOSE p \in PowersOfTwo : Between(p)
<1>0. SnapMin \in PowersOfTwo /\ SnapMin \in Int /\ IntMax \in Int /\ 0 < SnapMin
  BY SnapAssumption, SizesAssumption
<1>1. CASE i < SnapMin
  <2>1. SnapUpSize(i) = SnapMin
    BY <1>1 DEF SnapUpSize
  <2> QED
    BY <1>0, <2>1, PowerFacts DEF Larger
<1>2. CASE ~(i < SnapMin) /\ \E p \in PowersOfTwo : Between(p)
  <2>1. s \in PowersOfTwo /\ Between(s)
    BY <1>2
  <2>2. SnapUpSize(i) = s
    BY <1>2 DEF SnapUpSize
  <2> HIDE DEF s
  <2>3. s \in Int
    BY <2>1, PowerFacts
  <2>4. s <= Larger(SnapMin, 2 * i)
    BY <1>0, <2>1, <2>3 DEF Larger
  <2> QED
    BY <2>1, <2>2, <2>4, PowerFacts
<1>3. CASE ~(i < SnapMin) /\ ~\E p \in PowersOfTwo : Between(p)
  <2>1. SnapUpSize(i) = i
    BY <1>3 DEF SnapUpSize
  <2>2. i <= Larger(SnapMin, 2 * i)
    BY <1>0, <1>3 DEF Larger
  <2>3. ASSUME NEW p \in PowersOfTwo, p <= i, 2 * p <= IntMax
        PROVE  2 * p <= i
    <3>1. p \in Nat /\ 2 * p \in PowersOfTwo
      BY <2>3, PowerFacts
    <3>2. ~(i < 2 * p /\ 2 * p <= 2 * i)
      BY <1>3, <3>1
    <3> QED
      BY <2>3, <3>1, <3>2
  <2> QED
    BY <2>1, <2>2, <2>3
<1> QED
  BY <1>1, <1>2, <1>3

-----------------------------------------------------------------------------
(* balloc, and the store of the length and the terminator. *)

(* What balloc answers: it refuses or fails without any change, has room   *)
(* already, or grows the buffer to at least what was asked for.            *)
LEMMA BallocFacts ==
  ASSUME NEW h \in Header, NEW olen \in Int, olen <= IntMax,
         NEW g \in Balloc(h, olen)
  PROVE  \/ g = Refused(h)
         \/ g = NoMemory(h) /\ Writable(h)
         \/ /\ g = Fine(h) /\ Writable(h) /\ 0 < olen
            /\ olen < h.mlen \/ (olen = h.mlen /\ SnapUpSize(olen) = olen)
         \/ \E size \in 1..MemMax, heap \in {"snap", "tight"} :
              /\ g = Grown(h, size, heap) /\ Writable(h)
              /\ h.mlen <= olen /\ 0 < olen
              /\ \/ olen < size
                 \/ olen = size /\ heap = "tight"
                 \/ olen = size /\ SnapUpSize(size) = size
<1> DEFINE snap == SnapUpSize(olen)
<1>1. snap \in Int /\ olen <= snap /\ 0 < snap
  BY SnapUpSizeFacts
<1>2. h.mlen \in Int /\ MemMax \in Int
  BY SizesAssumption DEF Header
<1>3. CASE ~Writable(h) \/ olen <= 0
  BY <1>3 DEF Balloc
<1>4. CASE Writable(h) /\ olen > 0 /\ (olen < h.mlen \/ snap <= h.mlen)
  <2>1. g = Fine(h)
    BY <1>4 DEF Balloc
  <2> QED
    BY <1>1, <1>2, <1>4, <2>1
<1>5. CASE Writable(h) /\ olen > 0 /\ ~(olen < h.mlen \/ snap <= h.mlen)
  <2>1. \/ g = NoMemory(h)
        \/ \E size \in {snap} \cap 0..MemMax : g = Grown(h, size, "snap")
        \/ \E size \in {olen} \cap 0..MemMax : g = Grown(h, size, "tight")
    BY <1>5 DEF Balloc
  <2>2. CASE g = NoMemory(h)
    BY <1>5, <2>2
  <2>3. CASE \E size \in {snap} \cap 0..MemMax : g = Grown(h, size, "snap")
    <3>1. snap \in 1..MemMax /\ g = Grown(h, snap, "snap")
      BY <1>1, <1>2, <2>3
    <3>2. olen < snap \/ (olen = snap /\ SnapUpSize(snap) = snap)
      BY <1>1
    <3> HIDE DEF snap
    <3> QED
      BY <1>1, <1>2, <1>5, <3>1, <3>2
  <2>4. CASE \E size \in {olen} \cap 0..MemMax : g = Grown(h, size, "tight")
    <3>1. olen \in 1..MemMax /\ g = Grown(h, olen, "tight")
      BY <1>2, <1>5, <2>4
    <3> QED
      BY <1>1, <1>2, <1>5, <3>1
  <2> QED
    BY <2>1, <2>2, <2>3, <2>4
<1> QED
  BY <1>3, <1>4, <1>5

(* The header of an outcome of Finish: the fields, one by one.             *)
LEMMA FinishFields ==
  ASSUME NEW g, g.h \in Header, g.ret # "ERR", NEW slen \in Int
  PROVE  LET o == Finish(g, slen)
         IN  /\ o.h \in Header /\ o.h.slen = slen /\ o.h.mlen = g.h.mlen
             /\ o.h.cap = g.h.cap /\ o.h.nul = TRUE
             /\ o.ret = "OK" /\ o.heap = g.heap
             /\ o.extent = Larger(g.extent, slen + 1)
<1> DEFINE k == [slen |-> slen, mlen |-> g.h.mlen, cap |-> g.h.cap, nul |-> TRUE]
<1>1. Finish(g, slen) = Result(k, "OK", Larger(g.extent, slen + 1), g.heap)
  BY DEF Finish
<1>2. /\ k \in Header /\ k.slen = slen /\ k.mlen = g.h.mlen
      /\ k.cap = g.h.cap /\ k.nul = TRUE
  BY DEF Header
<1> HIDE DEF k
<1> QED
  BY <1>1, <1>2 DEF Result

-----------------------------------------------------------------------------
(***************************************************************************)
(* A header that claims no more than the block it has: the readers and the *)
(* streams keep theirs like that.  The mutators they call, on such headers *)
(* and where no length overflows.                                          *)
(***************************************************************************)
Owns(h) == h \in Header /\ h.mlen <= h.cap /\ h.cap <= MemMax

(* balloc grants what is asked for or changes nothing. *)
LEMMA BallocOwned ==
  ASSUME NEW h, Owns(h), NEW olen \in Int, olen <= IntMax,
         NEW g \in Balloc(h, olen)
  PROVE  /\ g.ret \in {"OK", "ERR"} /\ Owns(g.h) /\ g.h.slen = h.slen
         /\ g.ret = "ERR" => g.h = h
         /\ g.ret = "OK" => /\ Writable(h) /\ 0 < olen /\ olen <= g.h.mlen
                            /\ h.mlen <= g.h.mlen /\ (h.nul => g.h.nul)
         /\ Writable(h) /\ 0 < olen /\ olen < h.mlen => g.ret = "OK" /\ g.h = h
<1>1. /\ h \in Header /\ h.slen \in Int /\ h.mlen \in Int /\ h.cap \in Nat
      /\ h.nul \in BOOLEAN /\ MemMax \in Nat /\ MemMax <= IntMax /\ IntMax \in Nat
  BY SizesAssumption DEF Owns, Header
<1>2. CASE g = Refused(h)
  <2>1. g.h = h /\ g.ret = "ERR"
    BY <1>2 DEF Refused, Result
  <2>2. ~(Writable(h) /\ 0 < olen /\ olen < h.mlen)
    <3>1. ASSUME Writable(h), 0 < olen, olen < h.mlen
          PROVE  FALSE
      <4>1. g = Fine(h)
        BY <1>1, <3>1 DEF Balloc
      <4> QED
        BY <1>2, <4>1 DEF Fine, Refused, Result
    <3> QED
      BY <3>1
  <2> QED
    BY <1>1, <2>1, <2>2
<1>3. CASE g = NoMemory(h)
  <2>1. g.h = h /\ g.ret = "ERR"
    BY <1>3 DEF NoMemory, Result
  <2>2. ~(Writable(h) /\ 0 < olen /\ olen < h.mlen)
    <3>1. ASSUME Writable(h), 0 < olen, olen < h.mlen
          PROVE  FALSE
      <4>1. g = Fine(h)
        BY <1>1, <3>1 DEF Balloc
      <4> QED
        BY <1>3, <4>1 DEF Fine, NoMemory, Result
    <3> QED
      BY <3>1
  <2> QED
    BY <1>1, <2>1, <2>2
<1>4. CASE /\ g = Fine(h) /\ Writable(h) /\ 0 < olen /\ olen <= h.mlen
  <2>1. g.h = h /\ g.ret = "OK"
    BY <1>4 DEF Fine, Result
  <2> QED
    BY <1>1, <1>4, <2>1
<1>5. ASSUME NEW size \in 1..MemMax, NEW heap, g = Grown(h, size, heap),
             Writable(h), h.mlen <= olen, 0 < olen, olen <= size
      PROVE  /\ g.ret = "OK" /\ Owns(g.h) /\ g.h.slen = h.slen
             /\ g.h.mlen = size /\ g.h.nul
  <2> DEFINE k == [slen |-> h.slen, mlen |-> size, cap |-> size, nul |-> TRUE]
  <2>1. g.h = k /\ g.ret = "OK"
    BY <1>5 DEF Grown, Result
  <2>2. k \in Header /\ k.slen = h.slen /\ k.mlen = size /\ k.cap = size /\ k.nul
    BY <1>1 DEF Header
  <2> HIDE DEF k
  <2> QED
    BY <1>1, <2>1, <2>2 DEF Owns
<1>6. CASE \E size \in 1..MemMax, heap \in {"snap", "tight"} :
             /\ g = Grown(h, size, heap) /\ Writable(h)
             /\ h.mlen <= olen /\ 0 < olen /\ olen <= size
  <2>1. PICK size \in 1..MemMax : /\ h.mlen <= olen /\ 0 < olen /\ olen <= size
                                  /\ g.ret = "OK" /\ Owns(g.h) /\ g.h.slen = h.slen
                                  /\ g.h.mlen = size /\ g.h.nul /\ Writable(h)
    BY <1>5, <1>6
  <2>2. h.mlen <= size
    BY <1>1, <2>1
  <2> QED
    BY <1>1, <2>1, <2>2
<1>7. \/ g = Refused(h) \/ g = NoMemory(h)
      \/ g = Fine(h) /\ Writable(h) /\ 0 < olen /\ olen <= h.mlen
      \/ \E size \in 1..MemMax, heap \in {"snap", "tight"} :
           /\ g = Grown(h, size, heap) /\ Writable(h)
           /\ h.mlen <= olen /\ 0 < olen /\ olen <= size
  BY <1>1, BallocFacts
<1> QED
  BY <1>2, <1>3, <1>4, <1>6, <1>7

(* A text and its terminator are stored in the room that was made for both *)
(* of them, or nothing is changed.                                         *)
LEMMA FinishOutcome ==
  ASSUME NEW h, Owns(h), Writable(h), NEW short \in BOOLEAN,
         NEW olen \in Int, olen <= IntMax, NEW slen \in Nat,
         short => slen < olen \/ olen <= 0,
         ~short => slen < h.mlen,
         NEW g \in Room(h, short, olen), NEW o, o = Finish(g, slen)
  PROVE  /\ o.ret \in {"OK", "ERR"} /\ Owns(o.h)
         /\ o.ret = "ERR" => o.h = h
         /\ o.ret = "OK" => /\ o.h.slen = slen /\ slen < o.h.mlen
                            /\ h.mlen <= o.h.mlen /\ o.h.nul
         /\ ~short \/ (0 < olen /\ olen < h.mlen)
              => o.ret = "OK" /\ o.h.mlen = h.mlen
<1>1. /\ h \in Header /\ h.slen \in Int /\ h.mlen \in Int /\ h.cap \in Nat
      /\ MemMax \in Nat /\ IntMax \in Nat
  BY SizesAssumption DEF Owns, Header
<1>2. /\ g.ret \in {"OK", "ERR"} /\ Owns(g.h)
      /\ g.ret = "ERR" => g.h = h
      /\ g.ret = "OK" => slen < g.h.mlen /\ h.mlen <= g.h.mlen
      /\ ~short \/ (0 < olen /\ olen < h.mlen) => g.ret = "OK" /\ g.h = h
  <2>1. CASE short
    <3>1. g \in Balloc(h, olen)
      BY <2>1 DEF Room
    <3>2. g.ret = "OK" => 0 < olen /\ olen <= g.h.mlen /\ g.h.mlen \in Int
      BY <3>1, BallocOwned DEF Owns, Header
    <3>3. g.ret = "OK" => slen < g.h.mlen
      BY <2>1, <3>2
    <3> QED
      BY <2>1, <3>1, <3>3, BallocOwned
  <2>2. CASE ~short
    <3>1. g.h = h /\ g.ret = "OK"
      BY <2>2 DEF Room, Fine, Result
    <3> QED
      BY <1>1, <2>2, <3>1
  <2> QED
    BY <2>1, <2>2
<1>3. CASE g.ret = "ERR"
  BY <1>2, <1>3 DEF Finish
<1>4. CASE g.ret = "OK"
  <2>1. g.h \in Header /\ g.ret # "ERR" /\ slen \in Int
    BY <1>2, <1>4 DEF Owns
  <2>2. /\ o.h \in Header /\ o.h.slen = slen /\ o.h.mlen = g.h.mlen
        /\ o.h.cap = g.h.cap /\ o.h.nul = TRUE /\ o.ret = "OK"
    BY <2>1, FinishFields
  <2> QED
    BY <1>1, <1>2, <1>4, <2>2 DEF Owns
<1> QED
  BY <1>2, <1>3, <1>4

(* bconcat of a text that does not make the sum, with its terminator,      *)
(* overflow.                                                               *)
LEMMA BconcatOutcome ==
  ASSUME NEW h, Owns(h), Writable(h), NEW len \in Nat, h.slen + len < IntMax,
         NEW o \in Bconcat(h, len, FALSE)
  PROVE  /\ o.ret \in {"OK", "ERR"} /\ Owns(o.h)
         /\ o.ret = "ERR" => o.h = h
         /\ o.ret = "OK" => /\ o.h.slen = h.slen + len /\ h.slen + len < o.h.mlen
                            /\ h.mlen <= o.h.mlen /\ o.h.nul
<1> DEFINE nl == h.slen + len
           short == h.mlen <= nl + 1
<1>1. h.slen \in Nat /\ h.mlen \in Int /\ IntMax \in Nat /\ h.slen <= h.mlen
  BY SizesAssumption DEF Owns, Header, Writable
<1>2. nl \in Nat /\ nl + 1 <= IntMax /\ CInt(nl + 1) = nl + 1
  BY <1>1, CIntFacts DEF IntMin
<1>3. PICK g \in Room(h, short, nl + 1) : o = Finish(g, nl)
  BY <1>1, <1>2 DEF Bconcat, MayRefuse
<1>4. short \in BOOLEAN /\ (~short => nl < h.mlen)
  BY <1>1
<1> HIDE DEF nl, short
<1>5. nl < nl + 1 /\ nl + 1 \in Int
  BY <1>2
<1>6. /\ o.ret \in {"OK", "ERR"} /\ Owns(o.h)
      /\ o.ret = "ERR" => o.h = h
      /\ o.ret = "OK" => /\ o.h.slen = nl /\ nl < o.h.mlen
                         /\ h.mlen <= o.h.mlen /\ o.h.nul
  BY <1>2, <1>3, <1>4, <1>5, FinishOutcome
<1> QED
  BY <1>6 DEF nl

(* bcatblk of a block that does not make the sum overflow; the sum itself  *)
(* may be INT_MAX, and is then refused.                                    *)
LEMMA BcatblkOutcome ==
  ASSUME NEW h, Owns(h), Writable(h), NEW len \in Nat, h.slen + len <= IntMax,
         NEW o \in Bcatblk(h, len)
  PROVE  /\ o.ret \in {"OK", "ERR"} /\ Owns(o.h)
         /\ o.ret = "ERR" => o.h = h
         /\ o.ret = "OK" => /\ o.h.slen = h.slen + len /\ h.slen + len < o.h.mlen
                            /\ h.mlen <= o.h.mlen /\ o.h.nul
<1> DEFINE nl == h.slen + len
           short == h.mlen <= nl
           need == CInt(nl + 1)
<1>1. h.slen \in Nat /\ h.mlen \in Int /\ IntMax \in Nat
  BY SizesAssumption DEF Owns, Header, Writable
<1>2. nl \in Nat /\ nl <= IntMax
  BY <1>1
<1>3. need \in Int /\ need <= IntMax /\ (nl < need \/ need <= 0)
  <2>1. nl + 1 \in Int /\ nl + 1 <= 2 * IntMax + 1 /\ IntMin <= nl + 1
    BY <1>1, <1>2 DEF IntMin
  <2> HIDE DEF nl
  <2> QED
    BY <1>1, <1>2, <2>1, CIntFacts
<1>4. PICK g \in Room(h, short, need) : o = Finish(g, nl)
  BY <1>1, <1>2 DEF Bcatblk
<1>5. short \in BOOLEAN /\ (~short => nl < h.mlen)
  BY <1>1
<1> HIDE DEF nl, short, need
<1>6. /\ o.ret \in {"OK", "ERR"} /\ Owns(o.h)
      /\ o.ret = "ERR" => o.h = h
      /\ o.ret = "OK" => /\ o.h.slen = nl /\ nl < o.h.mlen
                         /\ h.mlen <= o.h.mlen /\ o.h.nul
  BY <1>2, <1>3, <1>4, <1>5, FinishOutcome
<1> QED
  BY <1>6 DEF nl

(* bassign of a text that the buffer has room for needs no memory. *)
LEMMA BassignOutcome ==
  ASSUME NEW h, Owns(h), Writable(h), NEW len \in Nat, len < h.mlen,
         NEW o \in Bassign(h, len)
  PROVE  /\ o.ret = "OK" /\ Owns(o.h)
         /\ o.h.slen = len /\ o.h.mlen = h.mlen
<1>1. /\ h.slen \in Nat /\ h.mlen \in Int /\ IntMax \in Nat /\ h.slen <= h.mlen
      /\ 0 < h.mlen /\ h.mlen <= IntMax
  BY SizesAssumption DEF Owns, Header, Writable
<1>2. PICK g : g = Fine(h) /\ o = Finish(g, len)
  <2>1. CASE len # 0
    <3>1. Balloc(h, len) = {Fine(h)}
      BY <1>1, <2>1 DEF Balloc
    <3> QED
      BY <2>1, <3>1 DEF Bassign
  <2>2. CASE len = 0
    BY <1>1, <2>2 DEF Bassign
  <2> QED
    BY <2>1, <2>2
<1> DEFINE short == FALSE
<1>3. g \in Room(h, short, 0)
  BY <1>2 DEF Room
<1>4. 0 \in Int /\ 0 <= IntMax /\ short \in BOOLEAN /\ ~short
  BY <1>1
<1> HIDE DEF short
<1>5. /\ o.ret \in {"OK", "ERR"} /\ Owns(o.h)
      /\ o.ret = "OK" => o.h.slen = len
      /\ o.ret = "OK" /\ o.h.mlen = h.mlen
  BY <1>2, <1>3, <1>4, FinishOutcome
<1> QED
  BY <1>5

(* bassign whatever the length: it replaces the text or changes nothing.   *)
LEMMA BassignKeeps ==
  ASSUME NEW h, Owns(h), NEW len \in Nat, len <= IntMax, NEW o \in Bassign(h, len)
  PROVE  /\ o.ret \in {"OK", "ERR"} /\ Owns(o.h) /\ h.mlen <= o.h.mlen
         /\ o.ret = "ERR" => o.h = h
<1>1. /\ h.slen \in Int /\ h.mlen \in Int /\ IntMax \in Nat /\ len \in Int
      /\ 0 \in Int /\ h \in Header
  BY SizesAssumption DEF Owns, Header
<1>2. ASSUME NEW g, g.ret \in {"OK", "ERR"}, Owns(g.h), g.ret = "ERR" => g.h = h,
             h.mlen <= g.h.mlen, o = Finish(g, len)
      PROVE  /\ o.ret \in {"OK", "ERR"} /\ Owns(o.h) /\ h.mlen <= o.h.mlen
             /\ o.ret = "ERR" => o.h = h
  <2>1. CASE g.ret = "ERR"
    BY <1>2, <2>1 DEF Finish
  <2>2. CASE g.ret = "OK"
    <3>1. g.h \in Header /\ g.ret # "ERR"
      BY <1>2, <2>2 DEF Owns
    <3>2. /\ o.h \in Header /\ o.h.mlen = g.h.mlen
          /\ o.h.cap = g.h.cap /\ o.ret = "OK"
      <4>1. LET f == Finish(g, len)
            IN  /\ f.h \in Header /\ f.h.mlen = g.h.mlen
                /\ f.h.cap = g.h.cap /\ f.ret = "OK"
        BY <1>1, <3>1, FinishFields
      <4> QED
        BY <1>2, <4>1, Zenon
    <3> QED
      BY <1>2, <3>2 DEF Owns
  <2> QED
    BY <1>2, <2>1, <2>2
<1>3. CASE len # 0
  <2>1. PICK g \in Balloc(h, len) : o = Finish(g, len)
    BY <1>3 DEF Bassign
  <2>2. /\ g.ret \in {"OK", "ERR"} /\ Owns(g.h)
        /\ g.ret = "ERR" => g.h = h
        /\ g.ret = "OK" => h.mlen <= g.h.mlen
    BY <1>1, <2>1, BallocOwned
  <2>3. h.mlen <= g.h.mlen
    BY <1>1, <2>2
  <2> QED
    BY <1>2, <2>1, <2>2, <2>3
<1>4. CASE len = 0
  <2>1. o = Refused(h) \/ o = Finish(Fine(h), 0)
    BY <1>4 DEF Bassign
  <2>2. CASE o = Refused(h)
    <3>1. o.h = h /\ o.ret = "ERR"
      BY <2>2 DEF Refused, Result
    <3> QED
      BY <1>1, <3>1
  <2>3. CASE o = Finish(Fine(h), 0)
    <3>1. Fine(h).ret = "OK" /\ Fine(h).h = h
      BY DEF Fine, Result
    <3> QED
      BY <1>1, <1>2, <1>4, <2>3, <3>1
  <2> QED
    BY <2>1, <2>2, <2>3
<1> QED
  BY <1>3, <1>4

(* binsert at the start of a text: a sum that does not fit is refused. *)
LEMMA BinsertOutcome ==
  ASSUME NEW h, Owns(h), Writable(h), NEW len \in Nat,
         NEW o \in Binsertblk(h, 0, len, FALSE)
  PROVE  /\ o.ret \in {"OK", "ERR"}
         /\ o.ret = "OK" => Owns(o.h) /\ h.slen + len < o.h.mlen
<1> DEFINE end == Larger(h.slen, 0) + len
           need == CInt(end + 1)
<1>1. /\ h.slen \in Nat /\ h.mlen \in Int /\ IntMax \in Nat /\ h.slen <= IntMax
  BY SizesAssumption DEF Owns, Header, Writable
<1>2. end = h.slen + len /\ end \in Nat
  BY <1>1 DEF Larger
<1>3. CASE end > IntMax
  <2>1. o = Refused(h)
    BY <1>3 DEF Binsertblk
  <2> QED
    BY <2>1 DEF Refused, Result
<1>4. CASE end <= IntMax
  <2>1. ~(end > IntMax)
    BY <1>1, <1>2, <1>4
  <2>2. PICK g \in Balloc(h, need) : o = Finish(g, end)
    BY <2>1 DEF Binsertblk, MayRefuse
  <2> DEFINE short == TRUE
  <2>3. g \in Room(h, short, need) /\ short \in BOOLEAN
    BY DEF Room
  <2>4. need \in Int /\ need <= IntMax /\ (end < need \/ need <= 0)
    <3>1. end \in Nat /\ end <= IntMax /\ IntMax \in Nat
      BY <1>1, <1>2, <1>4
    <3> HIDE DEF end
    <3>2. end + 1 \in Int /\ end + 1 <= 2 * IntMax + 1 /\ IntMin <= end + 1
      BY <3>1 DEF IntMin
    <3> QED
      BY <3>1, <3>2, CIntFacts
  <2> HIDE DEF end, need, short
  <2>5. short
    BY DEF short
  <2>6. /\ o.ret \in {"OK", "ERR"} /\ Owns(o.h)
        /\ o.ret = "OK" => end < o.h.mlen
    <3>1. end \in Nat /\ (short => end < need \/ need <= 0) /\ (~short => end < h.mlen)
      BY <1>2, <2>4, <2>5
    <3> QED
      BY <2>2, <2>3, <2>4, <3>1, FinishOutcome
  <2> QED
    BY <1>2, <2>6
<1> QED
  BY <1>1, <1>2, <1>3, <1>4

(* bfromcstr of the empty string makes a string or gives NULL. *)
LEMMA BfromcstrOutcome ==
  ASSUME NEW o \in Bfromcstr(0)
  PROVE  /\ o.ret \in {"OK", "ERR"} /\ Owns(o.h)
         /\ o.ret = "ERR" => o.h = NoString
         /\ o.ret = "OK" => o.h.slen = 0 /\ 0 < o.h.mlen /\ o.h.nul
<1> DEFINE size == SnapUpSize(ToInt(2))
<1>1. MemMax \in Nat /\ MemMax <= IntMax /\ IntMax \in Nat /\ 3 < IntMax
  BY SizesAssumption
<1>2. ToInt(2) = 2 /\ ToInt(0) = 0
  BY <1>1, ToIntFacts
<1>3. size \in Int /\ 2 < size
  BY <1>1, <1>2, SnapUpSizeFacts
<1>4. \/ o = NullString
      \/ o \in {Made(ToInt(0), s, 0 + 1, "snap") : s \in {size} \cap 1..MemMax}
  <2>1. 0 + 2 = 2 /\ ~(size <= 0)
    BY <1>3
  <2> HIDE DEF size
  <2> QED
    BY <1>2, <2>1 DEF Bfromcstr, size
<1> HIDE DEF size
<1>5. CASE o = NullString
  <2>1. o.h = NoString /\ o.ret = "ERR"
    BY <1>5 DEF NullString, Result
  <2>2. Owns(NoString)
    BY <1>1 DEF Owns, Header, NoString
  <2> QED
    BY <2>1, <2>2
<1>6. CASE o \in {Made(ToInt(0), s, 0 + 1, "snap") : s \in {size} \cap 1..MemMax}
  <2>1. PICK s \in 1..MemMax : o = Made(0, s, 0 + 1, "snap")
    BY <1>2, <1>6
  <2> DEFINE k == [slen |-> 0, mlen |-> s, cap |-> s, nul |-> TRUE]
  <2>2. o.h = k /\ o.ret = "OK"
    BY <2>1 DEF Made, Result
  <2>3. k \in Header /\ k.slen = 0 /\ k.mlen = s /\ k.cap = s /\ k.nul
    BY <1>1 DEF Header
  <2> HIDE DEF k
  <2> QED
    BY <1>1, <2>2, <2>3 DEF Owns
<1> QED
  BY <1>4, <1>5, <1>6

-----------------------------------------------------------------------------
(* Cutting a sequence in two, at k. *)

(* Both parts are sequences, and together they are the whole.              *)
LEMMA CutFacts ==
  ASSUME NEW S, NEW s \in Seq(S), NEW k \in 0..Len(s)
  PROVE  /\ SubSeq(s, 1, k) \in Seq(S) /\ Len(SubSeq(s, 1, k)) = k
         /\ \A i \in 1..k : SubSeq(s, 1, k)[i] = s[i]
         /\ SubSeq(s, k + 1, Len(s)) \in Seq(S)
         /\ Len(SubSeq(s, k + 1, Len(s))) = Len(s) - k
         /\ \A i \in 1..(Len(s) - k) : SubSeq(s, k + 1, Len(s))[i] = s[k + i]
         /\ SubSeq(s, 1, k) \o SubSeq(s, k + 1, Len(s)) = s
<1>1. Len(s) \in Nat /\ k \in Int /\ 0 <= k /\ k <= Len(s)
  BY LenProperties
<1>2. \A i \in 1..Len(s) : s[i] \in S
  BY ElementOfSeq
<1>3. /\ SubSeq(s, 1, k) \in Seq(S) /\ Len(SubSeq(s, 1, k)) = k
      /\ \A i \in 1..k : SubSeq(s, 1, k)[i] = s[i]
  BY <1>1, <1>2, SubSeqProperties
<1>4. /\ SubSeq(s, k + 1, Len(s)) \in Seq(S)
      /\ Len(SubSeq(s, k + 1, Len(s))) = Len(s) - k
      /\ \A i \in 1..(Len(s) - k) : SubSeq(s, k + 1, Len(s))[i] = s[k + i]
  <2> DEFINE a == k + 1
             b == Len(s)
  <2>1. a \in Int /\ b \in Int /\ \A i \in a..b : s[i] \in S
    BY <1>1, <1>2
  <2> HIDE DEF a, b
  <2>2. /\ SubSeq(s, a, b) \in Seq(S)
        /\ Len(SubSeq(s, a, b)) = IF a <= b THEN b - a + 1 ELSE 0
        /\ \A i \in 1 .. b - a + 1 : SubSeq(s, a, b)[i] = s[a + i - 1]
    BY <2>1, SubSeqProperties
  <2>3. /\ b - a + 1 = Len(s) - k
        /\ (IF a <= b THEN b - a + 1 ELSE 0) = Len(s) - k
        /\ \A i \in 1..(Len(s) - k) : a + i - 1 = k + i
    BY <1>1 DEF a, b
  <2>4. SubSeq(s, k + 1, Len(s)) = SubSeq(s, a, b)
    BY DEF a, b
  <2>5. \A i \in 1..(Len(s) - k) : SubSeq(s, a, b)[i] = s[k + i]
    BY <2>2, <2>3
  <2> QED
    BY <2>2, <2>3, <2>4, <2>5
<1>5. SubSeq(s, 1, k) \o SubSeq(s, k + 1, Len(s)) = SubSeq(s, 1, Len(s))
  <2>1. 1 \in 1..(Len(s) + 1) /\ k \in (1 - 1)..Len(s) /\ Len(s) \in k..Len(s)
    BY <1>1
  <2> QED
    BY <2>1, ConcatAdjacentSubSeq
<1> QED
  BY <1>3, <1>4, <1>5, SubSeqFull

(* Texts are closed under concatenation, which is associative. *)
LEMMA TextFacts ==
  /\ <<>> \in Seq(Nat)
  /\ \A s \in Seq(Nat) : s \o <<>> = s /\ <<>> \o s = s /\ Len(s) \in Nat
  /\ \A s, t \in Seq(Nat) : s \o t \in Seq(Nat) /\ Len(s \o t) = Len(s) + Len(t)
  /\ \A s, t, u \in Seq(Nat) : (s \o t) \o u = s \o (t \o u)
<1>1. <<>> \in Seq(Nat)
  BY EmptySeq
<1>2. ASSUME NEW s \in Seq(Nat)
      PROVE  s \o <<>> = s /\ <<>> \o s = s /\ Len(s) \in Nat
  BY LenProperties, ConcatEmptySeq
<1>3. ASSUME NEW s \in Seq(Nat), NEW t \in Seq(Nat)
      PROVE  s \o t \in Seq(Nat) /\ Len(s \o t) = Len(s) + Len(t)
  BY ConcatProperties
<1>4. ASSUME NEW s \in Seq(Nat), NEW t \in Seq(Nat), NEW u \in Seq(Nat)
      PROVE  (s \o t) \o u = s \o (t \o u)
  BY ConcatAssociative, SMTT(30)
<1> QED
  BY <1>1, <1>2, <1>3, <1>4

(* A concatenation is cut where its first part ends. *)
LEMMA CutOfConcat ==
  ASSUME NEW S, NEW s \in Seq(S), NEW t \in Seq(S)
  PROVE  /\ SubSeq(s \o t, 1, Len(s)) = s
         /\ SubSeq(s \o t, Len(s) + 1, Len(s \o t)) = t
         /\ Len(s) \in 0..Len(s \o t)
<1>1. /\ s \o t \in Seq(S) /\ Len(s \o t) = Len(s) + Len(t)
      /\ \A i \in 1 .. Len(s) + Len(t) : (s \o t)[i] =
           IF i <= Len(s) THEN s[i] ELSE t[i - Len(s)]
  BY ConcatProperties
<1>2. Len(s) \in Nat /\ Len(t) \in Nat
  BY LenProperties
<1>3. Len(s) \in 0..Len(s \o t)
  BY <1>1, <1>2
<1>4. SubSeq(s \o t, 1, Len(s)) = s
  <2>1. /\ SubSeq(s \o t, 1, Len(s)) \in Seq(S)
        /\ Len(SubSeq(s \o t, 1, Len(s))) = Len(s)
        /\ \A i \in 1..Len(s) : SubSeq(s \o t, 1, Len(s))[i] = (s \o t)[i]
    BY <1>1, <1>3, CutFacts
  <2>2. \A i \in 1..Len(s) : (s \o t)[i] = s[i]
    BY <1>1, <1>2
  <2> QED
    BY <2>1, <2>2, SeqEqual
<1>5. SubSeq(s \o t, Len(s) + 1, Len(s \o t)) = t
  <2>1. /\ SubSeq(s \o t, Len(s) + 1, Len(s \o t)) \in Seq(S)
        /\ Len(SubSeq(s \o t, Len(s) + 1, Len(s \o t))) = Len(s \o t) - Len(s)
        /\ \A i \in 1..(Len(s \o t) - Len(s)) :
             SubSeq(s \o t, Len(s) + 1, Len(s \o t))[i] = (s \o t)[Len(s) + i]
    BY <1>1, <1>3, CutFacts
  <2>2. Len(s \o t) - Len(s) = Len(t)
    BY <1>1, <1>2
  <2>3. \A i \in 1..Len(t) : (s \o t)[Len(s) + i] = t[i]
    BY <1>1, <1>2
  <2> QED
    BY <2>1, <2>2, <2>3, SeqEqual
<1> QED
  BY <1>3, <1>4, <1>5

-----------------------------------------------------------------------------
(* Joining the sequences of a sequence, by induction on their number.      *)

(* A set of natural numbers has a least one. *)
LEMMA LeastExists ==
  ASSUME NEW S, S \subseteq Nat, S # {}
  PROVE  \E x \in S : \A y \in S : x <= y
<1>1. \E x \in S : \A y \in S : ~(<<y, x>> \in OpToRel(<, Nat))
  BY NatLessThanWellFounded, WFMin, Zenon
<1>2. PICK x \in S : \A y \in S : ~(<<y, x>> \in OpToRel(<, Nat))
  BY <1>1
<1>3. ASSUME NEW y \in S PROVE x <= y
  <2>1. <<y, x>> \in Nat \X Nat /\ ~(<<y, x>> \in OpToRel(<, Nat))
    BY <1>2
  <2>2. ~(y < x)
    BY <2>1 DEF OpToRel
  <2>3. x \in Nat /\ y \in Nat
    BY <1>2, Zenon
  <2> QED
    BY <2>2, <2>3
<1> QED
  BY <1>3

(* A set of numbers that holds 0, and with each number below n the next    *)
(* one, holds all of them: induction, stated about a set.                  *)
LEMMA AllUpTo ==
  ASSUME NEW n \in Nat, NEW T, 0 \in T, \A i \in 1..n : i - 1 \in T => i \in T
  PROVE  0..n \subseteq T
<1> SUFFICES ASSUME ~(0..n \subseteq T) PROVE FALSE
  OBVIOUS
<1> DEFINE S == (0..n) \ T
<1>1. S \subseteq Nat /\ S # {}
  OBVIOUS
<1>2. PICK x \in S : \A y \in S : x <= y
  BY <1>1, LeastExists
<1>3. x \in Nat /\ x <= n /\ x \notin T
  BY <1>2
<1>4. x # 0
  BY <1>3
<1>5. x \in 1..n /\ x - 1 \in 0..n
  BY <1>3, <1>4
<1>6. x - 1 \in T
  <2>1. ~(x <= x - 1)
    BY <1>3
  <2> QED
    BY <1>2, <1>5, <2>1
<1> QED
  BY <1>3, <1>5, <1>6

(* The partial concatenations of s: the first i sequences of s make f[i].  *)
Concats(f, s) ==
  /\ f[0] = <<>>
  /\ \A i \in 1..Len(s) : f[i] = f[i - 1] \o s[i]

(* There are some. *)
LEMMA ConcatsExist ==
  ASSUME NEW S, NEW s \in Seq(Seq(S))
  PROVE  \E f \in [0..Len(s) -> Seq(S)] : Concats(f, s)
<1> DEFINE T == {n \in Nat : \E f \in [0..n -> Seq(S)] :
                   f[0] = <<>> /\ \A i \in 1..n : f[i] = f[i - 1] \o s[i]}
<1>1. Len(s) \in Nat /\ \A i \in 1..Len(s) : s[i] \in Seq(S)
  BY LenProperties, ElementOfSeq
<1>2. 0 \in T
  <2>1. [i \in 0..0 |-> <<>>] \in [0..0 -> Seq(S)]
    BY EmptySeq
  <2> DEFINE f == [i \in 0..0 |-> <<>>]
  <2>2. f[0] = <<>> /\ \A i \in 1..0 : f[i] = f[i - 1] \o s[i]
    OBVIOUS
  <2> HIDE DEF f
  <2>3. \E h \in [0..0 -> Seq(S)] : h[0] = <<>> /\ \A i \in 1..0 : h[i] = h[i - 1] \o s[i]
    BY <2>1, <2>2, Zenon DEF f
  <2> QED
    BY <2>3
<1>3. ASSUME NEW n \in 1..Len(s), n - 1 \in T
      PROVE  n \in T
  <2>1. PICK f \in [0..(n - 1) -> Seq(S)] :
          f[0] = <<>> /\ \A i \in 1..(n - 1) : f[i] = f[i - 1] \o s[i]
    BY <1>3
  <2> DEFINE g == [i \in 0..n |-> IF i = n THEN f[n - 1] \o s[n] ELSE f[i]]
  <2>2. n \in Nat /\ n >= 1 /\ n - 1 \in 0..(n - 1)
    BY <1>1
  <2>3. f[n - 1] \o s[n] \in Seq(S)
    <3>1. f[n - 1] \in Seq(S) /\ s[n] \in Seq(S)
      BY <1>1, <2>2
    <3> QED
      BY <3>1, ConcatProperties
  <2>4. g \in [0..n -> Seq(S)]
    <3>1. \A i \in 0..n : i # n => i \in 0..(n - 1)
      BY <2>2
    <3> QED
      BY <2>3, <3>1
  <2>5. g[0] = <<>>
    BY <2>1, <2>2
  <2>6. ASSUME NEW i \in 1..n PROVE g[i] = g[i - 1] \o s[i]
    <3>1. /\ i \in 0..n /\ i - 1 \in 0..n /\ i - 1 # n
          /\ i # n => i \in 1..(n - 1)
      BY <2>2
    <3>2. g[i - 1] = f[i - 1]
      BY <3>1
    <3>3. CASE i = n
      BY <3>1, <3>2, <3>3
    <3>4. CASE i # n
      <4>1. g[i] = f[i]
        BY <3>1, <3>4
      <4>2. f[i] = f[i - 1] \o s[i]
        BY <2>1, <3>1, <3>4
      <4> QED
        BY <3>2, <4>1, <4>2
    <3> QED
      BY <3>3, <3>4
  <2> HIDE DEF g
  <2> QED
    BY <2>2, <2>4, <2>5, <2>6
<1> HIDE DEF T
<1>4. 0..Len(s) \subseteq T
  BY <1>1, <1>2, <1>3, AllUpTo
<1>5. Len(s) \in T
  BY <1>1, <1>4
<1> QED
  BY <1>5 DEF T, Concats

(* FlattenSeq is the last of them. *)
LEMMA FlattenIs ==
  ASSUME NEW S, NEW s \in Seq(Seq(S)), NEW f \in [0..Len(s) -> Seq(S)], Concats(f, s)
  PROVE  FlattenSeq(s) = f[Len(s)]
<1> DEFINE n == Len(s)
<1>1. n \in Nat /\ s \in [1..n -> Seq(S)]
  BY LenProperties
<1>2. CASE n = 0
  <2>1. s = <<>>
    BY <1>2, EmptySeq
  <2> QED
    BY <1>2, <2>1 DEF FlattenSeq, Concats
<1>3. CASE n # 0
  <2> DEFINE Solves(h) == h = [i \in 1..n |-> IF i = 1 THEN s[i] ELSE h[i - 1] \o s[i]]
             g == [i \in 1..n |-> f[i]]
             h == CHOOSE h : Solves(h)
  <2>0. n \in 1..n
    BY <1>1, <1>3
  <2>1. FlattenSeq(s) = h[n]
    BY <1>3 DEF FlattenSeq
  <2> HIDE DEF n
  <2>2. Solves(g)
    <3>1. ASSUME NEW i \in 1..n
          PROVE  g[i] = IF i = 1 THEN s[i] ELSE g[i - 1] \o s[i]
      <4>1. f[i] = f[i - 1] \o s[i] /\ f[0] = <<>>
        BY DEF Concats, n
      <4>2. CASE i = 1
        <5>1. f[1 - 1] = f[0]
          OBVIOUS
        <5>2. s[1] \in Seq(S)
          BY <1>1, <4>2
        <5> QED
          BY <4>1, <4>2, <5>1, <5>2, ConcatEmptySeq
      <4>3. CASE i # 1
        <5>1. i - 1 \in 1..n
          BY <1>1, <4>3
        <5> QED
          BY <4>1, <4>3, <5>1
      <4> QED
        BY <4>2, <4>3
    <3> HIDE DEF g
    <3>2. [i \in 1..n |-> IF i = 1 THEN s[i] ELSE g[i - 1] \o s[i]] = [i \in 1..n |-> g[i]]
      BY <3>1
    <3>3. g = [i \in 1..n |-> g[i]]
      BY DEF g
    <3> QED
      BY <3>2, <3>3
  <2>3. Solves(h)
    BY <2>2
  <2> HIDE DEF h
  <2> DEFINE T == {0} \cup {i \in 1..n : h[i] = f[i]}
  <2>4. ASSUME NEW i \in 1..n, i - 1 \in T
        PROVE  i \in T
    <3>1. h[i] = IF i = 1 THEN s[i] ELSE h[i - 1] \o s[i]
      BY <2>3
    <3>2. f[i] = f[i - 1] \o s[i] /\ f[0] = <<>>
      BY DEF Concats, n
    <3>3. CASE i = 1
      <4>1. f[1 - 1] = f[0]
        OBVIOUS
      <4>2. s[1] \in Seq(S)
        BY <1>1, <3>3
      <4> QED
        BY <3>1, <3>2, <3>3, <4>1, <4>2, ConcatEmptySeq
    <3>4. CASE i # 1
      <4>1. i - 1 # 0
        BY <3>4
      <4>2. h[i - 1] = f[i - 1]
        BY <2>4, <4>1
      <4> QED
        BY <3>1, <3>2, <3>4, <4>2
    <3> QED
      BY <3>3, <3>4
  <2>5. 0 \in T
    OBVIOUS
  <2> HIDE DEF T
  <2>6. n \in T
    <3>1. 0..n \subseteq T
      BY <1>1, <2>4, <2>5, AllUpTo
    <3> QED
      BY <1>1, <3>1
  <2>7. h[n] = f[n]
    BY <1>3, <2>6 DEF T
  <2> QED
    BY <2>1, <2>7 DEF n
<1> QED
  BY <1>2, <1>3

(* What FlattenSeq makes: nothing of nothing, and one sequence more is     *)
(* appended.                                                               *)
LEMMA FlattenNone == FlattenSeq(<<>>) = <<>>
BY DEF FlattenSeq

LEMMA FlattenTyped ==
  ASSUME NEW S, NEW s \in Seq(Seq(S))
  PROVE  FlattenSeq(s) \in Seq(S)
<1>1. PICK f \in [0..Len(s) -> Seq(S)] : Concats(f, s)
  BY ConcatsExist
<1>2. Len(s) \in 0..Len(s)
  BY LenProperties
<1> QED
  BY <1>1, <1>2, FlattenIs

LEMMA FlattenAppend ==
  ASSUME NEW S, NEW s \in Seq(Seq(S)), NEW x \in Seq(S)
  PROVE  FlattenSeq(Append(s, x)) = FlattenSeq(s) \o x
<1> DEFINE t == Append(s, x)
           n == Len(s)
<1>1. /\ t \in Seq(Seq(S)) /\ Len(t) = n + 1 /\ t[n + 1] = x
      /\ \A i \in 1..n : t[i] = s[i]
  BY AppendProperties
<1>2. n \in Nat
  BY LenProperties
<1> HIDE DEF t
<1>3. PICK f \in [0..Len(t) -> Seq(S)] : Concats(f, t)
  BY <1>1, ConcatsExist
<1> DEFINE g == [i \in 0..n |-> f[i]]
<1>4. g \in [0..n -> Seq(S)]
  BY <1>1, <1>2, <1>3
<1>5. Concats(g, s)
  <2>1. g[0] = <<>>
    BY <1>2, <1>3 DEF Concats
  <2>2. ASSUME NEW i \in 1..n PROVE g[i] = g[i - 1] \o s[i]
    <3>1. i \in 0..n /\ i - 1 \in 0..n /\ i \in 1..Len(t)
      BY <1>1, <1>2
    <3>2. f[i] = f[i - 1] \o t[i] /\ t[i] = s[i]
      BY <1>1, <1>3, <3>1 DEF Concats
    <3> QED
      BY <3>1, <3>2
  <2> HIDE DEF g
  <2> QED
    BY <2>1, <2>2 DEF Concats
<1>6. FlattenSeq(s) = f[n]
  <2>1. FlattenSeq(s) = g[n]
    BY <1>4, <1>5, FlattenIs
  <2> QED
    BY <1>2, <2>1
<1>7. FlattenSeq(t) = f[n + 1]
  BY <1>1, <1>3, FlattenIs
<1>8. f[n + 1] = f[n] \o x
  <2>1. n + 1 \in 1..Len(t) /\ (n + 1) - 1 = n
    BY <1>1, <1>2
  <2> QED
    BY <1>1, <1>3, <2>1 DEF Concats
<1> QED
  BY <1>6, <1>7, <1>8 DEF t

=============================================================================

----------------------------- MODULE BstrAlloc -----------------------------
(***************************************************************************)
(* The header of a bstring and the two functions that size its buffer,     *)
(* balloc and ballocmin (bstring/bstrlib.c).  Every mutator of the library *)
(* is a guard, one call of balloc and a few stores; the operators here are *)
(* what those mutators (module BstrMutators) are composed from.            *)
(*                                                                         *)
(* A header is abstracted to what memory safety depends on:                *)
(*   slen, mlen  the two fields, C ints                                    *)
(*   cap         the bytes the allocator really granted for data           *)
(*   nul         whether data[slen] holds the terminating '\0'             *)
(* mlen and cap differ: bwriteprotect replaces mlen by -1 and bwriteallow  *)
(* restores it as the length of the text only.                             *)
(***************************************************************************)
EXTENDS Integers

CONSTANTS
  IntMax,   \* INT_MAX
  SnapMin,  \* the smallest size snapUpSize returns, 8 in the source
  MemMax    \* the largest block the allocator ever grants

ASSUME SizesAssumption ==
  /\ IntMax \in Nat /\ SnapMin \in Nat /\ MemMax \in Nat
  /\ 2 < SnapMin /\ SnapMin < IntMax
  /\ MemMax <= IntMax

IntMin == -IntMax - 1

Larger(x, y) == IF x >= y THEN x ELSE y

Smaller(x, y) == IF x <= y THEN x ELSE y

(***************************************************************************)
(* The value of a sum or difference of two ints, x being the true result:  *)
(* signed overflow is undefined in C, and the builds wrap around.  Where a *)
(* build also drops a test because overflow "cannot happen", the operator  *)
(* that models the function says so.                                       *)
(***************************************************************************)
CInt(x) ==
  IF x > IntMax THEN x - 2 * (IntMax + 1)
  ELSE IF x < IntMin THEN x + 2 * (IntMax + 1)
  ELSE x

(* A size_t narrowed by the cast (int). *)
ToInt(n) ==
  LET m == n % (2 * (IntMax + 1))
  IN  IF m > IntMax THEN m - 2 * (IntMax + 1) ELSE m

PowersOfTwo == {p \in 1..IntMax : \E k \in 0..30 : p = 2 ^ k}

(* The smallest size is a power of two (8 in the source), and an int has   *)
(* at most 32 bits.                                                        *)
ASSUME SnapAssumption == SnapMin \in PowersOfTwo /\ IntMax <= 2147483647

(* Mutant: the next multiple of the smallest size. *)
SnapUpSizeLinear(i) ==
  IF i < SnapMin THEN SnapMin
  ELSE IF (i \div SnapMin + 1) * SnapMin < IntMax
       THEN (i \div SnapMin + 1) * SnapMin
       ELSE i

(***************************************************************************)
(* The least power of two greater than i: the only one in i+1 .. 2*i.  It  *)
(* is i itself when that power does not fit an int.                        *)
(***************************************************************************)
SnapUpSize(i) ==
  IF i < SnapMin THEN SnapMin
  ELSE IF \E p \in PowersOfTwo : i < p /\ p <= 2 * i
       THEN CHOOSE p \in PowersOfTwo : i < p /\ p <= 2 * i
       ELSE i

-----------------------------------------------------------------------------
(* Headers and the outcomes of a call. *)

Header == [slen : Int, mlen : Int, cap : Nat, nul : BOOLEAN]

(* "none": the allocator was not asked; "snap": it granted the snapped     *)
(* size; "tight": it refused that and granted the exact size; "exact": a   *)
(* block whose size the caller chose; "fail": it granted nothing.          *)
Heap == {"none", "snap", "tight", "exact", "fail"}

(***************************************************************************)
(* What a call did: the header it leaves, BSTR_OK or BSTR_ERR, extent (one *)
(* more than the highest index of data it wrote) and the allocator's part. *)
(***************************************************************************)
Result(h, ret, extent, heap) ==
  [h |-> h, ret |-> ret, extent |-> extent, heap |-> heap]

Refused(h) == Result(h, "ERR", 0, "none")

NoMemory(h) == Result(h, "ERR", 0, "fail")

Fine(h) == Result(h, "OK", 0, "none")

(* An extent no buffer has: an access below index 0 or past every block. *)
Wild == IntMax + 1

(* slen and the terminator are stored at the end of every mutator that     *)
(* succeeds; g is the outcome of the allocation it began with.             *)
Finish(g, slen) ==
  IF g.ret = "ERR" THEN g
  ELSE Result([slen |-> slen, mlen |-> g.h.mlen, cap |-> g.h.cap, nul |-> TRUE],
              "OK", Larger(g.extent, slen + 1), g.heap)

(* The guard most mutators begin with. *)
Writable(h) == h.slen >= 0 /\ h.mlen > 0 /\ h.mlen >= h.slen

-----------------------------------------------------------------------------
(* balloc and ballocmin. *)

Grown(h, size, heap) ==
  Result([slen |-> h.slen, mlen |-> size, cap |-> size, nul |-> TRUE], "OK",
         h.slen + 1, heap)

(***************************************************************************)
(* balloc: the snapped size, by realloc or by malloc and copy; failing     *)
(* that, exactly olen bytes; failing that, BSTR_ERR and nothing changed.   *)
(* Either way the terminator is stored at data[slen] of the new block.     *)
(***************************************************************************)
Balloc(h, olen) ==
  IF ~Writable(h) \/ olen <= 0 THEN {Refused(h)}
  ELSE IF olen < h.mlen \/ SnapUpSize(olen) <= h.mlen THEN {Fine(h)}
  ELSE {Grown(h, size, "snap") : size \in {SnapUpSize(olen)} \cap 0..MemMax}
       \cup {Grown(h, size, "tight") : size \in {olen} \cap 0..MemMax}
       \cup {NoMemory(h)}

(* balloc called only when the condition short holds. *)
Room(h, short, olen) == IF short THEN Balloc(h, olen) ELSE {Fine(h)}

(* ballocmin: exactly len bytes, but never fewer than the text and its     *)
(* terminator take.                                                        *)
Ballocmin(h, len) ==
  IF ~Writable(h) \/ h.slen >= IntMax \/ len <= 0 THEN {Refused(h)}
  ELSE LET size == Larger(len, h.slen + 1)
       IN  IF size = h.mlen THEN {Fine(h)}
           ELSE {NoMemory(h)} \cup
                {Grown(h, n, "exact") : n \in {size} \cap 0..MemMax}

=============================================================================

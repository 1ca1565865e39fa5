---------------------------- MODULE BstrMutators ----------------------------
(***************************************************************************)
(* The constructors and mutators of bstring/bstrlib.c as functions of one  *)
(* header: each operator is the set of outcomes a call can have, one for   *)
(* every answer of the allocator and every build of an overflowing sum.    *)
(*                                                                         *)
(* A source bstring or block is abstracted to its length and, where the    *)
(* code looks for it, to whether it overlaps the buffer of h ("aliased"):  *)
(* the code then works on a copy, which the allocator may refuse.          *)
(***************************************************************************)
EXTENDS BstrAlloc

CONSTANT
  FindIndexCount  \* INITIAL_STATIC_FIND_INDEX_COUNT, 32 in the source

ASSUME FindIndexAssumption == FindIndexCount \in Nat

(* An allocation other than that of the buffer (the copy of an aliased     *)
(* argument, an index array) may be refused when it is asked for.          *)
MayRefuse(h, asked) == IF asked THEN {NoMemory(h)} ELSE {}

-----------------------------------------------------------------------------
(***************************************************************************)
(* Constructors and destructor.  A constructor that returns NULL leaves    *)
(* NoString, the header bdestroy leaves in the memory it frees.            *)
(***************************************************************************)
NoString == [slen |-> -1, mlen |-> -1, cap |-> 0, nul |-> FALSE]

NullString == Result(NoString, "ERR", 0, "fail")

Made(slen, size, extent, heap) ==
  Result([slen |-> slen, mlen |-> size, cap |-> size, nul |-> TRUE], "OK",
         extent, heap)

(***************************************************************************)
(* bfromcstr of a C string of length n.  n and n + 1 are narrowed to int   *)
(* one by one: only n = INT_MAX fails the comparison that guards the copy. *)
(***************************************************************************)
Bfromcstr(n) ==
  LET size == SnapUpSize(ToInt(n + (IF n = 0 THEN 2 ELSE 1)))
  IN  IF size <= ToInt(n) THEN {Result(NoString, "ERR", 0, "none")}
      ELSE {NullString} \cup
           {Made(ToInt(n), s, n + 1, "snap") : s \in {size} \cap 1..MemMax}

(***************************************************************************)
(* bfromcstrrangealloc, and bfromcstralloc, which passes mlen twice.  The  *)
(* size is brought from maxl to minl by halving the distance until malloc  *)
(* grants one; the halves are rounded down one by one, so with minl odd    *)
(* the last size tried is minl - 1.  Sizes between the two that the        *)
(* halving happens to skip are allowed here.                               *)
(***************************************************************************)
Bfromcstrrangealloc(minl, maxl, n) ==
  LET least == IF minl < n + 1 THEN ToInt(n + 1) ELSE minl
      sizes == Larger(0, 2 * (least \div 2)) .. Larger(maxl, least)
  IN  IF maxl < minl \/ minl < 0 THEN {Result(NoString, "ERR", 0, "none")}
      ELSE {NullString} \cup
           {Made(ToInt(n), s, n + 1, IF s < least THEN "tight" ELSE "exact") :
              s \in sizes \cap 0..MemMax}

(* blk2bstr of len bytes: the copy precedes the test that it fits. *)
Blk2bstr(len) ==
  LET size == SnapUpSize(CInt(len + (IF len = 0 THEN 2 ELSE 1)))
  IN  IF len < 0 THEN {Result(NoString, "ERR", 0, "none")}
      ELSE {NullString} \cup
           {IF s > len THEN Made(len, s, len + 1, "snap")
            ELSE Result(NoString, "ERR", len, "snap") : s \in {size} \cap 1..MemMax}

(* bstrcpy of a bstring of length len: snapped, then tight. *)
Bstrcpy(len) ==
  {NullString}
  \cup {Made(len, s, len + 1, "snap") :
          s \in {SnapUpSize(CInt(len + 1))} \cap 1..MemMax}
  \cup {Made(len, s, len + 1, "tight") : s \in {CInt(len + 1)} \cap 1..MemMax}

(* The part of a text of length len that (left, n) selects. *)
Clamped(len, left, n) ==
  IF left < 0 THEN Smaller(CInt(n + left), len) ELSE Smaller(n, len - left)

(* bmidstr of a bstring of length len. *)
Bmidstr(len, left, n) ==
  IF Clamped(len, left, n) <= 0 THEN Bfromcstr(0)
  ELSE Blk2bstr(Clamped(len, left, n))

(* bdestroy: a write protected string is refused. *)
Bdestroy(h) ==
  IF Writable(h) THEN {Result(NoString, "OK", 0, "none")} ELSE {Refused(h)}

(* The macros bwriteprotect and bwriteallow: the size of the buffer is     *)
(* forgotten and replaced by the length of the text.                       *)
Bwriteprotect(h) == {Fine([h EXCEPT !.mlen = IF @ >= 0 THEN -1 ELSE @])}

(* Mutant: an empty string is not given the one byte its buffer has. *)
BwriteallowEmpty(h) == {Fine([h EXCEPT !.mlen = IF @ = -1 THEN h.slen ELSE @])}

Bwriteallow(h) ==
  {Fine([h EXCEPT !.mlen = IF @ # -1 THEN @
                           ELSE IF h.slen = 0 THEN 1 ELSE h.slen])}

-----------------------------------------------------------------------------
(* Concatenation. *)

(***************************************************************************)
(* bconcat: a sum that overflows is refused, but when it is INT_MAX the    *)
(* length to allocate, one more, wraps to INT_MIN and nothing is           *)
(* allocated.                                                              *)
(***************************************************************************)
Bconcat(h, len, aliased) ==
  LET need == CInt(h.slen + len + 1)
  IN  IF h.mlen < h.slen \/ h.slen + len > IntMax THEN {Refused(h)}
      ELSE (IF h.mlen <= need THEN MayRefuse(h, aliased) ELSE {})
           \cup {Finish(g, h.slen + len) : g \in Room(h, h.mlen <= need, need)}

(* bconchar. *)
Bconchar(h) ==
  IF h.mlen < h.slen THEN {Refused(h)}
  ELSE {Finish(g, h.slen + 1) : g \in Balloc(h, CInt(h.slen + 2))}

(***************************************************************************)
(* bcatblk: the overflow test compares a sum of two nonnegative ints with  *)
(* zero, so an optimising build removes it and copies past the buffer; a   *)
(* build that keeps it refuses.                                            *)
(***************************************************************************)
Bcatblk(h, len) ==
  LET nl == h.slen + len
  IN  IF ~Writable(h) \/ len < 0 THEN {Refused(h)}
      ELSE IF nl > IntMax
      THEN {Refused(h),
            Result([h EXCEPT !.slen = CInt(nl)], "OK", Wild, "none")}
      ELSE {Finish(g, nl) : g \in Room(h, h.mlen <= nl, CInt(nl + 1))}

(***************************************************************************)
(* The header after a C string has been copied over the rest of the buffer *)
(* without its end being reached: the text fills mlen bytes and what       *)
(* follows them is whatever an allocation larger than mlen held.           *)
(***************************************************************************)
Filled(h) ==
  {[h EXCEPT !.slen = h.mlen, !.nul = z] :
     z \in IF h.mlen < h.cap THEN BOOLEAN ELSE {FALSE}}

(* bcatcstr of a C string of length n: into the room there is, then the    *)
(* tail with bcatblk.                                                      *)
Bcatcstr(h, n) ==
  LET room == h.mlen - h.slen
  IN  IF ~Writable(h) THEN {Refused(h)}
      ELSE IF n < room THEN {Finish(Fine(h), h.slen + n)}
      ELSE UNION {Bcatblk(f, ToInt(n - room)) :
                    f \in IF room = 0 THEN {h} ELSE Filled(h)}

-----------------------------------------------------------------------------
(* Assignment. *)

(* bassign from a bstring of length len: the terminator is not part of the *)
(* length it asks balloc for.                                              *)
Bassign(h, len) ==
  IF len # 0 THEN {Finish(g, len) : g \in Balloc(h, len)}
  ELSE IF h.mlen < h.slen \/ h.mlen = 0 THEN {Refused(h)}
  ELSE {Finish(Fine(h), 0)}

(* bassignmidstr from a bstring of length len. *)
Bassignmidstr(h, len, left, n) ==
  LET part == Clamped(len, left, n)
  IN  IF h.mlen < h.slen \/ h.mlen = 0 THEN {Refused(h)}
      ELSE IF part > 0 THEN {Finish(g, part) : g \in Balloc(h, part)}
      ELSE {Finish(Fine(h), 0)}

(* bassigncstr from a C string of length n: optimistically in place, then  *)
(* with a larger buffer.                                                   *)
Bassigncstr(h, n) ==
  IF h.mlen < h.slen \/ h.mlen = 0 THEN {Refused(h)}
  ELSE IF n < h.mlen THEN {Finish(Fine(h), n)}
  ELSE UNION {IF n + 1 > IntMax THEN {Refused(f)}
              ELSE {Finish(g, n) : g \in Balloc(f, n + 1)} : f \in Filled(h)}

(* bassignblk from a block of len bytes. *)
Bassignblk(h, len) ==
  IF h.mlen < h.slen \/ h.mlen = 0 \/ len < 0 \/ len >= IntMax
  THEN {Refused(h)}
  ELSE {Finish(g, len) : g \in Room(h, len + 1 > h.mlen, len + 1)}

-----------------------------------------------------------------------------
(* Removal. *)

(* btrunc. *)
Btrunc(h, n) ==
  IF n < 0 \/ ~Writable(h) THEN {Refused(h)}
  ELSE IF h.slen > n THEN {Finish(Fine(h), n)}
  ELSE {Fine(h)}

(* Mutant: the guard that honours write protection is missing. *)
BdeleteProtected(h, pos, len) ==
  LET p == Larger(pos, 0)
      l == IF pos < 0 THEN CInt(len + pos) ELSE len
  IN  IF l < 0 \/ h.slen < 0 THEN {Refused(h)}
      ELSE IF l = 0 \/ p >= h.slen THEN {Fine(h)}
      ELSE IF p + l > IntMax
      THEN {Result([h EXCEPT !.slen = @ - l], "OK", Wild, "none")}
      ELSE {Finish(Fine(h), IF p + l >= h.slen THEN p ELSE h.slen - l)}

(***************************************************************************)
(* bdelete: when pos + len overflows the clamp to the end of the text is   *)
(* missed.  The move then reads beyond every buffer, or, when its length   *)
(* wraps too, is skipped and slen is decreased by len all the same.        *)
(***************************************************************************)
Bdelete(h, pos, len) ==
  LET p == Larger(pos, 0)
      l == IF pos < 0 THEN CInt(len + pos) ELSE len
      moved == CInt(h.slen - CInt(p + l))
  IN  IF l < 0 \/ ~Writable(h) THEN {Refused(h)}
      ELSE IF l = 0 \/ p >= h.slen THEN {Fine(h)}
      ELSE IF p + l <= IntMax
      THEN {Finish(Fine(h), IF p + l >= h.slen THEN p ELSE h.slen - l)}
      ELSE IF moved > 0 \/ l > h.slen
      THEN {Result([h EXCEPT !.slen = @ - l], "OK", Wild, "none")}
      ELSE {Finish(Fine(h), h.slen - l)}

(* bltrimws of a text that begins with lead white space characters. *)
Bltrimws(h, lead) ==
  IF ~Writable(h) THEN {Refused(h)}
  ELSE IF lead < h.slen THEN Bdelete(h, 0, lead)
  ELSE {Finish(Fine(h), 0)}

(* brtrimws of a text that ends with trail white space characters: the     *)
(* guard on the store of the terminator, mlen > i, always holds.           *)
Brtrimws(h, trail) ==
  IF ~Writable(h) THEN {Refused(h)} ELSE {Finish(Fine(h), h.slen - trail)}

(* Mutant: the shortened length is stored without its terminator. *)
BtrimwsNoTerminator(h, lead, trail) ==
  IF ~Writable(h) THEN {Refused(h)}
  ELSE IF trail = h.slen THEN {Finish(Fine(h), 0)}
  ELSE Bdelete([h EXCEPT !.slen = @ - trail, !.nul = @ /\ trail = 0], 0, lead)

(* btrimws: the trailing part as in brtrimws, then bdelete of the leading. *)
Btrimws(h, lead, trail) ==
  IF ~Writable(h) THEN {Refused(h)}
  ELSE IF trail = h.slen THEN {Finish(Fine(h), 0)}
  ELSE LET r == Finish(Fine(h), h.slen - trail)
       IN  {[d EXCEPT !.extent = Larger(@, r.extent)] :
              d \in Bdelete(r.h, 0, lead)}

-----------------------------------------------------------------------------
(* Insertion and replacement. *)

(* Mutant: only the end of the inserted text is allocated, not its         *)
(* terminator.                                                             *)
BsetstrNoTerminator(h, pos, len, aliased) ==
  LET d == CInt(pos + len)
  IN  IF pos < 0 \/ ~Writable(h) THEN {Refused(h)}
      ELSE MayRefuse(h, aliased)
           \cup {Finish(g, Larger(h.slen, d)) : g \in Room(h, d > h.mlen, d)}

(* bsetstr of a bstring of length len at pos (of NULL: length 0), with     *)
(* fill characters between the end of the text and pos.                    *)
Bsetstr(h, pos, len, aliased) ==
  LET d == CInt(pos + len)
  IN  IF pos < 0 \/ ~Writable(h) THEN {Refused(h)}
      ELSE MayRefuse(h, aliased)
           \cup {Finish(g, Larger(h.slen, d)) : g \in Balloc(h, CInt(d + 1))}

(***************************************************************************)
(* binsertblk, and binsert, which only unpacks its argument.  A sum that   *)
(* overflows is refused, by the test for it or, in the builds that drop    *)
(* the test, by balloc, whose argument is then negative.                   *)
(***************************************************************************)
Binsertblk(h, pos, len, aliased) ==
  LET end == Larger(h.slen, pos) + len
  IN  IF pos < 0 \/ len < 0 \/ ~Writable(h) \/ end > IntMax THEN {Refused(h)}
      ELSE MayRefuse(h, aliased)
           \cup {Finish(g, end) : g \in Balloc(h, CInt(end + 1))}

(* binsertch: len fill characters; the same guards and the same lengths.   *)
Binsertch(h, pos, len) == Binsertblk(h, pos, len, FALSE)

(***************************************************************************)
(* breplace of len characters at pos by a bstring of length new.  Past the *)
(* end of the text it is bsetstr and a truncation; inside, the length it   *)
(* asks balloc for does not include the terminator.                        *)
(***************************************************************************)
Breplace(h, pos, len, new, aliased) ==
  IF pos < 0 \/ len < 0 \/ pos + len > IntMax \/ ~Writable(h)
  THEN {Refused(h)}
  ELSE IF pos + len >= h.slen
  THEN {IF g.ret = "OK" /\ pos + new < g.h.slen THEN Finish(g, pos + new)
        ELSE g : g \in Bsetstr(h, pos, new, aliased)}
  ELSE MayRefuse(h, aliased)
       \cup {Finish(g, h.slen + new - len) :
               g \in Room(h, new > len, CInt(h.slen + new - len))}

-----------------------------------------------------------------------------
(***************************************************************************)
(* findreplaceengine, and bfindreplace and bfindreplacecaseless, which     *)
(* call it: count occurrences of a text of length find, looked for from    *)
(* pos, are replaced by one of length repl.  A shrinking text allocates    *)
(* nothing; a growing one needs room for the growable array of positions   *)
(* and then calls balloc, even when there is no occurrence.                *)
(*                                                                         *)
(* acc, the total growth, is accumulated in an int and tested for acc < 0. *)
(* A build that keeps the test refuses; an optimising one drops it, and    *)
(* the wrapped total is allocated while the moves use the true positions.  *)
(***************************************************************************)
Findreplaceengine(h, find, repl, pos, count, aliased) ==
  LET acc == count * (repl - find)
      need == CInt(h.slen + ToInt(acc) + 1)
  IN  IF ~Writable(h) \/ find <= 0 \/ pos < 0 THEN {Refused(h)}
      ELSE IF pos > h.slen - find THEN {Fine(h)}
      ELSE MayRefuse(h, aliased) \cup
           (IF find >= repl
            THEN {IF acc = 0 THEN Fine(h) ELSE Finish(Fine(h), h.slen + acc)}
            ELSE MayRefuse(h, count >= FindIndexCount) \cup
                 (IF acc <= IntMax
                  THEN {Finish(g, h.slen + acc) : g \in Balloc(h, need)}
                  ELSE {Refused(h)} \cup
                       {IF g.ret = "ERR" THEN g
                        ELSE [g EXCEPT !.extent = Wild] : g \in Balloc(h, need)}))

(***************************************************************************)
(* bpattern: the text is repeated or cut to len characters; one character  *)
(* is repeated by bsetstr, which asks for the same room again.             *)
(***************************************************************************)
Bpattern(h, len) ==
  IF h.slen <= 0 \/ len < 0 THEN {Refused(h)}
  ELSE UNION {IF g.ret = "ERR" THEN {g}
              ELSE IF len = 0 \/ h.slen # 1 THEN {Finish(g, len)}
              ELSE {[r EXCEPT !.extent = Larger(@, g.extent),
                              !.heap = IF @ = "none" THEN g.heap ELSE @] :
                      r \in Bsetstr(g.h, len, 0, FALSE)} :
                g \in Balloc(h, CInt(len + 1))}

-----------------------------------------------------------------------------
(* Formatting: vsnprintf is external, the length it needs is chosen by the *)
(* caller of these operators.                                              *)

(* Mutant: the partial result is not taken back. *)
BvcformataKept(h, count, out) ==
  LET need == CInt(CInt(h.slen + count) + 2)
      text == h.slen + Smaller(out, count)
  IN  IF count <= 0 \/ ~Writable(h) THEN {Refused(h)}
      ELSE {IF g.ret = "ERR" THEN g
            ELSE Result(Finish(g, text).h, IF out <= count THEN "OK" ELSE "ERR",
                        Larger(g.extent, h.slen + count + 3), g.heap) :
              g \in Balloc(h, need)}

(* Mutant: the count to try next is returned with the sign of a success,   *)
(* which is neither BSTR_OK nor an error.                                  *)
BvcformataRetry(h, count, out) ==
  LET need == CInt(CInt(h.slen + count) + 2)
      text == h.slen + (IF out <= count THEN out ELSE 0)
  IN  IF count <= 0 \/ ~Writable(h) THEN {Refused(h)}
      ELSE {IF g.ret = "ERR" THEN g
            ELSE Result(Finish(g, text).h, IF out <= count THEN "OK" ELSE "COUNT",
                        Larger(g.extent, h.slen + count + 3), g.heap) :
              g \in Balloc(h, need)}

(***************************************************************************)
(* bvcformata with room for count characters of a result of length out.    *)
(* vsnprintf may use count + 2 bytes, and a '\0' is stored one beyond      *)
(* those.  A result that does not fit is undone and BSTR_ERR, or the next  *)
(* count to try, returned; the buffer stays grown.                         *)
(***************************************************************************)
Bvcformata(h, count, out) ==
  LET need == CInt(CInt(h.slen + count) + 2)
      text == h.slen + (IF out <= count THEN out ELSE 0)
  IN  IF count <= 0 \/ ~Writable(h) THEN {Refused(h)}
      ELSE {IF g.ret = "ERR" THEN g
            ELSE Result(Finish(g, text).h, IF out <= count THEN "OK" ELSE "ERR",
                        Larger(g.extent, h.slen + count + 3), g.heap) :
              g \in Balloc(h, need)}

(* bformata: the result, of length out, is built in a buffer of its own    *)
(* (which may fail) and concatenated.                                      *)
Bformata(h, out) ==
  IF ~Writable(h) THEN {Refused(h)} ELSE {NoMemory(h)} \cup Bconcat(h, out, FALSE)

(* bassignformat: the same, assigned. *)
Bassignformat(h, out) ==
  IF ~Writable(h) THEN {Refused(h)} ELSE {NoMemory(h)} \cup Bassign(h, out)

=============================================================================

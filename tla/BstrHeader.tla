----------------------------- MODULE BstrHeader -----------------------------
(***************************************************************************)
(* The life of one bstring: a constructor makes it, any sequence of calls  *)
(* of the core library changes it, bdestroy frees it, and another          *)
(* constructor may follow.  Every call is one action, for the library is   *)
(* single threaded and these functions call nothing of the caller's; what  *)
(* the allocator answers and what an overflowing sum becomes is chosen     *)
(* inside the call.                                                        *)
(*                                                                         *)
(* The state the C program is in after a write outside of the buffer is    *)
(* not known: over records that it happened and no call follows.           *)
(***************************************************************************)
EXTENDS BstrMutators

CONSTANTS
  Lens,      \* lengths of the bstrings and blocks passed as arguments
  CstrLens,  \* lengths of the C strings passed as arguments, size_t
  Ints       \* positions, counts and sizes passed as arguments, any int

ASSUME ArgumentsAssumption ==
  /\ Lens \subseteq 0..IntMax
  /\ CstrLens \subseteq Nat
  /\ Ints \subseteq IntMin..IntMax

VARIABLES
  str,   \* the header, or NoString
  over,  \* whether the last call wrote outside of the buffer
  last   \* the last call: its name, what it returned, what the allocator
         \* did, and whether its lengths summed past INT_MAX

vars == <<str, over, last>>

Init ==
  /\ str = NoString
  /\ over = FALSE
  /\ last = [op |-> "none", ret |-> "OK", heap |-> "none", wide |-> FALSE]

(* One call with one of its outcomes; longest is the largest length the    *)
(* call computes, were ints unbounded.                                     *)
Do(op, longest, outcomes) ==
  \E o \in outcomes :
    /\ str' = o.h
    /\ over' = (o.extent > o.h.cap)
    /\ last' = [op |-> op, ret |-> o.ret, heap |-> o.heap,
                wide |-> longest > IntMax]

Absent == ~over /\ str = NoString

Present == ~over /\ str # NoString

-----------------------------------------------------------------------------
(* One action per function. *)

DoBfromcstr == Absent /\ \E n \in CstrLens : Do("bfromcstr", n + 1, Bfromcstr(n))

DoBfromcstrrangealloc ==
  Absent /\ \E n \in CstrLens, minl, maxl \in Ints :
    Do("bfromcstrrangealloc", n + 1, Bfromcstrrangealloc(minl, maxl, n))

DoBlk2bstr == Absent /\ \E n \in Lens : Do("blk2bstr", n + 1, Blk2bstr(n))

DoBstrcpy == Absent /\ \E n \in Lens : Do("bstrcpy", n + 1, Bstrcpy(n))

DoBmidstr ==
  Absent /\ \E len \in Lens, left, n \in Ints :
    Do("bmidstr", len + 1, Bmidstr(len, left, n))

DoBdestroy == Present /\ Do("bdestroy", 0, Bdestroy(str))

DoBwriteprotect == Present /\ Do("bwriteprotect", 0, Bwriteprotect(str))

DoBwriteallow == Present /\ Do("bwriteallow", 0, Bwriteallow(str))

DoBalloc == Present /\ \E n \in Ints : Do("balloc", n, Balloc(str, n))

DoBallocmin == Present /\ \E n \in Ints : Do("ballocmin", n, Ballocmin(str, n))

DoBconcat ==
  Present /\ \E len \in Lens, aliased \in BOOLEAN :
    Do("bconcat", str.slen + len + 1, Bconcat(str, len, aliased))

DoBconchar == Present /\ Do("bconchar", str.slen + 2, Bconchar(str))

DoBcatblk ==
  Present /\ \E len \in Lens : Do("bcatblk", str.slen + len + 1, Bcatblk(str, len))

DoBcatcstr ==
  Present /\ \E n \in CstrLens : Do("bcatcstr", str.slen + n + 1, Bcatcstr(str, n))

DoBassign == Present /\ \E len \in Lens : Do("bassign", len, Bassign(str, len))

DoBassignmidstr ==
  Present /\ \E len \in Lens, left, n \in Ints :
    Do("bassignmidstr", len, Bassignmidstr(str, len, left, n))

DoBassigncstr ==
  Present /\ \E n \in CstrLens : Do("bassigncstr", n + 1, Bassigncstr(str, n))

DoBassignblk ==
  Present /\ \E len \in Lens : Do("bassignblk", len + 1, Bassignblk(str, len))

DoBtrunc == Present /\ \E n \in Ints : Do("btrunc", n, Btrunc(str, n))

DoBdelete ==
  Present /\ \E pos, len \in Ints :
    Do("bdelete", Larger(pos, 0) + len, Bdelete(str, pos, len))

DoBltrimws ==
  Present /\ \E lead \in 0..str.slen : Do("bltrimws", 0, Bltrimws(str, lead))

DoBrtrimws ==
  Present /\ \E trail \in 0..str.slen : Do("brtrimws", 0, Brtrimws(str, trail))

DoBtrimws ==
  Present /\ \E lead, trail \in 0..str.slen :
    /\ lead + trail < str.slen \/ trail = str.slen
    /\ Do("btrimws", 0, Btrimws(str, lead, trail))

DoBsetstr ==
  Present /\ \E pos \in Ints, len \in Lens, aliased \in BOOLEAN :
    Do("bsetstr", pos + len + 1, Bsetstr(str, pos, len, aliased))

DoBinsertblk ==
  Present /\ \E pos \in Ints, len \in Lens, aliased \in BOOLEAN :
    Do("binsertblk", Larger(str.slen, pos) + len + 1,
       Binsertblk(str, pos, len, aliased))

DoBinsertch ==
  Present /\ \E pos, len \in Ints :
    Do("binsertch", Larger(str.slen, pos) + len + 1, Binsertch(str, pos, len))

DoBreplace ==
  Present /\ \E pos, len \in Ints, new \in Lens, aliased \in BOOLEAN :
    Do("breplace", Larger(pos, str.slen - len) + new + 1,
       Breplace(str, pos, len, new, aliased))

DoFindreplace ==
  Present /\ \E find, repl \in Lens, pos \in Ints, aliased \in BOOLEAN :
    \E count \in 0..str.slen :
      /\ count * find <= Larger(0, str.slen - Larger(pos, 0))
      /\ Do("bfindreplace", str.slen + count * Larger(repl - find, 0) + 1,
            Findreplaceengine(str, find, repl, pos, count, aliased))

DoBpattern == Present /\ \E n \in Ints : Do("bpattern", n + 1, Bpattern(str, n))

DoBvcformata ==
  Present /\ \E count \in Ints, out \in Lens :
    Do("bvcformata", str.slen + count + 3, Bvcformata(str, count, out))

DoBformata ==
  Present /\ \E out \in Lens : Do("bformata", str.slen + out + 1, Bformata(str, out))

DoBassignformat ==
  Present /\ \E out \in Lens : Do("bassignformat", out, Bassignformat(str, out))

(* Nothing is known of the program any more. *)
Undefined == over /\ UNCHANGED vars

Construct ==
  \/ DoBfromcstr \/ DoBfromcstrrangealloc \/ DoBlk2bstr \/ DoBstrcpy
  \/ DoBmidstr

Manage ==
  \/ DoBdestroy \/ DoBwriteprotect \/ DoBwriteallow \/ DoBalloc \/ DoBallocmin

Mutate ==
  \/ DoBconcat \/ DoBconchar \/ DoBcatblk \/ DoBcatcstr
  \/ DoBassign \/ DoBassignmidstr \/ DoBassigncstr \/ DoBassignblk
  \/ DoBtrunc \/ DoBdelete \/ DoBltrimws \/ DoBrtrimws \/ DoBtrimws
  \/ DoBsetstr \/ DoBinsertblk \/ DoBinsertch \/ DoBreplace
  \/ DoFindreplace \/ DoBpattern
  \/ DoBvcformata \/ DoBformata \/ DoBassignformat

Next == Construct \/ Manage \/ Mutate \/ Undefined

Spec == Init /\ [][Next]_vars

(* What the next call can depend on: last only reports, and of it only     *)
(* whether it is typed is kept.                                            *)
Relevant == <<str, over, last.ret \in {"OK", "ERR"}>>

-----------------------------------------------------------------------------
(* Properties. *)

(* The functions, by name. *)
Calls ==
  {"none", "bfromcstr", "bfromcstrrangealloc", "blk2bstr", "bstrcpy",
   "bmidstr", "bdestroy", "bwriteprotect", "bwriteallow", "balloc",
   "ballocmin", "bconcat", "bconchar", "bcatblk", "bcatcstr", "bassign",
   "bassignmidstr", "bassigncstr", "bassignblk", "btrunc", "bdelete",
   "bltrimws", "brtrimws", "btrimws", "bsetstr", "binsertblk", "binsertch",
   "breplace", "bfindreplace", "bpattern", "bvcformata", "bformata",
   "bassignformat"}

(* Every variable has its type. *)
TypeOK ==
  /\ str \in Header
  /\ over \in BOOLEAN
  /\ last \in [op : Calls, ret : {"OK", "ERR"}, heap : Heap, wide : BOOLEAN]

(***************************************************************************)
(* The check of correctness the documentation gives, slen >= 0 and         *)
(* mlen >= slen, for what every call leaves, with what it stands for: the  *)
(* first mlen bytes really are the string's own.  A string that is         *)
(* terminated has the terminator inside its buffer.                        *)
(***************************************************************************)
Sound(h) ==
  \/ h = NoString
  \/ /\ 0 <= h.slen /\ h.slen <= h.cap
     /\ 0 < h.cap /\ h.cap <= MemMax
     /\ h.mlen = -1 \/ (h.slen <= h.mlen /\ 0 < h.mlen /\ h.mlen <= h.cap)
     /\ h.nul => h.slen < h.cap

(* Every call that stayed in its buffer leaves a header that is sound. *)
WellFormed == over \/ Sound(str)

(***************************************************************************)
(* A call writes outside of the buffer only in one of three circumstances: *)
(*   - its lengths sum past INT_MAX;                                       *)
(*   - it asked balloc for the bytes of the text without its terminator,   *)
(*     and has exactly those (the snapped size was refused or, from the    *)
(*     last power of two on, does not fit an int);                         *)
(*   - the text already filled the mlen bytes (after a partial failure, or *)
(*     bwriteallow) and the call stores a terminator without asking for    *)
(*     more room than the text has.                                        *)
(* So a caller whose lengths are in range, whose allocator grants the      *)
(* snapped sizes and whose strings keep their terminator is safe.          *)
(***************************************************************************)
ExactCallers ==
  {"balloc", "bassign", "bassignmidstr", "breplace", "bvcformata",
   "bassignformat", "bfromcstrrangealloc"}

FullCallers == {"bsetstr", "breplace", "bpattern", "brtrimws", "btrimws"}

GrantedExactly ==
  last.heap = "tight" \/ SnapUpSize(str.cap) = str.cap

OverrunNeedsNamedCause ==
  [][over' /\ ~over =>
       \/ last'.wide
       \/ last'.op \in ExactCallers /\ GrantedExactly'
       \/ last'.op \in FullCallers /\ str.slen = str.mlen]_vars

(* The terminator every mutator maintains disappears only in a call that   *)
(* reports an error.                                                       *)
TerminatorLostOnlyOnError ==
  [][str.nul /\ ~str'.nul /\ ~over' /\ str' # NoString => last'.ret = "ERR"]_vars

(***************************************************************************)
(* A call that reports an error leaves the text as it was, but for the two *)
(* that copy a C string before they know its length: those may leave the   *)
(* buffer filled with part of it.                                          *)
(***************************************************************************)
PartialCallers == {"bcatcstr", "bassigncstr"}

FailedCallKeepsText ==
  [][last'.ret = "ERR" /\ ~over' =>
       \/ str'.slen = str.slen /\ (str.nul => str'.nul)
       \/ last'.op \in PartialCallers /\ str'.slen = str.mlen]_vars

(* Only bwriteallow changes anything of a write protected string. *)
WriteProtectionHolds ==
  [][str # NoString /\ str.mlen <= 0 /\ str' # str
       => last'.op = "bwriteallow"]_vars

(***************************************************************************)
(* The memory a text takes: a call that is not itself given a size leaves  *)
(* a buffer it enlarged no longer than 2 * (slen + 1), or the smallest     *)
(* size there is.                                                          *)
(***************************************************************************)
SizedCallers == {"balloc", "ballocmin", "bvcformata", "bfromcstrrangealloc"}

GrowthBound ==
  [][str'.cap > str.cap /\ last'.ret = "OK" /\ ~over' /\ last'.op \notin SizedCallers
       => str'.cap <= Larger(SnapMin, 2 * (str'.slen + 1))]_vars

(***************************************************************************)
(* What bounds the number of reallocations by a logarithm: a buffer whose  *)
(* size is a power of two at least doubles when balloc enlarges it, unless *)
(* the allocator refused the snapped size or it does not fit an int.       *)
(***************************************************************************)
GrowthDoubles ==
  [][(/\ str # NoString /\ str.mlen = str.cap /\ str.cap \in PowersOfTwo
      /\ last'.heap = "snap" /\ 2 * str.cap <= IntMax)
     => str'.cap >= 2 * str.cap]_vars

(* Buffers grow geometrically, and no further than that takes. *)
Growth == GrowthBound /\ GrowthDoubles

=============================================================================

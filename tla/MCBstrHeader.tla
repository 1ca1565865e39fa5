---------------------------- MODULE MCBstrHeader ----------------------------
(***************************************************************************)
(* The life of one bstring on an int of six bits.                          *)
(*                                                                         *)
(* INT_MAX is 31 and the smallest snapped size 4, so that sizes snap to 4, *)
(* 8 and 16, and 32, the next, does not fit an int, as 2^31 does not in    *)
(* the program.  The argument lengths hold zero, one, a power of two and   *)
(* its neighbour and INT_MAX; C strings may be longer than INT_MAX and     *)
(* even than UINT_MAX, which is 63.                                        *)
(***************************************************************************)
EXTENDS BstrHeader

MCLens == {0, 1, 7, 16, 31}
MCCstrLens == {0, 3, 15, 31, 32, 65}
MCInts == {-32, -2, 0, 1, 8, 31}

=============================================================================

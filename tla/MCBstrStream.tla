---------------------------- MODULE MCBstrStream ----------------------------
(* A core stream of three characters, all different so that one that is    *)
(* lost, repeated or out of order shows; any of them may be a terminator.  *)
EXTENDS BstrStream

MCInput == <<1, 2, 3>>

MCBuffSizes == {-1, 0, 1, 2, IntMax}

MCTermSets == {{2}, {1, 3}}

MCBlockLens == {0, 1, 2, IntMax}

(* An empty string in the smallest buffer, one with a text and some room,  *)
(* and one that is write protected.                                        *)
MCDests ==
  {[old |-> 0, mlen |-> 1], [old |-> 1, mlen |-> 4], [old |-> 1, mlen |-> -1]}

MCUnreads == {<<>>, <<7, 8>>}

=============================================================================

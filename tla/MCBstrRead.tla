----------------------------- MODULE MCBstrRead -----------------------------
(* A core stream of eleven characters: longer than two blocks, and than    *)
(* the buffers a line outgrows.                                            *)
EXTENDS BstrRead

MCInput == <<1, 2, 3, 4, 5, 6, 7, 8, 9, 10, 11>>

MCTerms == {3, 8, 99}

H(slen, mlen, cap, nul) == [slen |-> slen, mlen |-> mlen, cap |-> cap, nul |-> nul]

(* Empty in the smallest buffer, with room, as bwriteallow leaves it, full *)
(* after a partial failure, and write protected.                           *)
MCDests ==
  {H(0, 1, 1, TRUE), H(1, 4, 4, TRUE), H(2, 2, 4, TRUE), H(2, 2, 2, FALSE),
   H(1, -1, 2, TRUE)}

=============================================================================

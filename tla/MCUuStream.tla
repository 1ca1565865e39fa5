------------------------------ MODULE MCUuStream ------------------------------
(* Two terminated lines, the same with the last one unterminated; between  *)
(* good lines a bad one that is dropped (short of a group), filled up      *)
(* (short of a character), or has junk; and a bad one at the end.          *)
EXTENDS UuStream

MCInputs ==
  {<<2, 11, 12, 0, 1, 13, 0>>, <<2, 11, 12, 0, 1, 13>>,
   <<1, 11, 0, 0, 3, 12, 0, 1, 13, 0>>, <<1, 11, 0, 2, 12, 0, 1, 13, 0>>,
   <<3, 11, 12, 9, 0, 1, 13, 0>>, <<1, 11, 0, 9, 12>>, <<>>}

MCAsks == {1, 2, 4}

=============================================================================

----------------------------- MODULE MCBstrSplit -----------------------------
(* A stream that is cut twice by a separator of two characters, and by the *)
(* second of them alone, and ends with both.  Reads of two characters cut  *)
(* through the separators, and read past the first of them.                *)
EXTENDS BstrSplit

MCInput == <<1, 5, 6, 2, 5, 6>>

MCSeparators == {<<>>, <<6>>, <<5, 6>>}

MCBuffSizes == {1}

MCTermSets == {{5}}

MCBlockLens == {1}

MCDests == {[old |-> 0, mlen |-> 1]}

MCUnreads == {<<6, 8>>}

=============================================================================

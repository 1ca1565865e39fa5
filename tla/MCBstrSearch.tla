----------------------------- MODULE MCBstrSearch -----------------------------
(* Texts of up to six characters, so that what binstr takes is spread    *)
(* over b1 in every way; two characters of one cell of a charField, and    *)
(* one of another; texts to compare with '\0' and characters above 127.    *)
EXTENDS BstrSearch

MCDowncase(c) == IF c \in 65..90 THEN c + 32 ELSE c

Of(chars, lens) == UNION {[1..n -> chars] : n \in lens}

MCHays == Of({65, 97, 98}, 0..3) \cup Of({97, 98}, 4..6)

MCNeedles == Of({65, 97, 98}, 0..2) \cup Of({97, 98}, {3, 4})

MCPositions == {-1, 0, 1, 3, 7}

MCSamples == Of({0, 65, 97, 200}, 0..2) \cup {<<65, 0, 98>>, <<97, 98, 98>>, <<97, 0, 97>>}

=============================================================================

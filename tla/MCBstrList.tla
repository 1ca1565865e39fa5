------------------------------ MODULE MCBstrList ------------------------------
(* No character, a string without separators, separators at both ends, one *)
(* behind the other and overlapping, and more of them than a list takes.   *)
EXTENDS BstrList

MCStrings == {<<>>, <<1>>, <<5, 1, 5, 5, 2, 5>>, <<5, 5, 5, 5, 5>>}

MCSeparators == {<<>>, <<5>>, <<5, 5>>, <<1, 5>>}

MCListSizes == {-1, 1, 3, 6}

=============================================================================

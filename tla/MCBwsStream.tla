----------------------------- MODULE MCBwsStream -----------------------------
(* Texts shorter than, equal to and several times longer than the buffer,  *)
(* whose size is changed to less than it holds.                            *)
EXTENDS BwsStream

MCSizes == {-1, 0, 1, 4}

MCLengths == {0, 1, 2, 3, 7}

=============================================================================

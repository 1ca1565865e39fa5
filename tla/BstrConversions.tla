---------------------------- MODULE BstrConversions ----------------------------
(***************************************************************************)
(* The conversions of texts: the encodings of bstring/bstraux.c            *)
(* (BstrCodecs) and UTF-8 and UTF-16 (BstrUtf).  They share no state; a    *)
(* behaviour is of one of the two, and the other one is not called.        *)
(***************************************************************************)
EXTENDS BstrCodecs, BstrUtf

vars == <<codecsVars, utfVars>>

CodecsIdle ==
  /\ codec = "none" /\ sent = <<>> /\ wire = <<>> /\ damage = Undamaged
  /\ got = Nothing /\ pc = "idle"

Init == (CodecsInit /\ UtfIdle) \/ (UtfInit /\ CodecsIdle)

Next == (CodecsNext /\ UNCHANGED utfVars) \/ (UtfNext /\ UNCHANGED codecsVars)

Spec == Init /\ [][Next]_vars

=============================================================================

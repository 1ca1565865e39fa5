--------------------------- MODULE StreamContract ---------------------------
(***************************************************************************)
(* What a bStream promises its reader, whatever it buffers: the characters *)
(* come out in the order of the stream, each of them once.  The stream is  *)
(* what is left of it (rest), what the call in progress, or the last one,  *)
(* has handed over (got), whether a call is in progress (reading), and     *)
(* whether memory was refused to it (starved).                             *)
(***************************************************************************)
EXTENDS Naturals, Sequences

CONSTANT Whole  \* what the stream holds at first

VARIABLES rest, got, reading, starved

vars == <<rest, got, reading, starved>>

First(s, k) == SubSeq(s, 1, k)

After(s, k) == SubSeq(s, k + 1, Len(s))

Init == rest = Whole /\ got = <<>> /\ reading = FALSE /\ starved = FALSE

(* A call begins; it may hand over characters at once, and return.  With   *)
(* none handed over it is any call that does not read.                     *)
Begin ==
  /\ ~reading
  /\ reading' \in BOOLEAN
  /\ \E k \in 0..Len(rest) : got' = First(rest, k) /\ rest' = After(rest, k)

(* The call in progress hands over more, or returns. *)
Deliver ==
  /\ reading
  /\ reading' \in BOOLEAN
  /\ \E k \in 0..Len(rest) :
       got' = got \o First(rest, k) /\ rest' = After(rest, k)

(* Characters are shown and stay in the stream. *)
Peek ==
  /\ ~reading /\ ~reading'
  /\ \E k \in 0..Len(rest) : got' = First(rest, k)
  /\ rest' = rest

(* Characters are put in front of the stream: they will be read first. *)
Unread ==
  /\ ~reading /\ ~reading'
  /\ got' = <<>>
  /\ Len(rest') > Len(rest)
  /\ After(rest', Len(rest') - Len(rest)) = rest

(* The stream is closed: what it had buffered is lost to the next one. *)
Close ==
  /\ ~reading /\ ~reading'
  /\ \E k \in 0..Len(rest) : rest' = After(rest, k)
  /\ got' = <<>>

(* The call in progress fails for want of memory, and the beginning of     *)
(* what it handed over will be read again.                                 *)
Relapse ==
  /\ reading /\ ~reading' /\ starved'
  /\ \E k \in 1..Len(got) : rest' = First(got, k) \o rest
  /\ got' = got

Deliveries ==
  /\ starved' \in BOOLEAN
  /\ Begin \/ Deliver \/ Peek \/ Unread \/ Close

(* A stream whose failing calls may relapse. *)
Forgiving == Init /\ [][Deliveries \/ Relapse]_vars

=============================================================================

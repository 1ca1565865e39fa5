----------------------------- MODULE PipeContract -----------------------------
(***************************************************************************)
(* What a bwriteStream promises its writer, whatever it buffers: the texts *)
(* it is given come out in the order they were given, each character once, *)
(* until the sink refuses some.  A call that succeeds has taken its whole  *)
(* text; one that fails while the sink does not has taken all or nothing.  *)
(* The write in which the sink refuses, and each one after it, fails.      *)
(* Texts that were taken before are lost with what is pending, though      *)
(* their writers were told of success, and one that closes the stream is   *)
(* told of nothing.                                                        *)
(***************************************************************************)
EXTENDS Naturals, Sequences

VARIABLES
  given,    \* every text that was given, one after another
  pending,  \* what was taken and is not yet in the sink
  sunk,     \* what the sink has accepted
  broken,   \* whether the sink has refused a request
  ok        \* what the last call returned

vars == <<given, pending, sunk, broken, ok>>

First(s, k) == SubSeq(s, 1, k)

After(s, k) == SubSeq(s, k + 1, Len(s))

Init == given = <<>> /\ pending = <<>> /\ sunk = <<>> /\ broken = FALSE /\ ok = TRUE

(* The text of the call, empty for one that does not write. *)
New == After(given', Len(given))

Extends == Len(given') >= Len(given) /\ First(given', Len(given)) = given

(* The text is taken, and any part of what is pending goes to the sink. *)
Take ==
  /\ ~broken /\ ~broken' /\ ok' \in BOOLEAN
  /\ Extends
  /\ \E k \in 0 .. Len(pending \o New) :
       /\ sunk' = sunk \o First(pending \o New, k)
       /\ pending' = After(pending \o New, k)

(* The text is refused; what was pending may have gone out all the same. *)
Refuse ==
  /\ ~broken /\ ~broken' /\ ~ok'
  /\ Extends
  /\ \E k \in 0 .. Len(pending) :
       sunk' = sunk \o First(pending, k) /\ pending' = After(pending, k)

(* The sink refuses a request, having accepted any part of it.  A call     *)
(* that has given a text is told.                                          *)
Break ==
  /\ ~broken /\ broken'
  /\ Extends
  /\ \E k \in 0 .. Len(pending \o New) : sunk' = sunk \o First(pending \o New, k)
  /\ pending' = <<>>
  /\ New # <<>> => ~ok'

(* Nothing comes out of a broken pipe any more. *)
Fail ==
  /\ broken /\ broken'
  /\ Extends
  /\ sunk' = sunk /\ pending' = <<>>
  /\ New # <<>> => ~ok'

Spec == Init /\ [][Take \/ Refuse \/ Break \/ Fail]_vars

=============================================================================

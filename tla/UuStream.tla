------------------------------- MODULE UuStream -------------------------------
(***************************************************************************)
(* bsUuDecode (bstring/bstraux.c): bsUuDecodePart, an fread-like function  *)
(* that decodes what it reads from one bStream, as the core stream of a    *)
(* second one.  It keeps two buffers, encoded lines (src) and decoded      *)
(* characters (dst), of which a request may take a part.                   *)
(*                                                                         *)
(* An action is one turn of the loops of bsUuDecodePart: a line decoded, a *)
(* block read.  The stream read is a bStream, and does what BstrStream     *)
(* says; the stream above asks as BstrStream does: a block read not once   *)
(* it has met the end, a line read again and again.  A line is its count,  *)
(* and one character for each character it encodes: they are decoded in    *)
(* groups, but how a group of three is packed into four is the matter of   *)
(* BstrCodecs.                                                             *)
(***************************************************************************)
EXTENDS Integers, Sequences, SequencesExt

CONSTANTS
  Inputs,   \* the encoded texts: counts, characters, and Eol
  Eol,      \* "\r" or "\n"
  LineMax,  \* UU_MAX_LINELEN, 45 in the source
  Group,    \* how many characters are decoded together, 3 in the source
  Junk,     \* a character that encodes nothing
  Missing,  \* what stands for a character behind the end of its line
  ReadLen,  \* the buffer length of the stream read
  Asks,     \* the lengths of the requests
  OutMax    \* bound: no request once this much has been handed over

ASSUME UuAssumption ==
  /\ Inputs \subseteq Seq(Nat) /\ Eol \in Nat
  /\ LineMax \in Nat /\ {ReadLen, Group} \subseteq Nat \ {0}
  /\ {Junk, Missing} \subseteq Nat \ {Eol}
  /\ Asks \subseteq Nat \ {0} /\ OutMax \in Nat

VARIABLES
  input,    \* the encoded text
  counts,   \* whether badlines is given, or NULL
  left,     \* what the stream read still holds
  src, dst, \* the two buffers
  ol,       \* how far the loop over the lines in src has come
  alive,    \* whether the buffers exist: they are destroyed at the end
  part,     \* where bsUuDecodePart is, what it was asked, what it answered
  bad,      \* *badlines
  out,      \* everything that was handed over
  starved   \* whether memory was ever refused

vars == <<input, counts, left, src, dst, ol, alive, part, bad, out, starved>>

-----------------------------------------------------------------------------
First(s, k) == SubSeq(s, 1, k)

After(s, k) == SubSeq(s, k + 1, Len(s))

(* The position of the first Eol after position k, 0 if there is none. *)
NextEol(t, k) ==
  IF \E i \in (k + 1)..Len(t) : t[i] = Eol
  THEN CHOOSE i \in (k + 1)..Len(t) :
         t[i] = Eol /\ \A j \in (k + 1)..(i - 1) : t[j] # Eol
  ELSE 0

(* The characters a line announces, those it does not have as Missing.     *)
Given(line) ==
  [k \in 1..line[1] |-> IF k < Len(line) THEN line[k + 1] ELSE Missing]

(* How many of them there are, counted in whole groups. *)
Grouped(line) == ((Len(line) - 1 + Group - 1) \div Group) * Group

(* A line is bad when its count is not one, when a character it needs is   *)
(* not one of the encoding, or when it has fewer than its count.           *)
IsBad(line) ==
  /\ line # <<>>
  /\ \/ line[1] > LineMax
     \/ \E k \in 1..line[1] : Given(line)[k] \in {Junk, Missing}

(* It is left out, but for the last: a group that was begun is filled up.  *)
IsDropped(line) ==
  \/ line[1] > LineMax
  \/ Grouped(line) < line[1]
  \/ \E k \in 1..line[1] : Given(line)[k] = Junk

TextOf(line) == IF line = <<>> \/ IsDropped(line) THEN <<>> ELSE Given(line)

(* The groups that may have been decoded when there is no memory for more. *)
Beginnings(line) ==
  IF line = <<>> \/ line[1] > LineMax THEN {}
  ELSE {First(Given(line), k) : k \in
          {j \in 0..(line[1] - 1) : /\ j % Group = 0 /\ j < Grouped(line)
                                   /\ \A i \in 1..j : Given(line)[i] # Junk}}

(* Mutant: a bad line leaves what it has of its text behind. *)
DecLineKept(line) ==
  {[go |-> counts \/ ~IsBad(line), starved |-> FALSE,
    bad |-> bad + (IF IsBad(line) /\ counts THEN 1 ELSE 0),
    dst |-> dst \o After(line, 1)]}

(***************************************************************************)
(* bUuDecLine: a bad line is counted, if that was asked for, and then not  *)
(* an error.  A line for which there is no memory leaves a beginning of    *)
(* its text behind.                                                        *)
(***************************************************************************)
DecLine(line) ==
  {[go |-> counts \/ ~IsBad(line), starved |-> FALSE,
    bad |-> bad + (IF IsBad(line) /\ counts THEN 1 ELSE 0),
    dst |-> dst \o TextOf(line)]}
  \cup
  {[go |-> FALSE, starved |-> TRUE, bad |-> bad,
    dst |-> dst \o t] : t \in Beginnings(line)}

Goes(pc) == part' = [part EXCEPT !.pc = pc]

(* The request is answered with the first k characters of dst. *)
Answers(k) ==
  /\ out' = out \o First(dst, k)
  /\ dst' = After(dst, k)
  /\ part' = [part EXCEPT !.pc = "idle", !.got = k]

-----------------------------------------------------------------------------
(* bsUuDecode. *)
Init ==
  /\ input \in Inputs /\ left = input /\ counts \in BOOLEAN
  /\ src = <<>> /\ dst = <<>> /\ ol = 0 /\ alive = TRUE
  /\ part = [pc |-> "idle", ask |-> 0, got |-> 0, ended |-> FALSE]
  /\ bad = 0 /\ out = <<>> /\ starved = FALSE

(* A request of the stream above: a block read makes none once it has seen *)
(* the end, a line read does.  Without its buffers the code dereferences   *)
(* NULL: nothing follows.                                                  *)
Ask ==
  /\ part.pc = "idle" /\ Len(out) <= OutMax
  /\ \E n \in Asks, line \in BOOLEAN :
       /\ part.ended => line
       /\ part' = [part EXCEPT !.pc = IF alive THEN "check" ELSE "crashed",
                               !.ask = n, !.got = 0]
  /\ UNCHANGED <<input, counts, left, src, dst, ol, alive, bad, out, starved>>

(* What is decoded suffices, with more to spare, or more is decoded. *)
Check ==
  /\ part.pc = "check"
  /\ IF Len(dst) > part.ask THEN Answers(part.ask)
     ELSE /\ Goes(IF NextEol(src, 0) = 0 THEN "read" ELSE "lines")
          /\ UNCHANGED <<dst, out>>
  /\ UNCHANGED <<input, counts, left, src, ol, alive, bad, starved>>

(* The loop over the lines ends at k: what it has decoded is removed. *)
EndLines(k) == src' = After(src, k) /\ ol' = 0 /\ Goes("check")

(***************************************************************************)
(* One turn of the loop over the terminated lines of src.  It ends when    *)
(* dst has more than was asked, or when there is no line left; after an    *)
(* error with nothing removed.                                             *)
(***************************************************************************)
Lines ==
  /\ part.pc = "lines"
  /\ LET l == NextEol(src, ol)
     IN  IF l = 0 THEN EndLines(ol) /\ UNCHANGED <<dst, bad, starved>>
         ELSE \E d \in DecLine(SubSeq(src, ol + 1, l - 1)) :
                /\ dst' = d.dst /\ bad' = d.bad /\ starved' = (starved \/ d.starved)
                /\ CASE ~d.go -> Goes("done") /\ ol' = 0 /\ UNCHANGED src
                     [] d.go /\ Len(d.dst) > part.ask -> EndLines(l)
                     [] d.go /\ Len(d.dst) <= part.ask ->
                          ol' = l /\ UNCHANGED <<src, part>>
  /\ UNCHANGED <<input, counts, left, alive, out>>

(* bsreada of a block of encoded text: some of it comes. *)
Read ==
  /\ part.pc = "read"
  /\ \E k \in 1..Len(left) :
       /\ k <= ReadLen
       /\ src' = src \o First(left, k) /\ left' = After(left, k)
  /\ part' = [part EXCEPT !.pc = IF NextEol(src', 0) = 0 THEN "read" ELSE "lines"]
  /\ UNCHANGED <<input, counts, dst, ol, alive, bad, out, starved>>

(* Mutant: what was read behind the last end of a line is not decoded. *)
ReadFailsDropped ==
  /\ part.pc = "read"
  /\ starved' = (starved \/ left # <<>>)
  /\ Goes("done")
  /\ UNCHANGED <<input, counts, left, src, dst, ol, alive, bad, out>>

(* It fails, at the end or for want of memory: all of src is the last line *)
(* of the text, whether it decodes does not matter.                        *)
ReadFails ==
  /\ part.pc = "read"
  /\ \E d \in DecLine(src) :
       /\ dst' = d.dst /\ bad' = d.bad
       /\ starved' = (starved \/ d.starved \/ left # <<>>)
  /\ Goes("done")
  /\ UNCHANGED <<input, counts, left, src, ol, alive, out>>

(* Mutant: it begins again as long as it is not at the end. *)
DoneAgain ==
  /\ part.pc = "done"
  /\ IF dst # <<>>
     THEN Goes("check") /\ UNCHANGED <<src, dst, out, alive>>
     ELSE /\ alive' = FALSE /\ src' = <<>>
          /\ part' = [part EXCEPT !.pc = "idle", !.got = 0, !.ended = TRUE]
          /\ UNCHANGED <<dst, out>>
  /\ UNCHANGED <<input, counts, left, ol, bad, starved>>

(* What is decoded is handed over, as far as it was asked for.  When there *)
(* is nothing the stream is at its end, and the buffers are destroyed.     *)
Done ==
  /\ part.pc = "done"
  /\ CASE Len(dst) > part.ask -> Goes("check") /\ UNCHANGED <<src, dst, out, alive>>
       [] Len(dst) \in 1..part.ask -> Answers(Len(dst)) /\ UNCHANGED <<src, alive>>
       [] dst = <<>> ->
            /\ alive' = FALSE /\ src' = <<>>
            /\ part' = [part EXCEPT !.pc = "idle", !.got = 0, !.ended = TRUE]
            /\ UNCHANGED <<dst, out>>
  /\ UNCHANGED <<input, counts, left, ol, bad, starved>>

Steps == Check \/ Lines \/ Read \/ ReadFails \/ Done

Next == Ask \/ Steps

Spec == Init /\ [][Next]_vars

(* A request once made is worked on: the function is a loop, and the       *)
(* stream it reads answers (BstrStream!CallReturns).                       *)
FairSpec == Spec /\ WF_vars(Steps)

-----------------------------------------------------------------------------
(* Properties. *)

(* Every variable has its type. *)
TypeOK ==
  /\ input \in Inputs /\ counts \in BOOLEAN /\ alive \in BOOLEAN
  /\ left \in Seq(Nat) /\ src \in Seq(Nat) /\ dst \in Seq(Nat) /\ out \in Seq(Nat)
  /\ ol \in 0..Len(src) /\ bad \in Nat /\ starved \in BOOLEAN
  /\ part.pc \in {"idle", "check", "lines", "read", "done", "crashed"}

(***************************************************************************)
(* What the input decodes to: the texts of its lines, one after another,   *)
(* as far as the first bad one if bad lines are not counted.  A line is    *)
(* known by its first position; behind the last Eol there is an empty one. *)
(***************************************************************************)
Starts(t) == {1} \cup {i + 1 : i \in {i \in 1..Len(t) : t[i] = Eol}}

LineFrom(t, k) ==
  SubSeq(t, k, IF NextEol(t, k - 1) = 0 THEN Len(t) ELSE NextEol(t, k - 1) - 1)

BadLines(t) == {k \in Starts(t) : IsBad(LineFrom(t, k))}

TextFrom(t, k) == IF k \in Starts(t) THEN TextOf(LineFrom(t, k)) ELSE <<>>

(* The texts of the lines that begin at the first n positions. *)
TextsOf(t, n) == FlattenSeq([k \in 1..n |-> TextFrom(t, k)])

Stop == IF counts \/ BadLines(input) = {} THEN Len(input) + 1
        ELSE (CHOOSE k \in BadLines(input) : \A j \in BadLines(input) : k <= j) - 1

Decoded == TextsOf(input, Stop)

Terminated == input = <<>> \/ input[Len(input)] = Eol

Stuck == ~counts /\ BadLines(input) # {}

(***************************************************************************)
(* What comes out is the decoded text, in order and with nothing left out, *)
(* however requests, blocks and lines cut it.  Past its end more comes     *)
(* only in the two cases where the code decodes a line again: one without  *)
(* an end, or in front of a bad line that is not counted.                  *)
(***************************************************************************)
DecodesInOrder ==
  ~starved => \/ IsPrefix(out, Decoded)
              \/ IsPrefix(Decoded, out) /\ (~Terminated \/ Stuck)

(* The end is met only when all of it has come out, and every bad line     *)
(* been counted: once, but for one without an end, which is decoded again. *)
EndIsTheEnd ==
  part.ended /\ ~starved =>
    /\ IsPrefix(Decoded, out)
    /\ counts => bad >= Cardinality(BadLines(input))
    /\ counts /\ Terminated => bad = Cardinality(BadLines(input))

(* Never more than was asked for is copied to the buffer of the caller. *)
AnswerFits == part.got <= part.ask

(* The answers are beginnings, and no more than beginnings, of what is due. *)
UuSound == TypeOK /\ DecodesInOrder /\ AnswerFits

(* Every request is answered. *)
AskIsAnswered == (part.pc \notin {"idle", "crashed"}) ~> (part.pc = "idle")

-----------------------------------------------------------------------------
(* What the documentation promises and the code does not keep. *)

(* A stream may be read at its end. *)
EndMayBeRead == part.pc # "crashed"

=============================================================================

----------------------------- MODULE TextContract -----------------------------
(***************************************************************************)
(* What the functions that change a string promise, as functions of texts: *)
(* of the text before the call and of copies of the arguments made before  *)
(* it.  Nothing here knows of buffers.                                     *)
(***************************************************************************)
EXTENDS Integers, Sequences, SequencesExt

Filling(c, n) == [k \in 1..n |-> c]

(* A text brought to at least n characters. *)
Padded(t, n, fill) == t \o Filling(fill, n - Len(t))

Overlaid(t, pos, v, fill) ==
  LET p == Padded(t, pos, fill)
  IN  SubSeq(p, 1, pos) \o v \o SubSeq(p, pos + Len(v) + 1, Len(p))

Replaced(t, pos, len, v, fill) ==
  LET p == Padded(t, pos, fill)
  IN  SubSeq(p, 1, pos) \o v \o SubSeq(p, pos + len + 1, Len(p))

Inserted(t, pos, v, fill) == Replaced(t, pos, 0, v, fill)

Middle(t, left, len) ==
  IF left >= Len(t) THEN <<>>
  ELSE SubSeq(t, left + 1, IF left + len > Len(t) THEN Len(t) ELSE left + len)

(* Each occurrence is replaced where it begins, the next one looked for    *)
(* behind it; key is the text as it is searched, in one case if need be.   *)
RECURSIVE Substituted(_, _, _, _, _)

Substituted(t, key, f, r, pos) ==
  IF f = <<>> \/ pos + Len(f) > Len(t) THEN t
  ELSE LET found == SubSeq(key, pos + 1, pos + Len(f)) = f
           from == IF found THEN pos + Len(f) ELSE pos + 1
       IN  SubSeq(t, 1, pos) \o (IF found THEN r ELSE <<t[pos + 1]>>)
           \o Substituted(SubSeq(t, from + 1, Len(t)), SubSeq(key, from + 1, Len(t)),
                          f, r, 0)

Tiled(t, n) == FlattenSeq([k \in 1..n |-> t])

Cut(t, n) == SubSeq(t, 1, IF n < Len(t) THEN n ELSE Len(t))

(* The runs of characters other than c. *)
RECURSIVE Words(_, _)

Words(t, c) ==
  IF t = <<>> THEN <<>>
  ELSE IF t[1] = c THEN Words(Tail(t), c)
  ELSE LET n == CHOOSE n \in 1..Len(t) :
                  /\ \A k \in 1..n : t[k] # c
                  /\ n = Len(t) \/ t[n + 1] = c
       IN  <<SubSeq(t, 1, n)>> \o Words(SubSeq(t, n + 1, Len(t)), c)

(* The words with one c between them. *)
Spaced(t, c) ==
  LET w == Words(t, c)
  IN  FlattenSeq([k \in 1..Len(w) |-> IF k = 1 THEN w[k] ELSE <<c>> \o w[k]])

(* A text without the white space at its ends. *)
TrimmedLeft(t, c) ==
  LET S == {k \in DOMAIN t : t[k] # c}
  IN  IF S = {} THEN <<>> ELSE SubSeq(t, CHOOSE k \in S : \A j \in S : k <= j, Len(t))

TrimmedRight(t, c) == Reverse(TrimmedLeft(Reverse(t), c))

(* Every character with an entity becomes it, and no other. *)
Quoted(t, pairs) ==
  FlattenSeq([k \in DOMAIN t |->
                IF \E p \in DOMAIN pairs : pairs[p][1] = t[k]
                THEN pairs[CHOOSE p \in DOMAIN pairs : pairs[p][1] = t[k]][2]
                ELSE <<t[k]>>])

=============================================================================

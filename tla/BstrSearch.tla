------------------------------ MODULE BstrSearch ------------------------------
(***************************************************************************)
(* The searches of bstring/bstrlib.c for one text in another, step by      *)
(* step, and calls of its comparisons and of its searches for characters   *)
(* (module BstrCompare).                                                   *)
(*                                                                         *)
(* binstr does not try one position after the other.  It goes through the  *)
(* text once, two characters at a time, taking each character of b2 where  *)
(* it next occurs; when it has them all it looks whether they were         *)
(* contiguous, and only then goes back.                                    *)
(***************************************************************************)
EXTENDS BstrCompare

CONSTANTS
  Hays,       \* the texts searched
  Needles,    \* the texts, and sets of characters, searched for
  Positions,  \* positions passed as arguments
  Samples     \* the texts compared

ASSUME SearchAssumption ==
  /\ Hays \subseteq Seq(0..UCHAR_MAX) /\ Needles \subseteq Seq(0..UCHAR_MAX)
  /\ Samples \subseteq Seq(0..UCHAR_MAX)
  /\ Positions \subseteq Int

VARIABLES
  fun,  \* the function called
  b1,   \* the text searched, or the first of two that are compared
  b2,   \* the text searched for, or the second
  pos,  \* the position argument, or the limit n of a comparison
  pc,   \* "idle", "loop" while a search runs, "done" when it has returned
  i,    \* the local variables of the searches: where it is in b1,
  j,    \* how many characters of b2 it has,
  ii,   \* and where the first of them was
  ret   \* the value returned

vars == <<fun, b1, b2, pos, pc, i, j, ii, ret>>

Forward == {"binstr", "binstrcaseless"}

Backward == {"binstrr", "binstrrcaseless"}

Searches == Forward \cup Backward

CharSearches == {"binchr", "binchrr", "bninchr", "bninchrr"}

Orders == {"bstrcmp", "bstrncmp", "bstricmp", "bstrnicmp"}

Equalities == {"biseq", "biseqcaseless", "bisstemeqblk", "bisstemeqcaselessblk",
               "biseqcstr", "biseqcstrcaseless"}

-----------------------------------------------------------------------------
(* The searches for a text. *)

(* Whether the search f takes one character for the other. *)
Equal(f, c, d) ==
  c = d \/ (f \in {"binstrcaseless", "binstrrcaseless"} /\ Downcase(c) = Downcase(d))

Return(value) ==
  /\ pc' = "done" /\ ret' = value
  /\ UNCHANGED <<fun, b1, b2, pos, i, j, ii>>

(* Nothing is found from there on, or the position is none of the text's. *)
Outside(f, t, u, p) ==
  \/ p < 0 \/ p > Len(t)
  \/ f \in Forward /\ u # <<>> /\ p > Len(t) - Len(u)
  \/ f \in Backward /\ Len(u) > Len(t)

(* The head of a search: same says that b2 is a view of the beginning of   *)
(* b1.                                                                     *)
Enter(f, t, u, p, same) ==
  /\ fun' = f /\ b1' = t /\ b2' = u /\ pos' = p
  /\ j' = 0 /\ ii' = -1
  /\ i' = IF f \in Backward /\ p > Len(t) - Len(u) THEN Len(t) - Len(u) ELSE p
  /\ \/ Outside(f, t, u, p) /\ pc' = "done" /\ ret' = BSTR_ERR
     \/ ~Outside(f, t, u, p) /\ u = <<>> /\ pc' = "done" /\ ret' = p
     \/ /\ ~Outside(f, t, u, p) /\ u # <<>>
        /\ \/ same /\ p = 0 /\ pc' = "done" /\ ret' = 0
           \/ ~(same /\ p = 0) /\ pc' = "loop" /\ ret' = BSTR_ERR

Begin ==
  /\ pc = "idle"
  /\ \E f \in Searches, t \in Hays, u \in Needles, p \in Positions, same \in BOOLEAN :
       /\ same => Bisstemeqblk(t, u) = 1
       /\ Enter(f, t, u, p, same)

(* The loop of the other three: the next character, or the next position. *)
Scan ==
  /\ pc = "loop" /\ fun # "binstr"
  /\ IF Equal(fun, b2[j + 1], b1[i + j + 1])
     THEN IF j + 1 >= Len(b2) THEN Return(i)
          ELSE j' = j + 1 /\ UNCHANGED <<fun, b1, b2, pos, pc, i, ii, ret>>
     ELSE LET next == IF fun \in Forward THEN i + 1 ELSE i - 1
          IN  IF next \in 0..(Len(b1) - Len(b2))
              THEN /\ i' = next /\ j' = 0
                   /\ UNCHANGED <<fun, b1, b2, pos, pc, ii, ret>>
              ELSE Return(BSTR_ERR)

(* binstr: a b2 of one character has a loop of its own. *)
Single ==
  /\ pc = "loop" /\ fun = "binstr" /\ Len(b2) = 1
  /\ IF i >= Len(b1) THEN Return(BSTR_ERR)
     ELSE IF b2[1] = b1[i + 1] THEN Return(i)
     ELSE i' = i + 1 /\ UNCHANGED <<fun, b1, b2, pos, pc, j, ii, ret>>

lf == Len(b1) - 1

Running == pc = "loop" /\ fun = "binstr" /\ Len(b2) > 1

(* Mutant: it goes back to where the first of them was. *)
CompleteThere(k, start, n) ==
  IF k = start + n THEN Return(start)
  ELSE i' = start /\ j' = 0 /\ ii' = start /\ UNCHANGED <<fun, b1, b2, pos, pc, ret>>

(* Mutant: it does not go back. *)
CompleteOn(k, start, n) ==
  IF k = start + n THEN Return(start)
  ELSE i' = k /\ j' = 0 /\ ii' = start /\ UNCHANGED <<fun, b1, b2, pos, pc, ret>>

(* Mutant: what has been taken need not be contiguous. *)
CompleteSpread(k, start, n) == Return(start)

(* N0: n characters of b2, the first of them at start, end before k.       *)
Complete(k, start, n) ==
  IF k = start + n THEN Return(start)
  ELSE /\ i' = k - n /\ j' = 0 /\ ii' = start
       /\ UNCHANGED <<fun, b1, b2, pos, pc, ret>>

(* Neither of the next two characters is the one looked for. *)
Skip ==
  /\ Running /\ i < lf
  /\ b2[j + 1] # b1[i + 1] /\ b2[j + 1] # b1[i + 2]
  /\ i' = i + 2
  /\ UNCHANGED <<fun, b1, b2, pos, pc, j, ii, ret>>

(* One of them is: the character at k, which may be the first of b2. *)
Start(k) == IF j = 0 THEN k ELSE ii

Take ==
  /\ Running /\ i < lf
  /\ \E k \in {i, i + 1} :
       /\ b2[j + 1] = b1[k + 1]
       /\ k = i + 1 => b2[j + 1] # b1[i + 1]
       /\ IF j + 1 < Len(b2)
          THEN /\ j' = j + 1 /\ i' = k + 1 /\ ii' = Start(k)
               /\ UNCHANGED <<fun, b1, b2, pos, pc, ret>>
          ELSE Complete(k + 1, Start(k), j + 1)

(* The last character of b1, which the loop leaves out; neither i nor j is *)
(* advanced for it.                                                        *)
Misaligned ==
  /\ Running /\ i >= lf
  /\ IF i = lf /\ Len(b2) = j + 1 /\ b2[j + 1] = b1[i + 1]
     THEN Complete(i, ii, j)
     ELSE Return(BSTR_ERR)

-----------------------------------------------------------------------------
(* The other functions. *)

CharSearched(f, t, u, p) ==
  CASE f = "binchr" -> Binchr(t, p, u)
    [] f = "binchrr" -> Binchrr(t, p, u)
    [] f = "bninchr" -> Bninchr(t, p, u)
    [] f = "bninchrr" -> Bninchrr(t, p, u)

Compared(f, t, u, n) ==
  CASE f = "bstrcmp" -> Bstrcmp(t, u)
    [] f = "bstrncmp" -> Bstrncmp(t, u, n)
    [] f = "bstricmp" -> Bstricmp(t, u)
    [] f = "bstrnicmp" -> Bstrnicmp(t, u, n)
    [] f = "biseq" -> Biseq(t, u)
    [] f = "biseqcaseless" -> Biseqcaseless(t, u)
    [] f = "bisstemeqblk" -> Bisstemeqblk(t, u)
    [] f = "bisstemeqcaselessblk" -> Bisstemeqcaselessblk(t, u)
    [] f = "biseqcstr" -> Biseqcstr(t, u)
    [] f = "biseqcstrcaseless" -> Biseqcstrcaseless(t, u)

At1(f, t, u, p, value) ==
  /\ fun' = f /\ b1' = t /\ b2' = u /\ pos' = p
  /\ i' = 0 /\ j' = 0 /\ ii' = -1
  /\ pc' = "done" /\ ret' = value

FindChar ==
  /\ pc = "idle"
  /\ \E f \in CharSearches, t \in Hays, u \in Needles, p \in Positions :
       At1(f, t, u, p, CharSearched(f, t, u, p))

Compare ==
  /\ pc = "idle"
  /\ \E f \in Orders \cup Equalities, t, u \in Samples, n \in Positions \cap Nat :
       At1(f, t, u, n, Compared(f, t, u, n))

(* The caller has the value. *)
Taken ==
  /\ pc = "done"
  /\ fun' = "none" /\ b1' = <<>> /\ b2' = <<>> /\ pos' = 0
  /\ i' = 0 /\ j' = 0 /\ ii' = -1 /\ pc' = "idle" /\ ret' = BSTR_ERR

Init ==
  /\ fun = "none" /\ b1 = <<>> /\ b2 = <<>> /\ pos = 0
  /\ i = 0 /\ j = 0 /\ ii = -1 /\ pc = "idle" /\ ret = BSTR_ERR

Loop == Scan \/ Single \/ Skip \/ Take \/ Misaligned

Next == Begin \/ Loop \/ FindChar \/ Compare \/ Taken

Spec == Init /\ [][Next]_vars

(* A call runs until it returns. *)
FairSpec == Spec /\ WF_vars(Loop)

-----------------------------------------------------------------------------
(* Properties. *)

(* Every variable has its type, and where a loop reads is in b1. *)
TypeOK ==
  /\ fun \in {"none"} \cup Searches \cup CharSearches \cup Orders \cup Equalities
  /\ b1 \in Seq(0..UCHAR_MAX) /\ b2 \in Seq(0..UCHAR_MAX)
  /\ pos \in Int /\ pc \in {"idle", "loop", "done"}
  /\ i \in Int /\ j \in Nat /\ ii \in Int /\ ret \in Int
  /\ pc = "loop" =>
       /\ i >= 0 /\ b2 # <<>> /\ j < Len(b2)
       /\ i <= IF fun = "binstr" THEN Len(b1) ELSE Len(b1) - Len(b2)

(* b2 occurs in b1 at offset p. *)
Occurs(p) ==
  /\ p \in 0..(Len(b1) - Len(b2))
  /\ \A k \in 1..Len(b2) : Equal(fun, b2[k], b1[p + k])

(* The offsets a search may answer with. *)
Ahead(p) == IF fun \in Forward THEN p >= pos ELSE p <= pos

(* The search that has returned has found the occurrence nearest to pos,   *)
(* in its direction, or there is none.                                     *)
NearestIsFound ==
  pc = "done" /\ fun \in Searches =>
    IF pos \notin 0..Len(b1) THEN ret = BSTR_ERR
    ELSE IF ret = BSTR_ERR THEN \A p \in 0..Len(b1) : Ahead(p) => ~Occurs(p)
    ELSE /\ Occurs(ret) /\ Ahead(ret)
         /\ \A p \in 0..Len(b1) : Ahead(p) /\ Occurs(p) =>
              IF fun \in Forward THEN ret <= p ELSE ret >= p

(* Whatever binstr has passed over or taken, and wherever it has gone back *)
(* to, no occurrence is lost: the characters of one that it has still to   *)
(* find are in front of it.                                                *)
NoneIsPassed ==
  Running =>
    /\ i >= pos /\ (j > 0 => ii >= pos)
    /\ \A p \in pos..Len(b1) : Occurs(p) => p + j >= i

(* A search that runs returns: going back, binstr never comes to where it  *)
(* has been.                                                               *)
SearchReturns == pc = "loop" ~> pc = "done"

(* A search for characters has found the nearest that is, or is not, among *)
(* those of b2.  (bninchr and bninchrr are refused an empty b2, though     *)
(* every character is none of its characters.)                             *)
NearestCharIsFound ==
  pc = "done" /\ fun \in CharSearches =>
    LET among == {b2[k] : k \in DOMAIN b2}
        S == {p \in 0..(Len(b1) - 1) :
                /\ (b1[p + 1] \in among) = (fun \in {"binchr", "binchrr"})
                /\ IF fun \in {"binchr", "bninchr"} THEN p >= pos ELSE p <= pos}
    IN  IF pos \notin 0..Len(b1) \/ S = {} \/ b2 = <<>> THEN ret = BSTR_ERR
        ELSE ret = IF fun \in {"binchr", "bninchr"} THEN Lowest(S) ELSE Highest(S)

Sign(v) == IF v < 0 THEN -1 ELSE IF v > 0 THEN 1 ELSE 0

(* bstrcmp, bstrncmp and bstricmp order all texts, '\0' and characters     *)
(* above 127 in them or not: one side of a pair or the other, and          *)
(* transitively.  (bstrnicmp does not: it answers with the difference of   *)
(* the bytes in their own case.)                                           *)
OrderIsTotal ==
  pc = "done" /\ fun \in Orders \ {"bstrnicmp"} =>
    /\ Sign(Compared(fun, b2, b1, pos)) = -Sign(ret)
    /\ ret <= 0 => \A t \in Samples : Compared(fun, b2, t, pos) <= 0
                     => Compared(fun, b1, t, pos) <= 0

(* A text cut to n characters. *)
Cut(t, n) == SubSeq(t, 1, Shorter(n, Len(t)))

(* The comparisons agree with one another: the limited ones with the       *)
(* others on the texts cut off, those of C strings and of stems with those *)
(* of whole texts, order with equality, and all that disregard case with   *)
(* those of the texts in lower case.                                       *)
ComparisonsAgree ==
  pc = "done" =>
    /\ fun = "bstrncmp" => Sign(ret) = Sign(Bstrcmp(Cut(b1, pos), Cut(b2, pos)))
    /\ fun = "bstrnicmp" => (ret = 0) = (Bstricmp(Cut(b1, pos), Cut(b2, pos)) = 0)
    /\ fun = "bstrcmp" => (ret = 0) =
         (b1 = b2 \/ (Ctext(b1) = Ctext(b2) /\ Ctext(b1) # b1 /\ Ctext(b2) # b2))
    /\ fun = "bstricmp" => ret = Bstricmp(Lower(b1), Lower(b2))
    /\ fun = "biseqcaseless" => (ret = 1) = (Bstricmp(b1, b2) = 0)
    /\ fun = "biseq" => (ret = 1) = (b1 = b2)
    /\ fun = "bisstemeqblk" => ret = Biseq(Cut(b1, Len(b2)), b2)
    /\ fun = "bisstemeqcaselessblk" => ret = Biseqcaseless(Cut(b1, Len(b2)), b2)
    /\ fun = "biseqcstr" => ret = Biseq(b1, Ctext(b2))
    /\ fun = "biseqcstrcaseless" => ret = Biseqcaseless(b1, Ctext(b2))

(* Whatever the state, its values are of their types; and the functions    *)
(* that answer at once agree with what they are named for, and with one    *)
(* another.                                                                *)
AnswersAgree == TypeOK /\ NearestCharIsFound /\ OrderIsTotal /\ ComparisonsAgree

=============================================================================
